------------------------------ MODULE KeyClient ------------------------------
(***************************************************************************)
(* The backend's client of the key service OpenBao (crates/keys/src/       *)
(* client.rs), as the cluster configures it: one VaultClient for all       *)
(* requests behind a tokio RwLock, a login under the write guard, a        *)
(* request under a read guard, and one retry after a new login when        *)
(* OpenBao answers 403.                                                    *)
(*                                                                         *)
(* OpenBao and the lock are external.  OpenBao may answer, fail or never   *)
(* answer; the lock serves its waiters in the order they came.             *)
(***************************************************************************)
EXTENDS Sequences, Naturals

CONSTANT Request

VARIABLES
  token,     \* the client's token: none before the first login, valid or expired
  lock,      \* who holds a guard, and after them who waits for one, in order
  client     \* per request: what its call is at, and whether it is the retry

clientVars == <<token, lock, client>>

NoCall == [at |-> "none", again |-> FALSE]

ClientInit ==
  /\ token = "none"
  /\ lock = << >>
  /\ client = [r \in Request |-> NoCall]

\* tokio's RwLock: the first has its guard; others have theirs when all up to them read.
HasGuard(r) ==
  \E i \in DOMAIN lock :
    /\ lock[i] = <<r, client[r].at>>
    /\ i = 1 \/ \A j \in 1 .. i : lock[j][2] = "request"

LoggingIn(r) == client[r].at = "login" /\ HasGuard(r)
Asking(r) == client[r].at = "request" /\ HasGuard(r)

\* What is left of the lock when r lets go of its guard, or of its wait for one.
WithoutGuard(r) == SelectSeq(lock, LAMBDA q : q[1] # r)

-----------------------------------------------------------------------------
\* call: the first login is made when it is needed.  login reads the service account's JWT
\* and then asks for the write guard.
Begin(r) ==
  /\ client[r] = NoCall
  /\ LET at == IF token = "none" THEN "login" ELSE "request"
     IN  /\ client' = [client EXCEPT ![r].at = at]
         /\ lock' = Append(lock, <<r, at>>)
  /\ UNCHANGED token

\* The login succeeds: the token is set, the write guard dropped, a read guard asked for.
LoggedIn(r) ==
  /\ LoggingIn(r)
  /\ token' = "valid"
  /\ client' = [client EXCEPT ![r].at = "request"]
  /\ lock' = Append(WithoutGuard(r), <<r, "request">>)

\* Mutant: the read guard lives on through the login that follows.
GuardKept(r) == lock

\* The first request's read guard is dropped at the end of its block, before the login.
GuardDropped(r) == WithoutGuard(r)

\* The first 403 leads to a new login.
Forbidden(r) ==
  /\ Asking(r) /\ ~client[r].again
  /\ client' = [client EXCEPT ![r] = [at |-> "login", again |-> TRUE]]
  /\ lock' = Append(GuardDropped(r), <<r, "login">>)
  /\ UNCHANGED token

\* The call returns, or is dropped at an await: it holds and waits for nothing any more.
EndCall(r) ==
  /\ client' = [client EXCEPT ![r] = NoCall]
  /\ lock' = WithoutGuard(r)
  /\ UNCHANGED token

\* OpenBao answers a request whose token it takes.
Answered(r) == Asking(r) /\ token = "valid" /\ EndCall(r)

\* OpenBao refuses, is sealed, or cannot be reached; or the JWT of a login cannot be read.
Failed(r) ==
  /\ LoggingIn(r) \/ Asking(r) \/ (client[r] = NoCall /\ token = "none")
  /\ EndCall(r)

\* Mutant: only the login has a timeout.
LoginHasTimeout(r) == LoggingIn(r)

\* Every HTTP request has the timeout the client was built with (Keys::connect).
HasTimeout(r) == LoggingIn(r) \/ Asking(r)

TimedOut(r) == HasTimeout(r) /\ EndCall(r)

TokenExpires ==
  /\ token = "valid"
  /\ token' = "expired"
  /\ UNCHANGED <<lock, client>>

\* What a call does besides ending.
CallStep(r) == Begin(r) \/ LoggedIn(r) \/ Forbidden(r)

\* The new process has made no login.
ClientRestarts ==
  /\ token' = "none"
  /\ lock' = << >>
  /\ client' = [r \in Request |-> NoCall]
=============================================================================
