------------------------------ MODULE EventHub ------------------------------
(***************************************************************************)
(* The per-process change stream (persistence/src/membership/events.rs):   *)
(* one LISTEN connection, one listener task that dispatches what it        *)
(* receives, and the subscriptions it feeds, composed with the FAU whose   *)
(* changes it announces (Groups).                                          *)
(*                                                                         *)
(* The listener dispatches one notification at a time; subscribers,        *)
(* readers, transactions and the connection move between its steps.  A     *)
(* dispatch reads the database in separate statements on a connection      *)
(* without a transaction, so each read is a step of its own.  The mutex    *)
(* around the subscriber map is held only within single steps here.        *)
(*                                                                         *)
(* Streams are slots: a slot whose subscription was dropped may be taken   *)
(* by a new one.  One FAU is modelled; the map's other tenants never meet  *)
(* it except in close_all.                                                 *)
(***************************************************************************)
EXTENDS Groups

CONSTANTS
  Stream,                 \* subscription slots
  NoMember,               \* nobody
  Buffer,                 \* SUBSCRIPTION_BUFFER
  Viewers,                \* the memberships that open streams
  MaxBreaks               \* bound: how often the LISTEN connection is lost

ASSUME HubAssumption ==
  /\ NoMember \notin Member
  /\ Viewers \subseteq Member
  /\ Buffer \in Nat \ {0}
  /\ MaxBreaks \in Nat

VARIABLES
  stream,                 \* the subscriptions, and the hub's side of each
  listener,               \* what the listener task is doing
  linked,                 \* whether a LISTEN connection exists
  breaks                  \* how often it was lost

hubVars == <<stream, listener, linked, breaks>>
vars == <<groupVars, hubVars>>

Break == [kind |-> "break"]
NoStream ==
  [phase |-> "none", viewer |-> NoMember, registered |-> FALSE,
   closed |-> FALSE, polled |-> FALSE, buffer |-> <<>>, owed |-> {}, stale |-> FALSE]
Waiting == [pc |-> "recv", resource |-> Fau, targets |-> {}, viewer |-> NoMember,
            capability |-> "none", decided |-> [m \in Member |-> "unknown"]]

Init ==
  /\ GroupsInit
  /\ stream = [s \in Stream |-> NoStream]
  /\ listener = Waiting
  /\ linked = TRUE
  /\ breaks = 0

-----------------------------------------------------------------------------
(* The database's side *)

\* What a commit says is owed to the streams registered then, and a stream that passed its
\* standing check is stale once its membership's revocation commits (history only).
Announced(said) ==
  [s \in Stream |->
     [stream[s] EXCEPT
        !.owed = IF stream[s].registered
                 THEN @ \cup {said[i].resource : i \in {j \in DOMAIN said : said[j].kind = "changed"}}
                 ELSE @,
        !.stale = @ \/ /\ stream[s].phase = "open"
                       /\ \E i \in DOMAIN said : said[i] = AccessRevoked(stream[s].viewer)]]

DatabaseStep ==
  /\ GroupsNext
  /\ stream' = Announced(SubSeq(wire', Len(wire) + 1, Len(wire')))
  /\ UNCHANGED <<listener, linked, breaks>>

\* The LISTEN connection dies.  What the process has read from it so far it still
\* dispatches; the rest is lost, and the listener meets the error after it.
LoseConnection ==
  /\ linked
  /\ breaks < MaxBreaks
  /\ \E k \in 0 .. Len(wire) : wire' = Append(SubSeq(wire, 1, k), Break)
  /\ linked' = FALSE
  /\ breaks' = breaks + 1
  /\ UNCHANGED <<tenant, standing, role, group, added, tenure, commits>>
  /\ UNCHANGED <<stream, listener>>

-----------------------------------------------------------------------------
(* Subscriptions *)

\* Hub::subscribe registers first ...
Subscribe(s, m) ==
  /\ stream[s].phase = "none"
  /\ s \notin listener.targets
  /\ stream' = [stream EXCEPT ![s] =
       [NoStream EXCEPT !.phase = "checking", !.viewer = m, !.registered = TRUE]]
  /\ UNCHANGED <<groupVars, listener, linked, breaks>>

\* A dispatch ends when it has been through its targets.
WithTargets(targets) ==
  IF targets = {} THEN Waiting ELSE [listener EXCEPT !.targets = targets]

\* Drop for Subscription: unregisters, and a send that still holds it fails unnoticed.
Dropped(s) == /\ stream' = [stream EXCEPT ![s] = NoStream]
              /\ listener' = IF s \in listener.targets THEN WithTargets(listener.targets \ {s}) ELSE listener

\* ... and then reads the viewer's standing.
CheckStanding(s) ==
  /\ stream[s].phase = "checking"
  /\ IF MembershipAccess(stream[s].viewer) = "none"
     THEN Dropped(s)
     ELSE /\ stream' = [stream EXCEPT ![s].phase = "open"]
          /\ UNCHANGED listener
  /\ UNCHANGED <<groupVars, linked, breaks>>

\* The pool gives no connection, the query fails, or the viewer goes away.
Leave(s) ==
  /\ stream[s].phase # "none"
  /\ Dropped(s)
  /\ UNCHANGED <<groupVars, linked, breaks>>

\* Something wakes recv: the close signal, an item, or the last sender's drop.
SenderGone(s) == ~stream[s].registered /\ s \notin listener.targets
Woken(s) == stream[s].closed \/ stream[s].buffer # <<>> \/ SenderGone(s)

\* Subscription::recv polls the close signal first (biased) ...
PollClose(s) ==
  /\ stream[s].phase = "open"
  /\ ~stream[s].polled
  /\ Woken(s)
  /\ IF stream[s].closed
     THEN Dropped(s)
     ELSE /\ stream' = [stream EXCEPT ![s].polled = TRUE]
          /\ UNCHANGED listener
  /\ UNCHANGED <<groupVars, linked, breaks>>

\* ... and then the channel, which drains before its end shows.
PollReceiver(s) ==
  /\ stream[s].phase = "open"
  /\ stream[s].polled
  /\ IF stream[s].buffer = <<>> /\ SenderGone(s)
     THEN Dropped(s)
     ELSE /\ stream' = [stream EXCEPT ![s].polled = FALSE,
                                      ![s].buffer = IF @ = <<>> THEN @ ELSE Tail(@)]
          /\ UNCHANGED listener
  /\ UNCHANGED <<groupVars, linked, breaks>>

-----------------------------------------------------------------------------
(* The listener task *)

\* HubInner::remove and close_all drop the sender only, close_and_remove also signals.
Removed(S) == [s \in Stream |-> IF s \in S THEN [stream[s] EXCEPT !.registered = FALSE]
                                ELSE stream[s]]
ClosedAndRemoved(S) ==
  [s \in Stream |-> IF s \in S THEN [stream[s] EXCEPT !.registered = FALSE, !.closed = TRUE]
                    ELSE stream[s]]
Registered == {s \in Stream : stream[s].registered}

Received == wire # <<>> /\ listener.pc = "recv"
Consumed == wire' = Tail(wire) /\ UNCHANGED <<tenant, standing, role, group, added,
                                              tenure, commits>>

\* dispatch of AccessRevoked.
DispatchRevoked ==
  /\ Received
  /\ Head(wire).kind = "access"
  /\ stream' = ClosedAndRemoved({s \in Registered : stream[s].viewer = Head(wire).member})
  /\ Consumed
  /\ UNCHANGED <<listener, linked, breaks>>

\* dispatch of Changed: the streams it is for are copied under the mutex.
DispatchChanged ==
  /\ Received
  /\ Head(wire).kind = "changed"
  /\ listener' = IF Registered = {} THEN Waiting
                 ELSE [Waiting EXCEPT !.pc = "dispatch", !.resource = Head(wire).resource,
                                      !.targets = Registered]
  /\ Consumed
  /\ UNCHANGED <<stream, linked, breaks>>

Decision(s) == listener.decided[stream[s].viewer]
Decide(m, decision) ==
  listener' = [listener EXCEPT !.pc = "dispatch", !.decided[m] = decision]

\* The next target's membership has no decision yet.
Undecided ==
  /\ listener.pc = "dispatch"
  /\ \A s \in listener.targets : Decision(s) = "unknown"

\* The pool gives no connection: every stream it would have reached is removed.
AcquireFails ==
  /\ Undecided
  /\ \A m \in Member : listener.decided[m] = "unknown"
  /\ stream' = Removed(listener.targets)
  /\ listener' = Waiting
  /\ UNCHANGED <<groupVars, linked, breaks>>

\* authorize, first statements: the viewer's access.
AuthorizeAccess(s) ==
  /\ Undecided
  /\ s \in listener.targets
  /\ LET m == stream[s].viewer
         capability == MembershipAccess(m)
     IN  \/ capability = "none" /\ Decide(m, "no_access")
         \/ /\ capability # "none"
            /\ listener' = [listener EXCEPT !.pc = "facts", !.viewer = m,
                                            !.capability = capability]
  /\ UNCHANGED <<groupVars, stream, linked, breaks>>

\* authorize, last statement: the resource's facts, with the capability read before.
AuthorizeFacts ==
  /\ listener.pc = "facts"
  /\ Decide(listener.viewer,
            IF CanRead(listener.capability, listener.viewer, listener.resource)
            THEN "ok" ELSE "hidden")
  /\ UNCHANGED <<groupVars, stream, linked, breaks>>

\* One of its statements fails.
AuthorizeFails(s) ==
  /\ Undecided
  /\ s \in listener.targets
  /\ Decide(stream[s].viewer, "failed")
  /\ UNCHANGED <<groupVars, stream, linked, breaks>>

\* Mutant: a full channel loses the item and the stream goes on.
TrySendLossy(s) ==
  IF Len(stream[s].buffer) < Buffer
  THEN [stream EXCEPT ![s].buffer = Append(@, listener.resource),
                      ![s].owed = @ \ {listener.resource}]
  ELSE stream

\* try_send: into the channel, or the stream that is too far behind is removed.
TrySend(s) ==
  IF Len(stream[s].buffer) < Buffer
  THEN [stream EXCEPT ![s].buffer = Append(@, listener.resource),
                      ![s].owed = @ \ {listener.resource}]
  ELSE Removed({s})

\* One target, once its membership's decision is known.
Deliver(s) ==
  /\ listener.pc = "dispatch"
  /\ s \in listener.targets
  /\ \/ Decision(s) = "ok" /\ stream' = TrySend(s)
     \/ /\ Decision(s) = "hidden"
        /\ stream' = [stream EXCEPT ![s].owed = @ \ {listener.resource}]
     \/ Decision(s) = "no_access" /\ stream' = ClosedAndRemoved({s})
     \/ Decision(s) = "failed" /\ stream' = Removed({s})
  /\ listener' = WithTargets(listener.targets \ {s})
  /\ UNCHANGED <<groupVars, linked, breaks>>

\* try_recv = Ok(None): sqlx has reconnected and listens again.
Reconnected ==
  /\ Received
  /\ Head(wire) = Break
  /\ wire' = <<>>
  /\ linked' = TRUE
  /\ listener' = [Waiting EXCEPT !.pc = "closing"]
  /\ UNCHANGED <<tenant, standing, role, group, added, tenure, commits>>
  /\ UNCHANGED <<stream, breaks>>

\* try_recv = Err: close every stream, then rebuild the listener.
ListenerFails ==
  /\ Received
  /\ Head(wire) = Break
  /\ stream' = Removed(Registered)
  /\ listener' = [Waiting EXCEPT !.pc = "rebuild"]
  /\ Consumed
  /\ UNCHANGED <<linked, breaks>>

\* Mutant: listening again on the failed listener, whose connection is dead.
RebuildOnDeadConnection == listener.pc = "rebuild" /\ UNCHANGED vars

\* rebuild_listener: a fresh connection hears only what commits after its LISTEN.
RebuildListener ==
  /\ listener.pc = "rebuild"
  /\ wire' = <<>>
  /\ linked' = TRUE
  /\ listener' = [Waiting EXCEPT !.pc = "closing"]
  /\ UNCHANGED <<tenant, standing, role, group, added, tenure, commits>>
  /\ UNCHANGED <<stream, breaks>>

\* Mutant: the streams opened during the outage are kept.
CloseAllSkipped ==
  /\ listener.pc = "closing"
  /\ listener' = Waiting
  /\ UNCHANGED <<groupVars, stream, linked, breaks>>

\* The close_all after the listener listens again.
CloseAll ==
  /\ listener.pc = "closing"
  /\ stream' = Removed(Registered)
  /\ listener' = Waiting
  /\ UNCHANGED <<groupVars, linked, breaks>>

-----------------------------------------------------------------------------
ListenerStep ==
  \/ DispatchRevoked
  \/ DispatchChanged
  \/ AcquireFails
  \/ \E s \in Stream : AuthorizeAccess(s) \/ AuthorizeFails(s) \/ Deliver(s)
  \/ AuthorizeFacts
  \/ Reconnected
  \/ ListenerFails
  \/ RebuildListener
  \/ CloseAll

ReaderStep(s) == PollClose(s) \/ PollReceiver(s)

Next ==
  \/ DatabaseStep
  \/ LoseConnection
  \/ ListenerStep
  \/ \E s \in Stream :
       \/ \E m \in Viewers : Subscribe(s, m)
       \/ CheckStanding(s)
       \/ Leave(s)
       \/ ReaderStep(s)

Spec == Init /\ [][Next]_vars

\* The listener task keeps running, its database eventually takes a connection, and the
\* server polls a stream's body while its client is connected.
FairSpec == Spec /\ WF_vars(ListenerStep) /\ \A s \in Stream : WF_vars(ReaderStep(s))

-----------------------------------------------------------------------------
(* Properties *)

Change == {Changed(r) : r \in Resource} \cup {AccessRevoked(m) : m \in Member}

TypeOK ==
  /\ tenant \in {"open", "frozen", "closed"}
  /\ standing \in [Member -> {"none", "active", "revoked"}]
  /\ role \in [Member -> [Class -> {"none", "booked", "running", "ended"}]]
  /\ group \in [Group -> [visibility : {"absent", "open", "closed"}, archived : BOOLEAN]]
  /\ added \subseteq [member : Member, group : Group, tenure : Nat]
  /\ wire \in Seq(Change \cup {Break})
  /\ stream \in [Stream -> [phase : {"none", "checking", "open"}, viewer : Member \cup {NoMember},
                            registered : BOOLEAN, closed : BOOLEAN, polled : BOOLEAN,
                            buffer : Seq(Resource), owed : SUBSET Resource, stale : BOOLEAN]]
  /\ \A s \in Stream : Len(stream[s].buffer) <= Buffer
  /\ listener \in [pc : {"recv", "dispatch", "facts", "rebuild", "closing"}, resource : Resource,
                    targets : SUBSET Stream, viewer : Member \cup {NoMember},
                    capability : Capability,
                    decided : [Member -> {"unknown", "ok", "hidden", "no_access", "failed"}]]
  /\ \A s \in listener.targets : stream[s].phase # "none"

\* The listener has a connection and has handled everything committed so far.
CaughtUp == linked /\ listener.pc = "recv" /\ wire = <<>>

\* Once the listener has caught up, no stream survives a revocation that committed after
\* the stream's standing check: registration before the check, and the second close_all
\* after an outage, leave no revocation unheard.
RevocationReachesStreams ==
  CaughtUp => \A s \in Stream : stream[s].stale => ~stream[s].registered

\* Once the listener has caught up, a stream still registered has been sent every change
\* committed since it registered that its viewer may read; one that missed something, by
\* lag, failure or reconnect, is no longer registered and will end.
NoSilentGap ==
  CaughtUp => \A s \in Stream : stream[s].registered => stream[s].owed = {}

\* A stream whose viewer's access was revoked ends.
RevokedStreamEnds ==
  \A s \in Stream : stream[s].stale ~> stream[s].phase = "none"

\* Once the listener has caught up with a revocation, what the revoked viewer has not read
\* yet is discarded (events.rs module documentation, "Closing").
RevokedBufferIsDiscarded ==
  CaughtUp => \A s \in Stream : stream[s].stale /\ stream[s].buffer # <<>> => stream[s].closed
=============================================================================
