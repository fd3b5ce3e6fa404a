------------------------------ MODULE MCSignup ------------------------------
(***************************************************************************)
(* Small instances of Signup for TLC.                                       *)
(***************************************************************************)
EXTENDS Signup, TLC

\* Transactions are interchangeable.
Symmetry == Permutations(Transaction)
=============================================================================
