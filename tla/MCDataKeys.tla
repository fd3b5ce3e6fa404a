----------------------------- MODULE MCDataKeys -----------------------------
(* Two sessions of an FAU and a few requests racing for the same units' keys. *)
EXTENDS DataKeys, TLC
Interchangeable == Permutations(Session)
=============================================================================
