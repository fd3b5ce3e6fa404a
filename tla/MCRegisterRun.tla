---------------------------- MODULE MCRegisterRun ----------------------------
(***************************************************************************)
(* A manual run and the CronJob's, over a list of one-unit pages.          *)
(***************************************************************************)
EXTENDS RegisterRun

CONSTANTS a, b, c

SmallListings == {<<>>, <<a, c>>}
=============================================================================
