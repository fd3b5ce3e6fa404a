----------------------------- MODULE Disclosure -----------------------------
(***************************************************************************)
(* The change stream beside the reads of the directory and the export:     *)
(* what is disclosed of an FAU while its members and groups change.        *)
(***************************************************************************)
EXTENDS EventHub, Directory

\* A read of the FAU depends on nothing of the hub: it is judged where the hub is at rest,
\* which it can be in every state of the FAU.
HubAtRest == linked /\ wire = <<>> /\ listener = Waiting /\ stream = [s \in Stream |-> NoStream]

\* In every state of the FAU the directory shows, and an export hands over, whom the rule
\* allows (directory.rs, export.rs).
DisclosureFollowsTheRule == HubAtRest => DirectoryFollowsTheRule /\ ExportGivesNothingAway
=============================================================================
