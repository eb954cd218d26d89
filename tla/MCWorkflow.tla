----------------------------- MODULE MCWorkflow -----------------------------
(***************************************************************************)
(* An instance of Workflow, and with it of TimetableLifecycle, for TLC.    *)
(***************************************************************************)
EXTENDS Workflow, TLC

\* Snapshot hashes are interchangeable.
Symmetry == Permutations(Snapshots)
=============================================================================
