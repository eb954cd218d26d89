----------------------- MODULE MCTimetableLifecycle -----------------------
(***************************************************************************)
(* Instances of TimetableLifecycle for TLC.                                *)
(***************************************************************************)
EXTENDS TimetableLifecycle, TLC

\* Handlers and snapshot hashes are interchangeable.
Symmetry == Permutations(Handlers) \cup Permutations(Snapshots)
=============================================================================
