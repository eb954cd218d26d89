--------------------------- MODULE MCIntegration ----------------------------
(***************************************************************************)
(* Instances of Integration for TLC.                                       *)
(***************************************************************************)
EXTENDS Integration, TLC

\* Requests are interchangeable.
Symmetry == Permutations(Requests)
=============================================================================
