------------------------ MODULE MCSessionScheduling -------------------------
(***************************************************************************)
(* A day of two lessons, a break and a lesson.                             *)
(***************************************************************************)
EXTENDS SessionScheduling, TLC

CONSTANTS S1, S2, T1, T2, C1, C2

MCLessonSlots == {<<0, 0>>, <<0, 1>>, <<0, 3>>}

\* Two lessons only, for the run on races.
MCTwoSlots == {<<0, 0>>, <<0, 1>>}

MCAllAsked == Asks

\* One teacher gives lessons in two subjects.
MCAsked ==
  [session : {S1}, teacher : {T1}, subject : {C1}, duration : Durations]
    \cup [session : {S2}, teacher : {T1}, subject : {C2}, duration : Durations]

Symmetry == Permutations(Sessions) \cup Permutations(Teachers)
=============================================================================
