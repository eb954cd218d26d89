------------------------- MODULE MCAudienceSolver ---------------------------
(***************************************************************************)
(* Small problems for AudienceSolver: two assignments, up to two delivery  *)
(* groups that may merge them, an optional parallel block, two learners,   *)
(* and four periods of which the first three are consecutive.  In a second *)
(* family, three groups belong to two parallel blocks that overlap.        *)
(***************************************************************************)
EXTENDS AudienceSolver, TLC

CONSTANTS
  A1, A2,   \* assignments
  G1, G2, G3, \* delivery groups
  B1, B2,   \* parallel blocks
  T1, T2,   \* teachers
  C1, C2,   \* classes
  L1, L2,   \* learners
  R         \* a resource

MCConsecutive == {1, 2}

Demands == {[weekly |-> 1, doubles |-> 0], [weekly |-> 2, doubles |-> 0],
            [weekly |-> 2, doubles |-> 1]}

Assignment(teacher, cohort, resource, demand) ==
  [teacher |-> teacher, cohort |-> cohort, resource |-> resource,
   weekly |-> demand.weekly, doubles |-> demand.doubles]

DeliveryGroup(teacher, assignments, learners, demand) ==
  [teacher |-> teacher, assignments |-> assignments, learners |-> learners,
   weekly |-> demand.weekly, doubles |-> demand.doubles]

\* Groups of one teacher for some of that teacher's assignments.
GroupChoices(teacher, assignments, audiences) ==
  {DeliveryGroup(teacher, as, ls, d) :
     as \in SUBSET assignments \ {{}}, ls \in audiences, d \in Demands}

\* With the same teacher for both assignments they can be merged.
GroupFunctions(teacher) ==
  LET first == GroupChoices(T1, IF teacher = T1 THEN {A1, A2} ELSE {A1},
                            {{L1}, {L1, L2}})
      second == GroupChoices(teacher, {A2}, {{L1}, {L2}})
  IN {<<>>} \cup {G1 :> g : g \in first}
            \cup {G1 :> g @@ G2 :> h : g \in first, h \in second}

\* The teacher of the second assignment and its class vary.
Family(teacher, cohort) ==
  [assignments : {A1 :> Assignment(T1, C1, r, d1) @@ A2 :> Assignment(teacher, cohort, r, d2) :
                    r \in {None, R}, d1 \in Demands, d2 \in Demands},
   groups : GroupFunctions(teacher),
   cohortOf : {L1 :> C1 @@ L2 :> cohort},
   unavailable : {T1 :> {} @@ T2 :> {3}},
   blocks : {<<>>, B1 :> {G1, G2}}]

\* The first group belongs to both blocks; the other two share the teacher and
\* the learner of the second assignment.
Overlapping(d1, d2, d3, members) ==
  [assignments |-> A1 :> Assignment(T1, C1, None, d1)
                   @@ A2 :> [Assignment(T2, C2, None, d2) EXCEPT !.weekly = @ + d3.weekly,
                                                                 !.doubles = @ + d3.doubles],
   groups |-> G1 :> DeliveryGroup(T1, {A1}, {L1}, d1)
              @@ G2 :> DeliveryGroup(T2, {A2}, {L2}, d2)
              @@ G3 :> DeliveryGroup(T2, {A2}, {L2}, d3),
   cohortOf |-> L1 :> C1 @@ L2 :> C2,
   unavailable |-> T1 :> {} @@ T2 :> {3},
   blocks |-> members]

OverlapFamily ==
  {Overlapping(d1, d2, d3, B1 :> {G1, G2} @@ B2 :> last) :
     d1 \in Demands, d2 \in Demands, d3 \in Demands, last \in {{G1, G2}, {G1, G3}}}

MCProblems ==
  Family(T1, C1) \cup Family(T1, C2) \cup Family(T2, C1) \cup Family(T2, C2)
    \cup OverlapFamily
=============================================================================
