------------------------- MODULE MCOrdinaryEngine ---------------------------
(***************************************************************************)
(* Small problems for OrdinaryEngine: up to three teachers and classes,    *)
(* and five periods, four in a row on the first day and one on the second; *)
(* and the colours exactBipartiteColors finds for them.                    *)
(***************************************************************************)
EXTENDS OrdinaryEngine, ExactColoring, TLC

CONSTANTS
  T1, T2, T3,  \* teachers
  C1, C2, C3,  \* classes
  R            \* a resource

MCConsecutive == {1, 2, 3}
MCDayOf == [p \in 1..5 |-> IF p <= 4 THEN 1 ELSE 2]

Demand(w, d) == [weekly |-> w, doubles |-> d]

Assignment(teacher, cohort, resource, demand) ==
  [teacher |-> teacher, cohort |-> cohort, subject |-> cohort, resource |-> resource,
   weekly |-> demand.weekly, doubles |-> demand.doubles]

Problem(assignments, away, limit, existing, full) ==
  [assignments |-> assignments,
   cohorts |-> {assignments[a].cohort : a \in DOMAIN assignments},
   unavailable |-> [t \in {assignments[a].teacher : a \in DOMAIN assignments} |->
                      IF t = T2 THEN away ELSE {}],
   limit |-> [t \in {assignments[a].teacher : a \in DOMAIN assignments} |->
                IF t = T2 THEN limit ELSE 5],
   existing |-> existing, fullCoverage |-> full]

Lesson(a, periods, double) == [assignment |-> a, periods |-> periods, double |-> double]

\* Two classes that meet both teachers: the shapes that are coloured.
Square(d1, d2, d3, d4) ==
  <<Assignment(T1, C1, None, d1), Assignment(T2, C1, None, d2),
    Assignment(T1, C2, None, d3), Assignment(T2, C2, None, d4)>>

ColoredProblems ==
  {Problem(Square(Demand(2, 0), Demand(d, 0), Demand(e, 0), Demand(2, 0)), {}, 5, {}, full) :
     d \in {1, 3}, e \in {1, 3}, full \in BOOLEAN}
  \cup {Problem(Square(Demand(2, 1), Demand(2, d), Demand(2, e), Demand(2, 1)), {}, limit, {}, FALSE) :
     d \in {0, 1}, e \in {0, 1}, limit \in {3, 5}}

\* Three teachers and three classes: matchings that need augmenting paths.
Ring(w1, w2, w3) ==
  <<Assignment(T1, C1, None, Demand(1, 0)), Assignment(T1, C2, None, Demand(w1, 0)),
    Assignment(T2, C2, None, Demand(1, 0)), Assignment(T2, C3, None, Demand(w2, 0)),
    Assignment(T3, C1, None, Demand(w3, 0)), Assignment(T3, C3, None, Demand(1, 0))>>

RingProblems == {Problem(Ring(w, v, w), {}, 5, {}, FALSE) : w \in 1..2, v \in 1..2}

\* One class with both teachers: absences, a shared resource, odd demand.
Path(d1, d2, d3, r) ==
  <<Assignment(T1, C1, r, d1), Assignment(T2, C1, None, d2), Assignment(T2, C2, r, d3)>>

LooseProblems ==
  {Problem(Path(d1, d2, d3, r), away, 5, {}, FALSE) :
     d1 \in {Demand(1, 0), Demand(3, 1)}, d2 \in {Demand(1, 0), Demand(2, 1)},
     d3 \in {Demand(2, 1), Demand(4, 2)},
     r \in {None, R}, away \in {{1}, {2, 4}}}

\* Two doubles of a class compete for the only pair that one teacher can use.
TightProblems ==
  {Problem(Path(Demand(3, 1), Demand(2, 1), Demand(1, 0), None), {1}, 5, {}, FALSE)}

\* Lessons to keep, one of them where the teacher has become absent.
KeptProblems ==
  {Problem(Path(Demand(3, 0), Demand(2, 0), Demand(2, 1), None), {3}, 5, existing, FALSE) :
     existing \in SUBSET {Lesson(1, {1}, FALSE), Lesson(2, {3}, FALSE),
                          Lesson(3, {1, 2}, TRUE)}}

MCProblems ==
  ColoredProblems \cup RingProblems \cup LooseProblems \cup TightProblems \cup KeptProblems

-----------------------------------------------------------------------------
TeacherList == <<T1, T2, T3>>
CohortList == <<C1, C2, C3>>

\* The multigraph of some units; a missing teacher or class is a dummy.
lessonGraph(us) ==
  [l \in 1..3 |-> [r \in 1..3 |->
     MapThenSumSet(LAMBDA a : us[a],
       {a \in Assignments : TeacherID(a) = TeacherList[l] /\ CohortID(a) = CohortList[r]})]]

Orders == [1..3 -> {<<1, 2, 3>>, <<3, 2, 1>>, <<2, 3, 1>>}]

\* Every lesson of g is in exactly one colour, and every colour is a matching.
SplitsInto(g, colors) ==
  /\ \A l, r \in 1..3 :
       Cardinality({k \in 1..Len(colors) : <<l, r>> \in colors[k]}) = g[l][r]
  /\ \A k \in 1..Len(colors) : \A e, f \in colors[k] :
       e # f => e[1] # f[1] /\ e[2] # f[2]

\* Whatever the shuffles, exactBipartiteColors uses as many colours as the
\* largest degree, no teacher or class is twice in a colour, and no lesson is
\* left over: the padding leaves no vertex short and every round finds a
\* perfect matching.  colorClasses relies on it.
ColoringIsExact ==
  phase = "restart" /\ restart = 0 =>
    \A color \in ColorPhases, order \in Orders, realFirst \in BOOLEAN :
      LET g == lessonGraph(unitsOf(color))
          colors == exactBipartiteColors(g, order, realFirst)
      IN Len(colors) = delta(unitsOf(color)) /\ SplitsInto(g, colors)
=============================================================================
