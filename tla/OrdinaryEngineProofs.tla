------------------------ MODULE OrdinaryEngineProofs ------------------------
(***************************************************************************)
(* Proofs about OrdinaryEngine, for every problem of every size.           *)
(*                                                                         *)
(* 1. The occupancy maps of an attempt say what its lessons occupy, and no *)
(*    teacher, class or resource is booked twice, whatever the order of    *)
(*    the slots and the matchings.                                         *)
(* 2. Restarts lose nothing.  The validator's counts are sums, so this and *)
(*    what follows rests on lemmas about MapThenSumSet.                    *)
(* 3. Complete results have their double lessons: every assignment keeps   *)
(*    as many periods to place as its doubles need.                        *)
(* 4. The preflight refuses only what has no plan.  Sizes of disjoint sets *)
(*    add up, and the greedy cut into pairs has the most pairs there can   *)
(*    be: every pair begins where the cut begins one, or right after.      *)
(* 5. Demand that can be coloured is placed completely.  While a colouring *)
(*    lasts its units are what remains and a teacher's are no more than    *)
(*    the colours left, so that nothing remains when none is left; and no  *)
(*    slot still to come has been touched, so that no lesson is refused.   *)
(* 6. A colouring never gets stuck.  A matching that misses a teacher or a *)
(*    class who needs every colour left can be moved along a path to one   *)
(*    that misses fewer; the path is the largest set of teachers that can  *)
(*    be missed instead, and it ends because they all need as many lessons *)
(*    as there are colours, more than their classes could take.            *)
(* 7. Every step leaves less to do, lexicographically in four naturals,    *)
(*    since no assignment is placed more often than demanded.              *)
(***************************************************************************)
EXTENDS OrdinaryEngine, FiniteSetTheorems, WellFoundedInduction, TLAPS

\* What an attempt writes into its timetable.
Lesson == [assignment : Assignments, periods : SUBSET Periods, double : BOOLEAN]

\* The three maps, each against the lessons, and the lessons among each other.
TeachersAgree(xs, occ) ==
  /\ occ \in [Teachers -> SUBSET Periods]
  /\ \A t \in Teachers, p \in Periods :
       p \in occ[t] <=> \E x \in xs : TeacherID(x.assignment) = t /\ p \in x.periods

CohortsAgree(xs, occ) ==
  /\ occ \in [Cohorts -> SUBSET Periods]
  /\ \A c \in Cohorts, p \in Periods :
       p \in occ[c] <=> \E x \in xs : CohortID(x.assignment) = c /\ p \in x.periods

ResourcesAgree(xs, occ) ==
  /\ occ \in [Resources -> SUBSET Periods]
  /\ \A r \in Resources, p \in Periods :
       p \in occ[r] <=> \E x \in xs : ResourceID(x.assignment) = r /\ p \in x.periods

Apart(a, b) ==
  /\ TeacherID(a) # TeacherID(b)
  /\ CohortID(a) # CohortID(b)
  /\ ResourceID(a) # None => ResourceID(a) # ResourceID(b)

Once(xs) ==
  \A x, y \in xs, p \in Periods :
    x # y /\ p \in x.periods /\ p \in y.periods => Apart(x.assignment, y.assignment)

Booked(xs, teachers, cohorts, resources) ==
  /\ xs \subseteq Lesson
  /\ TeachersAgree(xs, teachers)
  /\ CohortsAgree(xs, cohorts)
  /\ ResourcesAgree(xs, resources)
  /\ Once(xs)

IndInv ==
  /\ problem \in Problems
  /\ Booked(placements, teacherOcc, cohortOcc, resourceOcc)

-----------------------------------------------------------------------------
(* What the definitions give.                                              *)

\* Every assignment of a problem has its teacher, class and resource in it.
LEMMA Closed ==
  ASSUME problem \in Problems, NEW a \in Assignments
  PROVE  /\ TeacherID(a) \in Teachers
         /\ CohortID(a) \in Cohorts
         /\ ResourceID(a) # None => ResourceID(a) \in Resources
  BY ProblemsAreClosed DEF Assignments, Teachers, Cohorts, TeacherID, CohortID, ResourceID,
       Resources

\* The invariant says what the run checks.
LEMMA BookedIsSound ==
  ASSUME IndInv
  PROVE  OccupancySound
  <1> USE DEF IndInv, Booked
  <1>1. \A x \in placements : x \in Lesson /\ x.assignment \in Assignments
                              /\ x.periods \subseteq Periods
    BY DEF Lesson
  <1>2. ASSUME NEW t \in Teachers
        PROVE  teacherOcc[t] = BusyPeriods(TaughtBy(t))
    <2>1. teacherOcc[t] \subseteq Periods
      BY DEF TeachersAgree
    <2>2. \A p \in Periods : p \in teacherOcc[t] <=>
            \E x \in placements : TeacherID(x.assignment) = t /\ p \in x.periods
      BY DEF TeachersAgree
    <2> QED
      BY <1>1, <2>1, <2>2 DEF BusyPeriods, LessonsIn, TaughtBy
  <1>3. ASSUME NEW c \in Cohorts
        PROVE  cohortOcc[c] = BusyPeriods(AttendedBy(c))
    <2>1. cohortOcc[c] \subseteq Periods
      BY DEF CohortsAgree
    <2>2. \A p \in Periods : p \in cohortOcc[c] <=>
            \E x \in placements : CohortID(x.assignment) = c /\ p \in x.periods
      BY DEF CohortsAgree
    <2> QED
      BY <1>1, <2>1, <2>2 DEF BusyPeriods, LessonsIn, AttendedBy
  <1>4. ASSUME NEW r \in Resources
        PROVE  resourceOcc[r] = BusyPeriods(Using(r))
    <2>1. resourceOcc[r] \subseteq Periods
      BY DEF ResourcesAgree
    <2>2. \A p \in Periods : p \in resourceOcc[r] <=>
            \E x \in placements : ResourceID(x.assignment) = r /\ p \in x.periods
      BY DEF ResourcesAgree
    <2> QED
      BY <1>1, <2>1, <2>2 DEF BusyPeriods, LessonsIn, Using
  <1>5. BookedOnce
    <2> SUFFICES ASSUME NEW x \in placements, NEW y \in placements, x # y,
                        x.periods \cap y.periods # {}
                 PROVE  Apart(x.assignment, y.assignment)
      BY DEF BookedOnce, Apart
    <2>1. PICK p : p \in x.periods /\ p \in y.periods
      OBVIOUS
    <2> QED
      BY <1>1, <2>1 DEF Once
  <1> QED
    BY <1>2, <1>3, <1>4, <1>5 DEF OccupancySound, OccupancyAgrees

-----------------------------------------------------------------------------
(* Placing lessons.                                                        *)

\* The lessons place adds: those of as, in the periods of the slot.
LEMMA LessonsOfPlace ==
  ASSUME NEW a, NEW slot, NEW double
  PROVE  /\ \A x \in lessons(a, slot, double) : x.assignment = a /\ x.periods \subseteq slot
         /\ \A p \in slot : \E x \in lessons(a, slot, double) : p \in x.periods
         /\ \A x, y \in lessons(a, slot, double), p \in slot :
              x # y => ~(p \in x.periods /\ p \in y.periods)
         /\ a \in Assignments /\ slot \subseteq Periods =>
              lessons(a, slot, double) \subseteq Lesson
         /\ slot # {} => \A x \in lessons(a, slot, double) : x.periods # {}
  <1> DEFINE whole == [assignment |-> a, periods |-> slot, double |-> TRUE]
  <1>1. /\ whole.assignment = a /\ whole.periods = slot
        /\ a \in Assignments /\ slot \subseteq Periods => whole \in Lesson
    BY DEF Lesson
  <1>2. PICK part : part = [p \in slot |-> [assignment |-> a, periods |-> {p}, double |-> FALSE]]
    OBVIOUS
  <1>3. \A p \in slot : part[p].assignment = a /\ part[p].periods = {p}
    BY <1>2
  <1>4. a \in Assignments /\ slot \subseteq Periods => \A p \in slot : part[p] \in Lesson
    BY <1>2 DEF Lesson
  <1>5. lessons(a, slot, double) = IF double THEN {whole} ELSE {part[p] : p \in slot}
    BY <1>2 DEF lessons
  <1> HIDE DEF whole
  <1>6. CASE double
    BY <1>1, <1>5, <1>6
  <1>7. CASE ~double
    <2> DEFINE xs == {part[p] : p \in slot}
    <2>1. \A x \in xs : \E p \in slot : x = part[p]
      OBVIOUS
    <2>2. \A p \in slot : part[p] \in xs
      OBVIOUS
    <2> HIDE DEF xs
    <2>3. \A x \in xs : x.assignment = a /\ x.periods \subseteq slot
      BY <1>3, <2>1
    <2>4. \A p \in slot : \E x \in xs : p \in x.periods
      BY <1>3, <2>2
    <2>5. \A x, y \in xs, p \in slot : x # y => ~(p \in x.periods /\ p \in y.periods)
      BY <1>3, <2>1
    <2>6. a \in Assignments /\ slot \subseteq Periods => xs \subseteq Lesson
      BY <1>4, <2>1
    <2>7. \A x \in xs : x.periods # {}
      BY <1>3, <2>1
    <2>8. lessons(a, slot, double) = xs
      BY <1>5, <1>7 DEF xs
    <2> QED
      BY <2>3, <2>4, <2>5, <2>6, <2>7, <2>8
  <1> QED
    BY <1>6, <1>7

\* Assignments that fit a slot together, no two with a teacher or class in
\* common, are placed soundly.
LEMMA PlaceIsSound ==
  ASSUME IndInv, NEW as \in SUBSET Assignments, NEW slot, NEW twice,
         fit(as, slot), Matching(as), place(as, slot, twice)
  PROVE  Booked(placements', teacherOcc', cohortOcc', resourceOcc')
  <1> DEFINE added == UNION {lessons(a, slot, a \in twice) : a \in as}
  <1>0. \A a : LET xs == lessons(a, slot, a \in twice) IN
          /\ \A x \in xs : x.assignment = a /\ x.periods \subseteq slot
          /\ \A p \in slot : \E x \in xs : p \in x.periods
          /\ \A x, y \in xs, p \in slot : x # y => ~(p \in x.periods /\ p \in y.periods)
          /\ a \in Assignments /\ slot \subseteq Periods => xs \subseteq Lesson
    <2> TAKE a
    <2>1. CASE a \in twice
      <3>1. lessons(a, slot, a \in twice) = lessons(a, slot, TRUE)
        BY <2>1 DEF lessons
      <3> QED
        BY <3>1, LessonsOfPlace
    <2>2. CASE a \notin twice
      <3>1. lessons(a, slot, a \in twice) = lessons(a, slot, FALSE)
        BY <2>2 DEF lessons
      <3> QED
        BY <3>1, LessonsOfPlace
    <2> QED
      BY <2>1, <2>2
  <1>1. problem \in Problems /\ placements \subseteq Lesson /\ Once(placements)
    BY DEF IndInv, Booked
  <1>2. TeachersAgree(placements, teacherOcc) /\ CohortsAgree(placements, cohortOcc)
          /\ ResourcesAgree(placements, resourceOcc)
    BY DEF IndInv, Booked
  <1>3. \A a \in as : /\ slot \subseteq Periods
                      /\ slot \cap teacherOcc[TeacherID(a)] = {}
                      /\ slot \cap cohortOcc[CohortID(a)] = {}
                      /\ ResourceID(a) # None => slot \cap resourceOcc[ResourceID(a)] = {}
    BY DEF fit, canPlace, AvailablePeriods
  <1>4. \A a, b \in as : a # b => Apart(a, b)
    BY DEF Matching, fit, Apart
  <1>5. /\ \A x \in added : \E a \in as : x \in lessons(a, slot, a \in twice)
        /\ \A a \in as : lessons(a, slot, a \in twice) \subseteq added
    OBVIOUS
  <1>6. \A x \in added : x.assignment \in as /\ x.periods \subseteq slot
    <2> TAKE x \in added
    <2>1. PICK a \in as : x \in lessons(a, slot, a \in twice)
      BY <1>5
    <2> QED
      BY <2>1, <1>0
  <1>7. \A a \in as, p \in slot : \E x \in added : x.assignment = a /\ p \in x.periods
    <2> TAKE a \in as, p \in slot
    <2>1. PICK x \in lessons(a, slot, a \in twice) : p \in x.periods
      BY <1>0
    <2>2. x \in added
      BY <1>5
    <2>3. x.assignment = a
      BY <1>0
    <2> QED
      BY <2>1, <2>2, <2>3
  <1>8. added \subseteq Lesson
    <2> SUFFICES ASSUME NEW x \in added PROVE x \in Lesson
      OBVIOUS
    <2>1. PICK a \in as : x \in lessons(a, slot, a \in twice)
      BY <1>5
    <2> QED
      BY <1>0, <1>3, <2>1
  <1>9. \A x, y \in added, p \in Periods :
          x # y /\ p \in x.periods /\ p \in y.periods => Apart(x.assignment, y.assignment)
    <2> SUFFICES ASSUME NEW x \in added, NEW y \in added, NEW p \in Periods, x # y,
                        p \in x.periods, p \in y.periods
                 PROVE  Apart(x.assignment, y.assignment)
      OBVIOUS
    <2>1. PICK a \in as : x \in lessons(a, slot, a \in twice)
      BY <1>5
    <2>2. PICK b \in as : y \in lessons(b, slot, b \in twice)
      BY <1>5
    <2>3. x.assignment = a /\ y.assignment = b /\ p \in slot
      BY <2>1, <2>2, <1>0
    <2>4. a # b
      BY <2>1, <2>2, <2>3, <1>0
    <2> QED
      BY <1>4, <2>3, <2>4
  <1>10. placements' = placements \cup added
    BY DEF place
  <1> HIDE DEF added
  <1>11. \A x \in placements, y \in added, p \in Periods :
           p \in x.periods /\ p \in y.periods =>
             Apart(x.assignment, y.assignment) /\ Apart(y.assignment, x.assignment)
    <2> SUFFICES ASSUME NEW x \in placements, NEW y \in added, NEW p \in Periods,
                        p \in x.periods, p \in y.periods
                 PROVE  Apart(x.assignment, y.assignment) /\ Apart(y.assignment, x.assignment)
      OBVIOUS
    <2> DEFINE a == x.assignment
               b == y.assignment
    <2>1. a \in Assignments /\ b \in as /\ b \in Assignments /\ p \in slot
      BY <1>1, <1>6 DEF Lesson
    <2>2. /\ p \in teacherOcc[TeacherID(a)]
          /\ p \in cohortOcc[CohortID(a)]
          /\ ResourceID(a) # None => p \in resourceOcc[ResourceID(a)]
      BY <1>1, <1>2, <2>1, Closed DEF TeachersAgree, CohortsAgree, ResourcesAgree
    <2> HIDE DEF a, b
    <2>3. Apart(a, b) /\ Apart(b, a)
      BY <1>3, <2>1, <2>2 DEF Apart
    <2> QED
      BY <2>3 DEF a, b
  <1>12. Once(placements')
    BY <1>1, <1>9, <1>10, <1>11 DEF Once
  <1>13. TeachersAgree(placements', teacherOcc')
    <2>1. teacherOcc' = [t \in Teachers |->
            IF \E a \in as : TeacherID(a) = t THEN teacherOcc[t] \cup slot ELSE teacherOcc[t]]
      BY DEF place
    <2>2. teacherOcc' \in [Teachers -> SUBSET Periods]
      BY <1>2, <1>3, <2>1 DEF TeachersAgree
    <2>3. ASSUME NEW t \in Teachers, NEW p \in Periods
          PROVE  p \in teacherOcc'[t] <=>
                   \E x \in placements' : TeacherID(x.assignment) = t /\ p \in x.periods
      <3>1. p \in teacherOcc'[t] <=>
              p \in teacherOcc[t] \/ (p \in slot /\ \E a \in as : TeacherID(a) = t)
        BY <2>1
      <3>2. (p \in slot /\ \E a \in as : TeacherID(a) = t) <=>
              \E x \in added : TeacherID(x.assignment) = t /\ p \in x.periods
        BY <1>6, <1>7
      <3> QED
        BY <1>2, <1>10, <3>1, <3>2 DEF TeachersAgree
    <2> QED
      BY <2>2, <2>3 DEF TeachersAgree
  <1>14. CohortsAgree(placements', cohortOcc')
    <2>1. cohortOcc' = [c \in Cohorts |->
            IF \E a \in as : CohortID(a) = c THEN cohortOcc[c] \cup slot ELSE cohortOcc[c]]
      BY DEF place
    <2>2. cohortOcc' \in [Cohorts -> SUBSET Periods]
      BY <1>2, <1>3, <2>1 DEF CohortsAgree
    <2>3. ASSUME NEW c \in Cohorts, NEW p \in Periods
          PROVE  p \in cohortOcc'[c] <=>
                   \E x \in placements' : CohortID(x.assignment) = c /\ p \in x.periods
      <3>1. p \in cohortOcc'[c] <=>
              p \in cohortOcc[c] \/ (p \in slot /\ \E a \in as : CohortID(a) = c)
        BY <2>1
      <3>2. (p \in slot /\ \E a \in as : CohortID(a) = c) <=>
              \E x \in added : CohortID(x.assignment) = c /\ p \in x.periods
        BY <1>6, <1>7
      <3> QED
        BY <1>2, <1>10, <3>1, <3>2 DEF CohortsAgree
    <2> QED
      BY <2>2, <2>3 DEF CohortsAgree
  <1>15. ResourcesAgree(placements', resourceOcc')
    <2>1. resourceOcc' = [r \in Resources |->
            IF \E a \in as : ResourceID(a) = r THEN resourceOcc[r] \cup slot ELSE resourceOcc[r]]
      BY DEF place
    <2>2. resourceOcc' \in [Resources -> SUBSET Periods]
      BY <1>2, <1>3, <2>1 DEF ResourcesAgree
    <2>3. ASSUME NEW r \in Resources, NEW p \in Periods
          PROVE  p \in resourceOcc'[r] <=>
                   \E x \in placements' : ResourceID(x.assignment) = r /\ p \in x.periods
      <3>1. p \in resourceOcc'[r] <=>
              p \in resourceOcc[r] \/ (p \in slot /\ \E a \in as : ResourceID(a) = r)
        BY <2>1
      <3>2. (p \in slot /\ \E a \in as : ResourceID(a) = r) <=>
              \E x \in added : ResourceID(x.assignment) = r /\ p \in x.periods
        BY <1>6, <1>7
      <3> QED
        BY <1>2, <1>10, <3>1, <3>2 DEF ResourcesAgree
    <2> QED
      BY <2>2, <2>3 DEF ResourcesAgree
  <1> QED
    BY <1>1, <1>8, <1>10, <1>12, <1>13, <1>14, <1>15 DEF Booked

-----------------------------------------------------------------------------
(* Exchanging a lesson.                                                    *)

\* The lesson that gives way moves to a hole of its class and teacher, the
\* lesson without a place takes over its periods: the timetable stays sound.
LEMMA ExchangeIsSound ==
  ASSUME IndInv, repairSingles
  PROVE  Booked(placements', teacherOcc', cohortOcc', resourceOcc')
  <1>1. PICK e \in exchanges :
          LET a == e.target
              x == e.blocking
              moved == [x EXCEPT !.periods = {e.hole}]
              freed == Without(teacherOcc, TeacherID(x.assignment), x.periods)
          IN /\ placements' = (placements \ {x}) \cup {moved} \cup lessons(a, x.periods, FALSE)
             /\ teacherOcc' = [freed EXCEPT ![TeacherID(x.assignment)] = @ \cup {e.hole},
                                            ![TeacherID(a)] = @ \cup x.periods]
             /\ cohortOcc' = [cohortOcc EXCEPT ![CohortID(a)] = @ \cup {e.hole}]
    BY DEF repairSingles
  <1>2. PICK a, x, h : a = e.target /\ x = e.blocking /\ h = e.hole
    OBVIOUS
  <1>3. PICK b, t, u, c : /\ b = x.assignment /\ t = TeacherID(b) /\ u = TeacherID(a)
                          /\ c = CohortID(a)
    OBVIOUS
  <1>4. PICK added, moved : added = lessons(a, x.periods, FALSE)
                            /\ moved = [x EXCEPT !.periods = {h}]
    OBVIOUS
  <1>5. /\ placements' = (placements \ {x}) \cup {moved} \cup added
        /\ teacherOcc' = [Without(teacherOcc, t, x.periods) EXCEPT
                            ![t] = @ \cup {h}, ![u] = @ \cup x.periods]
        /\ cohortOcc' = [cohortOcc EXCEPT ![c] = @ \cup {h}]
        /\ resourceOcc' = resourceOcc
    BY <1>1, <1>2, <1>3, <1>4 DEF repairSingles
  <1>6. /\ a \in Assignments /\ x \in placements /\ h \in Periods
        /\ ResourceID(a) = None
        /\ CohortID(b) = c /\ ResourceID(b) = None
        /\ x.periods \cap teacherOcc[u] = {}
        /\ h \notin cohortOcc[c] /\ h \notin teacherOcc[t]
    <2>1. /\ e.target \in Assignments /\ e.blocking \in placements /\ e.hole \in Periods
          /\ ResourceID(e.target) = None
          /\ blocks(e.blocking, e.target)
          /\ e.blocking.periods \cap teacherOcc[TeacherID(e.target)] = {}
          /\ e.hole \notin cohortOcc[CohortID(e.target)]
          /\ e.hole \notin teacherOcc[TeacherID(e.blocking.assignment)]
      BY DEF exchanges
    <2> QED
      BY <1>2, <1>3, <2>1 DEF blocks
  <1>7. /\ problem \in Problems /\ placements \subseteq Lesson /\ Once(placements)
        /\ TeachersAgree(placements, teacherOcc) /\ CohortsAgree(placements, cohortOcc)
        /\ ResourcesAgree(placements, resourceOcc)
    BY DEF IndInv, Booked
  <1>8. /\ b \in Assignments /\ x.periods \subseteq Periods /\ x \in Lesson
        /\ t \in Teachers /\ u \in Teachers /\ c \in Cohorts
    BY <1>3, <1>6, <1>7, Closed DEF Lesson
  <1>9. moved \in Lesson /\ moved.assignment = b /\ moved.periods = {h}
    BY <1>3, <1>4, <1>6, <1>8 DEF Lesson
  <1>10. /\ \A y \in added : y.assignment = a /\ y.periods \subseteq x.periods
         /\ \A p \in x.periods : \E y \in added : p \in y.periods
         /\ \A y, z \in added, p \in x.periods : y # z => ~(p \in y.periods /\ p \in z.periods)
         /\ added \subseteq Lesson
    <2>1. PICK ps : ps = x.periods
      OBVIOUS
    <2>2. LET xs == lessons(a, ps, FALSE) IN
            /\ \A y \in xs : y.assignment = a /\ y.periods \subseteq ps
            /\ \A p \in ps : \E y \in xs : p \in y.periods
            /\ \A y, z \in xs, p \in ps : y # z => ~(p \in y.periods /\ p \in z.periods)
            /\ a \in Assignments /\ ps \subseteq Periods => xs \subseteq Lesson
            /\ ps # {} => \A y \in xs : y.periods # {}
      BY LessonsOfPlace
    <2>3. added = lessons(a, ps, FALSE)
      BY <1>4, <2>1
    <2> QED
      BY <1>6, <1>8, <2>1, <2>2, <2>3
  <1>11. /\ \A p \in x.periods : p \in teacherOcc[t] /\ p \in cohortOcc[c]
         /\ h \notin x.periods
    BY <1>3, <1>6, <1>7, <1>8 DEF TeachersAgree, CohortsAgree
  <1>12. \A y \in placements : y.assignment \in Assignments /\ y.periods \subseteq Periods
    BY <1>7 DEF Lesson
  <1> DEFINE others == placements \ {x}
  <1>13. placements' = others \cup {moved} \cup added
    BY <1>5
  <1>14. \A p \in x.periods, y \in others :
           p \in y.periods => /\ TeacherID(y.assignment) # t
                              /\ CohortID(y.assignment) # c
    BY <1>3, <1>6, <1>7, <1>8 DEF Once, Apart
  <1>15. /\ t # u \/ x.periods = {}
         /\ \A y \in others : h \in y.periods =>
              TeacherID(y.assignment) # t /\ CohortID(y.assignment) # c
         /\ \A y \in others, p \in x.periods : p \in y.periods => TeacherID(y.assignment) # u
    BY <1>6, <1>7, <1>8, <1>11, <1>12 DEF TeachersAgree, CohortsAgree
  <1> HIDE DEF others
  <1>16. Once(placements')
    <2>1. \A y, z \in others, p \in Periods :
            y # z /\ p \in y.periods /\ p \in z.periods => Apart(y.assignment, z.assignment)
      BY <1>7 DEF Once, others
    <2>2. \A y \in others : h \in y.periods => Apart(y.assignment, b) /\ Apart(b, y.assignment)
      BY <1>3, <1>6, <1>15 DEF Apart
    <2>3. \A y \in others, p \in x.periods :
            p \in y.periods => Apart(y.assignment, a) /\ Apart(a, y.assignment)
      BY <1>3, <1>6, <1>14, <1>15 DEF Apart
    <2> SUFFICES ASSUME NEW y \in placements', NEW z \in placements', NEW p \in Periods, y # z,
                        p \in y.periods, p \in z.periods
                 PROVE  Apart(y.assignment, z.assignment)
      BY DEF Once
    <2>4. CASE y \in others
      <3>1. CASE z \in others
        BY <2>1, <2>4, <3>1
      <3>2. CASE z = moved
        BY <1>9, <2>2, <2>4, <3>2
      <3>3. CASE z \in added
        BY <1>10, <2>3, <2>4, <3>3
      <3> QED
        BY <1>13, <3>1, <3>2, <3>3
    <2>5. CASE y = moved
      <3>1. CASE z \in others
        BY <1>9, <2>2, <2>5, <3>1
      <3>2. CASE z \in added
        BY <1>9, <1>10, <1>11, <2>5, <3>2
      <3> QED
        BY <1>13, <2>5, <3>1, <3>2
    <2>6. CASE y \in added
      <3>1. CASE z \in others
        BY <1>10, <2>3, <2>6, <3>1
      <3>2. CASE z = moved
        BY <1>9, <1>10, <1>11, <2>6, <3>2
      <3>3. CASE z \in added
        BY <1>10, <2>6, <3>3
      <3> QED
        BY <1>13, <3>1, <3>2, <3>3
    <2> QED
      BY <1>13, <2>4, <2>5, <2>6
  <1>17. TeachersAgree(placements', teacherOcc')
    <2>1. teacherOcc \in [Teachers -> SUBSET Periods]
      BY <1>7 DEF TeachersAgree
    <2>2. /\ teacherOcc' \in [Teachers -> SUBSET Periods]
          /\ \A v \in Teachers :
               teacherOcc'[v] =
                 (IF v = t THEN (teacherOcc[v] \ x.periods) \cup {h} ELSE teacherOcc[v])
                 \cup (IF v = u THEN x.periods ELSE {})
      BY <1>5, <1>6, <1>8, <2>1 DEF Without
    <2>3. ASSUME NEW v \in Teachers, NEW p \in Periods
          PROVE  p \in teacherOcc'[v] <=>
                   \E y \in placements' : TeacherID(y.assignment) = v /\ p \in y.periods
      <3>1. (\E y \in placements' : TeacherID(y.assignment) = v /\ p \in y.periods) <=>
              \/ \E y \in others : TeacherID(y.assignment) = v /\ p \in y.periods
              \/ v = t /\ p = h
              \/ v = u /\ p \in x.periods
        BY <1>3, <1>9, <1>10, <1>13
      <3>2. p \in teacherOcc[v] <=>
              \/ \E y \in others : TeacherID(y.assignment) = v /\ p \in y.periods
              \/ v = t /\ p \in x.periods
        BY <1>3, <1>6, <1>7 DEF TeachersAgree, others
      <3>3. v = t /\ p \in x.periods =>
              ~ \E y \in others : TeacherID(y.assignment) = v /\ p \in y.periods
        BY <1>14
      <3> QED
        BY <2>2, <3>1, <3>2, <3>3
    <2> QED
      BY <2>2, <2>3 DEF TeachersAgree
  <1>18. CohortsAgree(placements', cohortOcc')
    <2>1. /\ cohortOcc' \in [Cohorts -> SUBSET Periods]
          /\ \A v \in Cohorts :
               cohortOcc'[v] = IF v = c THEN cohortOcc[v] \cup {h} ELSE cohortOcc[v]
      BY <1>5, <1>6, <1>7, <1>8 DEF CohortsAgree
    <2>2. ASSUME NEW v \in Cohorts, NEW p \in Periods
          PROVE  p \in cohortOcc'[v] <=>
                   \E y \in placements' : CohortID(y.assignment) = v /\ p \in y.periods
      <3>1. (\E y \in placements' : CohortID(y.assignment) = v /\ p \in y.periods) <=>
              \/ \E y \in others : CohortID(y.assignment) = v /\ p \in y.periods
              \/ v = c /\ p = h
              \/ v = c /\ p \in x.periods
        BY <1>3, <1>6, <1>9, <1>10, <1>13
      <3>2. p \in cohortOcc[v] <=>
              \/ \E y \in others : CohortID(y.assignment) = v /\ p \in y.periods
              \/ v = c /\ p \in x.periods
        BY <1>3, <1>6, <1>7 DEF CohortsAgree, others
      <3> QED
        BY <2>1, <3>1, <3>2
    <2> QED
      BY <2>1, <2>2 DEF CohortsAgree
  <1>19. ResourcesAgree(placements', resourceOcc')
    <2>1. \A r \in Resources : r # None
      BY DEF Resources
    <2>2. ASSUME NEW r \in Resources, NEW p \in Periods
          PROVE  (\E y \in placements' : ResourceID(y.assignment) = r /\ p \in y.periods) <=>
                   \E y \in placements : ResourceID(y.assignment) = r /\ p \in y.periods
      BY <1>3, <1>6, <1>9, <1>10, <1>13, <2>1 DEF others
    <2> QED
      BY <1>5, <1>7, <2>2 DEF ResourcesAgree
  <1> QED
    BY <1>7, <1>9, <1>10, <1>13, <1>16, <1>17, <1>18, <1>19 DEF Booked, others

-----------------------------------------------------------------------------
(* Every step.                                                             *)

\* The problem stays, so what an attempt writes can be stated without it.
LEMMA ProblemStays ==
  ASSUME problem' = problem, IndInv,
         Booked(placements', teacherOcc', cohortOcc', resourceOcc')
  PROVE  IndInv'
  <1>1. /\ Assignments' = Assignments /\ Teachers' = Teachers /\ Cohorts' = Cohorts
        /\ Resources' = Resources /\ Lesson' = Lesson
    BY DEF Assignments, Teachers, Cohorts, Resources, ResourceID, Lesson
  <1>2. TeachersAgree(placements, teacherOcc)'
    BY <1>1 DEF Booked, TeachersAgree, TeacherID
  <1>3. CohortsAgree(placements, cohortOcc)'
    BY <1>1 DEF Booked, CohortsAgree, CohortID
  <1>4. ResourcesAgree(placements, resourceOcc)'
    BY <1>1 DEF Booked, ResourcesAgree, ResourceID
  <1>5. Once(placements)'
    BY <1>1 DEF Booked, Once, Apart, TeacherID, CohortID, ResourceID
  <1> QED
    BY <1>1, <1>2, <1>3, <1>4, <1>5 DEF IndInv, Booked

\* A step that leaves the timetable alone.
LEMMA TimetableStays ==
  ASSUME IndInv, UNCHANGED <<problem, placements, teacherOcc, cohortOcc, resourceOcc>>
  PROVE  IndInv'
  <1>1. Booked(placements', teacherOcc', cohortOcc', resourceOcc')
    BY DEF IndInv
  <1> QED
    BY <1>1, ProblemStays

\* An empty timetable.
LEMMA EmptyIsBooked ==
  Booked({}, [t \in Teachers |-> {}], [c \in Cohorts |-> {}], [r \in Resources |-> {}])
  BY DEF Booked, TeachersAgree, CohortsAgree, ResourcesAgree, Once

LEMMA InitInv == Init => IndInv
  BY EmptyIsBooked DEF Init, IndInv

\* Part of a matching is a matching.
LEMMA MatchingPart ==
  ASSUME NEW as, Matching(as), NEW bs \in SUBSET as
  PROVE  Matching(bs)
  BY DEF Matching

LEMMA StepInv == IndInv /\ [Next]_vars => IndInv'
  <1> SUFFICES ASSUME IndInv, [Next]_vars
               PROVE  IndInv'
    OBVIOUS
  <1>1. CASE solveAttempt
    <2>1. Booked(placements', teacherOcc', cohortOcc', resourceOcc')
      BY <1>1, EmptyIsBooked DEF solveAttempt
    <2> QED
      BY <1>1, <2>1, ProblemStays DEF solveAttempt
  <1>2. ASSUME NEW x \in pins, Pin(x)
        PROVE  IndInv'
    <2>1. PICK a, slot, twice : a = x.assignment /\ slot = x.periods
                                /\ twice = (IF x.double THEN {x.assignment} ELSE {})
      OBVIOUS
    <2>2. a \in Assignments /\ canPlace(a, slot) /\ place({a}, slot, twice)
      BY <1>2, <2>1 DEF Pin, keeps
    <2>3. fit({a}, slot) /\ Matching({a}) /\ {a} \in SUBSET Assignments
      BY <2>2 DEF fit, Matching
    <2> QED
      BY <1>2, <2>2, <2>3, PlaceIsSound, ProblemStays DEF Pin
  <1>3. CASE PlaceColor
    <2>1. PICK as \in colorClasses, slot \in todo :
            \E bs \in Placed(as, slot) : place(bs, slot, twiceOf(bs))
      BY <1>3 DEF PlaceColor
    <2>2. PICK bs, twice : bs \in Placed(as, slot) /\ place(bs, slot, twice)
      BY <2>1
    <2>3. Matching(bs) /\ fit(bs, slot) /\ bs \in SUBSET Assignments
      BY <2>2, MatchingPart DEF colorClasses, Placed
    <2> QED
      BY <1>3, <2>2, <2>3, PlaceIsSound, ProblemStays DEF PlaceColor
  <1>4. CASE PlaceMatching
    <2>1. PICK slot \in todo :
            \E as \in maximumMatchings(candidateEdges(slot)) : \E bs \in Placed(as, slot) :
              place(bs, slot, IF phase = "doubles" THEN bs ELSE {})
      BY <1>4 DEF PlaceMatching
    <2>2. PICK as \in maximumMatchings(candidateEdges(slot)) :
            \E bs \in Placed(as, slot) : place(bs, slot, IF phase = "doubles" THEN bs ELSE {})
      BY <2>1
    <2>3. PICK bs, twice : bs \in Placed(as, slot) /\ place(bs, slot, twice)
      BY <2>2
    <2>4. Matching(bs) /\ fit(bs, slot) /\ bs \in SUBSET Assignments
      BY <2>3, MatchingPart DEF maximumMatchings, candidateEdges, Placed
    <2> QED
      BY <1>4, <2>3, <2>4, PlaceIsSound, ProblemStays DEF PlaceMatching
  <1>5. CASE repairSingles
    BY <1>5, ExchangeIsSound, ProblemStays DEF repairSingles
  <1>6. ASSUME NEW x \in pins, SkipPin(x)
        PROVE  IndInv'
    BY <1>6, TimetableStays DEF SkipPin
  <1>7. CASE NextPass
    BY <1>7, TimetableStays DEF NextPass
  <1>8. CASE Leave
    BY <1>8, TimetableStays DEF Leave
  <1>9. CASE Judge
    BY <1>9, TimetableStays DEF Judge, attempt
  <1>10. CASE Return
    BY <1>10, TimetableStays DEF Return, attempt
  <1>11. CASE budgetExceeded
    BY <1>11, TimetableStays DEF budgetExceeded
  <1>12. CASE Solved
    BY <1>12, TimetableStays DEF Solved, vars, attempt
  <1>13. CASE UNCHANGED vars
    BY <1>13, TimetableStays DEF vars, attempt
  <1> QED
    BY <1>1, <1>2, <1>3, <1>4, <1>5, <1>6, <1>7, <1>8, <1>9, <1>10, <1>11, <1>12, <1>13
       DEF Next, Steps

LEMMA Invariance == Spec => []IndInv
  <1> QED
    BY InitInv, StepInv, PTL DEF Spec

-----------------------------------------------------------------------------
\* Whatever slots, matchings, pins and exchanges an attempt goes through, its
\* occupancy maps say exactly what its lessons occupy, and no teacher, class
\* or resource has two lessons in a period (engine.go: place, repairSingles).
THEOREM OccupancyStaysSound == Spec => []OccupancySound
  <1> QED
    BY Invariance, BookedIsSound, PTL

-----------------------------------------------------------------------------
(* Sums.  MapThenSumSet is a recursive function that picks the elements of *)
(* a set in some order; the lemmas say that it exists for every finite set *)
(* and that the order does not matter.                                     *)

First(s) == CHOOSE x \in s : TRUE

\* g sums f over every subset of S, one element after the other.
Sums(g, f, S) ==
  /\ g = [s \in SUBSET S |-> g[s]]
  /\ \A s \in SUBSET S : g[s] = IF s = {} THEN 0 ELSE f[First(s)] + g[s \ {First(s)}]

\* MapThenSumSet of a function.
Total(f, S) == MapThenSumSet(LAMBDA x : f[x], S)

LEMMA FirstIsIn == ASSUME NEW s, s # {} PROVE First(s) \in s
  BY DEF First

\* Induction over the subsets of a finite set, as a smallest counterexample.
LEMMA SmallestSubset ==
  ASSUME NEW S, IsFiniteSet(S), NEW T \in SUBSET SUBSET S, T # {}
  PROVE  \E s \in T : \A r \in T : r \subseteq s => r = s
  <1>1. IsWellFoundedOn(StrictSubsetOrdering(S), SUBSET S)
    BY FS_StrictSubsetOrderingWellFounded, FS_FiniteSubsetsOfFinite
  <1>2. PICK s \in T : \A r \in T : <<r, s>> \notin StrictSubsetOrdering(S)
    BY <1>1, WFMin
  <1>3. ASSUME NEW r \in T, r \subseteq s PROVE r = s
    BY <1>2, <1>3 DEF StrictSubsetOrdering
  <1> QED
    BY <1>3

\* Two functions that sum f agree where both do.
LEMMA SumsAgree ==
  ASSUME NEW f, NEW S, NEW T, IsFiniteSet(S), NEW g, NEW h, Sums(g, f, S), Sums(h, f, T),
         NEW s \in SUBSET S, s \subseteq T
  PROVE  g[s] = h[s]
  <1> DEFINE Bad == {r \in SUBSET S : r \subseteq T /\ g[r] # h[r]}
  <1> SUFFICES ASSUME s \in Bad PROVE FALSE
    OBVIOUS
  <1>1. PICK r \in Bad : \A q \in Bad : q \subseteq r => q = r
    <2>1. Bad \in SUBSET SUBSET S /\ Bad # {}
      OBVIOUS
    <2> HIDE DEF Bad
    <2> QED
      BY <2>1, SmallestSubset
  <1>2. r # {}
    BY DEF Sums
  <1>3. r \ {First(r)} \notin Bad
    BY <1>1, <1>2, FirstIsIn
  <1>4. g[r \ {First(r)}] = h[r \ {First(r)}]
    BY <1>3
  <1> QED
    BY <1>2, <1>4 DEF Sums

\* There is one for every finite set.
LEMMA SumsExist ==
  ASSUME NEW f, NEW S, IsFiniteSet(S)
  PROVE  \E g : Sums(g, f, S)
  <1> DEFINE Bad == {r \in SUBSET S : ~ \E g : Sums(g, f, r)}
  <1> SUFFICES ASSUME S \in Bad PROVE FALSE
    OBVIOUS
  <1>1. PICK T \in Bad : \A q \in Bad : q \subseteq T => q = T
    <2>1. Bad \in SUBSET SUBSET S /\ Bad # {}
      OBVIOUS
    <2> HIDE DEF Bad
    <2> QED
      BY <2>1, SmallestSubset
  <1> DEFINE of(r) == CHOOSE g : Sums(g, f, r)
             total == [r \in SUBSET T |->
               IF r = {} THEN 0 ELSE f[First(r)] + of(r \ {First(r)})[r \ {First(r)}]]
  <1>2. \A r \in SUBSET T : r # T => Sums(of(r), f, r) /\ IsFiniteSet(r)
    BY <1>1, FS_Subset
  <1>3. \A r \in SUBSET T : r # {} => /\ First(r) \in r
                                      /\ r \ {First(r)} \in SUBSET T
                                      /\ r \ {First(r)} # T
    BY FirstIsIn
  <1>4. \A r \in SUBSET T : r # T => total[r] = of(r)[r]
    <2> SUFFICES ASSUME NEW r \in SUBSET T, r # T PROVE total[r] = of(r)[r]
      OBVIOUS
    <2> DEFINE q == r \ {First(r)}
    <2>1. CASE r = {}
      BY <1>2, <2>1 DEF Sums
    <2>2. CASE r # {}
      <3>1. q \in SUBSET T /\ q \in SUBSET r /\ q # T /\ q \in SUBSET q
        BY <1>3, <2>2
      <3>2. Sums(of(r), f, r) /\ Sums(of(q), f, q) /\ IsFiniteSet(r)
        BY <1>2, <3>1
      <3> HIDE DEF of, q
      <3>3. of(q)[q] = of(r)[q]
        BY <3>1, <3>2, SumsAgree
      <3>4. of(r)[r] = f[First(r)] + of(r)[q]
        BY <2>2, <3>2 DEF Sums, q
      <3>5. total[r] = f[First(r)] + of(q)[q]
        BY <2>2 DEF q
      <3> QED
        BY <3>3, <3>4, <3>5
    <2> QED
      BY <2>1, <2>2
  <1>5. Sums(total, f, T)
    <2>1. \A r \in SUBSET T : total[r] = IF r = {} THEN 0
            ELSE f[First(r)] + of(r \ {First(r)})[r \ {First(r)}]
      OBVIOUS
    <2>2. total = [r \in SUBSET T |-> total[r]]
      OBVIOUS
    <2> HIDE DEF total, of
    <2>3. ASSUME NEW r \in SUBSET T, r # {}
          PROVE  total[r] = f[First(r)] + total[r \ {First(r)}]
      BY <1>3, <1>4, <2>1, <2>3
    <2> QED
      BY <2>1, <2>2, <2>3 DEF Sums
  <1> QED
    BY <1>1, <1>5

\* MapThenSumSet builds such a function.
LEMMA TotalIsSum ==
  ASSUME NEW f, NEW S, IsFiniteSet(S), NEW g, Sums(g, f, S), NEW T \in SUBSET S
  PROVE  Total(f, T) = g[T]
  <1> DEFINE it == CHOOSE h : h = [s \in SUBSET T |->
               IF s = {} THEN 0
               ELSE f[CHOOSE x \in s : TRUE] + h[s \ {CHOOSE x \in s : TRUE}]]
  <1>1. IsFiniteSet(T)
    BY FS_Subset
  <1>2. PICK h : Sums(h, f, T)
    BY <1>1, SumsExist
  <1>3. h = [s \in SUBSET T |-> IF s = {} THEN 0
                                 ELSE f[CHOOSE x \in s : TRUE] + h[s \ {CHOOSE x \in s : TRUE}]]
    BY <1>2 DEF Sums, First
  <1>4. it = [s \in SUBSET T |-> IF s = {} THEN 0
                                 ELSE f[CHOOSE x \in s : TRUE] + it[s \ {CHOOSE x \in s : TRUE}]]
    BY <1>3
  <1>5. Total(f, T) = it[T]
    BY DEF Total, MapThenSumSet, MapThenFoldSet
  <1> HIDE DEF it
  <1>6. Sums(it, f, T)
    BY <1>4 DEF Sums, First
  <1>7. T \in SUBSET T /\ T \subseteq S
    OBVIOUS
  <1>8. it[T] = g[T]
    BY <1>1, <1>6, <1>7, SumsAgree
  <1> QED
    BY <1>5, <1>8

\* The sums of integers: none, and one more.
LEMMA TotalEmpty == ASSUME NEW f PROVE Total(f, {}) = 0
  <1>1. PICK g : Sums(g, f, {})
    BY FS_EmptySet, SumsExist
  <1>2. {} \in SUBSET {} /\ IsFiniteSet({})
    BY FS_EmptySet
  <1>3. Total(f, {}) = g[{}]
    BY <1>1, <1>2, TotalIsSum
  <1> QED
    BY <1>1, <1>2, <1>3 DEF Sums

LEMMA TotalFirst ==
  ASSUME NEW f, NEW S, IsFiniteSet(S), S # {}
  PROVE  Total(f, S) = f[First(S)] + Total(f, S \ {First(S)})
  <1>1. PICK g : Sums(g, f, S)
    BY SumsExist
  <1>2. S \in SUBSET S /\ S \ {First(S)} \in SUBSET S
    OBVIOUS
  <1>3. Total(f, S) = g[S] /\ Total(f, S \ {First(S)}) = g[S \ {First(S)}]
    BY <1>1, <1>2, TotalIsSum
  <1> QED
    BY <1>1, <1>2, <1>3 DEF Sums

LEMMA TotalIsInt ==
  ASSUME NEW f, NEW S, IsFiniteSet(S), \A x \in S : f[x] \in Int
  PROVE  Total(f, S) \in Int
  <1> DEFINE Bad == {r \in SUBSET S : Total(f, r) \notin Int}
  <1> SUFFICES ASSUME S \in Bad PROVE FALSE
    OBVIOUS
  <1>1. PICK r \in Bad : \A q \in Bad : q \subseteq r => q = r
    <2>1. Bad \in SUBSET SUBSET S /\ Bad # {}
      OBVIOUS
    <2> HIDE DEF Bad
    <2> QED
      BY <2>1, SmallestSubset
  <1>2. r # {}
    <2> SUFFICES ASSUME r = {} PROVE FALSE
      OBVIOUS
    <2>1. Total(f, r) = 0
      BY TotalEmpty
    <2> QED
      BY <2>1
  <1>3. First(r) \in r /\ r \ {First(r)} \notin Bad /\ r \in SUBSET S /\ IsFiniteSet(r)
    BY <1>1, <1>2, FirstIsIn, FS_Subset
  <1>4. Total(f, r \ {First(r)}) \in Int /\ f[First(r)] \in Int
    BY <1>3
  <1>5. Total(f, r) = f[First(r)] + Total(f, r \ {First(r)})
    BY <1>2, <1>3, TotalFirst
  <1> QED
    BY <1>4, <1>5

LEMMA TotalIsNat ==
  ASSUME NEW f, NEW S, IsFiniteSet(S), \A x \in S : f[x] \in Nat
  PROVE  Total(f, S) \in Nat
  <1> DEFINE Bad == {r \in SUBSET S : Total(f, r) \notin Nat}
  <1> SUFFICES ASSUME S \in Bad PROVE FALSE
    OBVIOUS
  <1>1. PICK r \in Bad : \A q \in Bad : q \subseteq r => q = r
    <2>1. Bad \in SUBSET SUBSET S /\ Bad # {}
      OBVIOUS
    <2> HIDE DEF Bad
    <2> QED
      BY <2>1, SmallestSubset
  <1>2. r # {}
    <2> SUFFICES ASSUME r = {} PROVE FALSE
      OBVIOUS
    <2>1. Total(f, r) = 0
      BY TotalEmpty
    <2> QED
      BY <2>1
  <1>3. First(r) \in r /\ r \ {First(r)} \notin Bad /\ r \in SUBSET S /\ IsFiniteSet(r)
    BY <1>1, <1>2, FirstIsIn, FS_Subset
  <1>4. Total(f, r \ {First(r)}) \in Nat /\ f[First(r)] \in Nat
    BY <1>3
  <1>5. Total(f, r) = f[First(r)] + Total(f, r \ {First(r)})
    BY <1>2, <1>3, TotalFirst
  <1> QED
    BY <1>4, <1>5

\* Any element may come first.
LEMMA TotalRemove ==
  ASSUME NEW f, NEW S, IsFiniteSet(S), \A x \in S : f[x] \in Int, NEW x \in S
  PROVE  Total(f, S) = f[x] + Total(f, S \ {x})
  <1> DEFINE Bad == {r \in SUBSET S : \E y \in r : Total(f, r) # f[y] + Total(f, r \ {y})}
  <1> SUFFICES ASSUME S \in Bad PROVE FALSE
    OBVIOUS
  <1>1. PICK r \in Bad : \A q \in Bad : q \subseteq r => q = r
    <2>1. Bad \in SUBSET SUBSET S /\ Bad # {}
      OBVIOUS
    <2> HIDE DEF Bad
    <2> QED
      BY <2>1, SmallestSubset
  <1>2. PICK y \in r : Total(f, r) # f[y] + Total(f, r \ {y})
    OBVIOUS
  <1>3. PICK c : c = First(r)
    OBVIOUS
  <1>4. r \in SUBSET S /\ IsFiniteSet(r) /\ c \in r
    BY <1>2, <1>3, FirstIsIn, FS_Subset
  <1>5. Total(f, r) = f[c] + Total(f, r \ {c})
    <2>1. r # {}
      BY <1>4
    <2> QED
      BY <1>3, <1>4, <2>1, TotalFirst
  <1>6. y # c
    BY <1>2, <1>5
  <1>7. r \ {c} \notin Bad /\ r \ {y} \notin Bad /\ r \ {c} \in SUBSET S /\ r \ {y} \in SUBSET S
    BY <1>1, <1>2, <1>4
  <1>8. /\ Total(f, r \ {c}) = f[y] + Total(f, (r \ {c}) \ {y})
        /\ Total(f, r \ {y}) = f[c] + Total(f, (r \ {y}) \ {c})
    BY <1>2, <1>4, <1>6, <1>7
  <1>9. (r \ {c}) \ {y} = (r \ {y}) \ {c}
    OBVIOUS
  <1>10. f[y] \in Int /\ f[c] \in Int /\ Total(f, (r \ {y}) \ {c}) \in Int
    BY <1>2, <1>4, TotalIsInt, FS_Subset
  <1>11. PICK fy, fc, rest : /\ fy = f[y] /\ fc = f[c] /\ rest = Total(f, (r \ {y}) \ {c})
                             /\ fy \in Int /\ fc \in Int /\ rest \in Int
    BY <1>10
  <1>12. Total(f, r) = fc + (fy + rest) /\ Total(f, r \ {y}) = fc + rest
    BY <1>5, <1>8, <1>9, <1>11
  <1>13. Total(f, r) = f[y] + Total(f, r \ {y})
    BY <1>11, <1>12
  <1> QED
    BY <1>2, <1>13

\* Only the values on the set count.
LEMMA TotalSame ==
  ASSUME NEW f, NEW h, NEW S, IsFiniteSet(S), \A x \in S : f[x] = h[x]
  PROVE  Total(f, S) = Total(h, S)
  <1>1. PICK g : Sums(g, f, S)
    BY SumsExist
  <1>2. Sums(g, h, S)
    BY <1>1, FirstIsIn DEF Sums
  <1> QED
    BY <1>1, <1>2, TotalIsSum

\* Sums over two sets without a common element add up.
LEMMA TotalUnion ==
  ASSUME NEW f, NEW S, NEW T, IsFiniteSet(S), IsFiniteSet(T), S \cap T = {},
         \A x \in S \cup T : f[x] \in Int
  PROVE  Total(f, S \cup T) = Total(f, S) + Total(f, T)
  <1> DEFINE Bad == {r \in SUBSET T : Total(f, S \cup r) # Total(f, S) + Total(f, r)}
  <1> SUFFICES ASSUME T \in Bad PROVE FALSE
    OBVIOUS
  <1>1. PICK r \in Bad : \A q \in Bad : q \subseteq r => q = r
    <2>1. Bad \in SUBSET SUBSET T /\ Bad # {}
      OBVIOUS
    <2> HIDE DEF Bad
    <2> QED
      BY <2>1, SmallestSubset
  <1>2. r \in SUBSET T /\ IsFiniteSet(r) /\ IsFiniteSet(S \cup r)
    BY <1>1, FS_Subset, FS_Union
  <1>3. r # {}
    <2> SUFFICES ASSUME r = {} PROVE FALSE
      OBVIOUS
    <2>1. Total(f, r) = 0 /\ S \cup r = S /\ Total(f, S) \in Int
      BY TotalEmpty, TotalIsInt
    <2> QED
      BY <1>1, <2>1
  <1>4. PICK x : x \in r
    BY <1>3
  <1>5. r \ {x} \notin Bad /\ r \ {x} \in SUBSET T /\ IsFiniteSet(r \ {x})
    BY <1>1, <1>2, <1>4, FS_Subset
  <1>6. Total(f, S \cup (r \ {x})) = Total(f, S) + Total(f, r \ {x})
    BY <1>5
  <1>7. Total(f, r) = f[x] + Total(f, r \ {x})
    BY <1>2, <1>4, TotalRemove
  <1>8. Total(f, S \cup r) = f[x] + Total(f, S \cup (r \ {x}))
    <2>1. (S \cup r) \ {x} = S \cup (r \ {x})
      BY <1>2, <1>4
    <2>2. \A y \in S \cup r : f[y] \in Int
      BY <1>2
    <2>3. x \in S \cup r
      BY <1>4
    <2>4. Total(f, S \cup r) = f[x] + Total(f, (S \cup r) \ {x})
      BY <1>2, <2>2, <2>3, TotalRemove
    <2> QED
      BY <2>1, <2>4
  <1>9. PICK v, a, b : /\ v = f[x] /\ a = Total(f, S) /\ b = Total(f, r \ {x})
                       /\ v \in Int /\ a \in Int /\ b \in Int
    BY <1>2, <1>4, <1>5, TotalIsInt
  <1>10. Total(f, S \cup r) = v + (a + b) /\ Total(f, r) = v + b
    BY <1>6, <1>7, <1>8, <1>9
  <1>11. Total(f, S \cup r) = Total(f, S) + Total(f, r)
    BY <1>9, <1>10
  <1> QED
    BY <1>1, <1>11

\* A sum of ones counts.
LEMMA TotalOnes ==
  ASSUME NEW f, NEW S, IsFiniteSet(S), \A x \in S : f[x] = 1
  PROVE  Total(f, S) = Cardinality(S)
  <1> DEFINE Bad == {r \in SUBSET S : Total(f, r) # Cardinality(r)}
  <1> SUFFICES ASSUME S \in Bad PROVE FALSE
    OBVIOUS
  <1>1. PICK r \in Bad : \A q \in Bad : q \subseteq r => q = r
    <2>1. Bad \in SUBSET SUBSET S /\ Bad # {}
      OBVIOUS
    <2> HIDE DEF Bad
    <2> QED
      BY <2>1, SmallestSubset
  <1>2. r # {}
    <2> SUFFICES ASSUME r = {} PROVE FALSE
      OBVIOUS
    <2>1. Total(f, r) = 0 /\ Cardinality(r) = 0
      BY TotalEmpty, FS_EmptySet
    <2> QED
      BY <1>1, <2>1
  <1>3. PICK x : x \in r
    BY <1>2
  <1>4. r \in SUBSET S /\ IsFiniteSet(r) /\ r \ {x} \notin Bad /\ IsFiniteSet(r \ {x})
    BY <1>1, <1>3, FS_Subset
  <1>5. Total(f, r) = f[x] + Total(f, r \ {x})
    BY <1>3, <1>4, TotalRemove
  <1>6. Total(f, r \ {x}) = Cardinality(r \ {x})
    BY <1>4
  <1>7. Cardinality(r) = 1 + Cardinality(r \ {x})
    <2>1. Cardinality(r \ {x}) = Cardinality(r) - 1 /\ Cardinality(r) \in Nat
      BY <1>3, <1>4, FS_RemoveElement, FS_CardinalityType
    <2> QED
      BY <2>1
  <1>8. f[x] = 1
    BY <1>3, <1>4
  <1> QED
    BY <1>1, <1>5, <1>6, <1>7, <1>8

-----------------------------------------------------------------------------
(* The validator counts with naturals.                                     *)

LEMMA FinitePeriods == IsFiniteSet(Periods)
  BY EngineAssumption, FS_Interval DEF Periods

LEMMA FiniteProblem ==
  ASSUME problem \in Problems
  PROVE  /\ IsFiniteSet(Assignments) /\ IsFiniteSet(Teachers) /\ IsFiniteSet(Cohorts)
         /\ IsFiniteSet(Resources)
         /\ \A a \in Assignments : WeeklyPeriods(a) \in Nat /\ DoubleBlocks(a) \in Nat
  <1>1. /\ IsFiniteSet(Assignments) /\ IsFiniteSet(Teachers) /\ IsFiniteSet(Cohorts)
        /\ \A a \in Assignments : WeeklyPeriods(a) \in Nat /\ DoubleBlocks(a) \in Nat
    BY ProblemsAreFinite DEF Assignments, Teachers, Cohorts, WeeklyPeriods, DoubleBlocks
  <1>2. IsFiniteSet(Resources)
    <2>1. PICK used : used = [a \in Assignments |-> ResourceID(a)]
      OBVIOUS
    <2>2. used \in Surjection(Assignments, {ResourceID(a) : a \in Assignments})
      BY <2>1 DEF Surjection
    <2>3. IsFiniteSet({ResourceID(a) : a \in Assignments})
      BY <1>1, <2>2, FS_Surjection
    <2> QED
      BY <2>3, FS_Subset DEF Resources
  <1> QED
    BY <1>1, <1>2

\* A timetable is finite: there are only so many lessons to write into it.
LEMMA FiniteTimetable ==
  ASSUME problem \in Problems, NEW xs \in SUBSET Lesson
  PROVE  /\ IsFiniteSet(xs)
         /\ \A x \in xs : IsFiniteSet(x.periods) /\ Cardinality(x.periods) \in Nat
  <1> DEFINE Shapes == (SUBSET Periods) \X BOOLEAN
             Keys == Assignments \X Shapes
  <1>1. IsFiniteSet(Shapes)
    <2>1. IsFiniteSet({FALSE})
      BY FS_Singleton
    <2>2. IsFiniteSet({FALSE} \cup {TRUE})
      BY <2>1, FS_AddElement
    <2>3. BOOLEAN = {FALSE} \cup {TRUE}
      OBVIOUS
    <2>4. IsFiniteSet(BOOLEAN) /\ IsFiniteSet(SUBSET Periods)
      BY <2>2, <2>3, FinitePeriods, FS_SUBSET
    <2> QED
      BY <2>4, FS_Product
  <1>2. \A s \in Shapes : s[1] \in SUBSET Periods /\ s[2] \in BOOLEAN
    OBVIOUS
  <1>3. \A ps \in SUBSET Periods, d \in BOOLEAN :
          /\ <<ps, d>> \in Shapes /\ <<ps, d>>[1] = ps /\ <<ps, d>>[2] = d
    OBVIOUS
  <1> HIDE DEF Shapes
  <1>4. /\ IsFiniteSet(Keys)
        /\ \A k \in Keys : k[1] \in Assignments /\ k[2] \in Shapes
        /\ \A a \in Assignments, s \in Shapes :
             <<a, s>> \in Keys /\ <<a, s>>[1] = a /\ <<a, s>>[2] = s
    BY <1>1, FiniteProblem, FS_Product
  <1> HIDE DEF Keys
  <1>5. PICK made : made = [k \in Keys |->
                             [assignment |-> k[1], periods |-> k[2][1], double |-> k[2][2]]]
    OBVIOUS
  <1>6. made \in Surjection(Keys, Lesson)
    <2>1. ASSUME NEW k \in Keys
          PROVE  made[k] \in Lesson
      <3>1. k[1] \in Assignments /\ k[2][1] \in SUBSET Periods /\ k[2][2] \in BOOLEAN
        BY <1>2, <1>4
      <3>2. made[k] = [assignment |-> k[1], periods |-> k[2][1], double |-> k[2][2]]
        BY <1>5
      <3> QED
        BY <3>1, <3>2 DEF Lesson
    <2>2. ASSUME NEW x \in Lesson
          PROVE  \E k \in Keys : made[k] = x
      <3>1. PICK a \in Assignments, ps \in SUBSET Periods, d \in BOOLEAN :
              x = [assignment |-> a, periods |-> ps, double |-> d]
        BY DEF Lesson
      <3>2. PICK s \in Shapes : s[1] = ps /\ s[2] = d
        BY <1>3
      <3>3. PICK k \in Keys : k[1] = a /\ k[2] = s
        BY <1>4
      <3>4. made[k] = [assignment |-> k[1], periods |-> k[2][1], double |-> k[2][2]]
        BY <1>5
      <3> QED
        BY <3>1, <3>2, <3>3, <3>4
    <2>3. made \in [Keys -> Lesson]
      BY <1>5, <2>1
    <2> QED
      BY <2>2, <2>3 DEF Surjection
  <1>7. IsFiniteSet(Lesson)
    BY <1>4, <1>6, FS_Surjection
  <1>8. IsFiniteSet(xs)
    BY <1>7, FS_Subset
  <1>9. \A x \in xs : IsFiniteSet(x.periods) /\ Cardinality(x.periods) \in Nat
    <2> TAKE x \in xs
    <2>1. x.periods \subseteq Periods
      BY DEF Lesson
    <2> QED
      BY <2>1, FinitePeriods, FS_Subset, FS_CardinalityType
  <1> QED
    BY <1>8, <1>9

LEMMA PeriodCountIsNat ==
  ASSUME problem \in Problems, NEW xs \in SUBSET Lesson, NEW as
  PROVE  periodCount(xs, as) \in Nat
  <1>1. PICK f : f = [x \in LessonsIn(xs, as) |-> Cardinality(x.periods)]
    OBVIOUS
  <1>2. LessonsIn(xs, as) \subseteq xs
    BY DEF LessonsIn
  <1>3. IsFiniteSet(LessonsIn(xs, as)) /\ \A x \in LessonsIn(xs, as) : f[x] \in Nat
    BY <1>1, <1>2, FiniteTimetable, FS_Subset
  <1>4. periodCount(xs, as) = Total(f, LessonsIn(xs, as))
    BY <1>1 DEF periodCount, Total, MapThenSumSet, MapThenFoldSet
  <1> QED
    BY <1>3, <1>4, TotalIsNat

LEMMA UnscheduledIsTotal ==
  ASSUME NEW xs, NEW f, f = [a \in Assignments |->
                   WeeklyPeriods(a) - AtMost(WeeklyPeriods(a), periodCount(xs, {a}))]
  PROVE  unscheduled(xs) = Total(f, Assignments)
  BY DEF unscheduled, Total, MapThenSumSet, MapThenFoldSet

LEMMA UnscheduledIsNat ==
  ASSUME problem \in Problems, NEW xs \in SUBSET Lesson
  PROVE  unscheduled(xs) \in Nat
  <1>1. PICK f : f = [a \in Assignments |->
                   WeeklyPeriods(a) - AtMost(WeeklyPeriods(a), periodCount(xs, {a}))]
    OBVIOUS
  <1>2. unscheduled(xs) = Total(f, Assignments)
    BY <1>1, UnscheduledIsTotal
  <1>3. ASSUME NEW a \in Assignments
        PROVE  f[a] \in Nat
    <2>1. PICK w, n : /\ w = WeeklyPeriods(a) /\ n = periodCount(xs, {a})
                      /\ w \in Nat /\ n \in Nat
      BY FiniteProblem, PeriodCountIsNat
    <2>2. f[a] = w - AtMost(w, n)
      BY <1>1, <2>1
    <2> QED
      BY <2>1, <2>2 DEF AtMost
  <1> QED
    BY <1>2, <1>3, FiniteProblem, TotalIsNat

\* The number of clashes, summed over teachers, classes or resources.
LEMMA ClashesAreFinite ==
  ASSUME NEW xs, NEW as
  PROVE  Cardinality(Clashes(xs, as)) \in Nat
  BY FinitePeriods, FS_Subset, FS_CardinalityType DEF Clashes

LEMMA HardIsNat ==
  ASSUME problem \in Problems, NEW xs \in SUBSET Lesson
  PROVE  hardConflicts(xs) \in Nat
  <1> DEFINE away(x) == Cardinality(x.periods \cap problem.unavailable[TeacherID(x.assignment)])
             taught(t) == Cardinality(Clashes(xs, TaughtBy(t)))
             attended(c) == Cardinality(Clashes(xs, AttendedBy(c)))
             used(r) == Cardinality(Clashes(xs, Using(r)))
             busy(c) == UNION {x.periods : x \in LessonsIn(xs, AttendedBy(c))}
             gaps(c) == Cardinality((Periods \ busy(c)) \cup Clashes(xs, AttendedBy(c)))
  <1>1. PICK n1 : n1 = Cardinality({x \in xs : Misshapen(x)})
    OBVIOUS
  <1>2. PICK n2 : n2 = MapThenSumSet(LAMBDA x :
                Cardinality(x.periods \cap problem.unavailable[TeacherID(x.assignment)]), xs)
    OBVIOUS
  <1>3. PICK n3 : n3 = MapThenSumSet(LAMBDA t : Cardinality(Clashes(xs, TaughtBy(t))), Teachers)
    OBVIOUS
  <1>4. PICK n4 : n4 = MapThenSumSet(LAMBDA c : Cardinality(Clashes(xs, AttendedBy(c))), Cohorts)
    OBVIOUS
  <1>5. PICK n5 : n5 = MapThenSumSet(LAMBDA r : Cardinality(Clashes(xs, Using(r))), Resources)
    OBVIOUS
  <1>6. PICK n6 : n6 = Cardinality({a \in Assignments : periodCount(xs, {a}) # WeeklyPeriods(a)})
    OBVIOUS
  <1>7. PICK n7 : n7 = Cardinality({t \in Teachers : periodCount(xs, TaughtBy(t)) > capacity(t)})
    OBVIOUS
  <1>8. PICK n8 : n8 = MapThenSumSet(LAMBDA c : Cardinality((Periods \ busy(c))
                                       \cup Clashes(xs, AttendedBy(c))), Cohorts)
    OBVIOUS
  <1>9. hardConflicts(xs) =
          n1 + n2 + n3 + n4 + n5 + n6 + n7 + (IF ~problem.fullCoverage THEN 0 ELSE n8)
    BY <1>1, <1>2, <1>3, <1>4, <1>5, <1>6, <1>7, <1>8 DEF hardConflicts
  <1>10. /\ IsFiniteSet(xs) /\ IsFiniteSet(Assignments) /\ IsFiniteSet(Teachers)
         /\ IsFiniteSet(Cohorts) /\ IsFiniteSet(Resources)
    BY FiniteProblem, FiniteTimetable
  <1>11. n1 \in Nat /\ n6 \in Nat /\ n7 \in Nat
    BY <1>1, <1>6, <1>7, <1>10, FS_Subset, FS_CardinalityType
  <1>12. n2 \in Nat
    <2>1. PICK f : f = [x \in xs |-> away(x)]
      OBVIOUS
    <2>2. n2 = Total(f, xs)
      BY <1>2, <2>1 DEF Total, MapThenSumSet, MapThenFoldSet
    <2>3. \A x \in xs : f[x] \in Nat
      BY <2>1, FiniteTimetable, FS_Intersection, FS_Subset, FS_CardinalityType
    <2> QED
      BY <1>10, <2>2, <2>3, TotalIsNat
  <1>13. n3 \in Nat
    <2>1. PICK f : f = [t \in Teachers |-> taught(t)]
      OBVIOUS
    <2>2. n3 = Total(f, Teachers)
      BY <1>3, <2>1 DEF Total, MapThenSumSet, MapThenFoldSet
    <2> QED
      BY <1>10, <2>1, <2>2, ClashesAreFinite, TotalIsNat
  <1>14. n4 \in Nat
    <2>1. PICK f : f = [c \in Cohorts |-> attended(c)]
      OBVIOUS
    <2>2. n4 = Total(f, Cohorts)
      BY <1>4, <2>1 DEF Total, MapThenSumSet, MapThenFoldSet
    <2> QED
      BY <1>10, <2>1, <2>2, ClashesAreFinite, TotalIsNat
  <1>15. n5 \in Nat
    <2>1. PICK f : f = [r \in Resources |-> used(r)]
      OBVIOUS
    <2>2. n5 = Total(f, Resources)
      BY <1>5, <2>1 DEF Total, MapThenSumSet, MapThenFoldSet
    <2> QED
      BY <1>10, <2>1, <2>2, ClashesAreFinite, TotalIsNat
  <1>16. n8 \in Nat
    <2>1. PICK f : f = [c \in Cohorts |-> gaps(c)]
      OBVIOUS
    <2>2. n8 = Total(f, Cohorts)
      BY <1>8, <2>1 DEF Total, MapThenSumSet, MapThenFoldSet
    <2>3. \A c \in Cohorts : (Periods \ busy(c)) \cup Clashes(xs, AttendedBy(c)) \subseteq Periods
      BY DEF Clashes
    <2>4. \A c \in Cohorts : f[c] \in Nat
      BY <2>1, <2>3, FinitePeriods, FS_Subset, FS_CardinalityType
    <2> QED
      BY <1>10, <2>2, <2>4, TotalIsNat
  <1> QED
    BY <1>9, <1>11, <1>12, <1>13, <1>14, <1>15, <1>16

-----------------------------------------------------------------------------
(* The best attempt so far.                                                *)

\* What better compares are counts, and valid says that two of them are 0.
BestIsCounted ==
  best # None =>
    /\ best.unscheduled \in Nat
    /\ best.hard \in Nat
    /\ best.valid <=> best.hard = 0 /\ best.unscheduled = 0

Keeps == best # None => best'.unscheduled <= best.unscheduled /\ (best.valid => best'.valid)

LEMMA JudgeStep ==
  ASSUME IndInv, BestIsCounted, Judge
  PROVE  BestIsCounted' /\ Keeps
  <1>1. PICK v : v = ValidateSchedule(placements)
    OBVIOUS
  <1>2. PICK u, h : u = unscheduled(placements) /\ h = hardConflicts(placements)
    OBVIOUS
  <1>3. u \in Nat /\ h \in Nat
    BY <1>2, UnscheduledIsNat, HardIsNat DEF IndInv, Booked
  <1>4. v.unscheduled = u /\ v.hard = h /\ (v.valid <=> h = 0 /\ u = 0)
    BY <1>1, <1>2 DEF ValidateSchedule
  <1>5. best' = IF better(v) THEN v ELSE best
    BY <1>1 DEF Judge
  <1>6. BestIsCounted'
    <2>1. CASE better(v)
      BY <1>3, <1>4, <1>5, <2>1 DEF BestIsCounted
    <2>2. CASE ~better(v)
      BY <1>5, <2>2 DEF BestIsCounted
    <2> QED
      BY <2>1, <2>2
  <1>7. Keeps
    <2> SUFFICES ASSUME best # None
                 PROVE  best'.unscheduled <= best.unscheduled /\ (best.valid => best'.valid)
      BY DEF Keeps
    <2>1. /\ best.unscheduled \in Nat
          /\ best.hard \in Nat
          /\ best.valid <=> best.hard = 0 /\ best.unscheduled = 0
      BY DEF BestIsCounted
    <2>2. CASE ~better(v)
      BY <1>5, <2>1, <2>2
    <2>3. CASE better(v)
      <3>1. CASE u < best.unscheduled
        BY <1>3, <1>4, <1>5, <2>1, <2>3, <3>1
      <3>2. CASE u = best.unscheduled /\ h < best.hard
        BY <1>3, <1>4, <1>5, <2>1, <2>3, <3>2
      <3>3. CASE v.valid
        BY <1>3, <1>4, <1>5, <2>1, <2>3, <3>3
      <3> QED
        BY <1>4, <2>3, <3>1, <3>2, <3>3 DEF better
    <2> QED
      BY <2>2, <2>3
  <1> QED
    BY <1>6, <1>7

LEMMA BestStep ==
  ASSUME IndInv, BestIsCounted, [Next]_vars
  PROVE  BestIsCounted' /\ [Keeps]_vars
  <1>1. CASE Judge
    BY <1>1, JudgeStep
  <1>2. CASE best' = best
    <2>1. BestIsCounted'
      BY <1>2 DEF BestIsCounted
    <2>2. Keeps
      BY <1>2 DEF Keeps, BestIsCounted
    <2> QED
      BY <2>1, <2>2
  <1> QED
    BY <1>1, <1>2 DEF Next, Steps, solveAttempt, Pin, SkipPin, PlaceColor, PlaceMatching,
         NextPass, repairSingles, Leave, Return, budgetExceeded, Solved, vars

\* A restart never makes the result of Solve worse: better replaces the best
\* attempt only by one that schedules no less, and a valid one only by a valid
\* one.  It rests on the counts of the validator being natural numbers.
THEOREM BestIsKept == Spec => SolveKeepsBest
  <1>1. Init => BestIsCounted
    BY DEF Init, BestIsCounted
  <1>2. IndInv /\ BestIsCounted /\ [Next]_vars => BestIsCounted' /\ [Keeps]_vars
    BY BestStep
  <1> QED
    BY <1>1, <1>2, Invariance, PTL DEF Spec, SolveKeepsBest, Keeps

-----------------------------------------------------------------------------
(* Periods and double lessons of an assignment.                            *)

Size == [x \in Lesson |-> Cardinality(x.periods)]

\* The lessons of one assignment.
LessonsOf(xs, a) == {x \in xs : x.assignment = a}

LEMMA CountIsTotal ==
  ASSUME problem \in Problems, NEW xs \in SUBSET Lesson, NEW a
  PROVE  /\ periodCount(xs, {a}) = Total(Size, LessonsOf(xs, a))
         /\ Doubles(xs, a) = {x \in LessonsOf(xs, a) : x.double}
         /\ IsFiniteSet(LessonsOf(xs, a)) /\ LessonsOf(xs, a) \subseteq Lesson
         /\ IsFiniteSet(Doubles(xs, a))
         /\ \A x \in Lesson : Size[x] = Cardinality(x.periods) /\ Size[x] \in Int
  <1>1. LessonsIn(xs, {a}) = LessonsOf(xs, a)
    BY DEF LessonsIn, LessonsOf
  <1>2. PICK f : f = [x \in LessonsOf(xs, a) |-> Cardinality(x.periods)]
    OBVIOUS
  <1>3. periodCount(xs, {a}) = Total(f, LessonsOf(xs, a))
    BY <1>1, <1>2 DEF periodCount, Total, MapThenSumSet, MapThenFoldSet
  <1>4. IsFiniteSet(LessonsOf(xs, a)) /\ LessonsOf(xs, a) \subseteq Lesson
    <2>1. LessonsOf(xs, a) \subseteq xs
      BY DEF LessonsOf
    <2> QED
      BY <2>1, FiniteTimetable, FS_Subset
  <1>5. \A x \in LessonsOf(xs, a) : f[x] = Size[x]
    BY <1>2, <1>4 DEF Size
  <1>6. periodCount(xs, {a}) = Total(Size, LessonsOf(xs, a))
    BY <1>3, <1>4, <1>5, TotalSame
  <1>7. Doubles(xs, a) = {x \in LessonsOf(xs, a) : x.double}
    BY <1>1 DEF Doubles
  <1>8. IsFiniteSet(Doubles(xs, a))
    BY <1>4, <1>7, FS_Subset
  <1>9. \A x \in Lesson : Size[x] = Cardinality(x.periods) /\ Size[x] \in Int
    <2> TAKE x \in Lesson
    <2>1. {x} \in SUBSET Lesson /\ x \in {x}
      OBVIOUS
    <2>2. Cardinality(x.periods) \in Nat
      BY <2>1, FiniteTimetable
    <2> QED
      BY <2>2 DEF Size
  <1> QED
    BY <1>4, <1>6, <1>7, <1>8, <1>9

\* What one assignment gets when it is placed: the periods of the slot, and
\* at most one double lesson.
LEMMA LessonsCount ==
  ASSUME problem \in Problems, NEW a \in Assignments, NEW slot \in SUBSET Periods,
         NEW double \in BOOLEAN
  PROVE  LET xs == lessons(a, slot, double) IN
         /\ IsFiniteSet(xs) /\ xs \subseteq Lesson
         /\ Total(Size, xs) = Cardinality(slot)
         /\ Cardinality({x \in xs : x.double}) = IF double THEN 1 ELSE 0
  <1>1. IsFiniteSet(slot) /\ Cardinality(slot) \in Nat
    BY FinitePeriods, FS_Subset, FS_CardinalityType
  <1>2. CASE double
    <2>1. PICK x : x = [assignment |-> a, periods |-> slot, double |-> TRUE]
      OBVIOUS
    <2>2. x \in Lesson /\ x.periods = slot /\ x.double
      BY <2>1 DEF Lesson
    <2>3. lessons(a, slot, double) = {x}
      BY <1>2, <2>1 DEF lessons
    <2>4. IsFiniteSet({x}) /\ Cardinality({x}) = 1
      BY FS_Singleton
    <2>5. Total(Size, {x}) = Cardinality(slot)
      <3>1. Size[x] = Cardinality(slot) /\ Size[x] \in Int
        BY <1>1, <2>2 DEF Size
      <3>2. {x} \ {x} = {}
        OBVIOUS
      <3>3. Total(Size, {x}) = Size[x] + Total(Size, {x} \ {x})
        BY <2>4, <3>1, TotalRemove
      <3> QED
        BY <1>1, <3>1, <3>2, <3>3, TotalEmpty
    <2>6. {y \in {x} : y.double} = {x}
      BY <2>2
    <2> QED
      BY <1>2, <2>2, <2>3, <2>4, <2>5, <2>6
  <1>3. CASE ~double
    <2>1. PICK part : part = [p \in slot |-> [assignment |-> a, periods |-> {p}, double |-> FALSE]]
      OBVIOUS
    <2>2. \A p \in slot : part[p] \in Lesson
      BY <2>1 DEF Lesson
    <2>3. \A p \in slot : part[p].periods = {p} /\ part[p].double = FALSE
      BY <2>1
    <2> DEFINE xs == {part[p] : p \in slot}
    <2>4. lessons(a, slot, double) = xs
      BY <1>3, <2>1 DEF lessons
    <2>5. \A x \in xs : \E p \in slot : x = part[p]
      OBVIOUS
    <2>6. part \in Bijection(slot, xs)
      <3>1. part \in [slot -> xs] /\ \A x \in xs : \E p \in slot : part[p] = x
        BY <2>1
      <3>2. \A p, q \in slot : part[p] = part[q] => p = q
        BY <2>3
      <3> HIDE DEF xs
      <3> QED
        BY <3>1, <3>2 DEF Bijection, Injection, IsInjective, Surjection
    <2> HIDE DEF xs
    <2>7. IsFiniteSet(xs) /\ Cardinality(xs) = Cardinality(slot)
      <3>1. ExistsBijection(slot, xs)
        BY <2>6 DEF ExistsBijection
      <3> QED
        BY <1>1, <3>1, FS_Bijection
    <2>8. xs \subseteq Lesson
      BY <2>2, <2>5
    <2>9. \A x \in xs : Size[x] = 1
      <3> SUFFICES ASSUME NEW p \in slot PROVE Size[part[p]] = 1
        BY <2>5
      <3>1. Size[part[p]] = Cardinality({p})
        BY <2>2, <2>3 DEF Size
      <3> QED
        BY <3>1, FS_Singleton
    <2>10. Total(Size, xs) = Cardinality(slot)
      BY <2>7, <2>9, TotalOnes
    <2>11. {x \in xs : x.double} = {}
      BY <2>3, <2>5
    <2> QED
      BY <1>3, <2>4, <2>7, <2>8, <2>10, <2>11, FS_EmptySet
  <1> QED
    BY <1>2, <1>3

\* Placing gives every assignment of as the periods of the slot, and those of
\* twice a double lesson more; the others keep what they have.
LEMMA PlaceCounts ==
  ASSUME IndInv, NEW as \in SUBSET Assignments, NEW slot, slot # {}, NEW twice,
         fit(as, slot), place(as, slot, twice), NEW a \in Assignments
  PROVE  /\ placements' \in SUBSET Lesson =>
              periodCount(placements', {a}) =
                periodCount(placements, {a}) + (IF a \in as THEN Cardinality(slot) ELSE 0)
         /\ placements' \in SUBSET Lesson =>
              Cardinality(Doubles(placements', a)) =
                Cardinality(Doubles(placements, a)) + (IF a \in as \cap twice THEN 1 ELSE 0)
  <1> SUFFICES ASSUME placements' \in SUBSET Lesson
               PROVE  /\ periodCount(placements', {a}) =
                           periodCount(placements, {a}) + (IF a \in as THEN Cardinality(slot) ELSE 0)
                      /\ Cardinality(Doubles(placements', a)) =
                           Cardinality(Doubles(placements, a)) + (IF a \in as \cap twice THEN 1 ELSE 0)
    OBVIOUS
  <1>1. problem \in Problems /\ placements \in SUBSET Lesson /\ TeachersAgree(placements, teacherOcc)
    BY DEF IndInv, Booked
  <1>2. PICK old, new : old = LessonsOf(placements, a) /\ new = LessonsOf(placements', a)
    OBVIOUS
  <1>3. /\ IsFiniteSet(old) /\ old \subseteq Lesson /\ old \subseteq placements
        /\ periodCount(placements, {a}) = Total(Size, old)
        /\ periodCount(placements', {a}) = Total(Size, new)
        /\ Doubles(placements, a) = {x \in old : x.double}
        /\ Doubles(placements', a) = {x \in new : x.double}
        /\ IsFiniteSet({x \in old : x.double})
        /\ \A x \in Lesson : Size[x] \in Int
    <2>1. /\ IsFiniteSet(old) /\ old \subseteq Lesson
          /\ periodCount(placements, {a}) = Total(Size, old)
          /\ Doubles(placements, a) = {x \in old : x.double}
          /\ IsFiniteSet(Doubles(placements, a))
          /\ \A x \in Lesson : Size[x] \in Int
      BY <1>1, <1>2, CountIsTotal
    <2>2. /\ periodCount(placements', {a}) = Total(Size, new)
          /\ Doubles(placements', a) = {x \in new : x.double}
      BY <1>1, <1>2, CountIsTotal
    <2>3. old \subseteq placements
      BY <1>2 DEF LessonsOf
    <2> QED
      BY <2>1, <2>2, <2>3
  <1>4. Total(Size, old) \in Int /\ Cardinality({x \in old : x.double}) \in Nat
    BY <1>3, TotalIsInt, FS_CardinalityType
  <1> DEFINE its(b) == lessons(b, slot, b \in twice)
  <1>5. placements' = placements \cup UNION {its(b) : b \in as}
    BY DEF place
  <1>6. \A b : \A x \in its(b) : x.assignment = b
    <2> SUFFICES ASSUME NEW b, NEW x \in its(b) PROVE x.assignment = b
      OBVIOUS
    <2>1. x \in lessons(b, slot, TRUE) \/ x \in lessons(b, slot, FALSE)
      BY DEF lessons
    <2> QED
      BY <2>1, LessonsOfPlace
  <1> HIDE DEF its
  <1>7. new = old \cup (IF a \in as THEN its(a) ELSE {})
    <2>1. \A x \in placements' : x \in placements \/ \E b \in as : x \in its(b)
      BY <1>5
    <2>2. a \in as => its(a) \subseteq placements'
      BY <1>5
    <2>3. placements \subseteq placements'
      BY <1>5
    <2>4. CASE a \in as
      BY <1>2, <1>6, <2>1, <2>2, <2>3, <2>4 DEF LessonsOf
    <2>5. CASE a \notin as
      <3>1. \A x \in placements' : x.assignment = a => x \in placements
        BY <1>6, <2>1, <2>5
      <3>2. new = old
        BY <1>2, <2>3, <3>1 DEF LessonsOf
      <3> QED
        BY <2>5, <3>2
    <2> QED
      BY <2>4, <2>5
  <1>8. CASE a \notin as
    BY <1>3, <1>4, <1>7, <1>8
  <1>9. CASE a \in as
    <2>1. PICK double \in BOOLEAN : double <=> a \in twice
      <3>1. CASE a \in twice
        BY <3>1
      <3>2. CASE a \notin twice
        BY <3>2
      <3> QED
        BY <3>1, <3>2
    <2>2. PICK added : added = lessons(a, slot, double)
      OBVIOUS
    <2>3. its(a) = added
      BY <2>1, <2>2 DEF its, lessons
    <2>4. slot \in SUBSET Periods /\ slot \cap teacherOcc[TeacherID(a)] = {}
      BY <1>9 DEF fit, canPlace, AvailablePeriods
    <2>5. /\ IsFiniteSet(added) /\ added \subseteq Lesson
          /\ Total(Size, added) = Cardinality(slot)
          /\ Cardinality({x \in added : x.double}) = IF double THEN 1 ELSE 0
      BY <1>1, <2>2, <2>4, LessonsCount
    <2>6. \A x \in added : x.periods \subseteq slot /\ x.periods # {}
      <3>1. LET xs == lessons(a, slot, double) IN
              \A x \in xs : x.periods \subseteq slot /\ x.periods # {}
        BY LessonsOfPlace
      <3> QED
        BY <2>2, <3>1
    <2>7. TeacherID(a) \in Teachers
      BY <1>1, Closed
    <2>8. old \cap added = {}
      <3> SUFFICES ASSUME NEW x \in old, x \in added PROVE FALSE
        OBVIOUS
      <3>1. PICK p : p \in x.periods /\ p \in slot /\ p \in Periods
        BY <2>4, <2>6
      <3>2. x \in placements /\ x.assignment = a
        BY <1>2 DEF LessonsOf
      <3>3. p \in teacherOcc[TeacherID(a)]
        BY <1>1, <2>7, <3>1, <3>2 DEF TeachersAgree
      <3> QED
        BY <2>4, <3>1, <3>3
    <2>9. new = old \cup added
      BY <1>7, <1>9, <2>3
    <2>10. Total(Size, new) = Total(Size, old) + Cardinality(slot)
      <3>1. \A x \in old \cup added : Size[x] \in Int
        BY <1>3, <2>5
      <3>2. Total(Size, old \cup added) = Total(Size, old) + Total(Size, added)
        BY <1>3, <2>5, <2>8, <3>1, TotalUnion
      <3> QED
        BY <2>5, <2>9, <3>2
    <2>11. Cardinality({x \in new : x.double}) =
             Cardinality({x \in old : x.double}) + (IF a \in twice THEN 1 ELSE 0)
      <3>1. PICK d, e : d = {x \in old : x.double} /\ e = {x \in added : x.double}
        OBVIOUS
      <3>2. /\ {x \in new : x.double} = d \cup e /\ d \cap e = {}
            /\ IsFiniteSet(d) /\ IsFiniteSet(e)
        BY <1>3, <2>5, <2>8, <2>9, <3>1, FS_Subset
      <3>3. /\ Cardinality(d \cup e) = Cardinality(d) + Cardinality(e) - Cardinality(d \cap e)
            /\ Cardinality(d \cap e) = 0
        BY <3>2, FS_Union, FS_EmptySet
      <3>4. Cardinality(d) \in Nat /\ Cardinality(e) = IF a \in twice THEN 1 ELSE 0
        BY <1>4, <2>1, <2>5, <3>1
      <3>5. Cardinality(d \cup e) = Cardinality(d) + (IF a \in twice THEN 1 ELSE 0)
        BY <3>3, <3>4
      <3>6. Cardinality({x \in new : x.double}) = Cardinality(d \cup e)
        BY <3>2
      <3> QED
        BY <3>1, <3>5, <3>6
    <2> QED
      BY <1>3, <1>9, <2>10, <2>11
  <1> QED
    BY <1>8, <1>9

-----------------------------------------------------------------------------
(* What is still to be placed, in an attempt that keeps no earlier lesson. *)

\* The counters of an attempt, against its lessons.
Counted(xs, rest, due) ==
  /\ rest \in [Assignments -> Int] /\ due \in [Assignments -> Int]
  /\ \A a \in Assignments :
       /\ periodCount(xs, {a}) + rest[a] = WeeklyPeriods(a)
       /\ Cardinality(Doubles(xs, a)) + due[a] = DoubleBlocks(a)

\* Periods enough are left for the double lessons that are due.
RoomForDoubles(rest, due) == \A a \in Assignments : due[a] >= 0 /\ due[a] * 2 <= rest[a]

\* The lessons the colouring has not coloured are still to be placed.
UnitsAreDue(p, us, rest, due) ==
  /\ us \in [Assignments -> Nat]
  /\ \A a \in Assignments :
       /\ p = "paired" => us[a] * 2 <= rest[a]
       /\ p = "doubled" => us[a] <= due[a]
       /\ p = "colored" => us[a] <= rest[a] /\ (us[a] > 0 => due[a] = 0)

SlotPhases == ColorPhases \cup {"doubles", "singles"}

\* Past the preflight, the demand has room for its double lessons.
Demanded == \A a \in Assignments : DoubleBlocks(a) * 2 <= WeeklyPeriods(a)

Kept(p, xs, rest, due, us, slots) ==
  /\ Counted(xs, rest, due)
  /\ p # "INFEASIBLE" => Demanded /\ RoomForDoubles(rest, due)
  /\ UnitsAreDue(p, us, rest, due)
  /\ p \in SlotPhases => slots \subseteq SlotsOf(p)

DoublesKept ==
  problem.existing = {} =>
    pins = {} /\ Kept(phase, placements, remaining, doubles, units, todo)

LEMMA SlotSizes ==
  /\ \A slot \in adjacent : slot # {} /\ Cardinality(slot) = 2
  /\ \A slot \in singles : slot # {} /\ Cardinality(slot) = 1
  <1>1. ASSUME NEW slot \in adjacent
        PROVE  slot # {} /\ Cardinality(slot) = 2
    <2>1. PICK p \in Periods : slot = {p, p + 1}
      BY DEF adjacent
    <2>2. p + 1 \notin {p}
      BY DEF Periods
    <2>3. IsFiniteSet({p}) /\ Cardinality({p}) = 1
      BY FS_Singleton
    <2>4. Cardinality({p} \cup {p + 1}) = Cardinality({p}) + 1
      BY <2>2, <2>3, FS_AddElement
    <2>5. slot = {p} \cup {p + 1}
      BY <2>1
    <2> QED
      BY <2>1, <2>3, <2>4, <2>5
  <1>2. ASSUME NEW slot \in singles
        PROVE  slot # {} /\ Cardinality(slot) = 1
    <2>1. PICK p \in Periods : slot = {p}
      BY DEF singles
    <2> QED
      BY <2>1, FS_Singleton
  <1> QED
    BY <1>1, <1>2

LEMMA NothingCounts ==
  ASSUME problem \in Problems, NEW a \in Assignments
  PROVE  periodCount({}, {a}) = 0 /\ Cardinality(Doubles({}, a)) = 0
  <1>1. {} \in SUBSET Lesson /\ LessonsOf({}, a) = {} /\ Doubles({}, a) = {}
    BY DEF LessonsOf, Doubles, LessonsIn
  <1>2. periodCount({}, {a}) = Total(Size, LessonsOf({}, a))
    BY <1>1, CountIsTotal
  <1> QED
    BY <1>1, <1>2, TotalEmpty, FS_EmptySet

\* An attempt starts with all the demand.
LEMMA DemandIsCounted ==
  ASSUME problem \in Problems
  PROVE  Counted({}, [a \in Assignments |-> WeeklyPeriods(a)],
                     [a \in Assignments |-> DoubleBlocks(a)])
  <1>1. PICK rest, due : /\ rest = [a \in Assignments |-> WeeklyPeriods(a)]
                         /\ due = [a \in Assignments |-> DoubleBlocks(a)]
    OBVIOUS
  <1>2. rest \in [Assignments -> Int] /\ due \in [Assignments -> Int]
    BY <1>1, FiniteProblem
  <1>3. ASSUME NEW a \in Assignments
        PROVE  /\ periodCount({}, {a}) + rest[a] = WeeklyPeriods(a)
               /\ Cardinality(Doubles({}, a)) + due[a] = DoubleBlocks(a)
    <2>1. /\ rest[a] = WeeklyPeriods(a) /\ due[a] = DoubleBlocks(a)
          /\ rest[a] \in Int /\ due[a] \in Int
      BY <1>1, <1>2
    <2>2. periodCount({}, {a}) = 0 /\ Cardinality(Doubles({}, a)) = 0
      BY NothingCounts
    <2> QED
      BY <2>1, <2>2
  <1> QED
    BY <1>1, <1>2, <1>3 DEF Counted

\* Without lessons, all the demand is still to be placed.
LEMMA NothingPlaced ==
  ASSUME problem \in Problems, NEW rest, NEW due, Counted({}, rest, due), NEW a \in Assignments
  PROVE  rest[a] = WeeklyPeriods(a) /\ due[a] = DoubleBlocks(a)
  <1>1. /\ rest[a] \in Int /\ due[a] \in Int
        /\ periodCount({}, {a}) + rest[a] = WeeklyPeriods(a)
        /\ Cardinality(Doubles({}, a)) + due[a] = DoubleBlocks(a)
    BY DEF Counted
  <1>2. periodCount({}, {a}) = 0 /\ Cardinality(Doubles({}, a)) = 0
    BY NothingCounts
  <1> QED
    BY <1>1, <1>2

\* place keeps the counters in step with the lessons.
LEMMA PlaceIsCounted ==
  ASSUME IndInv, Counted(placements, remaining, doubles),
         NEW as \in SUBSET Assignments, NEW slot, slot # {}, Cardinality(slot) \in Nat,
         NEW twice, fit(as, slot), Matching(as), place(as, slot, twice)
  PROVE  Counted(placements', remaining', doubles')
  <1>1. problem \in Problems /\ placements' \in SUBSET Lesson /\ placements \in SUBSET Lesson
    BY PlaceIsSound DEF Booked, IndInv
  <1>0. PICK k \in Nat : k = Cardinality(slot)
    OBVIOUS
  <1>2. /\ remaining \in [Assignments -> Int] /\ doubles \in [Assignments -> Int]
        /\ remaining' = [a \in Assignments |->
             IF a \in as THEN remaining[a] - k ELSE remaining[a]]
        /\ doubles' = [a \in Assignments |->
             IF a \in as \cap twice THEN doubles[a] - 1 ELSE doubles[a]]
    BY <1>0 DEF Counted, place
  <1>3. remaining' \in [Assignments -> Int] /\ doubles' \in [Assignments -> Int]
    <2>1. ASSUME NEW a \in Assignments
          PROVE  /\ (IF a \in as THEN remaining[a] - k ELSE remaining[a]) \in Int
                 /\ (IF a \in as \cap twice THEN doubles[a] - 1 ELSE doubles[a]) \in Int
      <3>1. remaining[a] \in Int /\ doubles[a] \in Int
        BY <1>2
      <3>2. remaining[a] - k \in Int /\ doubles[a] - 1 \in Int
        BY <3>1
      <3> QED
        BY <3>1, <3>2
    <2> QED
      BY <1>2, <2>1
  <1>4. ASSUME NEW a \in Assignments
        PROVE  /\ periodCount(placements', {a}) + remaining'[a] = WeeklyPeriods(a)
               /\ Cardinality(Doubles(placements', a)) + doubles'[a] = DoubleBlocks(a)
    <2>1. PICK n, m : n = periodCount(placements, {a}) /\ m = Cardinality(Doubles(placements, a))
      OBVIOUS
    <2>2. n \in Nat /\ m \in Nat
      <3>1. IsFiniteSet(Doubles(placements, a))
        BY <1>1, CountIsTotal
      <3> QED
        BY <1>1, <2>1, <3>1, PeriodCountIsNat, FS_CardinalityType
    <2>3. n + remaining[a] = WeeklyPeriods(a) /\ m + doubles[a] = DoubleBlocks(a)
      BY <2>1 DEF Counted
    <2>4. /\ periodCount(placements', {a}) = n + (IF a \in as THEN k ELSE 0)
          /\ Cardinality(Doubles(placements', a)) = m + (IF a \in as \cap twice THEN 1 ELSE 0)
      BY <1>0, <1>1, <2>1, PlaceCounts
    <2>5. PICK r \in Int, d \in Int : r = remaining[a] /\ d = doubles[a]
      BY <1>2
    <2>6. /\ remaining'[a] = (IF a \in as THEN r - k ELSE r)
          /\ doubles'[a] = (IF a \in as \cap twice THEN d - 1 ELSE d)
      BY <1>2, <2>5
    <2>7. periodCount(placements', {a}) + remaining'[a] = n + r
      <3>1. CASE a \in as
        BY <2>2, <2>4, <2>6, <3>1
      <3>2. CASE a \notin as
        BY <2>2, <2>4, <2>6, <3>2
      <3> QED
        BY <3>1, <3>2
    <2>8. Cardinality(Doubles(placements', a)) + doubles'[a] = m + d
      <3>1. CASE a \in as \cap twice
        BY <2>2, <2>4, <2>6, <3>1
      <3>2. CASE ~(a \in as \cap twice)
        <4>1. Cardinality(Doubles(placements', a)) = m + 0 /\ doubles'[a] = d
          BY <2>4, <2>6, <3>2
        <4> QED
          BY <2>2, <4>1
      <3> QED
        BY <3>1, <3>2
    <2> QED
      BY <2>3, <2>5, <2>7, <2>8
  <1> QED
    BY <1>3, <1>4 DEF Counted

\* An exchange moves one single lesson and adds another.
LEMMA ExchangeIsCounted ==
  ASSUME IndInv, Counted(placements, remaining, doubles), repairSingles
  PROVE  /\ Counted(placements', remaining', doubles')
         /\ \E a \in Assignments : /\ remaining[a] > 0 /\ doubles[a] = 0
                                   /\ remaining' = [remaining EXCEPT ![a] = @ - 1]
  <1>1. PICK e \in exchanges :
          LET a == e.target
              x == e.blocking
              moved == [x EXCEPT !.periods = {e.hole}]
          IN /\ placements' = (placements \ {x}) \cup {moved} \cup lessons(a, x.periods, FALSE)
             /\ remaining' = [remaining EXCEPT ![a] = @ - 1]
    BY DEF repairSingles
  <1>2. PICK a, x, h, b : a = e.target /\ x = e.blocking /\ h = e.hole /\ b = x.assignment
    OBVIOUS
  <1>3. PICK moved : moved = [x EXCEPT !.periods = {h}]
    OBVIOUS
  <1>4. /\ placements' = (placements \ {x}) \cup {moved} \cup lessons(a, x.periods, FALSE)
        /\ remaining' = [remaining EXCEPT ![a] = @ - 1]
        /\ doubles' = doubles
    BY <1>1, <1>2, <1>3 DEF repairSingles
  <1>5. /\ a \in Assignments /\ x \in placements /\ h \in Periods
        /\ remaining[a] > 0 /\ doubles[a] = 0
        /\ ~x.double /\ Cardinality(x.periods) = 1
        /\ x.periods \cap teacherOcc[TeacherID(a)] = {}
        /\ h \notin teacherOcc[TeacherID(b)]
    <2>1. /\ e.target \in Assignments /\ e.blocking \in placements /\ e.hole \in Periods
          /\ remaining[e.target] > 0 /\ doubles[e.target] = 0
          /\ blocks(e.blocking, e.target)
          /\ e.blocking.periods \cap teacherOcc[TeacherID(e.target)] = {}
          /\ e.hole \notin teacherOcc[TeacherID(e.blocking.assignment)]
      BY DEF exchanges
    <2> QED
      BY <1>2, <2>1 DEF blocks
  <1>6. problem \in Problems /\ placements \in SUBSET Lesson /\ TeachersAgree(placements, teacherOcc)
    BY DEF IndInv, Booked
  <1>7. /\ x \in Lesson /\ b \in Assignments /\ x.periods \subseteq Periods
    BY <1>2, <1>5, <1>6 DEF Lesson
  <1>8. PICK q : q \in Periods /\ x.periods = {q}
    <2>1. IsFiniteSet(x.periods)
      BY <1>7, FinitePeriods, FS_Subset
    <2> QED
      BY <1>5, <1>7, <2>1, FS_Singleton
  <1>9. PICK put : put = [assignment |-> a, periods |-> {q}, double |-> FALSE]
    OBVIOUS
  <1>10. placements' = (placements \ {x}) \cup {moved} \cup {put}
    BY <1>4, <1>8, <1>9 DEF lessons
  <1>11. /\ put \in Lesson /\ put.assignment = a /\ put.periods = {q} /\ ~put.double
         /\ moved \in Lesson /\ moved.assignment = b /\ moved.periods = {h} /\ ~moved.double
    BY <1>2, <1>3, <1>5, <1>7, <1>8, <1>9 DEF Lesson
  <1>12. TeacherID(a) \in Teachers /\ TeacherID(b) \in Teachers
    BY <1>5, <1>6, <1>7, Closed
  <1>13. q \in teacherOcc[TeacherID(b)] /\ q \notin teacherOcc[TeacherID(a)]
    BY <1>2, <1>5, <1>6, <1>8, <1>12 DEF TeachersAgree
  <1>14. /\ \A y \in placements : y.assignment = a => q \notin y.periods
         /\ \A y \in placements : y.assignment = b => h \notin y.periods
    BY <1>5, <1>6, <1>8, <1>12, <1>13 DEF TeachersAgree
  <1>15. a # b /\ put \notin placements /\ moved \notin placements /\ put # moved
    BY <1>11, <1>13, <1>14
  <1>16. \A y \in Lesson : Size[y] = Cardinality(y.periods) /\ Size[y] \in Int
    BY <1>5, <1>6, CountIsTotal
  <1>17. Size[x] = 1 /\ Size[put] = 1 /\ Size[moved] = 1
    <2>1. Cardinality({q}) = 1 /\ Cardinality({h}) = 1
      BY FS_Singleton
    <2>2. Size[put] = Cardinality({q}) /\ Size[moved] = Cardinality({h})
      BY <1>11, <1>16
    <2>3. Size[x] = Cardinality(x.periods)
      BY <1>7, <1>16
    <2> QED
      BY <1>5, <2>1, <2>2, <2>3
  <1>18. placements' \in SUBSET Lesson
    BY <1>6, <1>10, <1>11
  <1>19. ASSUME NEW c \in Assignments
         PROVE  /\ periodCount(placements', {c}) =
                     periodCount(placements, {c}) + (IF c = a THEN 1 ELSE 0)
                /\ Doubles(placements', c) = Doubles(placements, c)
                /\ periodCount(placements, {c}) \in Int
    <2>1. PICK old, new : old = LessonsOf(placements, c) /\ new = LessonsOf(placements', c)
      OBVIOUS
    <2>2. /\ IsFiniteSet(old) /\ old \subseteq Lesson /\ old \subseteq placements
          /\ IsFiniteSet(new) /\ new \subseteq Lesson
          /\ periodCount(placements, {c}) = Total(Size, old)
          /\ periodCount(placements', {c}) = Total(Size, new)
          /\ Doubles(placements, c) = {y \in old : y.double}
          /\ Doubles(placements', c) = {y \in new : y.double}
      <3>1. /\ IsFiniteSet(old) /\ old \subseteq Lesson
            /\ periodCount(placements, {c}) = Total(Size, old)
            /\ Doubles(placements, c) = {y \in old : y.double}
        BY <1>6, <2>1, CountIsTotal
      <3>2. /\ IsFiniteSet(new) /\ new \subseteq Lesson
            /\ periodCount(placements', {c}) = Total(Size, new)
            /\ Doubles(placements', c) = {y \in new : y.double}
        BY <1>6, <1>18, <2>1, CountIsTotal
      <3>3. old \subseteq placements
        BY <2>1 DEF LessonsOf
      <3> QED
        BY <3>1, <3>2, <3>3
    <2>3. /\ \A y \in old : Size[y] \in Int
          /\ \A y \in new : Size[y] \in Int
      BY <1>16, <2>2
    <2>4. Total(Size, old) \in Int
      BY <2>2, <2>3, TotalIsInt
    <2>5. CASE c = a
      <3>1. new = old \cup {put} /\ put \notin old
        BY <1>2, <1>10, <1>11, <1>15, <2>1, <2>5 DEF LessonsOf
      <3>2. put \in new /\ new \ {put} = old
        BY <3>1
      <3>3. Total(Size, new) = Size[put] + Total(Size, new \ {put})
        BY <2>2, <2>3, <3>2, TotalRemove
      <3>4. {y \in new : y.double} = {y \in old : y.double}
        BY <1>11, <3>1
      <3> QED
        BY <1>17, <2>2, <2>4, <2>5, <3>2, <3>3, <3>4
    <2>6. CASE c = b
      <3>1. new = (old \ {x}) \cup {moved} /\ moved \notin old /\ x \in old
        BY <1>2, <1>5, <1>10, <1>11, <1>15, <2>1, <2>6 DEF LessonsOf
      <3>2. moved \in new /\ new \ {moved} = old \ {x}
        BY <3>1
      <3>3. /\ Total(Size, new) = Size[moved] + Total(Size, new \ {moved})
            /\ Total(Size, old) = Size[x] + Total(Size, old \ {x})
        BY <2>2, <2>3, <3>1, <3>2, TotalRemove
      <3>4. {y \in new : y.double} = {y \in old : y.double}
        BY <1>5, <1>11, <3>1
      <3>5. Total(Size, new) = Total(Size, old)
        BY <1>17, <3>2, <3>3
      <3> QED
        BY <1>15, <2>2, <2>4, <2>6, <3>4, <3>5
    <2>7. CASE c # a /\ c # b
      <3>1. new = old
        BY <1>2, <1>10, <1>11, <2>1, <2>7 DEF LessonsOf
      <3> QED
        BY <2>2, <2>4, <2>7, <3>1
    <2> QED
      BY <2>5, <2>6, <2>7
  <1>20. remaining \in [Assignments -> Int] /\ doubles \in [Assignments -> Int]
    BY DEF Counted
  <1>21. /\ remaining' \in [Assignments -> Int]
         /\ \A c \in Assignments :
              remaining'[c] = IF c = a THEN remaining[c] - 1 ELSE remaining[c]
    BY <1>4, <1>5, <1>20
  <1>22. ASSUME NEW c \in Assignments
         PROVE  /\ periodCount(placements', {c}) + remaining'[c] = WeeklyPeriods(c)
                /\ Cardinality(Doubles(placements', c)) + doubles'[c] = DoubleBlocks(c)
    <2>1. PICK n \in Int, r \in Int : n = periodCount(placements, {c}) /\ r = remaining[c]
      BY <1>19, <1>20
    <2>2. n + r = WeeklyPeriods(c) /\ Cardinality(Doubles(placements, c)) + doubles[c] = DoubleBlocks(c)
      BY <2>1 DEF Counted
    <2>3. /\ periodCount(placements', {c}) = n + (IF c = a THEN 1 ELSE 0)
          /\ remaining'[c] = IF c = a THEN r - 1 ELSE r
      BY <1>19, <1>21, <2>1
    <2>4. periodCount(placements', {c}) + remaining'[c] = n + r
      <3>1. CASE c = a
        BY <2>3, <3>1
      <3>2. CASE c # a
        BY <2>3, <3>2
      <3> QED
        BY <3>1, <3>2
    <2> QED
      BY <1>4, <1>19, <2>2, <2>4
  <1> QED
    BY <1>4, <1>5, <1>20, <1>21, <1>22 DEF Counted

\* The problem stays.
LEMMA KeptStays ==
  ASSUME problem' = problem, pins' = {},
         Kept(phase', placements', remaining', doubles', units', todo')
  PROVE  DoublesKept'
  <1>1. /\ Assignments' = Assignments
        /\ \A a : WeeklyPeriods(a)' = WeeklyPeriods(a) /\ DoubleBlocks(a)' = DoubleBlocks(a)
    BY DEF Assignments, WeeklyPeriods, DoubleBlocks
  <1>2. Counted(placements, remaining, doubles)'
    BY <1>1 DEF Kept, Counted
  <1>3. (phase # "INFEASIBLE" => Demanded /\ RoomForDoubles(remaining, doubles))'
    BY <1>1 DEF Kept, Demanded, RoomForDoubles
  <1>4. UnitsAreDue(phase, units, remaining, doubles)'
    BY <1>1 DEF Kept, UnitsAreDue
  <1>5. (phase \in SlotPhases => todo \subseteq SlotsOf(phase))'
    BY DEF Kept
  <1> QED
    BY <1>2, <1>3, <1>4, <1>5 DEF DoublesKept, Kept

\* What place leaves of the counters.
LEMMA PlaceLeaves ==
  ASSUME NEW as, NEW slot, NEW twice, place(as, slot, twice), NEW a \in Assignments
  PROVE  /\ remaining'[a] = IF a \in as THEN remaining[a] - Cardinality(slot) ELSE remaining[a]
         /\ doubles'[a] = IF a \in as \cap twice THEN doubles[a] - 1 ELSE doubles[a]
  BY DEF place

\* A colour takes only lessons that are still to be placed, and singles only
\* where no double is due.
LEMMA ColorKeepsDoubles ==
  ASSUME IndInv, Kept(phase, placements, remaining, doubles, units, todo), PlaceColor
  PROVE  Kept(phase', placements', remaining', doubles', units', todo')
  <1>1. PICK as \in colorClasses, slot \in todo :
          /\ \E bs \in Placed(as, slot) : place(bs, slot, twiceOf(bs))
          /\ units' = Less(units, as)
          /\ todo' = todo \ {slot}
    BY DEF PlaceColor
  <1>2. PICK bs \in Placed(as, slot) : place(bs, slot, twiceOf(bs))
    BY <1>1
  <1>3. PICK twice : twice = twiceOf(bs) /\ place(bs, slot, twice)
    BY <1>2
  <1>4. /\ Matching(bs) /\ fit(bs, slot) /\ bs \in SUBSET Assignments /\ bs \subseteq as
        /\ as \subseteq Assignments /\ \A a \in as : units[a] > 0
    BY MatchingPart DEF colorClasses, Placed
  <1>5. /\ phase \in ColorPhases /\ phase' = phase /\ phase # "INFEASIBLE" /\ phase \in SlotPhases
    BY DEF PlaceColor, ColorPhases, SlotPhases
  <1>6. /\ Counted(placements, remaining, doubles) /\ Demanded
        /\ RoomForDoubles(remaining, doubles)
        /\ UnitsAreDue(phase, units, remaining, doubles)
        /\ todo \subseteq SlotsOf(phase)
    BY <1>5 DEF Kept
  <1>7. PICK k \in Nat : /\ k = Cardinality(slot) /\ slot # {}
                         /\ k = IF phase = "colored" THEN 1 ELSE 2
    BY <1>5, <1>6, SlotSizes DEF SlotsOf, ColorPhases
  <1>8. Counted(placements', remaining', doubles')
    BY <1>3, <1>4, <1>6, <1>7, PlaceIsCounted
  <1>9. units \in [Assignments -> Nat]
    BY <1>6 DEF UnitsAreDue
  <1>10. /\ units' \in [Assignments -> Nat]
         /\ \A a \in Assignments : units'[a] = IF a \in as THEN units[a] - 1 ELSE units[a]
    <2>1. units' = [a \in Assignments |-> IF a \in as THEN units[a] - 1 ELSE units[a]]
      BY <1>1 DEF Less
    <2>2. ASSUME NEW a \in Assignments
          PROVE  (IF a \in as THEN units[a] - 1 ELSE units[a]) \in Nat
      <3>1. PICK u \in Nat : u = units[a]
        BY <1>9
      <3>2. CASE a \in as
        <4>1. u > 0
          BY <1>4, <3>1, <3>2
        <4>2. u - 1 \in Nat
          BY <4>1
        <4> QED
          BY <3>1, <3>2, <4>2
      <3>3. CASE a \notin as
        BY <3>1, <3>3
      <3> QED
        BY <3>2, <3>3
    <2> QED
      BY <2>1, <2>2
  <1>11. ASSUME NEW a \in Assignments
         PROVE  /\ doubles'[a] >= 0 /\ doubles'[a] * 2 <= remaining'[a]
                /\ phase = "paired" => units'[a] * 2 <= remaining'[a]
                /\ phase = "doubled" => units'[a] <= doubles'[a]
                /\ phase = "colored" => units'[a] <= remaining'[a] /\ (units'[a] > 0 => doubles'[a] = 0)
    <2>1. PICK r \in Int, d \in Int, u \in Nat : r = remaining[a] /\ d = doubles[a] /\ u = units[a]
      BY <1>6, <1>9 DEF Counted
    <2>2. /\ d >= 0 /\ d * 2 <= r
          /\ phase = "paired" => u * 2 <= r
          /\ phase = "doubled" => u <= d
          /\ phase = "colored" => u <= r /\ (u > 0 => d = 0)
      BY <1>6, <2>1 DEF RoomForDoubles, UnitsAreDue
    <2>3. PICK r1, d1, u1 : r1 = remaining'[a] /\ d1 = doubles'[a] /\ u1 = units'[a]
      OBVIOUS
    <2>4. /\ r1 = IF a \in bs THEN r - k ELSE r
          /\ d1 = IF a \in bs \cap twice THEN d - 1 ELSE d
          /\ u1 = IF a \in as THEN u - 1 ELSE u
      <3>1. /\ r1 = IF a \in bs THEN remaining[a] - Cardinality(slot) ELSE remaining[a]
            /\ d1 = IF a \in bs \cap twice THEN doubles[a] - 1 ELSE doubles[a]
        BY <1>3, <2>3, PlaceLeaves
      <3> QED
        BY <1>7, <1>10, <2>1, <2>3, <3>1
    <2>5. a \in as => u > 0
      BY <1>4, <2>1
    <2> SUFFICES /\ d1 >= 0 /\ d1 * 2 <= r1
                 /\ phase = "paired" => u1 * 2 <= r1
                 /\ phase = "doubled" => u1 <= d1
                 /\ phase = "colored" => u1 <= r1 /\ (u1 > 0 => d1 = 0)
      BY <2>3
    <2>6. CASE a \notin bs
      <3>1. r1 = r /\ d1 = d
        BY <2>4, <2>6
      <3>2. u1 <= u /\ u1 \in Nat
        <4>1. CASE a \in as
          BY <2>4, <2>5, <4>1
        <4>2. CASE a \notin as
          BY <2>4, <4>2
        <4> QED
          BY <4>1, <4>2
      <3> QED
        BY <2>2, <3>1, <3>2
    <2>7. CASE a \in bs
      <3>1. r1 = r - k /\ u1 = u - 1 /\ u > 0
        BY <1>4, <2>4, <2>5, <2>7
      <3>2. CASE phase = "paired"
        <4>1. k = 2 /\ (a \in bs \cap twice <=> d > 0)
          BY <1>3, <1>7, <2>1, <2>7, <3>2 DEF twiceOf
        <4>2. d > 0 => d1 = d - 1
          BY <2>4, <4>1
        <4>3. ~(d > 0) => d1 = d
          BY <2>4, <4>1
        <4> QED
          BY <2>2, <3>1, <3>2, <4>1, <4>2, <4>3
      <3>3. CASE phase = "doubled"
        <4>1. k = 2 /\ twice = bs
          BY <1>3, <1>7, <3>3 DEF twiceOf
        <4>2. d1 = d - 1
          BY <2>4, <2>7, <4>1
        <4> QED
          BY <2>2, <3>1, <3>3, <4>1, <4>2
      <3>4. CASE phase = "colored"
        <4>1. k = 1 /\ twice = {}
          BY <1>3, <1>7, <3>4 DEF twiceOf
        <4>2. d1 = d
          BY <2>4, <4>1
        <4> QED
          BY <2>2, <3>1, <3>4, <4>1, <4>2
      <3> QED
        BY <1>5, <3>2, <3>3, <3>4 DEF ColorPhases
    <2> QED
      BY <2>6, <2>7
  <1>12. RoomForDoubles(remaining', doubles')
    BY <1>11 DEF RoomForDoubles
  <1>13. UnitsAreDue(phase, units', remaining', doubles')
    BY <1>10, <1>11 DEF UnitsAreDue
  <1>14. todo' \subseteq SlotsOf(phase)
    BY <1>1, <1>6
  <1> QED
    BY <1>5, <1>6, <1>8, <1>12, <1>13, <1>14 DEF Kept

\* Outside the colouring only the counters matter.
LEMMA NoColoring ==
  ASSUME NEW p, p \notin ColorPhases, NEW us, NEW rest, NEW due, us \in [Assignments -> Nat]
  PROVE  UnitsAreDue(p, us, rest, due)
  BY DEF UnitsAreDue, ColorPhases

\* A pass places doubles that are due, or singles where no double is.
LEMMA MatchingKeepsDoubles ==
  ASSUME IndInv, Kept(phase, placements, remaining, doubles, units, todo), PlaceMatching
  PROVE  Kept(phase', placements', remaining', doubles', units', todo')
  <1>1. PICK slot \in todo :
          \E as \in maximumMatchings(candidateEdges(slot)) : \E bs \in Placed(as, slot) :
            /\ place(bs, slot, IF phase = "doubles" THEN bs ELSE {})
            /\ todo' = todo \ {slot}
    BY DEF PlaceMatching
  <1>2. PICK as \in maximumMatchings(candidateEdges(slot)) : \E bs \in Placed(as, slot) :
            /\ place(bs, slot, IF phase = "doubles" THEN bs ELSE {})
            /\ todo' = todo \ {slot}
    BY <1>1
  <1>3. PICK bs, twice :
          /\ bs \in Placed(as, slot)
          /\ place(bs, slot, twice) /\ todo' = todo \ {slot}
          /\ twice = IF phase = "doubles" THEN bs ELSE {}
    BY <1>2
  <1>4. /\ Matching(bs) /\ fit(bs, slot) /\ bs \in SUBSET Assignments
        /\ bs \subseteq candidateEdges(slot)
    BY <1>3, MatchingPart DEF maximumMatchings, candidateEdges, Placed
  <1>5. /\ phase \in {"doubles", "singles"} /\ phase' = phase /\ units' = units
        /\ phase # "INFEASIBLE" /\ phase \in SlotPhases /\ phase \notin ColorPhases
    BY DEF PlaceMatching, ColorPhases, SlotPhases
  <1>6. /\ Counted(placements, remaining, doubles) /\ Demanded
        /\ RoomForDoubles(remaining, doubles)
        /\ units \in [Assignments -> Nat]
        /\ todo \subseteq SlotsOf(phase)
    BY <1>5 DEF Kept, UnitsAreDue
  <1>7. PICK k \in Nat : /\ k = Cardinality(slot) /\ slot # {}
                         /\ k = IF phase = "doubles" THEN 2 ELSE 1
    BY <1>5, <1>6, SlotSizes DEF SlotsOf
  <1>8. Counted(placements', remaining', doubles')
    BY <1>3, <1>4, <1>6, <1>7, PlaceIsCounted
  <1>9. ASSUME NEW a \in Assignments
        PROVE  doubles'[a] >= 0 /\ doubles'[a] * 2 <= remaining'[a]
    <2>1. PICK r \in Int, d \in Int : r = remaining[a] /\ d = doubles[a]
      BY <1>6 DEF Counted
    <2>2. d >= 0 /\ d * 2 <= r
      BY <1>6, <2>1 DEF RoomForDoubles
    <2>3. PICK r1, d1 : r1 = remaining'[a] /\ d1 = doubles'[a]
      OBVIOUS
    <2>4. /\ r1 = IF a \in bs THEN r - k ELSE r
          /\ d1 = IF a \in bs \cap twice THEN d - 1 ELSE d
      <3>1. /\ r1 = IF a \in bs THEN remaining[a] - Cardinality(slot) ELSE remaining[a]
            /\ d1 = IF a \in bs \cap twice THEN doubles[a] - 1 ELSE doubles[a]
        BY <1>3, <2>3, PlaceLeaves
      <3> QED
        BY <1>7, <2>1, <3>1
    <2> SUFFICES d1 >= 0 /\ d1 * 2 <= r1
      BY <2>3
    <2>5. CASE a \notin bs
      <3>1. r1 = r /\ d1 = d
        BY <2>4, <2>5
      <3> QED
        BY <2>2, <3>1
    <2>6. CASE a \in bs
      <3>1. r1 = r - k
        BY <2>4, <2>6
      <3>2. CASE phase = "doubles"
        <4>1. k = 2 /\ twice = bs /\ d > 0
          BY <1>3, <1>4, <1>7, <2>1, <2>6, <3>2 DEF candidateEdges
        <4>2. d1 = d - 1
          BY <2>4, <2>6, <4>1
        <4> QED
          BY <2>2, <3>1, <4>1, <4>2
      <3>3. CASE phase # "doubles"
        <4>1. k = 1 /\ twice = {} /\ d <= 0 /\ r > 0
          BY <1>3, <1>4, <1>7, <2>1, <2>6, <3>3 DEF candidateEdges
        <4>2. d1 = d
          BY <2>4, <4>1
        <4> QED
          BY <2>2, <3>1, <4>1, <4>2
      <3> QED
        BY <3>2, <3>3
    <2> QED
      BY <2>5, <2>6
  <1>10. RoomForDoubles(remaining', doubles')
    BY <1>9 DEF RoomForDoubles
  <1>11. UnitsAreDue(phase', units', remaining', doubles')
    BY <1>5, <1>6, NoColoring
  <1>12. todo' \subseteq SlotsOf(phase)
    BY <1>3, <1>6
  <1> QED
    BY <1>5, <1>6, <1>8, <1>10, <1>11, <1>12 DEF Kept

\* An exchange places one more single lesson where no double is due.
LEMMA ExchangeKeepsDoubles ==
  ASSUME IndInv, Kept(phase, placements, remaining, doubles, units, todo), repairSingles
  PROVE  Kept(phase', placements', remaining', doubles', units', todo')
  <1>1. /\ phase = "repair" /\ phase' = phase /\ units' = units /\ doubles' = doubles
        /\ phase \notin ColorPhases /\ phase \notin SlotPhases
    BY DEF repairSingles, ColorPhases, SlotPhases
  <1>2. /\ Counted(placements, remaining, doubles) /\ Demanded
        /\ RoomForDoubles(remaining, doubles)
        /\ units \in [Assignments -> Nat]
    BY <1>1 DEF Kept, UnitsAreDue
  <1>3. PICK a \in Assignments : /\ remaining[a] > 0 /\ doubles[a] = 0
                                 /\ remaining' = [remaining EXCEPT ![a] = @ - 1]
    BY <1>2, ExchangeIsCounted
  <1>4. Counted(placements', remaining', doubles')
    BY <1>2, ExchangeIsCounted
  <1>5. ASSUME NEW c \in Assignments
        PROVE  doubles'[c] >= 0 /\ doubles'[c] * 2 <= remaining'[c]
    <2>1. PICK r \in Int, d \in Int : r = remaining[c] /\ d = doubles[c]
      BY <1>2 DEF Counted
    <2>2. d >= 0 /\ d * 2 <= r
      BY <1>2, <2>1 DEF RoomForDoubles
    <2>3. doubles'[c] = d /\ (c # a => remaining'[c] = r) /\ (c = a => remaining'[c] = r - 1)
      BY <1>1, <1>2, <1>3, <2>1 DEF Counted
    <2>4. c = a => r > 0 /\ d = 0
      BY <1>3, <2>1
    <2> QED
      BY <2>2, <2>3, <2>4
  <1>6. RoomForDoubles(remaining', doubles')
    BY <1>5 DEF RoomForDoubles
  <1>7. UnitsAreDue(phase', units', remaining', doubles')
    BY <1>1, <1>2, NoColoring
  <1> QED
    BY <1>1, <1>2, <1>4, <1>6, <1>7 DEF Kept

\* A colouring starts from an empty timetable, or has nothing to place.
LEMMA EnterKeepsDoubles ==
  ASSUME problem \in Problems, NEW p \in ColorPhases, EnterColoring(p),
         Counted(placements, remaining, doubles), RoomForDoubles(remaining, doubles)
  PROVE  UnitsAreDue(p, units', remaining, doubles)
  <1>1. PICK used \in BOOLEAN : used <=> usable(p) /\ delta(unitsOf(p)) <= Cardinality(SlotsOf(p))
    OBVIOUS
  <1>2. units' = IF used THEN unitsOf(p) ELSE [a \in Assignments |-> 0]
    BY <1>1 DEF EnterColoring
  <1>3. CASE ~used
    <2>1. units' = [a \in Assignments |-> 0]
      BY <1>2, <1>3
    <2>2. units' \in [Assignments -> Nat]
      BY <2>1
    <2>3. ASSUME NEW a \in Assignments
          PROVE  /\ units'[a] = 0 /\ 0 <= doubles[a] /\ 0 <= remaining[a]
      <3>1. PICK r \in Int, d \in Int : r = remaining[a] /\ d = doubles[a]
        BY DEF Counted
      <3>2. d >= 0 /\ d * 2 <= r
        BY <3>1 DEF RoomForDoubles
      <3>3. 0 <= d /\ 0 <= r
        BY <3>2
      <3> QED
        BY <2>1, <3>1, <3>3
    <2> QED
      BY <2>2, <2>3 DEF UnitsAreDue
  <1>4. CASE used
    <2>1. units' = unitsOf(p) /\ usable(p)
      BY <1>1, <1>2, <1>4
    <2>2. placements = {}
      BY <2>1 DEF usable, canUsePairedDemandColoring, canUseExactColoring
    <2>3. ASSUME NEW a \in Assignments
          PROVE  /\ units'[a] \in Nat
                 /\ p = "paired" => units'[a] * 2 <= remaining[a]
                 /\ p = "doubled" => units'[a] <= doubles[a]
                 /\ p = "colored" => units'[a] <= remaining[a] /\ (units'[a] > 0 => doubles[a] = 0)
      <3>1. PICK w \in Nat, d \in Nat : w = WeeklyPeriods(a) /\ d = DoubleBlocks(a)
        BY FiniteProblem
      <3>2. remaining[a] = w /\ doubles[a] = d
        BY <2>2, <3>1, NothingPlaced
      <3>3. CASE p = "paired"
        <4>1. units'[a] = w \div 2
          BY <2>1, <3>1, <3>3 DEF unitsOf
        <4>2. w \div 2 \in Nat /\ (w \div 2) * 2 <= w
          OBVIOUS
        <4> QED
          BY <3>2, <3>3, <4>1, <4>2
      <3>4. CASE p = "doubled"
        <4>1. units'[a] = d
          BY <2>1, <3>1, <3>4 DEF unitsOf
        <4> QED
          BY <3>2, <3>4, <4>1
      <3>5. CASE p = "colored"
        <4>1. units'[a] = w - d * 2
          BY <2>1, <3>1, <3>5 DEF unitsOf
        <4>2. d = 0
          BY <2>1, <3>1, <3>5 DEF usable, canUseExactColoring
        <4>3. units'[a] = w
          BY <4>1, <4>2
        <4> QED
          BY <3>2, <3>5, <4>2, <4>3
      <3> QED
        BY <3>3, <3>4, <3>5 DEF ColorPhases
    <2>4. units' = [a \in Assignments |-> units'[a]]
      <3> DEFINE demand(a) == CASE p = "paired" -> WeeklyPeriods(a) \div 2
                                [] p = "doubled" -> DoubleBlocks(a)
                                [] p = "colored" -> WeeklyPeriods(a) - DoubleBlocks(a) * 2
      <3>1. units' = [a \in Assignments |-> demand(a)]
        BY <2>1 DEF unitsOf
      <3> HIDE DEF demand
      <3> QED
        BY <3>1
    <2>5. units' \in [Assignments -> Nat]
      BY <2>3, <2>4
    <2> QED
      BY <2>3, <2>5 DEF UnitsAreDue
  <1> QED
    BY <1>3, <1>4

LEMMA LeaveKeepsDoubles ==
  ASSUME IndInv, Kept(phase, placements, remaining, doubles, units, todo), Leave
  PROVE  Kept(phase', placements', remaining', doubles', units', todo')
  <1>1. /\ phase \in DOMAIN after /\ phase' = after[phase]
        /\ placements' = placements /\ remaining' = remaining /\ doubles' = doubles
    BY DEF Leave
  <1>2. phase # "INFEASIBLE" /\ phase' # "INFEASIBLE"
    BY <1>1 DEF after
  <1>3. /\ Counted(placements, remaining, doubles) /\ Demanded
        /\ RoomForDoubles(remaining, doubles)
        /\ units \in [Assignments -> Nat]
    BY <1>2 DEF Kept, UnitsAreDue
  <1>4. CASE phase' \in ColorPhases
    <2>1. PICK p \in ColorPhases : p = phase'
      BY <1>4
    <2>2. EnterColoring(p) /\ todo' = SlotsOf(p)
      BY <1>4, <2>1 DEF Leave, EnterColoring
    <2>3. UnitsAreDue(p, units', remaining, doubles)
      BY <1>3, <2>2, EnterKeepsDoubles DEF IndInv
    <2> QED
      BY <1>1, <1>2, <1>3, <2>1, <2>2, <2>3 DEF Kept
  <1>5. CASE phase' \notin ColorPhases
    <2>1. /\ units' = units
          /\ todo' = IF phase' \in {"doubles", "singles"} /\ hasWork(phase')
                     THEN SlotsOf(phase') ELSE {}
      BY <1>5 DEF Leave
    <2>2. todo' \subseteq SlotsOf(phase')
      BY <2>1
    <2>3. UnitsAreDue(phase', units', remaining', doubles')
      BY <1>3, <1>5, <2>1, NoColoring
    <2> QED
      BY <1>1, <1>2, <1>3, <2>2, <2>3 DEF Kept
  <1> QED
    BY <1>4, <1>5

\* A step that leaves the lessons and counters alone, to a phase without slots.
LEMMA RestKeepsDoubles ==
  ASSUME Kept(phase, placements, remaining, doubles, units, todo),
         phase # "INFEASIBLE", phase' # "INFEASIBLE",
         phase' \notin SlotPhases, units' \in [Assignments -> Nat],
         UNCHANGED <<placements, remaining, doubles>>
  PROVE  Kept(phase', placements', remaining', doubles', units', todo')
  <1>1. phase' \notin ColorPhases
    BY DEF SlotPhases
  <1>2. UnitsAreDue(phase', units', remaining', doubles')
    BY <1>1, NoColoring
  <1> QED
    BY <1>2 DEF Kept

LEMMA DoublesInit == Init => DoublesKept
  <1> SUFFICES ASSUME Init, problem.existing = {}
               PROVE  pins = {} /\ Kept(phase, placements, remaining, doubles, units, todo)
    BY DEF DoublesKept
  <1>1. problem \in Problems /\ pins = {} /\ placements = {}
    BY DEF Init
  <1>2. Counted(placements, remaining, doubles)
    BY <1>1, DemandIsCounted DEF Init
  <1>3. phase \notin SlotPhases /\ phase \notin ColorPhases
    BY DEF Init, SlotPhases, ColorPhases
  <1>4. UnitsAreDue(phase, units, remaining, doubles)
    <2>1. units \in [Assignments -> Nat]
      BY DEF Init
    <2> QED
      BY <1>3, <2>1, NoColoring
  <1>5. phase # "INFEASIBLE" => Demanded
    BY DEF Init, AnalyzeFeasibility, Demanded
  <1>6. Demanded => RoomForDoubles(remaining, doubles)
    <2> SUFFICES ASSUME Demanded, NEW a \in Assignments
                 PROVE  doubles[a] >= 0 /\ doubles[a] * 2 <= remaining[a]
      BY DEF RoomForDoubles
    <2>1. DoubleBlocks(a) \in Nat
      BY <1>1, FiniteProblem
    <2>2. remaining[a] = WeeklyPeriods(a) /\ doubles[a] = DoubleBlocks(a)
      BY <1>1, <1>2, NothingPlaced
    <2>3. DoubleBlocks(a) >= 0
      BY <2>1
    <2> QED
      BY <2>2, <2>3 DEF Demanded
  <1> QED
    BY <1>1, <1>2, <1>3, <1>4, <1>5, <1>6 DEF Kept

LEMMA DoublesStep == IndInv /\ DoublesKept /\ [Next]_vars => DoublesKept'
  <1> SUFFICES ASSUME IndInv, DoublesKept, [Next]_vars
               PROVE  DoublesKept'
    OBVIOUS
  <1>0. problem' = problem
    BY DEF Next, Steps, solveAttempt, Pin, SkipPin, PlaceColor, PlaceMatching, NextPass,
           repairSingles, Leave, Judge, Return, budgetExceeded, Solved, vars
  <1>1. CASE problem.existing # {}
    BY <1>0, <1>1 DEF DoublesKept
  <1>2. CASE problem.existing = {}
    <2>1. pins = {} /\ Kept(phase, placements, remaining, doubles, units, todo)
      BY <1>2 DEF DoublesKept
    <2>2. units \in [Assignments -> Nat] /\ problem \in Problems
      BY <2>1 DEF Kept, UnitsAreDue, IndInv
    <2> SUFFICES pins' = {} /\ Kept(phase', placements', remaining', doubles', units', todo')
      BY <1>0, KeptStays
    <2>3. CASE solveAttempt
      <3>1. /\ phase # "INFEASIBLE" /\ phase' = "pin" /\ pins' = {} /\ placements' = {}
            /\ remaining' = [a \in Assignments |-> WeeklyPeriods(a)]
            /\ doubles' = [a \in Assignments |-> DoubleBlocks(a)]
            /\ units' = units
        BY <1>2, <2>3 DEF solveAttempt
      <3>2. Counted(placements', remaining', doubles')
        BY <2>2, <3>1, DemandIsCounted
      <3>3. Demanded
        BY <2>1, <3>1 DEF Kept
      <3>4. RoomForDoubles(remaining', doubles')
        <4> SUFFICES ASSUME NEW a \in Assignments
                     PROVE  doubles'[a] >= 0 /\ doubles'[a] * 2 <= remaining'[a]
          BY DEF RoomForDoubles
        <4>1. DoubleBlocks(a) \in Nat
          BY <2>2, FiniteProblem
        <4>2. remaining'[a] = WeeklyPeriods(a) /\ doubles'[a] = DoubleBlocks(a)
          BY <3>1
        <4>3. DoubleBlocks(a) >= 0
          BY <4>1
        <4> QED
          BY <3>3, <4>2, <4>3 DEF Demanded
      <3>5. phase' \notin ColorPhases /\ phase' \notin SlotPhases
        BY <3>1 DEF ColorPhases, SlotPhases
      <3>6. UnitsAreDue(phase', units', remaining', doubles')
        BY <2>2, <3>1, <3>5, NoColoring
      <3> QED
        BY <3>1, <3>2, <3>3, <3>4, <3>5, <3>6 DEF Kept
    <2>4. CASE PlaceColor
      BY <2>1, <2>4, ColorKeepsDoubles DEF PlaceColor
    <2>5. CASE PlaceMatching
      BY <2>1, <2>5, MatchingKeepsDoubles DEF PlaceMatching
    <2>6. CASE repairSingles
      BY <2>1, <2>6, ExchangeKeepsDoubles DEF repairSingles
    <2>7. CASE Leave
      BY <2>1, <2>7, LeaveKeepsDoubles DEF Leave
    <2>8. CASE NextPass
      BY <2>1, <2>8 DEF NextPass, Kept
    <2>9. CASE Judge
      <3>1. /\ phase # "INFEASIBLE" /\ phase' # "INFEASIBLE" /\ phase' \notin SlotPhases
            /\ pins' = pins /\ units' = units /\ UNCHANGED <<placements, remaining, doubles>>
        BY <2>9 DEF Judge, attempt, SlotPhases, ColorPhases
      <3> QED
        BY <2>1, <2>2, <3>1, RestKeepsDoubles
    <2>10. CASE Return
      <3>1. PICK late \in BOOLEAN : phase' = statusOf(late)
        BY <2>10 DEF Return
      <3>2. phase' \in Statuses \ {"INFEASIBLE"}
        BY <3>1 DEF statusOf, Statuses
      <3>3. phase' # "INFEASIBLE" /\ phase' \notin SlotPhases
        BY <3>2 DEF Statuses, SlotPhases, ColorPhases
      <3>4. /\ phase # "INFEASIBLE"
            /\ pins' = pins /\ units' = units /\ UNCHANGED <<placements, remaining, doubles>>
        BY <2>10 DEF Return, attempt
      <3> QED
        BY <2>1, <2>2, <3>3, <3>4, RestKeepsDoubles
    <2>11. CASE budgetExceeded
      <3>1. phase # "INFEASIBLE"
        BY <2>11 DEF budgetExceeded, budgetChecked, ColorPhases
      <3>2. /\ phase' # "INFEASIBLE" /\ phase' \notin SlotPhases
            /\ pins' = pins /\ UNCHANGED <<placements, remaining, doubles>>
            /\ units' \in [Assignments -> Nat]
        BY <2>11 DEF budgetExceeded, SlotPhases, ColorPhases
      <3> QED
        BY <2>1, <3>1, <3>2, RestKeepsDoubles
    <2>12. CASE UNCHANGED vars
      BY <2>1, <2>12 DEF vars, attempt
    <2> QED
      BY <2>1, <2>3, <2>4, <2>5, <2>6, <2>7, <2>8, <2>9, <2>10, <2>11, <2>12
         DEF Next, Steps, Solved
  <1> QED
    BY <1>1, <1>2

\* No assignment is short of a lesson when nothing is unscheduled.
LEMMA NothingUnscheduled ==
  ASSUME problem \in Problems, NEW xs \in SUBSET Lesson, unscheduled(xs) = 0,
         NEW a \in Assignments
  PROVE  periodCount(xs, {a}) >= WeeklyPeriods(a)
  <1>1. PICK f : f = [b \in Assignments |->
                   WeeklyPeriods(b) - AtMost(WeeklyPeriods(b), periodCount(xs, {b}))]
    OBVIOUS
  <1>2. Total(f, Assignments) = 0
    BY <1>1, UnscheduledIsTotal
  <1>3. ASSUME NEW b \in Assignments
        PROVE  f[b] \in Nat
    <2>1. PICK w, n : /\ w = WeeklyPeriods(b) /\ n = periodCount(xs, {b})
                      /\ w \in Nat /\ n \in Nat
      BY FiniteProblem, PeriodCountIsNat
    <2>2. f[b] = w - AtMost(w, n)
      BY <1>1, <2>1
    <2> QED
      BY <2>1, <2>2 DEF AtMost
  <1>4. IsFiniteSet(Assignments) /\ IsFiniteSet(Assignments \ {a})
    BY FiniteProblem, FS_Subset
  <1>5. Total(f, Assignments \ {a}) \in Nat
    BY <1>3, <1>4, TotalIsNat
  <1>6. \A b \in Assignments : f[b] \in Int
    BY <1>3
  <1>7. Total(f, Assignments) = f[a] + Total(f, Assignments \ {a})
    BY <1>4, <1>6, TotalRemove
  <1>8. f[a] = 0
    BY <1>2, <1>3, <1>5, <1>7
  <1>9. PICK w, n : /\ w = WeeklyPeriods(a) /\ n = periodCount(xs, {a})
                    /\ w \in Nat /\ n \in Nat
    BY FiniteProblem, PeriodCountIsNat
  <1>10. w - AtMost(w, n) = 0
    BY <1>1, <1>8, <1>9
  <1> QED
    BY <1>9, <1>10 DEF AtMost

\* All periods placed leaves no double lesson due.
LEMMA KeptIsEnough == IndInv /\ DoublesKept => CompleteKeepsDoubles
  <1> SUFFICES ASSUME IndInv, DoublesKept, phase = "judge",
                      ValidateSchedule(placements).valid, problem.existing = {},
                      NEW a \in Assignments
               PROVE  Cardinality(Doubles(placements, a)) = DoubleBlocks(a)
    BY DEF CompleteKeepsDoubles
  <1>1. unscheduled(placements) = 0
    BY DEF ValidateSchedule
  <1>2. problem \in Problems /\ placements \in SUBSET Lesson
    BY DEF IndInv, Booked
  <1>3. Counted(placements, remaining, doubles) /\ RoomForDoubles(remaining, doubles)
    BY DEF DoublesKept, Kept
  <1>4. PICK n, m : n = periodCount(placements, {a}) /\ m = Cardinality(Doubles(placements, a))
    OBVIOUS
  <1>5. n \in Nat /\ m \in Nat
    <2>1. IsFiniteSet(Doubles(placements, a))
      BY <1>2, CountIsTotal
    <2> QED
      BY <1>2, <1>4, <2>1, PeriodCountIsNat, FS_CardinalityType
  <1>6. PICK r \in Int, d \in Int : r = remaining[a] /\ d = doubles[a]
    BY <1>3 DEF Counted
  <1>7. n + r = WeeklyPeriods(a) /\ m + d = DoubleBlocks(a)
    BY <1>3, <1>4, <1>6 DEF Counted
  <1>8. d >= 0 /\ d * 2 <= r
    BY <1>3, <1>6 DEF RoomForDoubles
  <1>9. n >= WeeklyPeriods(a)
    BY <1>1, <1>2, <1>4, NothingUnscheduled
  <1>10. d = 0
    BY <1>5, <1>7, <1>8, <1>9
  <1>11. m = DoubleBlocks(a)
    BY <1>5, <1>7, <1>10
  <1> QED
    BY <1>4, <1>11

\* Whatever order the slots and matchings come in, an attempt that validates
\* has every double lesson that was asked for, although the validator counts
\* periods only (engine.go: candidateEdges, the colourings, repairSingles).
THEOREM CompleteHasDoubles == Spec => []CompleteKeepsDoubles
  <1>1. Spec => []DoublesKept
    BY Invariance, DoublesInit, DoublesStep, PTL DEF Spec
  <1> QED
    BY <1>1, Invariance, KeptIsEnough, PTL

-----------------------------------------------------------------------------
(* The preflight refuses only what has no plan.                            *)

\* Sets without a common element: their sizes add up.
LEMMA SizesAddUp ==
  ASSUME NEW D, IsFiniteSet(D), NEW part, \A a \in D : IsFiniteSet(part[a]),
         \A a, b \in D : a # b => part[a] \cap part[b] = {},
         NEW f, \A a \in D : f[a] = Cardinality(part[a])
  PROVE  /\ IsFiniteSet(UNION {part[a] : a \in D})
         /\ Cardinality(UNION {part[a] : a \in D}) = Total(f, D)
  <1> DEFINE all(r) == UNION {part[a] : a \in r}
             Bad == {r \in SUBSET D : ~(IsFiniteSet(all(r)) /\ Cardinality(all(r)) = Total(f, r))}
  <1> SUFFICES ASSUME D \in Bad PROVE FALSE
    OBVIOUS
  <1>1. PICK r \in Bad : \A q \in Bad : q \subseteq r => q = r
    <2>1. Bad \in SUBSET SUBSET D /\ Bad # {}
      OBVIOUS
    <2> HIDE DEF Bad
    <2> QED
      BY <2>1, SmallestSubset
  <1>2. r # {}
    <2> SUFFICES ASSUME r = {} PROVE FALSE
      OBVIOUS
    <2>1. all(r) = {} /\ Total(f, {}) = 0
      BY TotalEmpty
    <2> QED
      BY <1>1, <2>1, FS_EmptySet
  <1>3. PICK a : a \in r
    BY <1>2
  <1>4. r \in SUBSET D /\ IsFiniteSet(r) /\ r \ {a} \notin Bad /\ r \ {a} \in SUBSET D
    BY SMTT(30), <1>1, <1>3, FS_Subset
  <1>5. PICK rest : rest = all(r \ {a})
    OBVIOUS
  <1>6. IsFiniteSet(rest) /\ Cardinality(rest) = Total(f, r \ {a})
    BY <1>4, <1>5
  <1>7. PICK own, whole : own = part[a] /\ whole = all(r)
    OBVIOUS
  <1>8. whole = rest \cup own /\ rest \cap own = {}
    <2>1. all(r) = rest \cup part[a]
      BY <1>3, <1>5
    <2>2. rest \cap part[a] = {}
      BY <1>3, <1>4, <1>5
    <2> QED
      BY <1>7, <2>1, <2>2
  <1>9. IsFiniteSet(own) /\ f[a] = Cardinality(own)
    BY <1>3, <1>4, <1>7
  <1>10. /\ IsFiniteSet(whole)
         /\ Cardinality(whole) = Cardinality(rest) + Cardinality(own) - Cardinality({})
    BY <1>6, <1>8, <1>9, FS_Union
  <1>11. \A b \in r : f[b] \in Int
    BY <1>4, FS_CardinalityType
  <1>12. Total(f, r) = f[a] + Total(f, r \ {a})
    BY <1>3, <1>4, <1>11, TotalRemove
  <1>13. PICK m, n : m = Cardinality(rest) /\ n = Cardinality(own) /\ m \in Nat /\ n \in Nat
    BY <1>6, <1>9, FS_CardinalityType
  <1>14. Cardinality(whole) = (m + n) - 0 /\ Total(f, r) = n + m
    BY <1>6, <1>9, <1>10, <1>12, <1>13, FS_EmptySet
  <1>15. Cardinality(whole) = Total(f, r)
    BY <1>13, <1>14
  <1> QED
    BY <1>1, <1>7, <1>10, <1>15

LEMMA TotalAtMost ==
  ASSUME NEW f, NEW g, NEW S, IsFiniteSet(S),
         \A x \in S : f[x] \in Int /\ g[x] \in Int /\ f[x] <= g[x]
  PROVE  Total(f, S) <= Total(g, S)
  <1> DEFINE Bad == {r \in SUBSET S : ~(Total(f, r) <= Total(g, r))}
  <1> SUFFICES ASSUME S \in Bad PROVE FALSE
    OBVIOUS
  <1>1. PICK r \in Bad : \A q \in Bad : q \subseteq r => q = r
    <2>1. Bad \in SUBSET SUBSET S /\ Bad # {}
      OBVIOUS
    <2> HIDE DEF Bad
    <2> QED
      BY <2>1, SmallestSubset
  <1>2. r # {}
    <2> SUFFICES ASSUME r = {} PROVE FALSE
      OBVIOUS
    <2>1. Total(f, r) = 0 /\ Total(g, r) = 0
      BY TotalEmpty
    <2> QED
      BY <1>1, <2>1
  <1>3. PICK x : x \in r
    BY <1>2
  <1>4. /\ r \in SUBSET S /\ IsFiniteSet(r) /\ r \ {x} \notin Bad /\ r \ {x} \in SUBSET S
        /\ IsFiniteSet(r \ {x})
    BY <1>1, <1>3, FS_Subset
  <1>5. Total(f, r \ {x}) <= Total(g, r \ {x})
    BY <1>4
  <1>6. /\ Total(f, r) = f[x] + Total(f, r \ {x})
        /\ Total(g, r) = g[x] + Total(g, r \ {x})
    BY <1>3, <1>4, TotalRemove
  <1>7. PICK a, b, m, n : /\ a = f[x] /\ b = g[x] /\ a \in Int /\ b \in Int /\ a <= b
                          /\ m = Total(f, r \ {x}) /\ n = Total(g, r \ {x})
                          /\ m \in Int /\ n \in Int
    BY <1>3, <1>4, TotalIsInt
  <1>8. Total(f, r) = a + m /\ Total(g, r) = b + n /\ m <= n
    BY <1>5, <1>6, <1>7
  <1>9. Total(f, r) <= Total(g, r)
    BY <1>7, <1>8
  <1> QED
    BY <1>1, <1>9

\* A set split into parts.
Splits(part, S, D) ==
  /\ \A t \in D : part[t] \subseteq S
  /\ \A x \in S : \E t \in D : x \in part[t]
  /\ \A t, u \in D : t # u => part[t] \cap part[u] = {}

PartSums(sum, f, part, D) == \A t \in D : sum[t] = Total(f, part[t])

\* A sum taken part by part.
LEMMA TotalByPart ==
  ASSUME NEW S, IsFiniteSet(S), NEW f, \A x \in S : f[x] \in Int,
         NEW D, IsFiniteSet(D), NEW part, Splits(part, S, D),
         NEW sum, PartSums(sum, f, part, D)
  PROVE  Total(f, S) = Total(sum, D) /\ \A t \in D : sum[t] \in Int
  <1> DEFINE of(r) == UNION {part[t] : t \in r}
             Bad == {r \in SUBSET D : Total(f, of(r)) # Total(sum, r)}
  <1>8. \A t \in D : sum[t] \in Int
    <2> TAKE t \in D
    <2>1. PICK s : s = part[t]
      OBVIOUS
    <2>2. s \subseteq S /\ IsFiniteSet(s)
      BY <2>1, FS_Subset DEF Splits
    <2>3. Total(f, s) \in Int
      BY <2>2, TotalIsInt
    <2> QED
      BY <2>1, <2>3 DEF PartSums
  <1>0. of(D) = S
    BY DEF Splits
  <1> SUFFICES ASSUME D \in Bad PROVE FALSE
    BY <1>0, <1>8
  <1>1. PICK r \in Bad : \A q \in Bad : q \subseteq r => q = r
    <2>1. Bad \in SUBSET SUBSET D /\ Bad # {}
      OBVIOUS
    <2> HIDE DEF Bad
    <2> QED
      BY <2>1, SmallestSubset
  <1>2. r # {}
    <2> SUFFICES ASSUME r = {} PROVE FALSE
      OBVIOUS
    <2>1. of(r) = {} /\ Total(f, {}) = 0 /\ Total(sum, {}) = 0
      BY TotalEmpty
    <2> QED
      BY <1>1, <2>1
  <1>3. PICK t : t \in r
    BY <1>2
  <1>4. r \in SUBSET D /\ IsFiniteSet(r) /\ r \ {t} \notin Bad /\ r \ {t} \in SUBSET D
    BY <1>1, <1>3, FS_Subset
  <1>5. Total(f, of(r \ {t})) = Total(sum, r \ {t})
    BY <1>4
  <1>6. PICK s1, s2 : s1 = of(r \ {t}) /\ s2 = part[t]
    OBVIOUS
  <1>7. /\ of(r) = s1 \cup s2 /\ s1 \cap s2 = {}
        /\ IsFiniteSet(s1) /\ IsFiniteSet(s2) /\ \A x \in s1 \cup s2 : f[x] \in Int
    <2>1. of(r) = s1 \cup s2 /\ s1 \cap s2 = {} /\ s1 \subseteq S /\ s2 \subseteq S
      BY <1>3, <1>4, <1>6 DEF Splits
    <2> QED
      BY <2>1, FS_Subset
  <1>9. Total(f, s1 \cup s2) = Total(f, s1) + Total(f, s2)
    BY <1>7, TotalUnion
  <1>10. sum[t] = Total(f, s2) /\ sum[t] \in Int /\ \A u \in r : sum[u] \in Int
    BY <1>3, <1>4, <1>6, <1>8 DEF PartSums
  <1>11. Total(sum, r) = sum[t] + Total(sum, r \ {t})
    BY <1>3, <1>4, <1>10, TotalRemove
  <1>12. Total(sum, r \ {t}) \in Int
    <2>1. IsFiniteSet(r \ {t})
      BY <1>4, FS_Subset
    <2> QED
      BY <1>10, <2>1, TotalIsInt
  <1>13. PICK m, n : m = sum[t] /\ n = Total(sum, r \ {t}) /\ m \in Int /\ n \in Int
    BY <1>10, <1>12
  <1>14. Total(f, of(r)) = n + m /\ Total(sum, r) = m + n
    BY <1>5, <1>6, <1>7, <1>9, <1>10, <1>11, <1>13
  <1> QED
    BY <1>1, <1>13, <1>14

LEMMA LeastExists ==
  ASSUME NEW n \in Nat, NEW S \in SUBSET (1..n), S # {}
  PROVE  \E r \in S : \A q \in S : r <= q
  <1> DEFINE T == {1..r : r \in S}
  <1>1. T \in SUBSET SUBSET (1..n) /\ T # {}
    <2>1. PICK r \in S : TRUE
      OBVIOUS
    <2>2. 1..r \in T
      OBVIOUS
    <2>3. T \subseteq SUBSET (1..n)
      OBVIOUS
    <2> QED
      BY <2>2, <2>3
  <1>2. IsFiniteSet(1..n)
    BY FS_Interval
  <1>3. PICK s \in T : \A q \in T : q \subseteq s => q = s
    <2> HIDE DEF T
    <2>1. PICK base : base = 1..n
      OBVIOUS
    <2>2. IsFiniteSet(base) /\ T \in SUBSET SUBSET base /\ T # {}
      BY <1>1, <1>2, <2>1
    <2> QED
      BY <2>2, SmallestSubset
  <1>4. PICK r \in S : s = 1..r
    BY <1>3
  <1>5. ASSUME NEW q \in S PROVE r <= q
    <2> SUFFICES ASSUME ~(r <= q) PROVE FALSE
      OBVIOUS
    <2>1. r \in 1..n /\ q \in 1..n /\ q < r
      OBVIOUS
    <2>2. 1..q \subseteq 1..r /\ r \in 1..r /\ r \notin 1..q
      BY <2>1
    <2>3. 1..q \in T
      OBVIOUS
    <2>4. 1..q = 1..r
      BY <1>3, <1>4, <2>2, <2>3
    <2> QED
      BY <2>2, <2>4
  <1> QED
    BY <1>5

\* Where the greedy cut begins a pair: an even distance after the beginning of
\* the run of periods that can begin one.
Cut(u, p) ==
  \E r \in 1..p : (\A q \in r..p : q \in u) /\ r - 1 \notin u /\ (p - r) % 2 = 0

LEMMA CutRule ==
  ASSUME NEW u, u \subseteq 1..(NumPeriods - 1), NEW p \in Nat
  PROVE  Cut(u, p) <=> p \in u /\ ~Cut(u, p - 1)
  <1>1. ASSUME Cut(u, p), Cut(u, p - 1) PROVE FALSE
    <2>1. PICK r \in 1..p : (\A q \in r..p : q \in u) /\ r - 1 \notin u /\ (p - r) % 2 = 0
      BY <1>1 DEF Cut
    <2>2. PICK s \in 1..(p - 1) : (\A q \in s..(p - 1) : q \in u) /\ s - 1 \notin u
                                  /\ ((p - 1) - s) % 2 = 0
      BY <1>1 DEF Cut
    <2>3. r # p
      BY <2>1, <2>2
    <2>4. ~(r < s)
      <3> SUFFICES ASSUME r < s PROVE FALSE
        OBVIOUS
      <3>1. s - 1 \in r..p
        BY <2>1, <2>2
      <3> QED
        BY <2>1, <2>2, <3>1
    <2>5. ~(s < r)
      <3> SUFFICES ASSUME s < r PROVE FALSE
        OBVIOUS
      <3>1. r - 1 \in s..(p - 1)
        BY <2>1, <2>2
      <3> QED
        BY <2>1, <2>2, <3>1
    <2>6. r = s
      BY <2>4, <2>5
    <2>7. PICK d : d = p - r /\ d \in Nat /\ d >= 1 /\ d % 2 = 0 /\ (d - 1) % 2 = 0
      <3>1. (p - 1) - r = (p - r) - 1
        OBVIOUS
      <3> QED
        BY <2>1, <2>2, <2>3, <2>6, <3>1
    <2> QED
      BY <2>7
  <1>2. ASSUME Cut(u, p) PROVE p \in u
    BY <1>2 DEF Cut
  <1>3. ASSUME p \in u, ~Cut(u, p - 1) PROVE Cut(u, p)
    <2>1. p \in 1..(NumPeriods - 1) /\ 0 \notin u
      BY <1>3
    <2> DEFINE R == {r \in 1..p : \A q \in r..p : q \in u}
    <2>2. p \in R
      BY <1>3, <2>1
    <2>3. PICK r \in R : \A q \in R : r <= q
      <3>1. R \in SUBSET (1..p) /\ R # {}
        BY <2>2
      <3> HIDE DEF R
      <3> QED
        BY <3>1, LeastExists
    <2>4. r \in 1..p /\ \A q \in r..p : q \in u
      BY <2>3
    <2>5. r - 1 \notin u
      <3> SUFFICES ASSUME r - 1 \in u PROVE FALSE
        OBVIOUS
      <3>1. r - 1 \in 1..p
        BY <2>1, <2>4
      <3>2. \A q \in (r - 1)..p : q \in u
        <4> TAKE q \in (r - 1)..p
        <4>1. q = r - 1 \/ q \in r..p
          BY <2>4
        <4> QED
          BY <2>4, <4>1
      <3>3. r - 1 \in R
        BY <3>1, <3>2
      <3> QED
        BY <2>3, <2>4, <3>3
    <2>6. CASE (p - r) % 2 = 0
      BY <2>4, <2>5, <2>6 DEF Cut
    <2>7. CASE (p - r) % 2 # 0
      <3>1. r # p
        BY <2>4, <2>7
      <3>2. r \in 1..(p - 1) /\ \A q \in r..(p - 1) : q \in u
        BY <2>4, <3>1
      <3>3. ((p - 1) - r) % 2 = 0
        <4>1. PICK d : d = p - r /\ d \in Nat /\ d >= 1 /\ d % 2 # 0
          BY <2>4, <2>7, <3>1
        <4>2. (d - 1) % 2 = 0
          BY <4>1
        <4>3. d - 1 = (p - 1) - r
          BY <2>4, <4>1
        <4> QED
          BY <4>2, <4>3
      <3>4. Cut(u, p - 1)
        BY <2>5, <3>2, <3>3 DEF Cut
      <3> QED
        BY <1>3, <3>4
    <2> QED
      BY <2>6, <2>7
  <1> QED
    BY <1>1, <1>2, <1>3

\* The greedy cut, as pairStarts and adjacentCapacity write it, exists.
LEMMA CutExists ==
  ASSUME NEW u, u \subseteq 1..(NumPeriods - 1)
  PROVE  \E it : it = [p \in 0..NumPeriods |-> p \in u /\ ~it[p - 1]]
  <1> DEFINE cut == [p \in 0..NumPeriods |-> Cut(u, p)]
  <1>1. NumPeriods \in Nat
    BY EngineAssumption
  <1>2. ASSUME NEW p \in 0..NumPeriods PROVE Cut(u, p) <=> p \in u /\ ~cut[p - 1]
    <2>1. CASE p = 0
      <3>1. p \notin u
        BY <2>1
      <3>2. ~Cut(u, p)
        BY <2>1 DEF Cut
      <3> QED
        BY <3>1, <3>2
    <2>2. CASE p # 0
      <3>1. p - 1 \in 0..NumPeriods /\ p \in Nat
        BY <1>1, <2>2
      <3>2. cut[p - 1] <=> Cut(u, p - 1)
        BY <3>1
      <3> QED
        BY <3>1, <3>2, CutRule
    <2> QED
      BY <2>1, <2>2
  <1>3. cut = [p \in 0..NumPeriods |-> p \in u /\ ~cut[p - 1]]
    <2> DEFINE same == [p \in 0..NumPeriods |-> p \in u /\ ~cut[p - 1]]
    <2>1. \A p \in 0..NumPeriods : (p \in u /\ ~cut[p - 1]) = Cut(u, p)
      <3> HIDE DEF cut
      <3> QED
        BY <1>2 DEF Cut
    <2>2. same = [p \in 0..NumPeriods |-> Cut(u, p)]
      <3> HIDE DEF cut
      <3> QED
        BY <2>1
    <2> QED
      BY <2>2
  <1> HIDE DEF cut
  <1> QED
    BY <1>3

\* Every period that can begin a pair begins one of the greedy cut or follows
\* one that does.
LEMMA GreedyCut ==
  ASSUME NEW unavailable
  PROVE  LET u == {p \in Consecutive : {p, p + 1} \cap unavailable = {}}
         IN \E G \in SUBSET Periods :
              /\ adjacentCapacity(unavailable) = Cardinality(G)
              /\ \A p \in u : p \in G \/ p - 1 \in G
  <1> DEFINE u == {p \in Consecutive : {p, p + 1} \cap unavailable = {}}
             it == CHOOSE h : h = [p \in 0..NumPeriods |-> p \in u /\ ~h[p - 1]]
             G == {p \in Periods : it[p]}
  <1>1. u \subseteq 1..(NumPeriods - 1) /\ NumPeriods \in Nat
    BY EngineAssumption
  <1>2. it = [p \in 0..NumPeriods |-> p \in u /\ ~it[p - 1]]
    <2>1. \E h : h = [p \in 0..NumPeriods |-> p \in u /\ ~h[p - 1]]
      <3> HIDE DEF u
      <3> QED
        BY <1>1, CutExists
    <2> HIDE DEF u
    <2> QED
      BY <2>1
  <1>3. adjacentCapacity(unavailable) = Cardinality(G)
    BY DEF adjacentCapacity
  <1>4. ASSUME NEW p \in u PROVE p \in G \/ p - 1 \in G
    <2>1. p \in 0..NumPeriods /\ p \in Periods /\ p - 1 \in 0..NumPeriods
      BY <1>1 DEF Periods
    <2>2. it[p] <=> ~it[p - 1]
      <3> HIDE DEF it, u
      <3> QED
        BY <1>2, <1>4, <2>1
    <2>3. it[0] <=> FALSE
      <3>1. 0 \notin u /\ 0 \in 0..NumPeriods
        BY <1>1
      <3> HIDE DEF it, u
      <3> QED
        BY <1>2, <3>1
    <2>4. CASE it[p]
      BY <2>1, <2>4
    <2>5. CASE it[p - 1]
      <3>1. p - 1 # 0
        BY <2>3, <2>5
      <3>2. p - 1 \in Periods
        BY <2>1, <3>1 DEF Periods
      <3> QED
        BY <2>5, <3>2
    <2> QED
      BY <2>2, <2>4, <2>5
  <1>5. G \in SUBSET Periods
    OBVIOUS
  <1> HIDE DEF G, it, u
  <1> QED
    BY <1>3, <1>4, <1>5 DEF u

\* No choice of disjoint pairs has more of them than the greedy cut.
LEMMA GreedyIsMost ==
  ASSUME NEW unavailable, NEW S,
         S \subseteq {p \in Consecutive : {p, p + 1} \cap unavailable = {}},
         \A p \in S : p + 1 \notin S
  PROVE  IsFiniteSet(S) /\ Cardinality(S) <= adjacentCapacity(unavailable)
  <1>1. PICK G \in SUBSET Periods :
          /\ adjacentCapacity(unavailable) = Cardinality(G)
          /\ \A p \in {q \in Consecutive : {q, q + 1} \cap unavailable = {}} : p \in G \/ p - 1 \in G
    BY GreedyCut
  <1>2. S \subseteq Int /\ \A p \in S : p \in G \/ p - 1 \in G
    BY <1>1, EngineAssumption
  <1> DEFINE f == [p \in S |-> IF p \in G THEN p ELSE p - 1]
  <1>3. f \in [S -> G]
    BY <1>2
  <1>4. ASSUME NEW p \in S, NEW q \in S, f[p] = f[q] PROVE p = q
    <2>1. p \in Int /\ q \in Int /\ p + 1 # q /\ q + 1 # p
      BY <1>2
    <2>2. f[p] = (IF p \in G THEN p ELSE p - 1) /\ f[q] = (IF q \in G THEN q ELSE q - 1)
      OBVIOUS
    <2> QED
      BY <1>4, <2>1, <2>2
  <1>5. f \in Injection(S, G)
    <2> HIDE DEF f
    <2> QED
      BY <1>3, <1>4 DEF Injection, IsInjective
  <1>6. IsFiniteSet(G)
    BY FinitePeriods, FS_Subset
  <1> HIDE DEF f
  <1> QED
    BY <1>1, <1>5, <1>6, FS_Injection

\* Pairs take two periods each.
LEMMA DoublesFit ==
  ASSUME NEW periods, IsFiniteSet(periods), NEW n \in Nat, HoldsDoubles(periods, n)
  PROVE  n * 2 <= Cardinality(periods)
  <1>1. PICK starts \in SUBSET Consecutive :
          /\ Cardinality(starts) = n
          /\ \A p \in starts : {p, p + 1} \subseteq periods /\ p + 1 \notin starts
    BY DEF HoldsDoubles
  <1> DEFINE ends == {p + 1 : p \in starts}
             f == [p \in starts |-> p + 1]
  <1>2. starts \subseteq Int /\ starts \subseteq periods /\ ends \subseteq periods
    BY <1>1, EngineAssumption
  <1>3. starts \cap ends = {}
    BY <1>1
  <1>4. f \in Surjection(starts, ends) /\ f \in Injection(starts, ends)
    BY <1>2 DEF Surjection, Injection, IsInjective
  <1>5. IsFiniteSet(starts) /\ IsFiniteSet(ends)
    <2> HIDE DEF ends, f
    <2> QED
      BY <1>2, FS_Subset
  <1>6. Cardinality(ends) = n
    <2> HIDE DEF ends, f
    <2> QED
      BY <1>1, <1>4, <1>5, FS_Surjection
  <1>7. PICK both : both = starts \cup ends
    OBVIOUS
  <1>8. Cardinality(both) = Cardinality(starts) + Cardinality(ends) - Cardinality({})
    <2> HIDE DEF ends
    <2> QED
      BY <1>3, <1>5, <1>7, FS_Union
  <1>9. Cardinality(both) = n + n
    BY <1>1, <1>6, <1>8, FS_EmptySet
  <1>10. Cardinality(both) <= Cardinality(periods)
    <2> HIDE DEF ends
    <2> QED
      BY <1>2, <1>7, FS_Subset
  <1>11. Cardinality(periods) \in Nat
    BY FS_CardinalityType
  <1> QED
    BY <1>9, <1>10, <1>11

\* The sums of the preflight.
LEMMA DemandIsTotal ==
  ASSUME NEW as, NEW w, w = [a \in as |-> WeeklyPeriods(a)]
  PROVE  MapThenSumSet(WeeklyPeriods, as) = Total(w, as)
  BY DEF Total, MapThenSumSet, MapThenFoldSet, WeeklyPeriods

LEMMA DoublesAreTotal ==
  ASSUME NEW as, NEW d, d = [a \in as |-> DoubleBlocks(a)]
  PROVE  MapThenSumSet(DoubleBlocks, as) = Total(d, as)
  BY DEF Total, MapThenSumSet, MapThenFoldSet, DoubleBlocks

LEMMA CapacityIsTotal ==
  ASSUME NEW ts, NEW f, f = [t \in ts |-> capacity(t)]
  PROVE  MapThenSumSet(capacity, ts) = Total(f, ts)
  BY Zenon DEF Total, MapThenSumSet, MapThenFoldSet

\* Lessons that cannot meet, in a plan: their periods and pairs add up.
LEMMA PlanCounts ==
  ASSUME problem \in Problems, NEW plan \in [Assignments -> SUBSET Periods], IsPlan(plan),
         NEW as \in SUBSET Assignments, NEW out,
         \A a, b \in as : a # b => plan[a] \cap plan[b] = {},
         \A a \in as : plan[a] \cap out = {}
  PROVE  /\ MapThenSumSet(WeeklyPeriods, as) = Cardinality(UNION {plan[a] : a \in as})
         /\ MapThenSumSet(WeeklyPeriods, as) <= NumPeriods
         /\ MapThenSumSet(DoubleBlocks, as) <= adjacentCapacity(out)
  <1>1. IsFiniteSet(as) /\ \A a \in as : IsFiniteSet(plan[a])
    BY FiniteProblem, FinitePeriods, FS_Subset
  <1>2. PICK w : w = [a \in as |-> WeeklyPeriods(a)]
    OBVIOUS
  <1>3. MapThenSumSet(WeeklyPeriods, as) = Total(w, as)
    BY <1>2, DemandIsTotal
  <1>4. \A a \in as : w[a] = Cardinality(plan[a])
    BY <1>2 DEF IsPlan
  <1>5. Total(w, as) = Cardinality(UNION {plan[a] : a \in as})
    BY <1>1, <1>4, SizesAddUp
  <1>6. Cardinality(UNION {plan[a] : a \in as}) <= NumPeriods
    <2>1. PICK all : all = UNION {plan[a] : a \in as}
      OBVIOUS
    <2>2. all \subseteq Periods
      BY <2>1
    <2>3. Cardinality(all) <= Cardinality(Periods)
      BY <2>2, FinitePeriods, FS_Subset
    <2>4. NumPeriods \in Nat
      BY EngineAssumption
    <2>5. Cardinality(Periods) = NumPeriods
      BY <2>4, FS_Interval DEF Periods
    <2> QED
      BY <2>1, <2>3, <2>5
  <1> DEFINE Pairs(a, s) == /\ Cardinality(s) = DoubleBlocks(a)
                            /\ \A p \in s : {p, p + 1} \subseteq plan[a] /\ p + 1 \notin s
  <1>7. PICK starts : \A a \in as : starts[a] \in SUBSET Consecutive /\ Pairs(a, starts[a])
    <2>1. \A a \in as : \E s \in SUBSET Consecutive : Pairs(a, s)
      BY DEF IsPlan, HoldsDoubles
    <2> DEFINE pick == [a \in as |-> CHOOSE s \in SUBSET Consecutive : Pairs(a, s)]
    <2> HIDE DEF Pairs
    <2>2. \A a \in as : pick[a] \in SUBSET Consecutive /\ Pairs(a, pick[a])
      BY <2>1
    <2> QED
      BY <2>2
  <1>8. PICK d : d = [a \in as |-> DoubleBlocks(a)]
    OBVIOUS
  <1>9. MapThenSumSet(DoubleBlocks, as) = Total(d, as)
    BY <1>8, DoublesAreTotal
  <1>10. PICK S : S = UNION {starts[a] : a \in as}
    OBVIOUS
  <1>11. Total(d, as) = Cardinality(S)
    <2>1. \A a \in as : d[a] = Cardinality(starts[a]) /\ IsFiniteSet(starts[a])
      <3> TAKE a \in as
      <3>1. starts[a] \subseteq plan[a]
        BY <1>7
      <3> QED
        BY <1>1, <1>7, <1>8, <3>1, FS_Subset
    <2>2. \A a, b \in as : a # b => starts[a] \cap starts[b] = {}
      BY <1>7
    <2>3. Cardinality(UNION {starts[a] : a \in as}) = Total(d, as)
      BY <1>1, <2>1, <2>2, SizesAddUp
    <2> QED
      BY <1>10, <2>3
  <1>12. S \subseteq {p \in Consecutive : {p, p + 1} \cap out = {}}
    <2> SUFFICES ASSUME NEW p \in S PROVE p \in Consecutive /\ {p, p + 1} \cap out = {}
      OBVIOUS
    <2>1. PICK a \in as : p \in starts[a]
      BY <1>10
    <2>2. {p, p + 1} \subseteq plan[a] /\ p \in Consecutive
      BY <1>7, <2>1
    <2> QED
      BY <2>2
  <1>13. \A p \in S : p + 1 \notin S
    <2> SUFFICES ASSUME NEW p \in S, p + 1 \in S PROVE FALSE
      OBVIOUS
    <2>1. PICK a \in as : p \in starts[a]
      BY <1>10
    <2>2. PICK b \in as : p + 1 \in starts[b]
      BY <1>10
    <2>3. p + 1 \in plan[a] /\ p + 1 \notin starts[a]
      BY <1>7, <2>1
    <2>4. p + 1 \in plan[b]
      BY <1>7, <2>2
    <2> QED
      BY <2>2, <2>3, <2>4
  <1>14. Cardinality(S) <= adjacentCapacity(out)
    BY <1>12, <1>13, GreedyIsMost
  <1> QED
    BY <1>3, <1>5, <1>6, <1>9, <1>11, <1>14

LEMMA TeacherPlan ==
  ASSUME problem \in Problems, NEW plan \in [Assignments -> SUBSET Periods], IsPlan(plan),
         NEW t \in Teachers
  PROVE  TeacherFeasible(t)
  <1>1. PICK as, out : as = TaughtBy(t) /\ out = problem.unavailable[t]
    OBVIOUS
  <1>2. as \in SUBSET Assignments /\ \A a \in as : TeacherID(a) = t
    BY <1>1 DEF TaughtBy
  <1>3. \A a, b \in as : a # b => plan[a] \cap plan[b] = {}
    BY <1>2 DEF IsPlan
  <1>4. \A a \in as : plan[a] \cap out = {}
    BY <1>1, <1>2 DEF IsPlan, AvailablePeriods
  <1>5. MapThenSumSet(DoubleBlocks, as) <= adjacentCapacity(out)
    BY <1>2, <1>3, <1>4, PlanCounts
  <1>6. MapThenSumSet(WeeklyPeriods, as) <= capacity(t)
    BY <1>1 DEF IsPlan
  <1> QED
    BY <1>1, <1>5, <1>6 DEF TeacherFeasible

LEMMA CohortPlan ==
  ASSUME problem \in Problems, NEW plan \in [Assignments -> SUBSET Periods], IsPlan(plan),
         NEW c \in Cohorts
  PROVE  CohortFeasible(c)
  <1>1. PICK as : as = AttendedBy(c)
    OBVIOUS
  <1>2. as \in SUBSET Assignments /\ \A a \in as : CohortID(a) = c
    BY <1>1 DEF AttendedBy
  <1>3. \A a, b \in as : a # b => plan[a] \cap plan[b] = {}
    BY <1>2 DEF IsPlan
  <1>4. PICK out : out = {}
    OBVIOUS
  <1>5. \A a \in as : plan[a] \cap out = {}
    BY <1>4
  <1>6. /\ MapThenSumSet(WeeklyPeriods, as) = Cardinality(UNION {plan[a] : a \in as})
        /\ MapThenSumSet(WeeklyPeriods, as) <= NumPeriods
        /\ MapThenSumSet(DoubleBlocks, as) <= adjacentCapacity(out)
    BY <1>2, <1>3, <1>5, PlanCounts
  <1>7. ASSUME problem.fullCoverage
        PROVE  MapThenSumSet(WeeklyPeriods, as) = NumPeriods
    <2>1. UNION {plan[a] : a \in as} = Periods
      BY <1>1, <1>7 DEF IsPlan
    <2>2. NumPeriods \in Nat
      BY EngineAssumption
    <2>3. Cardinality(Periods) = NumPeriods
      BY <2>2, FS_Interval DEF Periods
    <2> QED
      BY <1>6, <2>1, <2>3
  <1> QED
    BY <1>1, <1>4, <1>6, <1>7 DEF CohortFeasible

LEMMA ResourcePlan ==
  ASSUME problem \in Problems, NEW plan \in [Assignments -> SUBSET Periods], IsPlan(plan),
         NEW r \in Resources
  PROVE  MapThenSumSet(WeeklyPeriods, Using(r)) <= NumPeriods
  <1>1. PICK as, out : as = Using(r) /\ out = {}
    OBVIOUS
  <1>2. as \in SUBSET Assignments /\ \A a \in as : ResourceID(a) = r /\ ResourceID(a) # None
    BY <1>1 DEF Using, Resources
  <1>3. \A a, b \in as : a # b => plan[a] \cap plan[b] = {}
    BY <1>2 DEF IsPlan
  <1>4. \A a \in as : plan[a] \cap out = {}
    BY <1>1
  <1>5. MapThenSumSet(WeeklyPeriods, as) <= NumPeriods
    BY <1>2, <1>3, <1>4, PlanCounts
  <1> QED
    BY <1>1, <1>5

\* What all teachers together can give.
LEMMA WorkloadPlan ==
  ASSUME problem \in Problems, NEW plan \in [Assignments -> SUBSET Periods], IsPlan(plan)
  PROVE  MapThenSumSet(WeeklyPeriods, Assignments) <= MapThenSumSet(capacity, Teachers)
  <1>1. PICK as, ts : as = Assignments /\ ts = Teachers
    OBVIOUS
  <1>2. IsFiniteSet(as) /\ IsFiniteSet(ts) /\ \A a \in as : WeeklyPeriods(a) \in Nat
    BY <1>1, FiniteProblem
  <1>3. PICK w, cap : /\ w = [a \in as |-> WeeklyPeriods(a)]
                      /\ cap = [t \in ts |-> capacity(t)]
    OBVIOUS
  <1>4. PICK part : part = [t \in ts |-> {a \in as : TeacherID(a) = t}]
    OBVIOUS
  <1>5. PICK sum : sum = [t \in ts |-> Total(w, part[t])]
    OBVIOUS
  <1>6. Total(w, as) = Total(sum, ts) /\ \A t \in ts : sum[t] \in Int
    <2>1. ASSUME NEW a \in as PROVE w[a] \in Int
      <3>1. w[a] = WeeklyPeriods(a) /\ WeeklyPeriods(a) \in Nat
        BY <1>2, <1>3
      <3> QED
        BY <3>1
    <2>2. \A a \in as : TeacherID(a) \in ts
      BY <1>1, Closed
    <2>3. Splits(part, as, ts)
      BY <1>4, <2>2 DEF Splits
    <2>4. IsFiniteSet(as) /\ IsFiniteSet(ts) /\ \A a \in as : w[a] \in Int
      BY <1>2, <2>1
    <2>5. PartSums(sum, w, part, ts)
      BY <1>5 DEF PartSums
    <2> QED
      BY <2>3, <2>4, <2>5, TotalByPart
  <1>7. ASSUME NEW t \in ts PROVE sum[t] <= cap[t] /\ cap[t] \in Int
    <2>1. PICK own : own = TaughtBy(t)
      OBVIOUS
    <2>2. own = part[t] /\ own \subseteq as
      BY <1>1, <1>3, <1>4, <2>1 DEF TaughtBy
    <2>3. PICK v : v = [a \in own |-> WeeklyPeriods(a)]
      OBVIOUS
    <2>4. MapThenSumSet(WeeklyPeriods, own) = Total(v, own)
      BY <2>3, DemandIsTotal
    <2>5. Total(v, own) = Total(w, own)
      <3>1. IsFiniteSet(own) /\ \A a \in own : v[a] = w[a]
        BY <1>2, <1>3, <2>2, <2>3, FS_Subset
      <3> QED
        BY <3>1, TotalSame
    <2>6. MapThenSumSet(WeeklyPeriods, own) <= capacity(t)
      BY <1>1, <2>1 DEF IsPlan
    <2>7. capacity(t) \in Int
      <3>1. problem.limit[t] \in Nat
        BY <1>1, ProblemsAreFinite DEF Teachers
      <3>2. PICK free : free = AvailablePeriods(t)
        OBVIOUS
      <3>3. Cardinality(free) \in Nat
        BY <3>2, FinitePeriods, FS_Subset, FS_CardinalityType DEF AvailablePeriods
      <3> QED
        BY <3>1, <3>2, <3>3 DEF capacity, AtMost
    <2> QED
      BY <1>3, <1>5, <2>2, <2>4, <2>5, <2>6, <2>7
  <1>8. Total(sum, ts) <= Total(cap, ts)
    BY <1>2, <1>6, <1>7, TotalAtMost
  <1>9. /\ MapThenSumSet(WeeklyPeriods, as) = Total(w, as)
        /\ MapThenSumSet(capacity, ts) = Total(cap, ts)
    BY <1>3, DemandIsTotal, CapacityIsTotal
  <1> QED
    BY <1>1, <1>6, <1>8, <1>9

LEMMA MaxIsIn ==
  ASSUME NEW S \in SUBSET Int, IsFiniteSet(S), S # {}
  PROVE  Max(S) \in S /\ \A v \in S : Max(S) >= v
  <1> DEFINE up(v) == {u \in S : u >= v}
             T == {up(v) : v \in S}
  <1>1. T \in SUBSET SUBSET S /\ T # {}
    OBVIOUS
  <1>2. PICK s \in T : \A r \in T : r \subseteq s => r = s
    <2> HIDE DEF T, up
    <2>1. PICK base : base = S
      OBVIOUS
    <2>2. IsFiniteSet(base) /\ T \in SUBSET SUBSET base /\ T # {}
      BY <1>1, <2>1
    <2> QED
      BY <2>2, SmallestSubset
  <1>3. PICK m \in S : s = up(m)
    BY <1>2
  <1>4. ASSUME NEW v \in S PROVE m >= v
    <2> SUFFICES ASSUME ~(m >= v) PROVE FALSE
      OBVIOUS
    <2>1. S \subseteq Int /\ m \in Int /\ v \in Int /\ v > m
      OBVIOUS
    <2>2. /\ \A u \in S : u >= v => u >= m
          /\ m >= m /\ ~(m >= v)
      BY <2>1
    <2>5. up(v) \subseteq up(m) /\ m \in up(m) /\ m \notin up(v)
      BY <2>2
    <2>3. up(v) \in T
      OBVIOUS
    <2>4. up(v) = up(m)
      BY <1>2, <1>3, <2>5, <2>3
    <2> QED
      BY <2>5, <2>4
  <1> QED
    BY <1>4 DEF Max

\* Edges have maximum matchings, all of them of one size.
LEMMA MaximumMatchingExists ==
  ASSUME problem \in Problems, NEW edges \in SUBSET Assignments
  PROVE  \E size \in Nat :
           /\ maximumMatchings(edges) =
                {as \in SUBSET edges : Matching(as) /\ Cardinality(as) = size}
           /\ maximumMatchings(edges) # {}
           /\ \A as \in SUBSET edges : Matching(as) => Cardinality(as) <= size
  <1>1. PICK matchings : matchings = {as \in SUBSET edges : Matching(as)}
    OBVIOUS
  <1>2. PICK sizes : sizes = {Cardinality(as) : as \in matchings}
    OBVIOUS
  <1>3. {} \in matchings
    BY <1>1 DEF Matching
  <1>4. IsFiniteSet(edges) /\ IsFiniteSet(matchings)
    <2>1. IsFiniteSet(edges)
      BY FiniteProblem, FS_Subset
    <2>2. IsFiniteSet(SUBSET edges)
      BY <2>1, FS_SUBSET
    <2> QED
      BY <1>1, <2>1, <2>2, FS_Subset
  <1>5. IsFiniteSet(sizes)
    <2>1. PICK count : count = [as \in matchings |-> Cardinality(as)]
      OBVIOUS
    <2>2. count \in Surjection(matchings, sizes)
      BY <1>2, <2>1 DEF Surjection
    <2> QED
      BY <1>4, <2>2, FS_Surjection
  <1>6. sizes \subseteq Nat
    <2> SUFFICES ASSUME NEW as \in matchings PROVE Cardinality(as) \in Nat
      BY <1>2
    <2>1. IsFiniteSet(as)
      BY <1>1, <1>4, FS_Subset
    <2> QED
      BY <2>1, FS_CardinalityType
  <1>7. PICK size : size = Max(sizes)
    OBVIOUS
  <1>8. size \in sizes /\ \A n \in sizes : size >= n
    <2>1. sizes \in SUBSET Int /\ sizes # {}
      BY <1>2, <1>3, <1>6
    <2> QED
      BY <1>5, <1>7, <2>1, MaxIsIn
  <1>9. maximumMatchings(edges) = {as \in matchings : Cardinality(as) = size}
    BY <1>1, <1>2, <1>7 DEF maximumMatchings
  <1>10. maximumMatchings(edges) # {}
    BY <1>2, <1>8, <1>9
  <1>11. ASSUME NEW as \in SUBSET edges, Matching(as) PROVE Cardinality(as) <= size
    <2>1. Cardinality(as) \in sizes
      BY <1>1, <1>2, <1>11
    <2> QED
      BY <1>6, <1>8, <2>1
  <1> QED
    BY <1>1, <1>6, <1>8, <1>9, <1>10, <1>11

\* With full coverage every class has a lesson in every period, and the
\* teachers of these lessons are free and different.
LEMMA SimultaneousPlan ==
  ASSUME problem \in Problems, NEW plan \in [Assignments -> SUBSET Periods], IsPlan(plan),
         problem.fullCoverage, NEW p \in Periods
  PROVE  SimultaneousFeasible(p)
  <1> DEFINE Fits(c, a) == a \in Assignments /\ CohortID(a) = c /\ p \in plan[a]
  <1>1. PICK lesson : lesson = [c \in Cohorts |-> CHOOSE a : Fits(c, a)]
    OBVIOUS
  <1>2. ASSUME NEW c \in Cohorts PROVE Fits(c, lesson[c])
    <2>1. p \in UNION {plan[a] : a \in AttendedBy(c)}
      BY DEF IsPlan
    <2>2. \E a : Fits(c, a)
      BY <2>1 DEF AttendedBy
    <2> HIDE DEF Fits
    <2> QED
      BY <1>1, <2>2
  <1>3. PICK M : M = {lesson[c] : c \in Cohorts}
    OBVIOUS
  <1>4. lesson \in Surjection(Cohorts, M) /\ lesson \in Injection(Cohorts, M)
    <2>1. lesson \in [Cohorts -> M] /\ \A a \in M : \E c \in Cohorts : lesson[c] = a
      <3> HIDE DEF Fits
      <3> QED
        BY <1>1, <1>3
    <2>2. \A c, d \in Cohorts : lesson[c] = lesson[d] => c = d
      BY <1>2
    <2> QED
      BY <2>1, <2>2 DEF Surjection, Injection, IsInjective
  <1>5. IsFiniteSet(M) /\ Cardinality(M) = Cardinality(Cohorts)
    BY <1>4, FiniteProblem, FS_Surjection
  <1>6. \A a \in M : /\ a \in Assignments /\ p \in plan[a]
                     /\ TeacherID(a) \in Teachers /\ p \in AvailablePeriods(TeacherID(a))
    <2> TAKE a \in M
    <2>1. PICK c \in Cohorts : a = lesson[c]
      BY <1>3
    <2>2. a \in Assignments /\ p \in plan[a]
      BY <1>2, <2>1
    <2> QED
      BY <2>2, Closed DEF IsPlan
  <1>7. Matching(M)
    BY <1>6 DEF IsPlan, Matching
  <1>8. Cardinality({t \in Teachers : p \in AvailablePeriods(t)}) >= Cardinality(Cohorts)
    <2>1. PICK free : free = {t \in Teachers : p \in AvailablePeriods(t)}
      OBVIOUS
    <2>2. IsFiniteSet(free)
      BY <2>1, FiniteProblem, FS_Subset
    <2>3. PICK busy : busy = [a \in M |-> TeacherID(a)]
      OBVIOUS
    <2>4. busy \in Injection(M, free)
      BY <1>6, <1>7, <2>1, <2>3 DEF Matching, Injection, IsInjective
    <2>5. Cardinality(M) <= Cardinality(free)
      BY <2>2, <2>4, FS_Injection
    <2>6. Cardinality(M) \in Nat /\ Cardinality(free) \in Nat
      BY <1>5, <2>2, FS_CardinalityType
    <2> QED
      BY <1>5, <2>1, <2>5, <2>6
  <1>9. maximumEligibleCoverage(p) >= Cardinality(Cohorts)
    <2>1. PICK edges : edges = {a \in Assignments : p \in AvailablePeriods(TeacherID(a))}
      OBVIOUS
    <2>2. M \in SUBSET edges
      BY <1>6, <2>1
    <2>3. PICK size \in Nat :
            /\ maximumMatchings(edges) =
                 {as \in SUBSET edges : Matching(as) /\ Cardinality(as) = size}
            /\ maximumMatchings(edges) # {}
            /\ \A as \in SUBSET edges : Matching(as) => Cardinality(as) <= size
      BY <2>1, MaximumMatchingExists
    <2>4. Cardinality(CHOOSE as \in maximumMatchings(edges) : TRUE) = size
      BY <2>3
    <2>5. maximumEligibleCoverage(p) = size
      BY <2>1, <2>4 DEF maximumEligibleCoverage
    <2>6. Cardinality(M) <= size
      BY <1>7, <2>2, <2>3
    <2>7. Cardinality(M) \in Nat
      BY <1>5, FS_CardinalityType
    <2> QED
      BY <1>5, <2>5, <2>6, <2>7
  <1> QED
    BY <1>8, <1>9 DEF SimultaneousFeasible

\* Every condition of the preflight is necessary for a plan.
LEMMA PlanPassesPreflight ==
  ASSUME problem \in Problems, NumPeriods > 0,
         NEW plan \in [Assignments -> SUBSET Periods], IsPlan(plan)
  PROVE  AnalyzeFeasibility
  <1>1. ASSUME NEW a \in Assignments PROVE DoubleBlocks(a) * 2 <= WeeklyPeriods(a)
    <2>1. PICK own, n : own = plan[a] /\ n = DoubleBlocks(a)
      OBVIOUS
    <2>2. /\ IsFiniteSet(own) /\ n \in Nat /\ HoldsDoubles(own, n)
          /\ Cardinality(own) = WeeklyPeriods(a)
      BY <2>1, FiniteProblem, FinitePeriods, FS_Subset DEF IsPlan
    <2>3. n * 2 <= Cardinality(own)
      BY <2>2, DoublesFit
    <2> QED
      BY <2>1, <2>2, <2>3
  <1>2. \A t \in Teachers : TeacherFeasible(t)
    BY TeacherPlan
  <1>3. \A c \in Cohorts : CohortFeasible(c)
    BY CohortPlan
  <1>4. \A r \in Resources : MapThenSumSet(WeeklyPeriods, Using(r)) <= NumPeriods
    BY ResourcePlan
  <1>5. MapThenSumSet(WeeklyPeriods, Assignments) <= MapThenSumSet(capacity, Teachers)
    BY WorkloadPlan
  <1>6. problem.fullCoverage => \A p \in Periods : SimultaneousFeasible(p)
    BY SimultaneousPlan
  <1> QED
    BY <1>1, <1>2, <1>3, <1>4, <1>5, <1>6 DEF AnalyzeFeasibility

\* What Solve calls INFEASIBLE has failed the preflight.
RefusedByPreflight == phase = "INFEASIBLE" => ~AnalyzeFeasibility

\* The shape of the demand is the problem's.
LEMMA ShapeStays ==
  ASSUME problem' = problem
  PROVE  /\ ExactShape' <=> ExactShape
         /\ AnalyzeFeasibility' <=> AnalyzeFeasibility
  <1>1. AnalyzeFeasibility' <=> AnalyzeFeasibility
    BY DEF AnalyzeFeasibility, Assignments, Teachers, Cohorts, Resources, DoubleBlocks,
         WeeklyPeriods, TeacherFeasible, CohortFeasible, SimultaneousFeasible, capacity,
         AvailablePeriods, TaughtBy, AttendedBy, Using, TeacherID, CohortID, ResourceID,
         maximumEligibleCoverage, maximumMatchings, Matching, MapThenSumSet, MapThenFoldSet
  <1>2. delta(unitsOf("paired"))' = delta(unitsOf("paired"))
    BY DEF delta, degrees, unitsOf, Assignments, Teachers, Cohorts, DoubleBlocks, WeeklyPeriods,
         TaughtBy, AttendedBy, TeacherID, CohortID, MapThenSumSet, MapThenFoldSet
  <1>3. ExactShape' <=> ExactShape
    BY <1>2 DEF ExactShape, Assignments, Teachers, Resources, ResourceID, DoubleBlocks,
         WeeklyPeriods
  <1> QED
    BY <1>1, <1>3

LEMMA RefusedStep == RefusedByPreflight /\ [Next]_vars => RefusedByPreflight'
  <1> SUFFICES ASSUME RefusedByPreflight, [Next]_vars PROVE RefusedByPreflight'
    OBVIOUS
  <1>1. CASE UNCHANGED <<problem, phase>>
    BY <1>1, ShapeStays DEF RefusedByPreflight
  <1>2. CASE phase' # "INFEASIBLE"
    BY <1>2 DEF RefusedByPreflight
  <1>3. CASE solveAttempt \/ Judge \/ budgetExceeded
    BY <1>2, <1>3 DEF solveAttempt, Judge, budgetExceeded
  <1>4. CASE Return
    BY <1>2, <1>4 DEF Return, statusOf
  <1>5. CASE Leave
    BY <1>2, <1>5 DEF Leave, after
  <1> QED
    BY <1>1, <1>3, <1>4, <1>5 DEF Next, Steps, Pin, SkipPin, PlaceColor, PlaceMatching,
         NextPass, repairSingles, Solved, vars

\* docs/SCHEDULING_ENGINE.md calls the conditions of AnalyzeFeasibility
\* necessary: whatever Solve refuses as INFEASIBLE has no weekly plan at all.
\* A week without periods is left out, since the preflight refuses it even
\* when nothing is demanded.
THEOREM OnlyHopelessIsRefused == NumPeriods > 0 /\ Spec => []PreflightSound
  <1> DEFINE Refused == NumPeriods > 0 /\ RefusedByPreflight
  <1>1. NumPeriods > 0 /\ Init => Refused
    BY DEF Init, RefusedByPreflight
  <1>2. Refused /\ [Next]_vars => Refused'
    BY RefusedStep
  <1>3. IndInv /\ Refused => PreflightSound
    BY PlanPassesPreflight DEF PreflightSound, RefusedByPreflight, IndInv
  <1> HIDE DEF Refused
  <1> QED
    BY <1>1, <1>2, <1>3, Invariance, PTL DEF Spec

-----------------------------------------------------------------------------
(* Demand that can be coloured is placed completely.                       *)

\* The colouring an attempt uses for demand of a shape that can be coloured.
PairedDemand ==
  /\ \A a \in Assignments : WeeklyPeriods(a) % 2 = 0
  /\ \E a \in Assignments : DoubleBlocks(a) > 0
  /\ \E a \in Assignments : WeeklyPeriods(a) > DoubleBlocks(a) * 2

DoubledDemand == \A a \in Assignments : WeeklyPeriods(a) = DoubleBlocks(a) * 2

Coloring == IF PairedDemand THEN "paired" ELSE IF DoubledDemand THEN "doubled" ELSE "colored"

\* The phases of an attempt around its colouring, see after.
Before == [paired |-> {"pin"}, doubled |-> {"pin", "paired"},
           colored |-> {"pin", "paired", "doubled", "doubles"}]
Past == [paired |-> {"doubled", "doubles", "colored", "singles", "repair", "judge"},
         doubled |-> {"doubles", "colored", "singles", "repair", "judge"},
         colored |-> {"singles", "repair", "judge"}]

\* Periods of a lesson of the colouring.
Width(color) == IF color = "colored" THEN 1 ELSE 2

Shaped(xs) == \A x \in xs : ~Misshapen(x)

\* Before its colouring an attempt places nothing, while it lasts the units
\* and the free slots account for what remains, and afterwards nothing does.
Waiting(p, xs, left, slots) ==
  p \in Before[Coloring] =>
    /\ xs = {}
    /\ p \in ColorPhases => left = 0
    /\ p = "doubles" => slots = {}

Filling(p, xs, rest, us, left, slots) ==
  p = Coloring =>
    /\ Shaped(xs)
    /\ us \in [Assignments -> Nat]
    /\ \A a \in Assignments : rest[a] = Width(p) * us[a]
    /\ left \in Nat
    /\ \A t \in Teachers : Total(us, TaughtBy(t)) <= left
    /\ slots \subseteq SlotsOf(p)
    /\ \A slot \in slots, x \in xs : slot \cap x.periods = {}

Filled(p, xs, rest, left) ==
  p \in Past[Coloring] =>
    /\ Shaped(xs)
    /\ \A a \in Assignments : rest[a] = 0
    /\ p \in ColorPhases => left = 0

Placing ==
  /\ Waiting(phase, placements, rounds, todo)
  /\ Filling(phase, placements, remaining, units, rounds, todo)
  /\ Filled(phase, placements, remaining, rounds)

ColoringPlaces == ExactShape /\ AnalyzeFeasibility /\ ~timedOut => Placing

\* The pairs do not overlap, and there are as many as adjacentCapacity counts.
LEMMA AdjacentPairs ==
  /\ \A s \in adjacent : s \subseteq Periods /\ \E p \in Consecutive : s = {p, p + 1}
  /\ \A s, r \in adjacent : s # r => s \cap r = {}
  /\ IsFiniteSet(adjacent) /\ Cardinality(adjacent) = adjacentCapacity({})
  <1>1. PICK u : u = {p \in Consecutive : {p, p + 1} \cap {} = {}}
    OBVIOUS
  <1>2. /\ u = Consecutive /\ u \subseteq 1..(NumPeriods - 1) /\ NumPeriods \in Nat
    BY <1>1, EngineAssumption
  <1>3. PICK it : it = CHOOSE h : h = [p \in 0..NumPeriods |-> p \in u /\ ~h[p - 1]]
    OBVIOUS
  <1>4. it = [p \in 0..NumPeriods |-> p \in u /\ ~it[p - 1]]
    <2>1. \E h : h = [p \in 0..NumPeriods |-> p \in u /\ ~h[p - 1]]
      <3>1. u \subseteq 1..(NumPeriods - 1)
        BY <1>2
      <3> QED
        BY <3>1, CutExists
    <2> QED
      BY <1>3, <2>1
  <1>5. pairStarts = it
    BY <1>2, <1>3 DEF pairStarts
  <1>6. PICK G : G = {p \in Periods : it[p]}
    OBVIOUS
  <1>7. adjacentCapacity({}) = Cardinality(G)
    BY <1>1, <1>3, <1>6 DEF adjacentCapacity
  <1>8. adjacent = {{p, p + 1} : p \in G}
    BY <1>5, <1>6 DEF adjacent
  <1>9. ASSUME NEW p \in G
        PROVE  p \in Consecutive /\ p \in Int /\ {p, p + 1} \subseteq Periods /\ p - 1 \notin G
    <2>1. p \in 0..NumPeriods /\ it[p] /\ p \in Int
      BY <1>2, <1>6 DEF Periods
    <2>2. p \in u /\ ~it[p - 1]
      BY <1>4, <2>1
    <2> QED
      BY <1>2, <1>6, <2>1, <2>2 DEF Periods
  <1>10. \A s \in adjacent : s \subseteq Periods /\ \E p \in Consecutive : s = {p, p + 1}
    BY <1>8, <1>9
  <1>11. ASSUME NEW p \in G, NEW q \in G, p # q PROVE {p, p + 1} \cap {q, q + 1} = {}
    <2>1. p \in Int /\ q \in Int /\ p - 1 # q /\ q - 1 # p
      BY <1>9
    <2> QED
      BY <1>11, <2>1
  <1>12. \A s, r \in adjacent : s # r => s \cap r = {}
    <2> SUFFICES ASSUME NEW s \in adjacent, NEW r \in adjacent, s # r PROVE s \cap r = {}
      OBVIOUS
    <2>1. PICK p \in G, q \in G : s = {p, p + 1} /\ r = {q, q + 1}
      BY <1>8
    <2> QED
      BY <1>11, <2>1
  <1>13. IsFiniteSet(G)
    BY <1>6, FinitePeriods, FS_Subset
  <1>14. PICK f : f = [p \in G |-> {p, p + 1}]
    OBVIOUS
  <1>15. f \in Surjection(G, adjacent) /\ f \in Injection(G, adjacent)
    <2>1. ASSUME NEW p \in G, NEW q \in G, f[p] = f[q] PROVE p = q
      <3>1. p \in {p, p + 1} /\ {p, p + 1} = {q, q + 1}
        BY <1>14, <2>1
      <3> QED
        BY <1>11, <3>1
    <2>2. f \in [G -> adjacent] /\ \A s \in adjacent : \E p \in G : f[p] = s
      BY <1>8, <1>14
    <2> QED
      BY <2>1, <2>2 DEF Surjection, Injection, IsInjective
  <1>16. IsFiniteSet(adjacent) /\ Cardinality(adjacent) = Cardinality(G)
    BY <1>13, <1>15, FS_Surjection
  <1> QED
    BY <1>7, <1>10, <1>12, <1>16

LEMMA SinglePeriods ==
  /\ \A s \in singles : s \subseteq Periods
  /\ \A s, r \in singles : s # r => s \cap r = {}
  /\ IsFiniteSet(singles) /\ Cardinality(singles) = NumPeriods
  <1>1. PICK f : f = [p \in Periods |-> {p}]
    OBVIOUS
  <1>2. f \in Surjection(Periods, singles) /\ f \in Injection(Periods, singles)
    BY <1>1 DEF singles, Surjection, Injection, IsInjective
  <1>3. IsFiniteSet(singles) /\ Cardinality(singles) = Cardinality(Periods)
    BY <1>2, FinitePeriods, FS_Surjection
  <1>4. NumPeriods \in Nat
    BY EngineAssumption
  <1>5. Cardinality(Periods) = NumPeriods
    BY <1>4, FS_Interval DEF Periods
  <1> QED
    BY <1>3, <1>5 DEF singles

LEMMA ImageIsFinite ==
  ASSUME NEW S, IsFiniteSet(S), NEW f
  PROVE  IsFiniteSet({f[x] : x \in S})
  <1>1. PICK g, T : g = [x \in S |-> f[x]] /\ T = {f[x] : x \in S}
    OBVIOUS
  <1>2. g \in Surjection(S, T)
    BY <1>1 DEF Surjection
  <1> QED
    BY <1>1, <1>2, FS_Surjection

LEMMA TaughtAndAttended ==
  ASSUME problem \in Problems, NEW x
  PROVE  /\ TaughtBy(x) \subseteq Assignments /\ IsFiniteSet(TaughtBy(x))
         /\ AttendedBy(x) \subseteq Assignments /\ IsFiniteSet(AttendedBy(x))
  BY FiniteProblem, FS_Subset DEF TaughtBy, AttendedBy

\* delta is the least bound of the units of a teacher or a class.
LEMMA DeltaIsBound ==
  ASSUME problem \in Problems, NEW us \in [Assignments -> Nat]
  PROVE  /\ delta(us) \in Nat
         /\ \A t \in Teachers : Total(us, TaughtBy(t)) <= delta(us)
         /\ \A c \in Cohorts : Total(us, AttendedBy(c)) <= delta(us)
         /\ \A n \in Nat :
              /\ \A t \in Teachers : Total(us, TaughtBy(t)) <= n
              /\ \A c \in Cohorts : Total(us, AttendedBy(c)) <= n
              => delta(us) <= n
  <1>1. PICK taught, attended : /\ taught = [t \in Teachers |-> Total(us, TaughtBy(t))]
                                /\ attended = [c \in Cohorts |-> Total(us, AttendedBy(c))]
    OBVIOUS
  <1>2. PICK A, B : /\ A = {taught[t] : t \in Teachers}
                    /\ B = {attended[c] : c \in Cohorts}
    OBVIOUS
  <1>3. A = {MapThenSumSet(LAMBDA a : us[a], TaughtBy(t)) : t \in Teachers}
    BY <1>1, <1>2 DEF Total
  <1>4. B = {MapThenSumSet(LAMBDA a : us[a], AttendedBy(c)) : c \in Cohorts}
    BY <1>1, <1>2 DEF Total
  <1>5. PICK S : S = A \cup B \cup {0}
    OBVIOUS
  <1>6. delta(us) = Max(S)
    BY <1>3, <1>4, <1>5 DEF delta, degrees
  <1>7. IsFiniteSet(S)
    <2>1. IsFiniteSet(A) /\ IsFiniteSet(B)
      BY <1>2, FiniteProblem, ImageIsFinite
    <2>2. IsFiniteSet({0})
      BY FS_Singleton
    <2> QED
      BY <1>5, <2>1, <2>2, FS_Union
  <1>8. S \subseteq Nat
    <2>1. ASSUME NEW t \in Teachers PROVE Total(us, TaughtBy(t)) \in Nat
      BY TaughtAndAttended, TotalIsNat
    <2>2. ASSUME NEW c \in Cohorts PROVE Total(us, AttendedBy(c)) \in Nat
      BY TaughtAndAttended, TotalIsNat
    <2> QED
      BY <1>1, <1>2, <1>5, <2>1, <2>2
  <1>9. Max(S) \in S /\ \A v \in S : Max(S) >= v
    <2>1. S \in SUBSET Int /\ S # {}
      BY <1>5, <1>8
    <2> QED
      BY <1>7, <2>1, MaxIsIn
  <1>10. PICK m \in S : m = delta(us) /\ m \in Nat /\ \A v \in S : v \in Nat /\ v <= m
    BY <1>6, <1>8, <1>9
  <1>11. ASSUME NEW t \in Teachers PROVE Total(us, TaughtBy(t)) <= m
    BY <1>1, <1>2, <1>5, <1>10
  <1>12. ASSUME NEW c \in Cohorts PROVE Total(us, AttendedBy(c)) <= m
    BY <1>1, <1>2, <1>5, <1>10
  <1>13. ASSUME NEW n \in Nat, \A t \in Teachers : Total(us, TaughtBy(t)) <= n,
                \A c \in Cohorts : Total(us, AttendedBy(c)) <= n
         PROVE  m <= n
    BY <1>1, <1>2, <1>5, <1>10, <1>13
  <1> QED
    BY <1>10, <1>11, <1>12, <1>13

LEMMA TotalOfWeekly ==
  ASSUME NEW as, IsFiniteSet(as), NEW us, \A a \in as : us[a] = WeeklyPeriods(a)
  PROVE  Total(us, as) = MapThenSumSet(WeeklyPeriods, as)
  <1>1. PICK w : w = [a \in as |-> WeeklyPeriods(a)]
    OBVIOUS
  <1>2. MapThenSumSet(WeeklyPeriods, as) = Total(w, as)
    BY <1>1, DemandIsTotal
  <1>3. \A a \in as : us[a] = w[a]
    BY <1>1
  <1> QED
    BY <1>2, <1>3, TotalSame

LEMMA TotalOfDoubles ==
  ASSUME NEW as, IsFiniteSet(as), NEW us, \A a \in as : us[a] = DoubleBlocks(a)
  PROVE  Total(us, as) = MapThenSumSet(DoubleBlocks, as)
  <1>1. PICK d : d = [a \in as |-> DoubleBlocks(a)]
    OBVIOUS
  <1>2. MapThenSumSet(DoubleBlocks, as) = Total(d, as)
    BY <1>1, DoublesAreTotal
  <1>3. \A a \in as : us[a] = d[a]
    BY <1>1
  <1> QED
    BY <1>2, <1>3, TotalSame

LEMMA CapacityIsNat ==
  ASSUME problem \in Problems, NEW t \in Teachers
  PROVE  capacity(t) \in Nat /\ capacity(t) <= NumPeriods
  <1>1. problem.limit[t] \in Nat
    BY ProblemsAreFinite DEF Teachers
  <1>2. PICK free : free = AvailablePeriods(t)
    OBVIOUS
  <1>3. NumPeriods \in Nat
    BY EngineAssumption
  <1>4. Cardinality(Periods) = NumPeriods
    BY <1>3, FS_Interval DEF Periods
  <1>5. free \in SUBSET Periods
    BY <1>2 DEF AvailablePeriods
  <1>6. IsFiniteSet(free) /\ Cardinality(free) <= Cardinality(Periods)
    BY <1>5, FinitePeriods, FS_Subset
  <1>7. Cardinality(free) \in Nat
    BY <1>6, FS_CardinalityType
  <1> QED
    BY <1>1, <1>2, <1>3, <1>4, <1>6, <1>7 DEF capacity, AtMost

LEMMA TotalOfZeros ==
  ASSUME NEW f, NEW S, IsFiniteSet(S), \A x \in S : f[x] = 0
  PROVE  Total(f, S) = 0
  <1> SUFFICES ASSUME Total(f, S) # 0 PROVE FALSE
    OBVIOUS
  <1> DEFINE T == {s \in SUBSET S : Total(f, s) # 0}
  <1>1. PICK s \in T : \A r \in T : r \subseteq s => r = s
    <2>1. T \in SUBSET SUBSET S /\ S \in T
      OBVIOUS
    <2> HIDE DEF T
    <2> QED
      BY <2>1, SmallestSubset
  <1>2. s \subseteq S /\ Total(f, s) # 0 /\ IsFiniteSet(s)
    BY <1>1, FS_Subset
  <1>3. s # {}
    BY <1>2, TotalEmpty
  <1>4. PICK x \in s : Total(f, s) = f[x] + Total(f, s \ {x})
    BY <1>2, <1>3, FirstIsIn, TotalFirst
  <1>5. Total(f, s \ {x}) = 0
    BY <1>1, <1>2
  <1> QED
    BY <1>2, <1>4, <1>5

\* Demand past the preflight and of a shape that can be coloured has slots for
\* its colouring, and the units of the colouring are all of the demand.
LEMMA ColoringFits ==
  ASSUME problem \in Problems, ExactShape, AnalyzeFeasibility
  PROVE  LET us == unitsOf(Coloring) IN
         /\ Coloring \in ColorPhases
         /\ placements = {} => usable(Coloring)
         /\ us \in [Assignments -> Nat]
         /\ \A a \in Assignments : WeeklyPeriods(a) = Width(Coloring) * us[a]
         /\ delta(us) <= Cardinality(SlotsOf(Coloring))
  <1>1. PICK k, us : k = Coloring /\ us = unitsOf(k)
    OBVIOUS
  <1>2. \A a \in Assignments : /\ WeeklyPeriods(a) \in Nat /\ DoubleBlocks(a) \in Nat
                               /\ DoubleBlocks(a) * 2 <= WeeklyPeriods(a)
    BY FiniteProblem DEF AnalyzeFeasibility
  <1>3. k \in ColorPhases
    BY <1>1 DEF Coloring, ColorPhases
  <1>4. us = [a \in Assignments |-> us[a]]
    <2> DEFINE demand(a) == CASE k = "paired" -> WeeklyPeriods(a) \div 2
                              [] k = "doubled" -> DoubleBlocks(a)
                              [] k = "colored" -> WeeklyPeriods(a) - DoubleBlocks(a) * 2
    <2>1. us = [a \in Assignments |-> demand(a)]
      BY <1>1 DEF unitsOf
    <2> HIDE DEF demand
    <2> QED
      BY <2>1
  <1>5. /\ placements = {} => usable(k)
        /\ \A a \in Assignments : us[a] \in Nat /\ WeeklyPeriods(a) = Width(k) * us[a]
        /\ us \in [Assignments -> Nat] => delta(us) <= Cardinality(SlotsOf(k))
    <2>1. CASE k = "paired"
      <3>1. PairedDemand
        BY <1>1, <2>1 DEF Coloring
      <3>2. ASSUME NEW a \in Assignments
            PROVE  us[a] \in Nat /\ WeeklyPeriods(a) = Width(k) * us[a]
        <4>1. PICK w \in Nat : w = WeeklyPeriods(a) /\ w % 2 = 0
          BY <1>2, <3>1 DEF PairedDemand
        <4>2. us[a] = w \div 2
          BY <1>1, <2>1, <4>1 DEF unitsOf
        <4>3. w \div 2 \in Nat /\ w = 2 * (w \div 2)
          BY <4>1
        <4> QED
          BY <2>1, <4>1, <4>2, <4>3 DEF Width
      <3>3. delta(us) <= Cardinality(adjacent)
        <4>1. \E a \in Assignments : DoubleBlocks(a) > 0 /\ DoubleBlocks(a) # 0
          BY <1>2, <3>1 DEF PairedDemand
        <4>2. \E a \in Assignments : WeeklyPeriods(a) # DoubleBlocks(a) * 2
          BY <1>2, <3>1 DEF PairedDemand
        <4> QED
          BY <1>1, <2>1, <4>1, <4>2 DEF ExactShape
      <3> QED
        BY <2>1, <3>1, <3>2, <3>3 DEF usable, canUsePairedDemandColoring, PairedDemand, SlotsOf
    <2>2. CASE k = "doubled"
      <3>1. DoubledDemand
        BY <1>1, <2>2 DEF Coloring
      <3>2. ASSUME NEW a \in Assignments
            PROVE  us[a] \in Nat /\ WeeklyPeriods(a) = Width(k) * us[a] /\ us[a] = DoubleBlocks(a)
        <4>1. PICK d \in Nat : d = DoubleBlocks(a) /\ WeeklyPeriods(a) = d * 2
          BY <1>2, <3>1 DEF DoubledDemand
        <4>2. us[a] = d
          BY <1>1, <2>2, <4>1 DEF unitsOf
        <4> QED
          BY <2>2, <4>1, <4>2 DEF Width
      <3>3. ASSUME us \in [Assignments -> Nat] PROVE delta(us) <= Cardinality(adjacent)
        <4>1. PICK n : n = adjacentCapacity({}) /\ n \in Nat /\ n = Cardinality(adjacent)
          BY AdjacentPairs, FS_CardinalityType
        <4>2. ASSUME NEW t \in Teachers PROVE Total(us, TaughtBy(t)) <= n
          <5>1. Total(us, TaughtBy(t)) = MapThenSumSet(DoubleBlocks, TaughtBy(t))
            BY <3>2, TaughtAndAttended, TotalOfDoubles
          <5>2. problem.unavailable[t] = {} /\ TeacherFeasible(t)
            BY DEF ExactShape, AnalyzeFeasibility
          <5> QED
            BY <4>1, <5>1, <5>2 DEF TeacherFeasible
        <4>3. ASSUME NEW c \in Cohorts PROVE Total(us, AttendedBy(c)) <= n
          <5>1. Total(us, AttendedBy(c)) = MapThenSumSet(DoubleBlocks, AttendedBy(c))
            BY <3>2, TaughtAndAttended, TotalOfDoubles
          <5>2. CASE AttendedBy(c) = {}
            BY <4>1, <5>2, TotalEmpty
          <5>3. CASE AttendedBy(c) # {}
            <6>1. CohortFeasible(c)
              BY DEF AnalyzeFeasibility
            <6> QED
              BY <4>1, <5>1, <5>3, <6>1 DEF CohortFeasible
          <5> QED
            BY <5>2, <5>3
        <4> QED
          BY <3>3, <4>1, <4>2, <4>3, DeltaIsBound
      <3> QED
        BY <2>2, <3>1, <3>2, <3>3 DEF usable, canUseExactColoring, DoubledDemand, SlotsOf
    <2>3. CASE k = "colored"
      <3>1. \A a \in Assignments : DoubleBlocks(a) = 0
        <4>1. ~DoubledDemand /\ ~PairedDemand
          BY <1>1, <2>3 DEF Coloring
        <4>2. CASE \A a \in Assignments : WeeklyPeriods(a) = DoubleBlocks(a) * 2
          BY <4>1, <4>2 DEF DoubledDemand
        <4>3. CASE \A a \in Assignments : WeeklyPeriods(a) % 2 = 0
          <5>1. PICK a \in Assignments : WeeklyPeriods(a) # DoubleBlocks(a) * 2
            BY <4>1 DEF DoubledDemand
          <5>2. WeeklyPeriods(a) > DoubleBlocks(a) * 2
            BY <1>2, <5>1
          <5>3. \A b \in Assignments : ~(DoubleBlocks(b) > 0)
            BY <4>1, <4>3, <5>2 DEF PairedDemand
          <5> QED
            BY <1>2, <5>3
        <4> QED
          BY <4>2, <4>3 DEF ExactShape
      <3>2. ASSUME NEW a \in Assignments
            PROVE  us[a] \in Nat /\ WeeklyPeriods(a) = Width(k) * us[a] /\ us[a] = WeeklyPeriods(a)
        <4>1. PICK w \in Nat : w = WeeklyPeriods(a) /\ DoubleBlocks(a) = 0
          BY <1>2, <3>1
        <4>2. us[a] = w - DoubleBlocks(a) * 2
          BY <1>1, <2>3, <4>1 DEF unitsOf
        <4>3. us[a] = w
          BY <4>1, <4>2
        <4> QED
          BY <2>3, <4>1, <4>3 DEF Width
      <3>3. ASSUME us \in [Assignments -> Nat] PROVE delta(us) <= Cardinality(singles)
        <4>1. PICK n \in Nat : n = NumPeriods /\ n = Cardinality(singles)
          BY SinglePeriods, EngineAssumption
        <4>2. ASSUME NEW t \in Teachers PROVE Total(us, TaughtBy(t)) <= n
          <5>1. PICK total \in Nat : /\ total = Total(us, TaughtBy(t))
                                     /\ total = MapThenSumSet(WeeklyPeriods, TaughtBy(t))
            BY <3>2, TaughtAndAttended, TotalOfWeekly, TotalIsNat
          <5>2. total <= capacity(t) /\ capacity(t) \in Nat /\ capacity(t) <= n
            BY <4>1, <5>1, CapacityIsNat DEF AnalyzeFeasibility, TeacherFeasible
          <5> QED
            BY <5>1, <5>2
        <4>3. ASSUME NEW c \in Cohorts PROVE Total(us, AttendedBy(c)) <= n
          <5>1. Total(us, AttendedBy(c)) = MapThenSumSet(WeeklyPeriods, AttendedBy(c))
            BY <3>2, TaughtAndAttended, TotalOfWeekly
          <5>2. CASE AttendedBy(c) = {}
            BY <4>1, <5>2, TotalEmpty
          <5>3. CASE AttendedBy(c) # {}
            <6>1. CohortFeasible(c)
              BY DEF AnalyzeFeasibility
            <6> QED
              BY <4>1, <5>1, <5>3, <6>1 DEF CohortFeasible
          <5> QED
            BY <5>2, <5>3
        <4> QED
          BY <3>3, <4>1, <4>2, <4>3, DeltaIsBound
      <3> QED
        BY <2>3, <3>1, <3>2, <3>3 DEF usable, canUseExactColoring, SlotsOf
    <2> QED
      BY <1>3, <2>1, <2>2, <2>3 DEF ColorPhases
  <1>6. us \in [Assignments -> Nat]
    BY <1>4, <1>5
  <1> QED
    BY <1>1, <1>3, <1>5, <1>6

\* The colourings tried before it cannot be used, and those tried after it
\* have nothing to colour.
LEMMA OtherColorings ==
  ASSUME problem \in Problems, ExactShape, AnalyzeFeasibility, NEW p \in ColorPhases
  PROVE  /\ p \in Before[Coloring] => ~usable(p)
         /\ p \in Past[Coloring] /\ usable(p) => delta(unitsOf(p)) = 0
         /\ Coloring = "colored" => \A a \in Assignments : DoubleBlocks(a) = 0
  <1>1. \A a \in Assignments : /\ WeeklyPeriods(a) \in Nat /\ DoubleBlocks(a) \in Nat
                               /\ DoubleBlocks(a) * 2 <= WeeklyPeriods(a)
    BY FiniteProblem DEF AnalyzeFeasibility
  <1>2. PICK k \in ColorPhases : k = Coloring /\ (placements = {} => usable(k))
    BY ColoringFits
  <1>3. /\ k = "paired" <=> PairedDemand
        /\ k = "doubled" <=> DoubledDemand /\ ~PairedDemand
    BY <1>2 DEF Coloring
  <1>4. k = "colored" => \A a \in Assignments : DoubleBlocks(a) = 0
    <2> SUFFICES ASSUME k = "colored" PROVE \A a \in Assignments : DoubleBlocks(a) = 0
      OBVIOUS
    <2>1. PICK b \in Assignments : WeeklyPeriods(b) # DoubleBlocks(b) * 2
      BY <1>3 DEF DoubledDemand
    <2>2. WeeklyPeriods(b) > DoubleBlocks(b) * 2
      BY <1>1, <2>1
    <2>3. CASE \A a \in Assignments : WeeklyPeriods(a) % 2 = 0
      <3>1. \A a \in Assignments : ~(DoubleBlocks(a) > 0)
        BY <1>3, <2>2, <2>3 DEF PairedDemand
      <3> QED
        BY <1>1, <3>1
    <2> QED
      BY <2>1, <2>3 DEF ExactShape
  <1>5. ASSUME p \in Before[k], usable(p) PROVE FALSE
    <2>1. CASE p = "paired"
      <3>1. PairedDemand
        BY <1>5, <2>1 DEF usable, canUsePairedDemandColoring, PairedDemand
      <3> QED
        BY <1>3, <1>5, <2>1, <3>1 DEF Before
    <2>2. CASE p = "doubled"
      <3>1. DoubledDemand
        BY <1>5, <2>2 DEF usable, canUseExactColoring, DoubledDemand
      <3> QED
        BY <1>2, <1>3, <1>5, <2>2, <3>1 DEF Before, ColorPhases
    <2>3. CASE p = "colored"
      BY <1>2, <1>5, <2>3 DEF Before, ColorPhases
    <2> QED
      BY <2>1, <2>2, <2>3 DEF ColorPhases
  <1>6. ASSUME p \in Past[k], usable(p) PROVE delta(unitsOf(p)) = 0
    <2>1. CASE k = "paired"
      <3>1. PICK a \in Assignments, b \in Assignments :
              DoubleBlocks(a) > 0 /\ WeeklyPeriods(b) > DoubleBlocks(b) * 2
        BY <1>3, <2>1 DEF PairedDemand
      <3>2. DoubleBlocks(a) # 0 /\ WeeklyPeriods(b) # DoubleBlocks(b) * 2
        BY <1>1, <3>1
      <3>3. p \in {"doubled", "colored"}
        BY <1>6, <2>1 DEF Past, ColorPhases
      <3> QED
        BY <1>6, <3>2, <3>3 DEF usable, canUseExactColoring
    <2>2. CASE k = "doubled"
      <3>1. p = "colored"
        BY <1>6, <2>2 DEF Past, ColorPhases
      <3>2. PICK us : us = unitsOf(p)
        OBVIOUS
      <3>3. ASSUME NEW a \in Assignments PROVE WeeklyPeriods(a) - DoubleBlocks(a) * 2 = 0
        <4>1. WeeklyPeriods(a) = DoubleBlocks(a) * 2 /\ DoubleBlocks(a) \in Nat
          BY <1>1, <1>3, <2>2 DEF DoubledDemand
        <4> QED
          BY <4>1
      <3>4. us = [a \in Assignments |-> 0]
        <4> DEFINE rest(a) == WeeklyPeriods(a) - DoubleBlocks(a) * 2
        <4>1. us = [a \in Assignments |-> rest(a)]
          BY <3>1, <3>2 DEF unitsOf
        <4>2. \A a \in Assignments : rest(a) = 0
          BY <3>3
        <4> HIDE DEF rest
        <4> QED
          BY <4>1, <4>2
      <3>5. \A as \in SUBSET Assignments : IsFiniteSet(as) => Total(us, as) = 0
        BY <3>4, TotalOfZeros
      <3>6. \A x : Total(us, TaughtBy(x)) = 0 /\ Total(us, AttendedBy(x)) = 0
        BY <3>5, TaughtAndAttended
      <3>7. delta(us) \in Nat /\ delta(us) <= 0
        BY <3>4, <3>6, DeltaIsBound
      <3> QED
        BY <3>2, <3>7
    <2>3. CASE k = "colored"
      BY <1>6, <2>3 DEF Past, ColorPhases
    <2> QED
      BY <2>1, <2>2, <2>3 DEF ColorPhases
  <1> QED
    BY <1>2, <1>4, <1>5, <1>6

\* The slots of a pass do not overlap, and are pairs or single periods.
LEMMA SlotsApart ==
  ASSUME NEW p \in SlotPhases
  PROVE  /\ \A s \in SlotsOf(p) : s \subseteq Periods
         /\ \A s, r \in SlotsOf(p) : s # r => s \cap r = {}
         /\ p = "colored" => SlotsOf(p) = singles
         /\ p \in {"paired", "doubled"} => SlotsOf(p) = adjacent
  BY AdjacentPairs, SinglePeriods DEF SlotsOf, SlotPhases, ColorPhases

LEMMA LessonsAreShaped ==
  ASSUME NEW a, NEW slot, NEW double, slot \in adjacent \/ (slot \in singles /\ ~double)
  PROVE  Shaped(lessons(a, slot, double))
  <1> SUFFICES ASSUME NEW x \in lessons(a, slot, double) PROVE ~Misshapen(x)
    BY DEF Shaped
  <1>1. CASE double
    <2>1. PICK p \in Consecutive : slot = {p, p + 1}
      BY <1>1, AdjacentPairs
    <2>2. x = [assignment |-> a, periods |-> slot, double |-> TRUE]
      BY <1>1 DEF lessons
    <2> QED
      BY <2>1, <2>2 DEF Misshapen
  <1>2. CASE ~double
    <2>1. PICK p \in slot : x = [assignment |-> a, periods |-> {p}, double |-> FALSE]
      BY <1>2 DEF lessons
    <2>2. Cardinality({p}) = 1
      BY FS_Singleton
    <2> QED
      BY <2>1, <2>2 DEF Misshapen
  <1> QED
    BY <1>1, <1>2

\* Nothing but a lesson in the slot keeps an assignment out of it.
LEMMA FreeSlotFits ==
  ASSUME IndInv, ExactShape, NEW slot \in SUBSET Periods,
         \A x \in placements : slot \cap x.periods = {},
         NEW as \in SUBSET Assignments
  PROVE  Placed(as, slot) = {as}
  <1>1. ASSUME NEW a \in Assignments PROVE canPlace(a, slot) /\ ResourceID(a) = None
    <2>1. TeacherID(a) \in Teachers /\ CohortID(a) \in Cohorts /\ ResourceID(a) = None
      BY Closed DEF IndInv, ExactShape
    <2>2. slot \subseteq AvailablePeriods(TeacherID(a))
      BY <2>1 DEF ExactShape, AvailablePeriods
    <2>3. slot \cap teacherOcc[TeacherID(a)] = {}
      BY <2>1 DEF IndInv, Booked, TeachersAgree
    <2>4. slot \cap cohortOcc[CohortID(a)] = {}
      BY <2>1 DEF IndInv, Booked, CohortsAgree
    <2> QED
      BY <2>1, <2>2, <2>3, <2>4 DEF canPlace
  <1>2. \A bs \in SUBSET Assignments : fit(bs, slot)
    BY <1>1 DEF fit
  <1>3. as \in Placed(as, slot)
    BY <1>2 DEF Placed
  <1>4. ASSUME NEW bs \in Placed(as, slot) PROVE bs = as
    <2>1. bs \subseteq as /\ \A a \in as \ bs : ~fit(bs \cup {a}, slot)
      BY DEF Placed
    <2>2. \A a \in as \ bs : bs \cup {a} \in SUBSET Assignments
      BY <2>1
    <2> QED
      BY <1>2, <2>1, <2>2
  <1> QED
    BY <1>3, <1>4

\* A colour is placed whole, in a slot that no lesson has touched.
LEMMA ColorIsPlaced ==
  ASSUME IndInv, ExactShape, phase = Coloring, PlaceColor,
         Filling(phase, placements, remaining, units, rounds, todo)
  PROVE  Filling(phase', placements', remaining', units', rounds', todo')
  <1>1. PICK as \in colorClasses, slot \in todo :
          /\ \E bs \in Placed(as, slot) : place(bs, slot, twiceOf(bs))
          /\ units' = Less(units, as)
          /\ todo' = todo \ {slot}
    BY DEF PlaceColor
  <1>2. /\ phase \in ColorPhases /\ phase \in SlotPhases /\ phase' = phase
        /\ rounds > 0 /\ rounds' = rounds - 1
    BY DEF PlaceColor, SlotPhases
  <1>3. /\ Shaped(placements)
        /\ units \in [Assignments -> Nat]
        /\ \A a \in Assignments : remaining[a] = Width(phase) * units[a]
        /\ rounds \in Nat
        /\ todo \subseteq SlotsOf(phase)
        /\ \A r \in todo, x \in placements : r \cap x.periods = {}
    BY DEF Filling
  <1>4. /\ as \subseteq Assignments /\ \A a \in as : units[a] > 0
        /\ delta(Less(units, as)) < rounds
    BY DEF colorClasses
  <1>5. slot \in SlotsOf(phase) /\ slot \subseteq Periods
    BY <1>2, <1>3, SlotsApart
  <1>6. Placed(as, slot) = {as}
    BY <1>3, <1>4, <1>5, FreeSlotFits
  <1>7. PICK twice : twice = twiceOf(as) /\ place(as, slot, twice)
    BY <1>1, <1>6
  <1>8. PICK k \in Nat : /\ k = Cardinality(slot) /\ k = Width(phase)
    <2>1. Cardinality(slot) = Width(phase)
      BY <1>2, <1>5, SlotsApart, SlotSizes DEF Width, ColorPhases
    <2> QED
      BY <2>1 DEF Width
  <1>9. units' = [a \in Assignments |-> IF a \in as THEN units[a] - 1 ELSE units[a]]
    BY <1>1 DEF Less
  <1>10. ASSUME NEW a \in Assignments
         PROVE  units'[a] \in Nat /\ remaining'[a] = k * units'[a]
    <2>1. PICK u \in Nat, r \in Int : u = units[a] /\ r = remaining[a] /\ r = k * u
      <3>1. PICK u \in Nat : u = units[a] /\ remaining[a] = k * u
        BY <1>3, <1>8
      <3>2. k * u \in Int
        OBVIOUS
      <3> QED
        BY <3>1, <3>2
    <2>2. remaining'[a] = IF a \in as THEN r - k ELSE r
      <3>1. remaining'[a] = IF a \in as THEN remaining[a] - Cardinality(slot) ELSE remaining[a]
        BY <1>7, PlaceLeaves
      <3> QED
        BY <1>8, <2>1, <3>1
    <2>3. CASE a \in as
      <3>1. u > 0 /\ units'[a] = u - 1
        BY <1>4, <1>9, <2>1, <2>3
      <3>2. k = 1 \/ k = 2
        BY <1>8 DEF Width
      <3>3. u - 1 \in Nat /\ k * u - k = k * (u - 1)
        BY <3>1, <3>2
      <3> QED
        BY <2>1, <2>2, <2>3, <3>1, <3>3
    <2>4. CASE a \notin as
      BY <1>9, <2>1, <2>2, <2>4
    <2> QED
      BY <2>3, <2>4
  <1>11. units' \in [Assignments -> Nat]
    BY <1>9, <1>10
  <1>12. /\ rounds' \in Nat
         /\ \A t \in Teachers : Total(units', TaughtBy(t)) <= rounds'
    <2>1. PICK d : d = delta(units') /\ d \in Nat /\ d < rounds
      BY <1>1, <1>4, <1>11, DeltaIsBound DEF IndInv
    <2>2. rounds - 1 \in Nat /\ d <= rounds - 1
      BY <1>3, <2>1
    <2>3. ASSUME NEW t \in Teachers PROVE Total(units', TaughtBy(t)) <= rounds'
      <3>1. PICK n : n = Total(units', TaughtBy(t)) /\ n \in Nat
        BY <1>11, TaughtAndAttended, TotalIsNat DEF IndInv
      <3>2. n <= d
        BY <1>11, <2>1, <3>1, DeltaIsBound DEF IndInv
      <3> QED
        BY <1>2, <1>3, <2>1, <2>2, <3>1, <3>2
    <2> QED
      BY <1>2, <2>2, <2>3
  <1>13. placements' = placements \cup UNION {lessons(a, slot, a \in twice) : a \in as}
    BY <1>7 DEF place
  <1>14. Shaped(placements')
    <2>1. ASSUME NEW a \in as PROVE Shaped(lessons(a, slot, a \in twice))
      <3>1. CASE phase = "colored"
        <4>1. twice = {} /\ slot \in singles
          BY <1>2, <1>5, <1>7, <3>1, SlotsApart DEF twiceOf
        <4> QED
          BY <4>1, LessonsAreShaped
      <3>2. CASE phase # "colored"
        <4>1. slot \in adjacent
          BY <1>2, <1>5, <3>2, SlotsApart DEF ColorPhases
        <4> QED
          BY <4>1, LessonsAreShaped
      <3> QED
        BY <3>1, <3>2
    <2> QED
      BY <1>3, <1>13, <2>1 DEF Shaped
  <1>15. ASSUME NEW r \in todo', NEW x \in placements' PROVE r \cap x.periods = {}
    <2>1. r \in todo /\ r # slot /\ r \in SlotsOf(phase)
      BY <1>1, <1>3
    <2>2. CASE x \in placements
      BY <1>3, <2>1, <2>2
    <2>3. CASE x \notin placements
      <3>1. PICK a \in as : x \in lessons(a, slot, a \in twice)
        BY <1>13, <2>3
      <3>2. x.periods \subseteq slot
        BY <3>1, LessonsOfPlace
      <3>3. r \cap slot = {}
        BY <1>2, <1>5, <2>1, SlotsApart
      <3> QED
        BY <3>2, <3>3
    <2> QED
      BY <2>2, <2>3
  <1>16. todo' \subseteq SlotsOf(phase')
    BY <1>1, <1>2, <1>3
  <1>17. \A a \in Assignments : remaining'[a] = Width(phase') * units'[a]
    BY <1>2, <1>8, <1>10
  <1> QED
    BY <1>11, <1>12, <1>14, <1>15, <1>16, <1>17 DEF Filling

LEMMA PhaseOrder ==
  ASSUME NEW k \in ColorPhases
  PROVE  /\ k \notin Before[k] /\ k \notin Past[k] /\ Before[k] \cap Past[k] = {}
         /\ ColorPhases \cup {"doubles", "singles"} \subseteq Before[k] \cup {k} \cup Past[k]
         /\ {"singles", "repair", "judge"} \subseteq Past[k]
         /\ "doubles" \in Before[k] => k = "colored"
         /\ \A p \in DOMAIN after :
              /\ after[p] \in Before[k] \cup {k} => p \in Before[k]
              /\ after[p] \in Past[k] => p \in {k} \cup Past[k]
         /\ \A p \in {"restart"} \cup Statuses : p \notin Before[k] \cup {k} \cup Past[k]
         /\ "pin" \in Before[k]
  <1>1. CASE k = "paired"
    BY <1>1 DEF Before, Past, ColorPhases, after, Statuses
  <1>2. CASE k = "doubled"
    BY <1>2 DEF Before, Past, ColorPhases, after, Statuses
  <1>3. CASE k = "colored"
    BY <1>3 DEF Before, Past, ColorPhases, after, Statuses
  <1> QED
    BY <1>1, <1>2, <1>3 DEF ColorPhases

\* Without colours left nothing remains.
LEMMA Exhausted ==
  ASSUME problem \in Problems, phase = Coloring, rounds = 0,
         Filling(phase, placements, remaining, units, rounds, todo), NEW a \in Assignments
  PROVE  remaining[a] = 0
  <1>1. /\ units \in [Assignments -> Nat] /\ remaining[a] = Width(phase) * units[a]
        /\ \A t \in Teachers : Total(units, TaughtBy(t)) <= 0
    BY DEF Filling
  <1>2. PICK t \in Teachers : t = TeacherID(a)
    BY Closed
  <1>3. PICK own : own = TaughtBy(t) /\ a \in own /\ own \subseteq Assignments
                   /\ IsFiniteSet(own) /\ IsFiniteSet(own \ {a})
    <2>1. a \in TaughtBy(t)
      BY <1>2 DEF TaughtBy
    <2>2. TaughtBy(t) \subseteq Assignments /\ IsFiniteSet(TaughtBy(t))
      BY TaughtAndAttended
    <2>3. IsFiniteSet(TaughtBy(t) \ {a})
      BY <2>2, FS_RemoveElement
    <2> QED
      BY <2>1, <2>2, <2>3
  <1>4. Total(units, own) = units[a] + Total(units, own \ {a})
    <2>1. \A b \in own : units[b] \in Int
      BY <1>1, <1>3
    <2> QED
      BY <1>3, <2>1, TotalRemove
  <1>5. PICK n : n = Total(units, own \ {a}) /\ n \in Nat
    BY <1>1, <1>3, TotalIsNat
  <1>6. units[a] = 0
    BY <1>1, <1>3, <1>4, <1>5
  <1> QED
    BY <1>1, <1>6 DEF Width

\* What a step has to show, with the problem it does not change.
PlacingNext ==
  /\ Waiting(phase', placements', rounds', todo')
  /\ Filling(phase', placements', remaining', units', rounds', todo')
  /\ Filled(phase', placements', remaining', rounds')

\* A colouring begins where nothing has been placed.
LEMMA EnterPlacing ==
  ASSUME IndInv, ExactShape, AnalyzeFeasibility, Counted(placements, remaining, doubles),
         Placing, Leave, phase' \in ColorPhases
  PROVE  PlacingNext
  <1>1. PICK k \in ColorPhases : k = Coloring
    BY ColoringFits DEF IndInv
  <1>2. PICK p \in ColorPhases : p = phase'
    OBVIOUS
  <1>3. /\ problem \in Problems /\ phase \in DOMAIN after /\ p = after[phase] /\ Finished
        /\ EnterColoring(p) /\ placements' = placements /\ remaining' = remaining
    BY <1>2 DEF Leave, IndInv
  <1>4. PICK used \in BOOLEAN : used <=> usable(p) /\ delta(unitsOf(p)) <= Cardinality(SlotsOf(p))
    OBVIOUS
  <1>5. /\ units' = IF used THEN unitsOf(p) ELSE [a \in Assignments |-> 0]
        /\ rounds' = IF used THEN delta(unitsOf(p)) ELSE 0
        /\ todo' = SlotsOf(p)
    BY <1>3, <1>4 DEF EnterColoring
  <1>6. p # "doubles"
    BY DEF ColorPhases
  <1>7. p \in Before[k] \cup {k} \cup Past[k]
    BY <1>1, PhaseOrder
  <1>8. CASE p \in Before[k]
    <2>1. phase \in Before[k] /\ p \notin Past[k] /\ p # k
      BY <1>1, <1>3, <1>8, PhaseOrder
    <2>2. placements' = {}
      BY <1>1, <1>3, <2>1 DEF Placing, Waiting
    <2>3. rounds' = 0
      BY <1>1, <1>3, <1>4, <1>5, <1>8, OtherColorings
    <2> QED
      BY <1>1, <1>2, <1>6, <2>1, <2>2, <2>3 DEF PlacingNext, Waiting, Filling, Filled
  <1>9. CASE p = k
    <2>1. phase \in Before[k] /\ p \notin Past[k] /\ p \notin Before[k]
      BY <1>1, <1>3, <1>9, PhaseOrder
    <2>2. placements = {} /\ placements' = {}
      BY <1>1, <1>3, <2>1 DEF Placing, Waiting
    <2>3. PICK us : us = unitsOf(p)
      OBVIOUS
    <2>4. /\ usable(p) /\ us \in [Assignments -> Nat]
          /\ \A a \in Assignments : WeeklyPeriods(a) = Width(p) * us[a]
          /\ delta(us) <= Cardinality(SlotsOf(p))
      BY <1>1, <1>3, <1>9, <2>2, <2>3, ColoringFits
    <2>5. units' = us /\ rounds' = delta(us) /\ todo' = SlotsOf(p)
      BY <1>4, <1>5, <2>3, <2>4
    <2>6. ASSUME NEW a \in Assignments PROVE remaining'[a] = Width(p) * us[a]
      <3>1. remaining[a] = WeeklyPeriods(a)
        BY <1>3, <2>2, NothingPlaced
      <3> QED
        BY <1>3, <2>4, <3>1
    <2>7. delta(us) \in Nat /\ \A t \in Teachers : Total(us, TaughtBy(t)) <= delta(us)
      BY <1>3, <2>4, DeltaIsBound
    <2>8. Filling(p, placements', remaining', units', rounds', todo')
      BY <2>2, <2>4, <2>5, <2>6, <2>7 DEF Filling, Shaped
    <2> QED
      BY <1>1, <1>2, <2>1, <2>8 DEF PlacingNext, Waiting, Filled
  <1>10. CASE p \in Past[k]
    <2>1. phase \in {k} \cup Past[k] /\ p \notin Before[k] /\ p # k
      BY <1>1, <1>3, <1>10, PhaseOrder
    <2>2. Shaped(placements) /\ \A a \in Assignments : remaining[a] = 0
      <3>1. CASE phase = k
        <4>1. rounds = 0
          BY <1>3, <3>1 DEF Finished, ColorPhases
        <4> QED
          BY <1>1, <1>3, <3>1, <4>1, Exhausted DEF Placing, Filling
      <3>2. CASE phase \in Past[k]
        BY <1>1, <3>2 DEF Placing, Filled
      <3> QED
        BY <2>1, <3>1, <3>2
    <2>3. rounds' = 0
      BY <1>1, <1>3, <1>4, <1>5, <1>10, OtherColorings
    <2> QED
      BY <1>1, <1>2, <1>3, <2>1, <2>2, <2>3 DEF PlacingNext, Waiting, Filling, Filled
  <1> QED
    BY <1>7, <1>8, <1>9, <1>10

LEMMA LeavePlacing ==
  ASSUME IndInv, ExactShape, AnalyzeFeasibility, Counted(placements, remaining, doubles),
         Placing, Leave, phase' \notin ColorPhases
  PROVE  PlacingNext
  <1>1. PICK k \in ColorPhases : k = Coloring
    BY ColoringFits DEF IndInv
  <1>2. /\ problem \in Problems /\ phase \in DOMAIN after /\ phase' = after[phase] /\ Finished
        /\ placements' = placements /\ remaining' = remaining /\ rounds' = rounds
        /\ todo' = IF phase' \in {"doubles", "singles"} /\ hasWork(phase')
                   THEN SlotsOf(phase') ELSE {}
    BY DEF Leave, IndInv
  <1>3. PICK p : p = phase' /\ p # k
    BY <1>1
  <1>4. CASE p \in Before[k]
    <2>1. phase \in Before[k] /\ p \notin Past[k]
      BY <1>1, <1>2, <1>3, <1>4, PhaseOrder
    <2>2. placements = {}
      BY <1>1, <2>1 DEF Placing, Waiting
    <2>3. p = "doubles" => todo' = {}
      <3> SUFFICES ASSUME p = "doubles" PROVE ~hasWork(p)
        BY <1>2, <1>3
      <3>1. k = "colored"
        BY <1>1, <1>4, PhaseOrder
      <3>2. ASSUME NEW a \in Assignments PROVE doubles[a] = 0
        BY <1>1, <1>2, <2>2, <3>1, NothingPlaced, OtherColorings
      <3> QED
        BY <3>2 DEF hasWork, hasRemaining
    <2> QED
      BY <1>1, <1>2, <1>3, <2>1, <2>2, <2>3 DEF PlacingNext, Waiting, Filling, Filled
  <1>5. CASE p \in Past[k]
    <2>1. phase \in {k} \cup Past[k] /\ p \notin Before[k]
      BY <1>1, <1>2, <1>3, <1>5, PhaseOrder
    <2>2. Shaped(placements) /\ \A a \in Assignments : remaining[a] = 0
      <3>1. CASE phase = k
        <4>1. rounds = 0
          BY <1>2, <3>1 DEF Finished, ColorPhases
        <4> QED
          BY <1>1, <1>2, <3>1, <4>1, Exhausted DEF Placing, Filling
      <3>2. CASE phase \in Past[k]
        BY <1>1, <3>2 DEF Placing, Filled
      <3> QED
        BY <2>1, <3>1, <3>2
    <2> QED
      BY <1>1, <1>2, <1>3, <2>1, <2>2 DEF PlacingNext, Waiting, Filling, Filled
  <1>6. CASE p \notin Before[k] \cup Past[k]
    BY <1>1, <1>3, <1>6 DEF PlacingNext, Waiting, Filling, Filled
  <1> QED
    BY <1>4, <1>5, <1>6

\* A pass finds nothing to do once nothing remains.
LEMMA MatchingPlacesNothing ==
  ASSUME PlaceMatching, \A a \in Assignments : remaining[a] = 0
  PROVE  placements' = placements /\ \A a \in Assignments : remaining'[a] = 0
  <1>1. PICK slot \in todo :
          \E as \in maximumMatchings(candidateEdges(slot)) : \E bs \in Placed(as, slot) :
            place(bs, slot, IF phase = "doubles" THEN bs ELSE {})
    BY DEF PlaceMatching
  <1>2. PICK as \in maximumMatchings(candidateEdges(slot)) : \E bs \in Placed(as, slot) :
            place(bs, slot, IF phase = "doubles" THEN bs ELSE {})
    BY <1>1
  <1>3. PICK bs, twice : bs \in Placed(as, slot) /\ place(bs, slot, twice)
    BY <1>2
  <1>4. candidateEdges(slot) = {}
    BY DEF candidateEdges
  <1>5. bs = {}
    BY <1>3, <1>4 DEF maximumMatchings, Placed
  <1>6. placements' = placements
    BY <1>3, <1>5 DEF place
  <1>7. ASSUME NEW a \in Assignments PROVE remaining'[a] = 0
    BY <1>3, <1>5, PlaceLeaves
  <1> QED
    BY <1>6, <1>7

LEMMA PlacingStep ==
  ASSUME IndInv, DoublesKept, ExactShape, AnalyzeFeasibility, Placing, ~timedOut',
         [Next]_vars
  PROVE  PlacingNext
  <1>1. PICK k \in ColorPhases : k = Coloring
    BY ColoringFits DEF IndInv
  <1>2. /\ pins = {} /\ Counted(placements, remaining, doubles) /\ problem \in Problems
    BY DEF DoublesKept, Kept, ExactShape, IndInv
  <1>3. ASSUME phase' \in {"restart"} \cup Statuses PROVE PlacingNext
    BY <1>1, <1>3, PhaseOrder DEF PlacingNext, Waiting, Filling, Filled
  <1>4. CASE solveAttempt
    <2>1. phase' = "pin" /\ placements' = {}
      BY <1>4 DEF solveAttempt
    <2>2. phase' \in Before[k] /\ phase' \notin Past[k] /\ phase' # k
      BY <1>1, <2>1, PhaseOrder
    <2> QED
      BY <1>1, <2>1, <2>2 DEF PlacingNext, Waiting, Filling, Filled, ColorPhases
  <1>5. CASE (\E x \in pins : Pin(x)) \/ (\E x \in pins : SkipPin(x))
    BY <1>2, <1>5
  <1>6. CASE PlaceColor
    <2>1. phase \in ColorPhases /\ rounds > 0 /\ phase' = phase
      BY <1>6 DEF PlaceColor
    <2>2. phase \in Before[k] \cup {k} \cup Past[k]
      BY <1>1, <2>1, PhaseOrder
    <2>3. phase = k
      BY <1>1, <2>1, <2>2 DEF Placing, Waiting, Filled
    <2>4. phase' \notin Before[k] /\ phase' \notin Past[k]
      BY <1>1, <2>1, <2>3, PhaseOrder
    <2>5. Filling(phase', placements', remaining', units', rounds', todo')
      BY <1>1, <1>6, <2>3, ColorIsPlaced DEF Placing
    <2> QED
      BY <1>1, <2>4, <2>5 DEF PlacingNext, Waiting, Filled
  <1>7. CASE PlaceMatching
    <2>1. phase \in {"doubles", "singles"} /\ phase' = phase /\ todo # {} /\ rounds' = rounds
      BY <1>7 DEF PlaceMatching
    <2>2. phase \in Before[k] \cup Past[k] /\ phase # k
      BY <1>1, <2>1, PhaseOrder DEF ColorPhases
    <2>3. phase \in Past[k] /\ phase \notin Before[k]
      <3>1. "singles" \in Past[k] /\ Before[k] \cap Past[k] = {}
        BY <1>1, PhaseOrder
      <3> QED
        BY <1>1, <2>1, <2>2, <3>1 DEF Placing, Waiting
    <2>4. Shaped(placements) /\ \A a \in Assignments : remaining[a] = 0
      BY <1>1, <2>3 DEF Placing, Filled
    <2>5. placements' = placements /\ \A a \in Assignments : remaining'[a] = 0
      BY <1>7, <2>4, MatchingPlacesNothing
    <2> QED
      BY <1>1, <2>1, <2>2, <2>3, <2>4, <2>5
         DEF PlacingNext, Waiting, Filling, Filled, ColorPhases
  <1>8. CASE NextPass
    <2>1. /\ phase \in {"doubles", "singles"} /\ phase' = phase /\ rounds' = rounds
          /\ placements' = placements /\ remaining' = remaining /\ hasWork(phase)
      BY <1>8 DEF NextPass
    <2>2. phase \in Before[k] \cup Past[k] /\ phase # k
      BY <1>1, <2>1, PhaseOrder DEF ColorPhases
    <2>3. phase \notin Before[k]
      <3> SUFFICES ASSUME phase \in Before[k] PROVE FALSE
        OBVIOUS
      <3>1. "singles" \in Past[k] /\ Before[k] \cap Past[k] = {}
        BY <1>1, PhaseOrder
      <3>2. phase = "doubles" /\ k = "colored"
        BY <1>1, <2>1, <3>1, PhaseOrder
      <3>3. placements = {}
        BY <1>1 DEF Placing, Waiting
      <3>4. ASSUME NEW a \in Assignments PROVE doubles[a] = 0
        BY <1>1, <1>2, <3>2, <3>3, NothingPlaced, OtherColorings
      <3> QED
        BY <2>1, <3>2, <3>4 DEF hasWork, hasRemaining
    <2>4. Shaped(placements) /\ \A a \in Assignments : remaining[a] = 0
      BY <1>1, <2>2, <2>3 DEF Placing, Filled
    <2> QED
      BY <1>1, <2>1, <2>2, <2>3, <2>4 DEF PlacingNext, Waiting, Filling, Filled, ColorPhases
  <1>9. CASE repairSingles
    <2>1. phase \in Past[k]
      BY <1>1, <1>9, PhaseOrder DEF repairSingles
    <2>2. \A a \in Assignments : remaining[a] = 0
      BY <1>1, <2>1 DEF Placing, Filled
    <2>3. \E a \in Assignments : remaining[a] > 0
      BY <1>2, <1>9, ExchangeIsCounted
    <2> QED
      BY <2>2, <2>3
  <1>10. CASE Leave
    BY <1>2, <1>10, EnterPlacing, LeavePlacing
  <1>11. CASE Judge \/ Return
    <2>1. phase' \in {"restart"} \cup Statuses
      BY <1>11 DEF Judge, Return, statusOf, Statuses
    <2> QED
      BY <1>3, <2>1
  <1>12. CASE budgetExceeded
    BY <1>12 DEF budgetExceeded
  <1>13. CASE UNCHANGED vars
    BY <1>13 DEF vars, attempt, Placing, PlacingNext
  <1> QED
    BY <1>4, <1>5, <1>6, <1>7, <1>8, <1>9, <1>10, <1>11, <1>12, <1>13 DEF Next, Steps, Solved

LEMMA CountOfLessons ==
  ASSUME problem \in Problems, NEW xs \in SUBSET Lesson, NEW as
  PROVE  /\ periodCount(xs, as) = Total(Size, LessonsIn(xs, as))
         /\ IsFiniteSet(LessonsIn(xs, as)) /\ LessonsIn(xs, as) \subseteq Lesson
  <1>1. PICK own : own = LessonsIn(xs, as)
    OBVIOUS
  <1>2. own \subseteq xs /\ IsFiniteSet(own)
    BY <1>1, FiniteTimetable, FS_Subset DEF LessonsIn
  <1>3. PICK f : f = [x \in own |-> Cardinality(x.periods)]
    OBVIOUS
  <1>4. periodCount(xs, as) = Total(f, own)
    <2>1. MapThenSumSet(LAMBDA x : Cardinality(x.periods), own) = Total(f, own)
      BY <1>3 DEF Total, MapThenSumSet, MapThenFoldSet
    <2> QED
      BY <1>1, <2>1 DEF periodCount
  <1>5. \A x \in own : f[x] = Size[x]
    BY <1>2, <1>3 DEF Size
  <1> QED
    BY <1>1, <1>2, <1>4, <1>5, TotalSame

\* The periods of several assignments are the sum of what each one has.
LEMMA CountByAssignment ==
  ASSUME problem \in Problems, NEW xs \in SUBSET Lesson, NEW as \in SUBSET Assignments,
         \A a \in as : periodCount(xs, {a}) = WeeklyPeriods(a)
  PROVE  periodCount(xs, as) = MapThenSumSet(WeeklyPeriods, as)
  <1>1. PICK own : own = LessonsIn(xs, as)
    OBVIOUS
  <1>2. own \subseteq Lesson /\ IsFiniteSet(own) /\ periodCount(xs, as) = Total(Size, own)
    BY <1>1, CountOfLessons
  <1>3. IsFiniteSet(as)
    BY FiniteProblem, FS_Subset
  <1>4. PICK part : part = [a \in as |-> LessonsOf(xs, a)]
    OBVIOUS
  <1>5. PICK sum : sum = [a \in as |-> WeeklyPeriods(a)]
    OBVIOUS
  <1>6. Splits(part, own, as)
    BY <1>1, <1>4 DEF Splits, LessonsIn, LessonsOf
  <1>7. PartSums(sum, Size, part, as)
    BY <1>4, <1>5, CountIsTotal DEF PartSums
  <1>8. \A x \in own : Size[x] \in Int
    BY <1>2, CountIsTotal
  <1>9. Total(Size, own) = Total(sum, as)
    <2>1. PICK f : f = Size
      OBVIOUS
    <2>2. IsFiniteSet(own) /\ (\A x \in own : f[x] \in Int) /\ PartSums(sum, f, part, as)
      BY <1>2, <1>7, <1>8, <2>1
    <2>3. PICK D : D = as
      OBVIOUS
    <2>4. IsFiniteSet(own) /\ IsFiniteSet(D) /\ \A x \in own : f[x] \in Int
      BY <1>3, <2>2, <2>3
    <2>5. Splits(part, own, D) /\ PartSums(sum, f, part, D)
      BY <1>6, <2>2, <2>3
    <2>6. Total(f, own) = Total(sum, D)
      BY <2>4, <2>5, TotalByPart
    <2> QED
      BY <2>1, <2>3, <2>6
  <1> QED
    BY <1>2, <1>5, <1>9, DemandIsTotal

\* With full coverage a matching reaches every class, so none is without
\* lessons.
LEMMA EveryClassAttends ==
  ASSUME problem \in Problems, AnalyzeFeasibility, problem.fullCoverage, NEW c \in Cohorts
  PROVE  AttendedBy(c) # {}
  <1> SUFFICES ASSUME AttendedBy(c) = {} PROVE FALSE
    OBVIOUS
  <1>1. PICK p \in Periods : SimultaneousFeasible(p)
    <2>1. NumPeriods \in Nat /\ NumPeriods > 0
      BY EngineAssumption DEF AnalyzeFeasibility
    <2>2. 1 \in Periods
      BY <2>1 DEF Periods
    <2> QED
      BY <2>2 DEF AnalyzeFeasibility
  <1>2. PICK edges : edges = {a \in Assignments : p \in AvailablePeriods(TeacherID(a))}
    OBVIOUS
  <1>3. PICK as : as = CHOOSE m \in maximumMatchings(edges) : TRUE
    OBVIOUS
  <1>4. as \subseteq Assignments /\ Matching(as)
    <2>1. PICK size \in Nat :
            /\ maximumMatchings(edges) =
                 {m \in SUBSET edges : Matching(m) /\ Cardinality(m) = size}
            /\ maximumMatchings(edges) # {}
      <3>1. edges \in SUBSET Assignments
        BY <1>2
      <3> QED
        BY <3>1, MaximumMatchingExists
    <2>2. as \in maximumMatchings(edges)
      BY <1>3, <2>1
    <2> QED
      BY <1>2, <2>1, <2>2
  <1>5. Cardinality(as) >= Cardinality(Cohorts)
    BY <1>1, <1>2, <1>3 DEF SimultaneousFeasible, maximumEligibleCoverage
  <1>6. PICK others : others = Cohorts \ {c}
    OBVIOUS
  <1>7. /\ IsFiniteSet(others) /\ IsFiniteSet(Cohorts) /\ Cardinality(Cohorts) \in Nat
        /\ Cardinality(others) = Cardinality(Cohorts) - 1
    BY <1>6, FiniteProblem, FS_RemoveElement, FS_CardinalityType
  <1>8. PICK f : f = [a \in as |-> CohortID(a)]
    OBVIOUS
  <1>9. f \in Injection(as, others)
    <2>1. \A a \in as : CohortID(a) \in others
      BY <1>4, <1>6, Closed DEF AttendedBy
    <2>2. \A a, b \in as : a # b => CohortID(a) # CohortID(b)
      BY <1>4 DEF Matching
    <2> QED
      BY <1>8, <2>1, <2>2 DEF Injection, IsInjective
  <1>10. IsFiniteSet(as) /\ Cardinality(as) <= Cardinality(others)
    BY <1>7, <1>9, FS_Injection
  <1>11. PICK n \in Nat, m \in Nat : n = Cardinality(as) /\ m = Cardinality(Cohorts)
    BY <1>7, <1>10, FS_CardinalityType
  <1>12. n >= m /\ n <= m - 1
    BY <1>5, <1>7, <1>10, <1>11
  <1> QED
    BY <1>12

\* Lessons of a class that never meet, as many as there are periods, leave
\* none free.
LEMMA NoGaps ==
  ASSUME problem \in Problems, NEW xs \in SUBSET Lesson, NEW as,
         Clashes(xs, as) = {}, periodCount(xs, as) = NumPeriods
  PROVE  UNION {x.periods : x \in LessonsIn(xs, as)} = Periods
  <1>1. PICK own : own = LessonsIn(xs, as)
    OBVIOUS
  <1>2. IsFiniteSet(own) /\ own \subseteq Lesson /\ periodCount(xs, as) = Total(Size, own)
    BY <1>1, CountOfLessons
  <1>3. PICK part : part = [x \in own |-> x.periods]
    OBVIOUS
  <1>4. PICK busy : busy = UNION {part[x] : x \in own}
    OBVIOUS
  <1>5. \A x \in own : part[x] \subseteq Periods /\ IsFiniteSet(part[x])
    BY <1>2, <1>3, FinitePeriods, FS_Subset DEF Lesson
  <1>6. \A x, y \in own : x # y => part[x] \cap part[y] = {}
    BY <1>1, <1>3, <1>5 DEF Clashes
  <1>7. \A x \in own : Size[x] = Cardinality(part[x])
    BY <1>2, <1>3 DEF Size
  <1>8. Cardinality(busy) = Total(Size, own)
    BY <1>2, <1>4, <1>5, <1>6, <1>7, SizesAddUp
  <1>9. busy \in SUBSET Periods
    BY <1>4, <1>5
  <1>10. Cardinality(Periods) = NumPeriods
    <2>1. NumPeriods \in Nat
      BY EngineAssumption
    <2> QED
      BY <2>1, FS_Interval DEF Periods
  <1>11. busy = Periods
    BY <1>2, <1>8, <1>9, <1>10, FinitePeriods, FS_Subset
  <1>12. busy = UNION {x.periods : x \in own}
    BY <1>3, <1>4
  <1> QED
    BY <1>1, <1>11, <1>12

\* A timetable in which nothing remains and every lesson has its shape passes
\* the validator.
LEMMA NothingMissing ==
  ASSUME problem \in Problems, NEW xs \in SUBSET Lesson,
         \A a \in Assignments : periodCount(xs, {a}) = WeeklyPeriods(a)
  PROVE  unscheduled(xs) = 0
  <1>1. PICK f : f = [a \in Assignments |->
                   WeeklyPeriods(a) - AtMost(WeeklyPeriods(a), periodCount(xs, {a}))]
    OBVIOUS
  <1>2. ASSUME NEW a \in Assignments PROVE f[a] = 0
    <2>1. PICK w \in Nat : w = WeeklyPeriods(a) /\ w = periodCount(xs, {a})
      BY FiniteProblem
    <2>2. f[a] = w - AtMost(w, w)
      BY <1>1, <2>1
    <2> QED
      BY <2>2 DEF AtMost
  <1>3. Total(f, Assignments) = 0
    BY <1>2, FiniteProblem, TotalOfZeros
  <1> QED
    BY <1>1, <1>3, UnscheduledIsTotal

LEMMA NothingWrong ==
  ASSUME IndInv, ExactShape, AnalyzeFeasibility, Shaped(placements),
         \A a \in Assignments : periodCount(placements, {a}) = WeeklyPeriods(a)
  PROVE  hardConflicts(placements) = 0
  <1>0. PICK xs : xs = placements
    OBVIOUS
  <1> DEFINE away(x) == Cardinality(x.periods \cap problem.unavailable[TeacherID(x.assignment)])
             taught(t) == Cardinality(Clashes(xs, TaughtBy(t)))
             attended(c) == Cardinality(Clashes(xs, AttendedBy(c)))
             used(r) == Cardinality(Clashes(xs, Using(r)))
             busy(c) == UNION {x.periods : x \in LessonsIn(xs, AttendedBy(c))}
             gaps(c) == Cardinality((Periods \ busy(c)) \cup Clashes(xs, AttendedBy(c)))
  <1>1. /\ problem \in Problems /\ xs \in SUBSET Lesson /\ Once(xs)
        /\ IsFiniteSet(xs) /\ IsFiniteSet(Teachers) /\ IsFiniteSet(Cohorts)
    BY <1>0, FiniteProblem, FiniteTimetable DEF IndInv, Booked
  <1>2. \A x \in xs : x.assignment \in Assignments /\ x.periods \subseteq Periods
    BY <1>1 DEF Lesson
  <1>3. Cardinality({x \in xs : Misshapen(x)}) = 0
    <2>1. {x \in xs : Misshapen(x)} = {}
      BY <1>0 DEF Shaped
    <2> QED
      BY <2>1, FS_EmptySet
  <1>4. MapThenSumSet(LAMBDA x :
          Cardinality(x.periods \cap problem.unavailable[TeacherID(x.assignment)]), xs) = 0
    <2>1. PICK f : f = [x \in xs |-> away(x)]
      OBVIOUS
    <2>2. ASSUME NEW x \in xs PROVE f[x] = 0
      <3>1. TeacherID(x.assignment) \in Teachers
        BY <1>1, <1>2, Closed
      <3>2. x.periods \cap problem.unavailable[TeacherID(x.assignment)] = {}
        BY <3>1 DEF ExactShape
      <3> QED
        BY <2>1, <3>2, FS_EmptySet
    <2>3. Total(f, xs) = 0
      BY <1>1, <2>2, TotalOfZeros
    <2>4. PICK n : n = MapThenSumSet(LAMBDA x :
                   Cardinality(x.periods \cap problem.unavailable[TeacherID(x.assignment)]), xs)
      OBVIOUS
    <2>5. n = Total(f, xs)
      BY <2>1, <2>4 DEF Total, MapThenSumSet, MapThenFoldSet
    <2> QED
      BY <2>3, <2>4, <2>5
  <1>5. ASSUME NEW as, \A a, b \in as : a \in Assignments /\ ~Apart(a, b)
        PROVE  Clashes(xs, as) = {}
    BY <1>1, <1>5 DEF Clashes, LessonsIn, Once
  <1>6. \A x : Clashes(xs, TaughtBy(x)) = {} /\ Clashes(xs, AttendedBy(x)) = {}
    <2> TAKE x
    <2>1. \A a, b \in TaughtBy(x) : a \in Assignments /\ ~Apart(a, b)
      BY DEF TaughtBy, Apart
    <2>2. \A a, b \in AttendedBy(x) : a \in Assignments /\ ~Apart(a, b)
      BY DEF AttendedBy, Apart
    <2> QED
      BY <1>5, <2>1, <2>2
  <1>7. MapThenSumSet(LAMBDA t : Cardinality(Clashes(xs, TaughtBy(t))), Teachers) = 0
    <2>1. PICK f : f = [t \in Teachers |-> taught(t)]
      OBVIOUS
    <2>2. \A t \in Teachers : f[t] = 0
      BY <1>6, <2>1, FS_EmptySet
    <2>3. Total(f, Teachers) = 0
      BY <1>1, <2>2, TotalOfZeros
    <2>4. PICK n : n = MapThenSumSet(LAMBDA t : Cardinality(Clashes(xs, TaughtBy(t))), Teachers)
      OBVIOUS
    <2>5. n = Total(f, Teachers)
      BY <2>1, <2>4 DEF Total, MapThenSumSet, MapThenFoldSet
    <2> QED
      BY <2>3, <2>4, <2>5
  <1>8. MapThenSumSet(LAMBDA c : Cardinality(Clashes(xs, AttendedBy(c))), Cohorts) = 0
    <2>1. PICK f : f = [c \in Cohorts |-> attended(c)]
      OBVIOUS
    <2>2. \A c \in Cohorts : f[c] = 0
      BY <1>6, <2>1, FS_EmptySet
    <2>3. Total(f, Cohorts) = 0
      BY <1>1, <2>2, TotalOfZeros
    <2>4. PICK n : n = MapThenSumSet(LAMBDA c : Cardinality(Clashes(xs, AttendedBy(c))), Cohorts)
      OBVIOUS
    <2>5. n = Total(f, Cohorts)
      BY <2>1, <2>4 DEF Total, MapThenSumSet, MapThenFoldSet
    <2> QED
      BY <2>3, <2>4, <2>5
  <1>9. MapThenSumSet(LAMBDA r : Cardinality(Clashes(xs, Using(r))), Resources) = 0
    <2>1. PICK f : f = [r \in Resources |-> used(r)]
      OBVIOUS
    <2>2. Resources = {}
      BY DEF ExactShape
    <2>3. Total(f, Resources) = 0
      BY <2>2, TotalEmpty
    <2>4. PICK n : n = MapThenSumSet(LAMBDA r : Cardinality(Clashes(xs, Using(r))), Resources)
      OBVIOUS
    <2>5. n = Total(f, Resources)
      BY <2>1, <2>4 DEF Total, MapThenSumSet, MapThenFoldSet
    <2> QED
      BY <2>3, <2>4, <2>5
  <1>10. Cardinality({a \in Assignments : periodCount(xs, {a}) # WeeklyPeriods(a)}) = 0
    <2>1. {a \in Assignments : periodCount(xs, {a}) # WeeklyPeriods(a)} = {}
      BY <1>0
    <2> QED
      BY <2>1, FS_EmptySet
  <1>11. ASSUME NEW as \in SUBSET Assignments
         PROVE  periodCount(xs, as) = MapThenSumSet(WeeklyPeriods, as)
    BY <1>0, <1>1, CountByAssignment
  <1>12. Cardinality({t \in Teachers : periodCount(xs, TaughtBy(t)) > capacity(t)}) = 0
    <2>1. ASSUME NEW t \in Teachers PROVE ~(periodCount(xs, TaughtBy(t)) > capacity(t))
      <3>1. PICK n \in Nat, m \in Nat : n = periodCount(xs, TaughtBy(t)) /\ m = capacity(t)
        BY <1>1, PeriodCountIsNat, CapacityIsNat
      <3>2. n = MapThenSumSet(WeeklyPeriods, TaughtBy(t))
        BY <1>1, <1>11, <3>1, TaughtAndAttended
      <3>3. n <= m
        BY <3>1, <3>2 DEF AnalyzeFeasibility, TeacherFeasible
      <3> QED
        BY <3>1, <3>3
    <2>2. {t \in Teachers : periodCount(xs, TaughtBy(t)) > capacity(t)} = {}
      BY <2>1
    <2> QED
      BY <2>2, FS_EmptySet
  <1>13. problem.fullCoverage =>
           MapThenSumSet(LAMBDA c : Cardinality((Periods \ busy(c))
                                       \cup Clashes(xs, AttendedBy(c))), Cohorts) = 0
    <2> SUFFICES ASSUME problem.fullCoverage
                 PROVE  MapThenSumSet(LAMBDA c : Cardinality((Periods \ busy(c))
                                       \cup Clashes(xs, AttendedBy(c))), Cohorts) = 0
      OBVIOUS
    <2>1. PICK f : f = [c \in Cohorts |-> gaps(c)]
      OBVIOUS
    <2>2. ASSUME NEW c \in Cohorts PROVE f[c] = 0
      <3>1. AttendedBy(c) # {}
        BY <1>1, EveryClassAttends
      <3>2. MapThenSumSet(WeeklyPeriods, AttendedBy(c)) = NumPeriods
        BY <3>1 DEF AnalyzeFeasibility, CohortFeasible
      <3>3. periodCount(xs, AttendedBy(c)) = NumPeriods
        BY <1>1, <1>11, <3>2, TaughtAndAttended
      <3>4. busy(c) = Periods
        BY <1>1, <1>6, <3>3, NoGaps
      <3>5. (Periods \ busy(c)) \cup Clashes(xs, AttendedBy(c)) = {}
        BY <1>6, <3>4
      <3> QED
        BY <2>1, <3>5, FS_EmptySet
    <2>3. Total(f, Cohorts) = 0
      BY <1>1, <2>2, TotalOfZeros
    <2>4. PICK n8 : n8 = MapThenSumSet(LAMBDA c : Cardinality((Periods \ busy(c))
                                         \cup Clashes(xs, AttendedBy(c))), Cohorts)
      OBVIOUS
    <2>5. n8 = Total(f, Cohorts)
      BY <2>1, <2>4 DEF Total, MapThenSumSet, MapThenFoldSet
    <2> QED
      BY <2>3, <2>4, <2>5
  <1> QED
    BY <1>0, <1>3, <1>4, <1>7, <1>8, <1>9, <1>10, <1>12, <1>13 DEF hardConflicts

LEMMA PlacedIsValid == IndInv /\ DoublesKept /\ (phase # "INFEASIBLE" => AnalyzeFeasibility)
                         /\ ColoringPlaces => ExactCompletes
  <1> SUFFICES ASSUME IndInv, DoublesKept, AnalyzeFeasibility, ColoringPlaces,
                      phase = "judge", ~timedOut, ExactShape
               PROVE  ValidateSchedule(placements).valid
    BY DEF ExactCompletes
  <1>1. problem \in Problems /\ placements \in SUBSET Lesson
    BY DEF IndInv, Booked
  <1>2. PICK k \in ColorPhases : k = Coloring
    BY <1>1, ColoringFits
  <1>3. Shaped(placements) /\ \A a \in Assignments : remaining[a] = 0
    BY <1>2, PhaseOrder DEF ColoringPlaces, Placing, Filled
  <1>4. Counted(placements, remaining, doubles)
    BY DEF DoublesKept, Kept, ExactShape
  <1>5. ASSUME NEW a \in Assignments PROVE periodCount(placements, {a}) = WeeklyPeriods(a)
    <2>1. PICK n \in Nat : n = periodCount(placements, {a})
      BY <1>1, PeriodCountIsNat
    <2>2. n + remaining[a] = WeeklyPeriods(a) /\ remaining[a] = 0
      BY <1>3, <1>4, <2>1 DEF Counted
    <2> QED
      BY <2>1, <2>2
  <1>6. unscheduled(placements) = 0
    BY <1>1, <1>5, NothingMissing
  <1>7. hardConflicts(placements) = 0
    BY <1>3, <1>5, NothingWrong
  <1> QED
    BY <1>6, <1>7 DEF ValidateSchedule

LEMMA PlacingStays ==
  ASSUME problem' = problem, PlacingNext
  PROVE  Placing'
  <1>1. /\ Assignments' = Assignments /\ Teachers' = Teachers
        /\ \A t : TaughtBy(t)' = TaughtBy(t)
        /\ \A a : WeeklyPeriods(a)' = WeeklyPeriods(a) /\ DoubleBlocks(a)' = DoubleBlocks(a)
    BY DEF Assignments, Teachers, TaughtBy, TeacherID, WeeklyPeriods, DoubleBlocks
  <1>2. Coloring' = Coloring
    BY <1>1 DEF Coloring, PairedDemand, DoubledDemand
  <1>3. Waiting(phase, placements, rounds, todo)'
    BY <1>2 DEF PlacingNext, Waiting
  <1>4. Filling(phase, placements, remaining, units, rounds, todo)'
    BY <1>1, <1>2 DEF PlacingNext, Filling
  <1>5. Filled(phase, placements, remaining, rounds)'
    BY <1>1, <1>2 DEF PlacingNext, Filled
  <1> QED
    BY <1>3, <1>4, <1>5 DEF Placing

\* An attempt begins only behind the preflight.
Passed == phase # "INFEASIBLE" => AnalyzeFeasibility

LEMMA PassedStep == ASSUME Passed, [Next]_vars PROVE Passed'
  <1>1. problem' = problem
    BY DEF Next, Steps, solveAttempt, Pin, SkipPin, PlaceColor, PlaceMatching, NextPass,
           repairSingles, Leave, Judge, Return, budgetExceeded, Solved, vars
  <1>2. phase = "INFEASIBLE" => phase' = "INFEASIBLE"
    BY DEF Next, Steps, solveAttempt, Pin, SkipPin, PlaceColor, PlaceMatching, NextPass,
           repairSingles, Leave, Judge, Return, budgetExceeded, budgetChecked, Solved, vars,
           ColorPhases, after
  <1> QED
    BY <1>1, <1>2, ShapeStays DEF Passed

LEMMA ColoringPlacesInit == Init => ColoringPlaces
  <1> SUFFICES ASSUME Init, ExactShape, AnalyzeFeasibility PROVE Placing
    BY DEF ColoringPlaces, Placing
  <1>1. PICK k \in ColorPhases : k = Coloring
    BY ColoringFits DEF Init
  <1>2. phase \notin Before[k] \cup {k} \cup Past[k]
    <2>1. phase \in {"restart"} \cup Statuses
      BY DEF Init, Statuses
    <2> QED
      BY <2>1, PhaseOrder
  <1> QED
    BY <1>1, <1>2 DEF Placing, Waiting, Filling, Filled

LEMMA ColoringPlacesStep ==
  IndInv /\ DoublesKept /\ Passed /\ ColoringPlaces /\ [Next]_vars => ColoringPlaces'
  <1> SUFFICES ASSUME IndInv, DoublesKept, Passed, ColoringPlaces, [Next]_vars,
                      ExactShape', AnalyzeFeasibility', ~timedOut'
               PROVE  Placing'
    BY DEF ColoringPlaces, Placing
  <1>1. problem' = problem
    BY DEF Next, Steps, solveAttempt, Pin, SkipPin, PlaceColor, PlaceMatching, NextPass,
           repairSingles, Leave, Judge, Return, budgetExceeded, Solved, vars
  <1>2. ExactShape /\ AnalyzeFeasibility
    BY <1>1, ShapeStays
  <1>3. CASE ~timedOut
    <2>1. Placing
      BY <1>2, <1>3 DEF ColoringPlaces, Placing
    <2> QED
      BY <1>1, <1>2, <2>1, PlacingStep, PlacingStays
  <1>4. CASE timedOut
    <2>1. timedOut' # timedOut
      BY <1>4
    <2>2. solveAttempt
      BY <2>1 DEF Next, Steps, Pin, SkipPin, PlaceColor, PlaceMatching, NextPass,
           repairSingles, Leave, Judge, Return, budgetExceeded, Solved, vars, attempt
    <2>3. phase' = "pin" /\ placements' = {}
      BY <2>2 DEF solveAttempt
    <2>4. PICK k \in ColorPhases : k = Coloring
      BY <1>2, ColoringFits DEF IndInv
    <2>5. phase' \in Before[k] /\ phase' \notin Past[k] /\ phase' # k
      BY <2>3, PhaseOrder
    <2>6. PlacingNext
      BY <2>3, <2>4, <2>5 DEF PlacingNext, Waiting, Filling, Filled, ColorPhases
    <2> QED
      BY <1>1, <2>6, PlacingStays
  <1> QED
    BY <1>3, <1>4

\* Demand of a shape that can be coloured, once past the preflight, is placed
\* completely and validly by every attempt that keeps within its budget,
\* whatever colours exactBipartiteColors finds and whatever slots they get:
\* the colouring never runs out of slots, no lesson of a colour is refused,
\* and nothing is left for the passes and exchanges that follow it.
THEOREM ColoringsComplete == Spec => []ExactCompletes
  <1>1. Init => Passed
    BY DEF Init, Passed
  <1>2. IndInv /\ DoublesKept /\ Passed /\ ColoringPlaces => ExactCompletes
    BY PlacedIsValid DEF Passed
  <1>3. Passed /\ [Next]_vars => Passed'
    BY PassedStep
  <1>4. Spec => []DoublesKept
    BY Invariance, DoublesInit, DoublesStep, PTL DEF Spec
  <1>5. Spec => []Passed
    BY <1>1, <1>3, PTL DEF Spec
  <1>6. Spec => []ColoringPlaces
    BY <1>4, <1>5, Invariance, ColoringPlacesInit, ColoringPlacesStep, PTL DEF Spec
  <1> QED
    BY <1>2, <1>4, <1>5, <1>6, Invariance, PTL

-----------------------------------------------------------------------------
(* A colouring never gets stuck.                                           *)

\* Edges E between vertices f and g, each as many times as us says; the matched
\* ones share no vertex.
IsMatching(M, f, g) == \A a, b \in M : a # b => f[a] # f[b] /\ g[a] # g[b]
Ends(f, M) == {f[a] : a \in M}
Degree(us, E, f, x) == Total(us, {a \in E : f[a] = x})

Multigraph(E, f, g, L, R, us) ==
  /\ IsFiniteSet(E) /\ IsFiniteSet(L) /\ IsFiniteSet(R)
  /\ f \in [E -> L] /\ g \in [E -> R] /\ us \in [E -> Nat]

\* N is M moved along a path from v to l inside S.
Moved(N, M, v, l, S, E, f, g, us) ==
  /\ N \in SUBSET {a \in E : us[a] > 0}
  /\ IsMatching(N, f, g)
  /\ Ends(f, N) = (Ends(f, M) \cup {v}) \ {l}
  /\ Ends(g, N) = Ends(g, M)
  /\ \A a \in E : f[a] \notin S => (a \in N <=> a \in M)

Reached(S, M, v, E, f, g, us) ==
  /\ S \subseteq Ends(f, M) \cup {v}
  /\ v \in S
  /\ \A l \in S : \E N : Moved(N, M, v, l, S, E, f, g, us)

LEMMA LargestSubset ==
  ASSUME NEW S, IsFiniteSet(S), NEW T \in SUBSET SUBSET S, T # {}
  PROVE  \E s \in T : \A r \in T : s \subseteq r => r = s
  <1>1. PICK U : U = {S \ s : s \in T}
    OBVIOUS
  <1>2. U \in SUBSET SUBSET S /\ U # {}
    <2>1. PICK t \in T : TRUE
      OBVIOUS
    <2>2. S \ t \in U
      BY <1>1
    <2>3. \A u \in U : u \subseteq S
      BY <1>1
    <2> QED
      BY <2>2, <2>3
  <1>3. PICK u \in U : \A r \in U : r \subseteq u => r = u
    BY <1>2, SmallestSubset
  <1>4. PICK s \in T : u = S \ s
    BY <1>1, <1>3
  <1>5. ASSUME NEW r \in T, s \subseteq r PROVE r = s
    <2>1. S \ r \in U /\ S \ r \subseteq u
      BY <1>1, <1>4, <1>5
    <2>2. S \ r = S \ s
      BY <1>3, <1>4, <2>1
    <2> QED
      BY <2>2
  <1> QED
    BY <1>5

\* A sum of equals.
LEMMA TotalOfEquals ==
  ASSUME NEW f, NEW S, IsFiniteSet(S), NEW k \in Nat, \A x \in S : f[x] = k
  PROVE  Total(f, S) = k * Cardinality(S)
  <1> SUFFICES ASSUME Total(f, S) # k * Cardinality(S) PROVE FALSE
    OBVIOUS
  <1>1. PICK T : T = {s \in SUBSET S : Total(f, s) # k * Cardinality(s)}
    OBVIOUS
  <1>2. PICK s \in T : \A r \in T : r \subseteq s => r = s
    <2>1. T \in SUBSET SUBSET S /\ T # {}
      BY <1>1
    <2> QED
      BY <2>1, SmallestSubset
  <1>3. s \subseteq S /\ IsFiniteSet(s) /\ Total(f, s) # k * Cardinality(s)
    BY <1>1, FS_Subset
  <1>4. s # {}
    <2>1. Total(f, {}) = 0 /\ Cardinality({}) = 0
      BY TotalEmpty, FS_EmptySet
    <2>2. k * 0 = 0
      OBVIOUS
    <2> QED
      BY <1>3, <2>1, <2>2
  <1>5. PICK x \in s : TRUE
    BY <1>4
  <1>6. Total(f, s \ {x}) = k * Cardinality(s \ {x})
    BY <1>1, <1>2, <1>3, <1>5
  <1>7. Total(f, s) = k + Total(f, s \ {x})
    <2>1. f[x] = k /\ \A y \in s : f[y] \in Int
      BY <1>3
    <2> QED
      BY <1>3, <2>1, TotalRemove
  <1>8. PICK n \in Nat : n = Cardinality(s \ {x}) /\ Cardinality(s) = n + 1
    <2>1. Cardinality(s \ {x}) = Cardinality(s) - 1 /\ Cardinality(s) \in Nat
      BY <1>3, FS_RemoveElement, FS_CardinalityType
    <2>2. IsFiniteSet(s \ {x})
      BY <1>3, FS_RemoveElement
    <2>3. Cardinality(s \ {x}) \in Nat
      BY <2>2, FS_CardinalityType
    <2> QED
      BY <2>1, <2>3
  <1>9. k * (n + 1) = k + k * n
    OBVIOUS
  <1> QED
    BY <1>3, <1>6, <1>7, <1>8, <1>9

\* More vertices of the largest degree on one side than neighbours on the
\* other cannot be.
LEMMA NeighboursSuffice ==
  ASSUME NEW E, NEW f, NEW g, NEW L, NEW R, NEW us, Multigraph(E, f, g, L, R, us),
         NEW k \in Nat \ {0},
         NEW S \in SUBSET L, \A x \in S : Degree(us, E, f, x) = k,
         NEW Q \in SUBSET R, \A y \in Q : Degree(us, E, g, y) <= k,
         \A a \in E : us[a] > 0 /\ f[a] \in S => g[a] \in Q
  PROVE  Cardinality(S) <= Cardinality(Q)
  <1>1. /\ IsFiniteSet(E) /\ IsFiniteSet(L) /\ IsFiniteSet(R)
        /\ f \in [E -> L] /\ g \in [E -> R] /\ us \in [E -> Nat]
    BY DEF Multigraph
  <1>2. IsFiniteSet(S) /\ IsFiniteSet(Q)
    BY <1>1, FS_Subset
  <1>3. PICK A, B : A = {a \in E : f[a] \in S} /\ B = {a \in E : g[a] \in Q}
    OBVIOUS
  <1>4. /\ IsFiniteSet(A) /\ IsFiniteSet(B) /\ IsFiniteSet(A \cap B)
        /\ IsFiniteSet(A \ B) /\ IsFiniteSet(B \ A)
    BY <1>1, <1>3, FS_Subset
  <1>5. Total(us, A) = k * Cardinality(S)
    <2>1. PICK part : part = [x \in S |-> {a \in E : f[a] = x}]
      OBVIOUS
    <2>2. PICK sum : sum = [x \in S |-> Total(us, part[x])]
      OBVIOUS
    <2>3. Splits(part, A, S)
      BY <1>3, <2>1 DEF Splits
    <2>4. PartSums(sum, us, part, S)
      BY <2>2 DEF PartSums
    <2>5. \A a \in A : us[a] \in Int
      BY <1>1, <1>3
    <2>6. Total(us, A) = Total(sum, S)
      BY <1>2, <1>4, <2>3, <2>4, <2>5, TotalByPart
    <2>7. \A x \in S : sum[x] = k
      BY <2>1, <2>2 DEF Degree
    <2> QED
      BY <1>2, <2>6, <2>7, TotalOfEquals
  <1>6. Total(us, B) <= k * Cardinality(Q)
    <2>1. PICK part : part = [y \in Q |-> {a \in E : g[a] = y}]
      OBVIOUS
    <2>2. PICK sum : sum = [y \in Q |-> Total(us, part[y])]
      OBVIOUS
    <2>3. Splits(part, B, Q)
      BY <1>3, <2>1 DEF Splits
    <2>4. PartSums(sum, us, part, Q)
      BY <2>2 DEF PartSums
    <2>5. \A a \in B : us[a] \in Int
      BY <1>1, <1>3
    <2>6. Total(us, B) = Total(sum, Q) /\ \A y \in Q : sum[y] \in Int
      BY <1>2, <1>4, <2>3, <2>4, <2>5, TotalByPart
    <2>7. \A y \in Q : sum[y] <= k
      BY <2>1, <2>2 DEF Degree
    <2>8. PICK most : most = [y \in Q |-> k]
      OBVIOUS
    <2>9. Total(most, Q) = k * Cardinality(Q)
      BY <1>2, <2>8, TotalOfEquals
    <2>10. \A y \in Q : sum[y] \in Int /\ most[y] \in Int /\ sum[y] <= most[y]
      BY <2>6, <2>7, <2>8
    <2> QED
      BY <1>2, <2>6, <2>9, <2>10, TotalAtMost
  <1>7. Total(us, A) <= Total(us, B)
    <2>1. \A a \in E : us[a] \in Nat /\ us[a] \in Int
      BY <1>1
    <2>2. Total(us, (A \cap B) \cup (A \ B)) = Total(us, A \cap B) + Total(us, A \ B)
      <3>1. \A a \in (A \cap B) \cup (A \ B) : us[a] \in Int
        BY <1>3, <2>1
      <3>2. (A \cap B) \cap (A \ B) = {}
        OBVIOUS
      <3> QED
        BY <1>4, <3>1, <3>2, TotalUnion
    <2>3. Total(us, (A \cap B) \cup (B \ A)) = Total(us, A \cap B) + Total(us, B \ A)
      <3>1. \A a \in (A \cap B) \cup (B \ A) : us[a] \in Int
        BY <1>3, <2>1
      <3>2. (A \cap B) \cap (B \ A) = {}
        OBVIOUS
      <3> QED
        BY <1>4, <3>1, <3>2, TotalUnion
    <2>4. Total(us, A \ B) = 0
      <3>1. \A a \in A \ B : us[a] = 0
        BY <1>3, <2>1
      <3> QED
        BY <1>4, <3>1, TotalOfZeros
    <2>5. PICK m, n : m = Total(us, A \cap B) /\ n = Total(us, B \ A) /\ m \in Nat /\ n \in Nat
      <3>1. Total(us, A \cap B) \in Nat
        BY <1>3, <1>4, <2>1, TotalIsNat
      <3>2. Total(us, B \ A) \in Nat
        BY <1>3, <1>4, <2>1, TotalIsNat
      <3> QED
        BY <3>1, <3>2
    <2>6. (A \cap B) \cup (A \ B) = A /\ (A \cap B) \cup (B \ A) = B
      OBVIOUS
    <2>7. Total(us, A) = m + 0 /\ Total(us, B) = m + n
      BY <2>2, <2>3, <2>4, <2>5, <2>6
    <2> QED
      BY <2>5, <2>7
  <1>8. PICK s \in Nat, q \in Nat : s = Cardinality(S) /\ q = Cardinality(Q)
    BY <1>2, FS_CardinalityType
  <1>9. k * s <= k * q
    <2>1. k * s \in Int /\ k * q \in Int
      BY <1>8
    <2>2. PICK x, y : x = Total(us, A) /\ y = Total(us, B) /\ x = k * s /\ y <= k * q /\ x <= y
      BY <1>5, <1>6, <1>7, <1>8
    <2>3. y \in Int
      <3>1. \A a \in B : us[a] \in Nat
        BY <1>1, <1>3
      <3>2. Total(us, B) \in Nat
        BY <1>4, <3>1, TotalIsNat
      <3> QED
        BY <2>2, <3>2
    <2> QED
      BY <2>1, <2>2, <2>3
  <1>10. s <= q
    <2> SUFFICES ASSUME s >= q + 1 PROVE FALSE
      BY <1>8
    <2>1. PICK d \in Nat : s = q + 1 + d
      <3>1. s - q - 1 \in Nat /\ s = q + 1 + (s - q - 1)
        BY <1>8
      <3> QED
        BY <3>1
    <2>2. k * (q + 1 + d) = k * q + k + k * d
      OBVIOUS
    <2>3. k * d >= 0
      OBVIOUS
    <2>4. PICK u \in Int, v \in Int : u = k * q /\ v = k * d
      OBVIOUS
    <2> QED
      BY <1>9, <2>1, <2>2, <2>3, <2>4
  <1> QED
    BY <1>8, <1>10

\* A vertex of the largest degree that M misses can be had without giving up
\* another one: either along a path to a vertex that M misses on the other
\* side, or along one to a vertex of its own side that does not matter.
LEMMA Augment ==
  ASSUME NEW E, NEW f, NEW g, NEW L, NEW R, NEW us, Multigraph(E, f, g, L, R, us),
         NEW k \in Nat \ {0},
         \A x \in L : Degree(us, E, f, x) <= k,
         \A y \in R : Degree(us, E, g, y) <= k,
         NEW M \in SUBSET {a \in E : us[a] > 0}, IsMatching(M, f, g),
         NEW v \in L, Degree(us, E, f, v) = k, v \notin Ends(f, M)
  PROVE  \E N \in SUBSET {a \in E : us[a] > 0} :
           /\ IsMatching(N, f, g)
           /\ v \in Ends(f, N)
           /\ \A x \in Ends(f, M) : Degree(us, E, f, x) = k => x \in Ends(f, N)
           /\ Ends(g, M) \subseteq Ends(g, N)
  <1> DEFINE Better(N) == /\ N \in SUBSET {a \in E : us[a] > 0}
                          /\ IsMatching(N, f, g)
                          /\ v \in Ends(f, N)
                          /\ \A x \in Ends(f, M) : Degree(us, E, f, x) = k => x \in Ends(f, N)
                          /\ Ends(g, M) \subseteq Ends(g, N)
  <1> SUFFICES ASSUME \A N : ~Better(N) PROVE FALSE
    OBVIOUS
  <1>1. /\ IsFiniteSet(E) /\ IsFiniteSet(L) /\ IsFiniteSet(R)
        /\ f \in [E -> L] /\ g \in [E -> R] /\ us \in [E -> Nat]
    BY DEF Multigraph
  <1>2. M \subseteq E /\ Ends(f, M) \subseteq L /\ Ends(g, M) \subseteq R
    BY <1>1 DEF Ends
  <1>3. Reached({v}, M, v, E, f, g, us)
    <2>1. Moved(M, M, v, v, {v}, E, f, g, us)
      BY DEF Moved
    <2> QED
      BY <2>1 DEF Reached
  <1>4. PICK S : /\ Reached(S, M, v, E, f, g, us) /\ S \subseteq L
                 /\ \A T : Reached(T, M, v, E, f, g, us) /\ S \subseteq T => T = S
    <2>1. PICK Ts : Ts = {T \in SUBSET L : Reached(T, M, v, E, f, g, us)}
      OBVIOUS
    <2>2. {v} \in Ts /\ Ts \in SUBSET SUBSET L
      BY <1>3, <2>1
    <2>3. PICK T \in Ts : \A r \in Ts : T \subseteq r => r = T
      BY <1>1, <2>2, LargestSubset
    <2>4. \A r : Reached(r, M, v, E, f, g, us) => r \subseteq L
      BY <1>2 DEF Reached
    <2> QED
      BY <2>1, <2>3, <2>4
  <1>5. S \subseteq Ends(f, M) \cup {v} /\ v \in S
    BY <1>4 DEF Reached
  <1>6. ASSUME NEW l \in S PROVE Degree(us, E, f, l) = k
    <2> SUFFICES ASSUME Degree(us, E, f, l) # k PROVE FALSE
      OBVIOUS
    <2>1. PICK N : Moved(N, M, v, l, S, E, f, g, us)
      BY <1>4 DEF Reached
    <2>2. Better(N)
      BY <2>1 DEF Moved
    <2> QED
      BY <2>2
  <1>7. ASSUME NEW a \in E, us[a] > 0, f[a] \in S PROVE g[a] \in Ends(g, M)
    <2> SUFFICES ASSUME g[a] \notin Ends(g, M) PROVE FALSE
      OBVIOUS
    <2>1. PICK N : Moved(N, M, v, f[a], S, E, f, g, us)
      BY <1>4, <1>7 DEF Reached
    <2>2. /\ N \in SUBSET {b \in E : us[b] > 0} /\ IsMatching(N, f, g)
          /\ Ends(f, N) = (Ends(f, M) \cup {v}) \ {f[a]} /\ Ends(g, N) = Ends(g, M)
      BY <2>1 DEF Moved
    <2>3. PICK N2 : N2 = N \cup {a}
      OBVIOUS
    <2>4. \A b \in N : f[b] # f[a] /\ g[b] # g[a]
      BY <2>2 DEF Ends
    <2>5. IsMatching(N2, f, g)
      BY <2>2, <2>3, <2>4 DEF IsMatching
    <2>6. Ends(f, N2) = Ends(f, N) \cup {f[a]} /\ Ends(g, N2) = Ends(g, N) \cup {g[a]}
      BY <2>3 DEF Ends
    <2>7. N2 \in SUBSET {b \in E : us[b] > 0}
      BY <1>7, <2>2, <2>3
    <2>8. Better(N2)
      BY <2>2, <2>5, <2>6, <2>7
    <2> QED
      BY <2>8
  <1>8. ASSUME NEW a \in E, us[a] > 0, f[a] \in S, NEW b \in M, g[b] = g[a]
        PROVE  f[b] \in S
    <2> SUFFICES ASSUME f[b] \notin S PROVE FALSE
      OBVIOUS
    <2>1. PICK N : Moved(N, M, v, f[a], S, E, f, g, us)
      BY <1>4, <1>8 DEF Reached
    <2>2. /\ N \in SUBSET {c \in E : us[c] > 0} /\ IsMatching(N, f, g)
          /\ Ends(f, N) = (Ends(f, M) \cup {v}) \ {f[a]} /\ Ends(g, N) = Ends(g, M)
          /\ \A c \in E : f[c] \notin S => (c \in N <=> c \in M)
      BY <2>1 DEF Moved
    <2>3. PICK T : T = S \cup {f[b]}
      OBVIOUS
    <2>4. PICK N2 : N2 = (N \ {b}) \cup {a}
      OBVIOUS
    <2>5. b \in N /\ b \in E /\ f[b] # f[a] /\ a # b
      BY <1>2, <1>8, <2>2
    <2>6. ASSUME NEW c \in N, c # b PROVE f[c] # f[a] /\ f[c] # f[b] /\ g[c] # g[a]
      BY <1>8, <2>2, <2>5, <2>6 DEF Ends, IsMatching
    <2>7. IsMatching(N2, f, g)
      BY <2>2, <2>4, <2>6 DEF IsMatching
    <2>8. Ends(f, N2) = (Ends(f, N) \ {f[b]}) \cup {f[a]}
      BY <2>4, <2>5, <2>6 DEF Ends
    <2>9. Ends(g, N2) = Ends(g, N)
      BY <1>8, <2>4, <2>5 DEF Ends
    <2>10. Moved(N2, M, v, f[b], T, E, f, g, us)
      <3>1. N2 \in SUBSET {c \in E : us[c] > 0}
        BY <1>8, <2>2, <2>4
      <3>2. f[a] \in Ends(f, M) \cup {v}
        BY <1>5, <1>8
      <3>3. Ends(f, N2) = (Ends(f, M) \cup {v}) \ {f[b]}
        BY <2>2, <2>5, <2>8, <3>2
      <3>4. \A c \in E : f[c] \notin T => (c \in N2 <=> c \in M)
        BY <1>8, <2>2, <2>3, <2>4
      <3> QED
        BY <2>2, <2>7, <2>9, <3>1, <3>3, <3>4 DEF Moved
    <2>11. Reached(T, M, v, E, f, g, us)
      <3>1. T \subseteq Ends(f, M) \cup {v} /\ v \in T
        BY <1>5, <2>3 DEF Ends
      <3>2. ASSUME NEW l \in S PROVE \E O : Moved(O, M, v, l, T, E, f, g, us)
        <4>1. PICK O : Moved(O, M, v, l, S, E, f, g, us)
          BY <1>4 DEF Reached
        <4>2. Moved(O, M, v, l, T, E, f, g, us)
          BY <2>3, <4>1 DEF Moved
        <4> QED
          BY <4>2
      <3> QED
        BY <2>3, <2>10, <3>1, <3>2 DEF Reached
    <2>12. T = S
      BY <1>4, <2>3, <2>11
    <2> QED
      BY <2>3, <2>12
  <1>9. PICK Q : Q = {y \in R : \E b \in M : g[b] = y /\ f[b] \in S}
    OBVIOUS
  <1>10. Cardinality(S) <= Cardinality(Q)
    <2>1. \A a \in E : us[a] > 0 /\ f[a] \in S => g[a] \in Q
      <3> SUFFICES ASSUME NEW a \in E, us[a] > 0, f[a] \in S PROVE g[a] \in Q
        OBVIOUS
      <3>1. PICK b \in M : g[b] = g[a]
        BY <1>7 DEF Ends
      <3>2. f[b] \in S
        BY <1>8, <3>1
      <3> QED
        BY <1>1, <1>9, <3>1, <3>2
    <2>2. \A x \in S : Degree(us, E, f, x) = k
      BY <1>6
    <2>3. \A y \in Q : Degree(us, E, g, y) <= k
      BY <1>9
    <2>4. S \in SUBSET L /\ Q \in SUBSET R
      BY <1>4, <1>9
    <2> QED
      BY <2>1, <2>2, <2>3, <2>4, NeighboursSuffice
  <1>11. PICK h : h = [y \in Q |-> f[CHOOSE b \in M : g[b] = y /\ f[b] \in S]]
    OBVIOUS
  <1>12. ASSUME NEW y \in Q
         PROVE  \E b \in M : g[b] = y /\ f[b] \in S /\ h[y] = f[b]
    <2>1. \E b \in M : g[b] = y /\ f[b] \in S
      BY <1>9
    <2> QED
      BY <1>11, <2>1
  <1>13. h \in Injection(Q, S \ {v})
    <2>1. h \in [Q -> S \ {v}]
      <3>1. \A y \in Q : h[y] \in S \ {v}
        BY <1>12 DEF Ends
      <3> QED
        BY <1>11, <3>1
    <2>2. ASSUME NEW x \in Q, NEW y \in Q, h[x] = h[y] PROVE x = y
      <3>1. PICK b \in M : g[b] = x /\ h[x] = f[b]
        BY <1>12
      <3>2. PICK c \in M : g[c] = y /\ h[y] = f[c]
        BY <1>12
      <3> QED
        BY <2>2, <3>1, <3>2 DEF IsMatching
    <2> QED
      BY <2>1, <2>2 DEF Injection, IsInjective
  <1>14. Cardinality(Q) <= Cardinality(S) - 1
    <2>1. IsFiniteSet(S) /\ IsFiniteSet(S \ {v})
      BY <1>1, <1>4, FS_Subset
    <2>2. Cardinality(S \ {v}) = Cardinality(S) - 1
      BY <1>5, <2>1, FS_RemoveElement
    <2>3. Cardinality(Q) <= Cardinality(S \ {v})
      BY <1>13, <2>1, FS_Injection
    <2> QED
      BY <2>2, <2>3
  <1>15. Cardinality(S) \in Nat /\ Cardinality(Q) \in Nat
    <2>1. IsFiniteSet(S) /\ IsFiniteSet(Q)
      BY <1>1, <1>4, <1>9, FS_Subset
    <2> QED
      BY <2>1, FS_CardinalityType
  <1> QED
    BY <1>10, <1>14, <1>15

\* A sum falls with any of its terms.
LEMMA TotalFalls ==
  ASSUME NEW S, IsFiniteSet(S), NEW f, NEW h,
         \A x \in S : f[x] \in Nat /\ h[x] \in Nat /\ h[x] <= f[x]
  PROVE  /\ Total(f, S) \in Nat /\ Total(h, S) \in Nat
         /\ Total(h, S) <= Total(f, S)
         /\ \A x \in S : h[x] < f[x] => Total(h, S) < Total(f, S)
  <1>1. /\ Total(f, S) \in Nat /\ Total(h, S) \in Nat /\ Total(h, S) <= Total(f, S)
    <2>1. \A x \in S : f[x] \in Int /\ h[x] \in Int
      OBVIOUS
    <2> QED
      BY <2>1, TotalIsNat, TotalAtMost
  <1>2. ASSUME NEW x \in S, h[x] < f[x] PROVE Total(h, S) < Total(f, S)
    <2>1. PICK rest : rest = S \ {x}
      OBVIOUS
    <2>2. IsFiniteSet(rest) /\ rest \subseteq S
      BY <2>1, FS_RemoveElement
    <2>3. \A y \in S : f[y] \in Int /\ h[y] \in Int
      OBVIOUS
    <2>4. Total(h, S) = h[x] + Total(h, rest) /\ Total(f, S) = f[x] + Total(f, rest)
      BY <2>1, <2>3, TotalRemove
    <2>5. PICK p \in Int, q \in Int : p = Total(h, rest) /\ q = Total(f, rest) /\ p <= q
      BY <2>2, <2>3, TotalIsInt, TotalAtMost
    <2>6. f[x] \in Nat /\ h[x] \in Nat
      OBVIOUS
    <2> QED
      BY <1>2, <2>4, <2>5, <2>6
  <1> QED
    BY <1>1, <1>2

\* Where the remaining colours suffice, one of them takes a lesson of everybody
\* who needs all of them (Koenig).
LEMMA ColorExists ==
  ASSUME problem \in Problems, NEW us \in [Assignments -> Nat], NEW k \in Nat \ {0},
         delta(us) <= k
  PROVE  \E as \in SUBSET {a \in Assignments : us[a] > 0} :
           Matching(as) /\ delta(Less(us, as)) < k
  <1> DEFINE Edges == {a \in Assignments : us[a] > 0}
  <1>1. PICK f, g : /\ f = [a \in Assignments |-> TeacherID(a)]
                    /\ g = [a \in Assignments |-> CohortID(a)]
    OBVIOUS
  <1>2. /\ Multigraph(Assignments, f, g, Teachers, Cohorts, us)
        /\ Multigraph(Assignments, g, f, Cohorts, Teachers, us)
    BY <1>1, Closed, FiniteProblem DEF Multigraph
  <1>3. ASSUME NEW t PROVE Degree(us, Assignments, f, t) = Total(us, TaughtBy(t))
    <2>1. {a \in Assignments : f[a] = t} = TaughtBy(t)
      BY <1>1 DEF TaughtBy
    <2> QED
      BY <2>1 DEF Degree
  <1>4. ASSUME NEW c PROVE Degree(us, Assignments, g, c) = Total(us, AttendedBy(c))
    <2>1. {a \in Assignments : g[a] = c} = AttendedBy(c)
      BY <1>1 DEF AttendedBy
    <2> QED
      BY <2>1 DEF Degree
  <1>5. /\ \A t \in Teachers : Degree(us, Assignments, f, t) \in Nat /\ Degree(us, Assignments, f, t) <= k
        /\ \A c \in Cohorts : Degree(us, Assignments, g, c) \in Nat /\ Degree(us, Assignments, g, c) <= k
    <2>1. PICK d \in Nat : d = delta(us) /\ d <= k
      BY DeltaIsBound
    <2>2. ASSUME NEW t \in Teachers PROVE Total(us, TaughtBy(t)) \in Nat /\ Total(us, TaughtBy(t)) <= d
      BY <2>1, DeltaIsBound, TaughtAndAttended, TotalIsNat
    <2>3. ASSUME NEW c \in Cohorts PROVE Total(us, AttendedBy(c)) \in Nat /\ Total(us, AttendedBy(c)) <= d
      BY <2>1, DeltaIsBound, TaughtAndAttended, TotalIsNat
    <2> QED
      BY <1>3, <1>4, <2>1, <2>2, <2>3
  <1>6. PICK full, busy : /\ full = {t \in Teachers : Degree(us, Assignments, f, t) = k}
                          /\ busy = {c \in Cohorts : Degree(us, Assignments, g, c) = k}
    OBVIOUS
  <1> DEFINE Missed(M) == (full \ Ends(f, M)) \X {"teacher"} \cup (busy \ Ends(g, M)) \X {"class"}
  <1>7. PICK M \in SUBSET Edges :
          /\ IsMatching(M, f, g)
          /\ \A N \in SUBSET Edges :
               IsMatching(N, f, g) /\ Missed(N) \subseteq Missed(M) => Missed(N) = Missed(M)
    <2>1. PICK Ms : Ms = {Missed(N) : N \in {N \in SUBSET Edges : IsMatching(N, f, g)}}
      OBVIOUS
    <2>2. PICK All : All = Teachers \X {"teacher"} \cup Cohorts \X {"class"}
      OBVIOUS
    <2>3. IsFiniteSet(All)
      <3>1. IsFiniteSet({"teacher"}) /\ IsFiniteSet({"class"})
        BY FS_Singleton
      <3>2. IsFiniteSet(Teachers \X {"teacher"}) /\ IsFiniteSet(Cohorts \X {"class"})
        BY <3>1, FiniteProblem, FS_Product
      <3> QED
        BY <2>2, <3>2, FS_Union
    <2>4. ASSUME NEW N \in SUBSET Edges PROVE Missed(N) \subseteq All
      BY <1>6, <2>2
    <2>5. Ms \in SUBSET SUBSET All
      <3> HIDE DEF Missed
      <3> QED
        BY <2>1, <2>4
    <2>6. Ms # {}
      <3>1. {} \in SUBSET Edges /\ IsMatching({}, f, g)
        BY DEF IsMatching
      <3>2. Missed({}) \in Ms
        <4> HIDE DEF Missed
        <4> QED
          BY <2>1, <3>1
      <3> QED
        BY <3>2
    <2>7. PICK m \in Ms : \A n \in Ms : n \subseteq m => n = m
      BY <2>3, <2>5, <2>6, SmallestSubset
    <2> HIDE DEF Missed
    <2>8. PICK M \in SUBSET Edges : IsMatching(M, f, g) /\ m = Missed(M)
      BY <2>1, <2>7
    <2>9. \A N \in SUBSET Edges : IsMatching(N, f, g) => Missed(N) \in Ms
      BY <2>1
    <2> QED
      BY <2>7, <2>8, <2>9
  <1>8. full \subseteq Ends(f, M)
    <2> SUFFICES ASSUME NEW v \in full, v \notin Ends(f, M) PROVE FALSE
      OBVIOUS
    <2>1. v \in Teachers /\ Degree(us, Assignments, f, v) = k
      BY <1>6
    <2>2. PICK N \in SUBSET Edges :
            /\ IsMatching(N, f, g) /\ v \in Ends(f, N)
            /\ \A x \in Ends(f, M) : Degree(us, Assignments, f, x) = k => x \in Ends(f, N)
            /\ Ends(g, M) \subseteq Ends(g, N)
      BY <1>2, <1>5, <1>7, <2>1, Augment
    <2>3. Missed(N) \subseteq Missed(M)
      BY <1>6, <2>2
    <2>4. <<v, "teacher">> \in Missed(M) /\ <<v, "teacher">> \notin Missed(N)
      BY <2>2
    <2>5. Missed(N) = Missed(M)
      BY <1>7, <2>2, <2>3
    <2> QED
      BY <2>4, <2>5
  <1>9. busy \subseteq Ends(g, M)
    <2> SUFFICES ASSUME NEW v \in busy, v \notin Ends(g, M) PROVE FALSE
      OBVIOUS
    <2>1. v \in Cohorts /\ Degree(us, Assignments, g, v) = k
      BY <1>6
    <2>2. IsMatching(M, g, f)
      BY <1>7 DEF IsMatching
    <2>3. PICK N \in SUBSET Edges :
            /\ IsMatching(N, g, f) /\ v \in Ends(g, N)
            /\ \A x \in Ends(g, M) : Degree(us, Assignments, g, x) = k => x \in Ends(g, N)
            /\ Ends(f, M) \subseteq Ends(f, N)
      BY <1>2, <1>5, <1>7, <2>1, <2>2, Augment
    <2>4. IsMatching(N, f, g)
      BY <2>3 DEF IsMatching
    <2>5. Missed(N) \subseteq Missed(M)
      BY <1>6, <2>3
    <2>6. <<v, "class">> \in Missed(M) /\ <<v, "class">> \notin Missed(N)
      BY <2>3
    <2>7. Missed(N) = Missed(M)
      BY <1>7, <2>4, <2>5
    <2> QED
      BY <2>6, <2>7
  <1>10. Matching(M)
    BY <1>1, <1>7 DEF Matching, IsMatching
  <1>11. PICK less : less = Less(us, M)
    OBVIOUS
  <1>12. /\ less \in [Assignments -> Nat]
         /\ \A a \in Assignments : less[a] <= us[a]
         /\ \A a \in M : a \in Assignments /\ less[a] = us[a] - 1
    BY <1>7, <1>11 DEF Less
  <1>13. ASSUME NEW own, own \subseteq Assignments, IsFiniteSet(own)
         PROVE  /\ Total(less, own) \in Nat
                /\ Total(less, own) <= Total(us, own)
                /\ \A a \in M : a \in own => Total(less, own) < Total(us, own)
    <2>1. \A a \in own : us[a] \in Nat /\ less[a] \in Nat /\ less[a] <= us[a]
      BY <1>12, <1>13
    <2>2. \A a \in M : a \in Assignments /\ less[a] < us[a]
      BY <1>12
    <2> QED
      BY <1>13, <2>1, <2>2, TotalFalls
  <1>14. PICK j \in Nat : j = k - 1
    OBVIOUS
  <1>15. ASSUME NEW t \in Teachers PROVE Total(less, TaughtBy(t)) <= j
    <2>1. PICK n \in Nat, m \in Nat : /\ n = Total(less, TaughtBy(t)) /\ m = Total(us, TaughtBy(t))
                                      /\ m = Degree(us, Assignments, f, t) /\ n <= m /\ m <= k
      BY <1>3, <1>5, <1>13, TaughtAndAttended
    <2>2. CASE m = k
      <3>1. t \in full
        BY <1>6, <2>1, <2>2
      <3>2. PICK a \in M : f[a] = t
        BY <1>8, <3>1 DEF Ends
      <3>3. a \in TaughtBy(t)
        BY <1>1, <1>12, <3>2 DEF TaughtBy
      <3>4. n < m
        BY <1>13, <2>1, <3>3, TaughtAndAttended
      <3> QED
        BY <1>14, <2>1, <2>2, <3>4
    <2>3. CASE m # k
      BY <1>14, <2>1, <2>3
    <2> QED
      BY <2>2, <2>3
  <1>16. ASSUME NEW c \in Cohorts PROVE Total(less, AttendedBy(c)) <= j
    <2>1. PICK n \in Nat, m \in Nat : /\ n = Total(less, AttendedBy(c)) /\ m = Total(us, AttendedBy(c))
                                      /\ m = Degree(us, Assignments, g, c) /\ n <= m /\ m <= k
      BY <1>4, <1>5, <1>13, TaughtAndAttended
    <2>2. CASE m = k
      <3>1. c \in busy
        BY <1>6, <2>1, <2>2
      <3>2. PICK a \in M : g[a] = c
        BY <1>9, <3>1 DEF Ends
      <3>3. a \in AttendedBy(c)
        BY <1>1, <1>12, <3>2 DEF AttendedBy
      <3>4. n < m
        BY <1>13, <2>1, <3>3, TaughtAndAttended
      <3> QED
        BY <1>14, <2>1, <2>2, <3>4
    <2>3. CASE m # k
      BY <1>14, <2>1, <2>3
    <2> QED
      BY <2>2, <2>3
  <1>17. delta(less) \in Nat /\ delta(less) <= j
    BY <1>12, <1>15, <1>16, DeltaIsBound
  <1>18. delta(less) < k
    BY <1>14, <1>17
  <1> QED
    BY <1>7, <1>10, <1>11, <1>18

\* While a colouring lasts the colours left suffice for the units left, and
\* there is a slot for each.
Paced(p, us, left, slots) ==
  p \in ColorPhases =>
    /\ us \in [Assignments -> Nat]
    /\ left \in Nat
    /\ delta(us) <= left
    /\ IsFiniteSet(slots)
    /\ left <= Cardinality(slots)

ColoringPaced == Paced(phase, units, rounds, todo)

\* A colouring that is not over has a next colour, a slot for it and lessons
\* of it that can be placed there, and so has a pass.
NeverStuck ==
  /\ phase \in ColorPhases /\ rounds > 0 =>
       \E as \in colorClasses, slot \in todo : Placed(as, slot) # {}
  /\ phase \in {"doubles", "singles"} /\ todo # {} =>
       \E slot \in todo : \E as \in maximumMatchings(candidateEdges(slot)) :
         Placed(as, slot) # {}

LEMMA SlotsAreFinite == ASSUME NEW p PROVE IsFiniteSet(SlotsOf(p))
  BY AdjacentPairs, SinglePeriods DEF SlotsOf

\* A colouring begins with as many colours as its units need.
LEMMA EnterPaced ==
  ASSUME problem \in Problems, NEW p \in ColorPhases, EnterColoring(p)
  PROVE  Paced(p, units', rounds', todo')
  <1>1. PICK used \in BOOLEAN : used <=> usable(p) /\ delta(unitsOf(p)) <= Cardinality(SlotsOf(p))
    OBVIOUS
  <1>2. PICK us, zeros : us = unitsOf(p) /\ zeros = [a \in Assignments |-> 0]
    OBVIOUS
  <1>3. /\ units' = IF used THEN us ELSE zeros
        /\ rounds' = IF used THEN delta(us) ELSE 0
        /\ todo' = SlotsOf(p)
    BY <1>1, <1>2 DEF EnterColoring
  <1>4. PICK n \in Nat : n = Cardinality(SlotsOf(p))
    BY SlotsAreFinite, FS_CardinalityType
  <1>5. CASE used
    <2>1. ASSUME NEW a \in Assignments PROVE us[a] \in Nat
      <3>1. WeeklyPeriods(a) \in Nat /\ DoubleBlocks(a) \in Nat
        BY FiniteProblem
      <3>2. usable(p)
        BY <1>1, <1>5
      <3>3. CASE p = "paired"
        <4>1. us[a] = WeeklyPeriods(a) \div 2
          BY <1>2, <3>3 DEF unitsOf
        <4> QED
          BY <3>1, <4>1
      <3>4. CASE p = "doubled"
        BY <1>2, <3>1, <3>4 DEF unitsOf
      <3>5. CASE p = "colored"
        <4>1. DoubleBlocks(a) = 0
          BY <3>2, <3>5 DEF usable, canUseExactColoring
        <4>2. us[a] = WeeklyPeriods(a) - DoubleBlocks(a) * 2
          BY <1>2, <3>5 DEF unitsOf
        <4> QED
          BY <3>1, <4>1, <4>2
      <3> QED
        BY <3>3, <3>4, <3>5 DEF ColorPhases
    <2>2. us \in [Assignments -> Nat]
      BY <1>2, <2>1 DEF unitsOf
    <2>3. delta(us) \in Nat /\ delta(us) <= delta(us)
      BY <2>2, DeltaIsBound
    <2>4. delta(us) <= Cardinality(SlotsOf(p))
      BY <1>1, <1>2, <1>5
    <2> QED
      BY <1>3, <1>5, <2>2, <2>3, <2>4, SlotsAreFinite DEF Paced
  <1>6. CASE ~used
    <2>1. zeros \in [Assignments -> Nat] /\ \A a \in Assignments : zeros[a] = 0
      BY <1>2
    <2>2. ASSUME NEW x PROVE Total(zeros, TaughtBy(x)) = 0 /\ Total(zeros, AttendedBy(x)) = 0
      <3>1. /\ IsFiniteSet(TaughtBy(x)) /\ \A a \in TaughtBy(x) : zeros[a] = 0
            /\ IsFiniteSet(AttendedBy(x)) /\ \A a \in AttendedBy(x) : zeros[a] = 0
        BY <2>1, TaughtAndAttended
      <3> QED
        BY <3>1, TotalOfZeros
    <2>3. delta(zeros) <= 0
      <3>1. 0 \in Nat /\ \A x : Total(zeros, TaughtBy(x)) <= 0 /\ Total(zeros, AttendedBy(x)) <= 0
        BY <2>2
      <3> QED
        BY <2>1, <3>1, DeltaIsBound
    <2>4. units' = zeros /\ rounds' = 0 /\ todo' = SlotsOf(p)
      BY <1>3, <1>6
    <2> QED
      BY <1>4, <2>1, <2>3, <2>4, SlotsAreFinite DEF Paced
  <1> QED
    BY <1>5, <1>6

\* A colour leaves units the rest of the colours suffice for.
LEMMA ColorPaced ==
  ASSUME problem \in Problems, ColoringPaced, PlaceColor
  PROVE  Paced(phase', units', rounds', todo')
  <1>1. /\ phase \in ColorPhases /\ phase' = phase /\ rounds > 0 /\ rounds' = rounds - 1
        /\ units \in [Assignments -> Nat] /\ rounds \in Nat
        /\ IsFiniteSet(todo) /\ rounds <= Cardinality(todo)
    BY DEF PlaceColor, ColoringPaced, Paced
  <1>2. PICK as \in colorClasses, slot \in todo :
          units' = Less(units, as) /\ todo' = todo \ {slot}
    BY DEF PlaceColor
  <1>3. as \subseteq {a \in Assignments : units[a] > 0} /\ delta(Less(units, as)) < rounds
    BY <1>2 DEF colorClasses
  <1>4. units' \in [Assignments -> Nat]
    <2>1. PICK less : less = Less(units, as)
      OBVIOUS
    <2>2. ASSUME NEW a \in Assignments PROVE less[a] \in Nat
      <3>1. PICK n \in Nat : n = units[a]
        BY <1>1
      <3>2. less[a] = IF a \in as THEN n - 1 ELSE n
        BY <2>1, <3>1 DEF Less
      <3>3. a \in as => n > 0
        BY <1>3, <3>1
      <3>4. CASE a \in as
        <4>1. less[a] = n - 1 /\ n > 0
          BY <3>2, <3>3, <3>4
        <4> QED
          BY <4>1
      <3>5. CASE a \notin as
        BY <3>2, <3>5
      <3> QED
        BY <3>4, <3>5
    <2>3. less = [a \in Assignments |-> less[a]]
      BY <2>1 DEF Less
    <2> QED
      BY <1>2, <2>1, <2>2, <2>3
  <1>5. PICK d \in Nat : d = delta(units') /\ d < rounds
    BY <1>2, <1>3, <1>4, DeltaIsBound
  <1>6. IsFiniteSet(todo') /\ Cardinality(todo') = Cardinality(todo) - 1
    BY <1>1, <1>2, FS_RemoveElement
  <1>7. Cardinality(todo) \in Nat
    BY <1>1, FS_CardinalityType
  <1> QED
    BY <1>1, <1>4, <1>5, <1>6, <1>7 DEF Paced

LEMMA PacedStays ==
  ASSUME problem' = problem, Paced(phase', units', rounds', todo')
  PROVE  ColoringPaced'
  <1>1. delta(units)' = delta(units')
    BY DEF delta, degrees, Assignments, Teachers, Cohorts, TaughtBy, AttendedBy, TeacherID,
           CohortID, MapThenSumSet, MapThenFoldSet
  <1>2. Assignments' = Assignments
    BY DEF Assignments
  <1> QED
    BY <1>1, <1>2 DEF ColoringPaced, Paced

LEMMA PacedStep == IndInv /\ ColoringPaced /\ [Next]_vars => ColoringPaced'
  <1> SUFFICES ASSUME IndInv, ColoringPaced, [Next]_vars PROVE ColoringPaced'
    OBVIOUS
  <1>1. problem' = problem
    BY DEF Next, Steps, solveAttempt, Pin, SkipPin, PlaceColor, PlaceMatching, NextPass,
           repairSingles, Leave, Judge, Return, budgetExceeded, Solved, vars
  <1>2. Paced(phase', units', rounds', todo')
    <2>1. ASSUME phase' \notin ColorPhases PROVE Paced(phase', units', rounds', todo')
      BY <2>1 DEF Paced
    <2>2. CASE UNCHANGED <<phase, units, rounds, todo>>
      BY <2>2 DEF ColoringPaced
    <2>3. CASE PlaceColor
      BY <2>3, ColorPaced DEF IndInv
    <2>4. CASE Leave
      <3>1. CASE phase' \in ColorPhases
        BY <2>4, <3>1, EnterPaced DEF Leave, IndInv
      <3> QED
        BY <2>1, <3>1
    <2>5. CASE solveAttempt \/ PlaceMatching \/ NextPass \/ budgetExceeded \/ Judge
      <3>1. phase' \in {"pin", "doubles", "singles", "judge", "restart"}
        BY <2>5 DEF solveAttempt, PlaceMatching, NextPass, budgetExceeded, Judge
      <3> QED
        BY <2>1, <3>1 DEF ColorPhases
    <2>6. CASE Return
      BY <2>1, <2>6 DEF Return, statusOf, ColorPhases
    <2>7. CASE (\E x \in pins : Pin(x)) \/ (\E x \in pins : SkipPin(x)) \/ repairSingles
      <3>1. UNCHANGED <<phase, units, rounds, todo>>
        BY <2>7 DEF Pin, SkipPin, repairSingles
      <3> QED
        BY <2>2, <3>1
    <2>8. CASE UNCHANGED vars
      BY <2>2, <2>8 DEF vars, attempt
    <2> QED
      BY <2>3, <2>4, <2>5, <2>6, <2>7, <2>8 DEF Next, Steps, Solved
  <1> QED
    BY <1>1, <1>2, PacedStays

\* Some part of a colour fits into any slot, and nothing can be added to it.
LEMMA SomeIsPlaced ==
  ASSUME NEW A, IsFiniteSet(A), NEW slot
  PROVE  Placed(A, slot) # {}
  <1>1. PICK fits : fits = {bs \in SUBSET A : fit(bs, slot)}
    OBVIOUS
  <1>2. fits \in SUBSET SUBSET A /\ fits # {}
    <2>1. {} \in fits
      BY <1>1 DEF fit
    <2> QED
      BY <1>1, <2>1
  <1>3. PICK bs \in fits : \A cs \in fits : bs \subseteq cs => cs = bs
    BY <1>2, LargestSubset
  <1>4. ASSUME NEW a \in A \ bs PROVE ~fit(bs \cup {a}, slot)
    <2> SUFFICES ASSUME fit(bs \cup {a}, slot) PROVE FALSE
      OBVIOUS
    <2>1. bs \cup {a} \in fits
      BY <1>1, <1>3
    <2> QED
      BY <1>3, <2>1
  <1> QED
    BY <1>1, <1>3, <1>4 DEF Placed

\* An attempt never gets stuck: whatever colours it has taken and wherever they
\* went, by Koenig's theorem there is a colour that leaves units the rest of the
\* colours suffice for, and a slot for it; and a slot of a pass always has a
\* maximum matching.  What the other steps need is there whenever Leave is not
\* possible.  So no attempt that ColoringsComplete is about ends in its colours.
THEOREM SolveNeverSticks == Spec => []NeverStuck
  <1>1. Init => ColoringPaced
    BY DEF Init, ColoringPaced, Paced, ColorPhases
  <1>2. ASSUME IndInv, ColoringPaced, phase \in ColorPhases, rounds > 0
        PROVE  \E as \in colorClasses, slot \in todo : Placed(as, slot) # {}
    <2>1. /\ problem \in Problems /\ units \in [Assignments -> Nat] /\ rounds \in Nat \ {0}
          /\ delta(units) <= rounds /\ IsFiniteSet(todo) /\ rounds <= Cardinality(todo)
      BY <1>2 DEF IndInv, ColoringPaced, Paced
    <2>2. PICK as \in SUBSET {a \in Assignments : units[a] > 0} :
            Matching(as) /\ delta(Less(units, as)) < rounds
      BY <2>1, ColorExists
    <2>3. as \in colorClasses
      BY <2>2 DEF colorClasses
    <2>4. PICK slot \in todo : TRUE
      <3>1. todo # {}
        BY <2>1, FS_EmptySet
      <3> QED
        BY <3>1
    <2>5. IsFiniteSet(as)
      BY <2>1, <2>2, FiniteProblem, FS_Subset
    <2> QED
      BY <2>3, <2>4, <2>5, SomeIsPlaced
  <1>3. ASSUME IndInv, NEW slot \in todo
        PROVE  \E as \in maximumMatchings(candidateEdges(slot)) : Placed(as, slot) # {}
    <2>1. candidateEdges(slot) \in SUBSET Assignments /\ problem \in Problems
      BY <1>3 DEF candidateEdges, IndInv
    <2>2. PICK as \in maximumMatchings(candidateEdges(slot)) : as \in SUBSET Assignments
      BY <2>1, MaximumMatchingExists
    <2>3. IsFiniteSet(as)
      BY <2>1, <2>2, FiniteProblem, FS_Subset
    <2> QED
      BY <2>2, <2>3, SomeIsPlaced
  <1>4. IndInv /\ ColoringPaced => NeverStuck
    BY <1>2, <1>3 DEF NeverStuck
  <1>5. Spec => []ColoringPaced
    BY <1>1, Invariance, PacedStep, PTL DEF Spec
  <1> QED
    BY <1>4, <1>5, Invariance, PTL

-----------------------------------------------------------------------------
(* Every step brings the end nearer.                                       *)

Rank == [pin |-> 9, paired |-> 8, doubled |-> 7, doubles |-> 6, colored |-> 5, singles |-> 4,
         repair |-> 3, judge |-> 2, restart |-> 1]
RankOf(p) == IF p \in DOMAIN Rank THEN Rank[p] ELSE 0

\* What remains to be placed, and whether the pass will be repeated for it.
ToPlace(rest, placed) == 2 * Total(rest, Assignments) + (IF placed THEN 1 ELSE 0)

\* What is still to be done: attempts, phases of the attempt, lessons, and
\* what the phase has yet to look at.
Measure == <<Restarts - restart, RankOf(phase), ToPlace(remaining, progress),
             Cardinality(pins) + Cardinality(todo)>>

\* The lexicographic order of what is still to be done.
Lower(m, n) == \E i \in 1..4 : m[i] < n[i] /\ \A j \in 1..(i - 1) : m[j] = n[j]

\* No assignment is placed more often than demanded.
Unspent(p, xs, rest, us, slots) ==
  /\ rest \in [Assignments -> Nat]
  /\ xs = {} => \A a \in Assignments : rest[a] = WeeklyPeriods(a)
  /\ p \in ColorPhases => \A a \in Assignments : us[a] \in Nat /\ Width(p) * us[a] <= rest[a]
  /\ p \in SlotPhases => slots \subseteq SlotsOf(p)

NothingOverplaced ==
  /\ restart \in 0..Restarts
  /\ progress \in BOOLEAN
  /\ IsFiniteSet(pins) /\ IsFiniteSet(todo)
  /\ Unspent(phase, placements, remaining, units, todo)

LEMMA LowerTuple ==
  ASSUME NEW a1, NEW a2, NEW a3, NEW a4, NEW b1, NEW b2, NEW b3, NEW b4,
         \/ b1 < a1
         \/ b1 = a1 /\ b2 < a2
         \/ b1 = a1 /\ b2 = a2 /\ b3 < a3
         \/ b1 = a1 /\ b2 = a2 /\ b3 = a3 /\ b4 < a4
  PROVE  Lower(<<b1, b2, b3, b4>>, <<a1, a2, a3, a4>>)
  <1>1. PICK m, n : m = <<b1, b2, b3, b4>> /\ n = <<a1, a2, a3, a4>>
    OBVIOUS
  <1>2. /\ m[1] = b1 /\ m[2] = b2 /\ m[3] = b3 /\ m[4] = b4
        /\ n[1] = a1 /\ n[2] = a2 /\ n[3] = a3 /\ n[4] = a4
    BY <1>1
  <1>3. PICK i \in 1..4 : m[i] < n[i] /\ (i > 1 => m[1] = n[1]) /\ (i > 2 => m[2] = n[2])
                          /\ (i > 3 => m[3] = n[3])
    <2>1. CASE b1 < a1
      BY <1>2, <2>1
    <2>2. CASE b1 = a1 /\ b2 < a2
      BY <1>2, <2>2
    <2>3. CASE b1 = a1 /\ b2 = a2 /\ b3 < a3
      BY <1>2, <2>3
    <2>4. CASE b1 = a1 /\ b2 = a2 /\ b3 = a3 /\ b4 < a4
      BY <1>2, <2>4
    <2> QED
      BY <2>1, <2>2, <2>3, <2>4
  <1>4. ASSUME NEW j \in 1..(i - 1) PROVE m[j] = n[j]
    <2>1. (j = 1 /\ i > 1) \/ (j = 2 /\ i > 2) \/ (j = 3 /\ i > 3)
      OBVIOUS
    <2> QED
      BY <1>3, <2>1
  <1>5. Lower(m, n)
    BY <1>3, <1>4 DEF Lower
  <1> QED
    BY <1>1, <1>5

LEMMA LessLeft ==
  ASSUME NEW n \in Nat, NEW k \in Nat, NEW r, NEW taken \in BOOLEAN,
         r = IF taken THEN n - k ELSE n, taken => k <= n
  PROVE  r \in Nat /\ r <= n /\ (taken /\ k > 0 => r < n)
  <1>1. CASE taken
    <2>1. r = n - k /\ k <= n
      BY <1>1
    <2> QED
      BY <1>1, <2>1
  <1>2. CASE ~taken
    BY <1>2
  <1> QED
    BY <1>1, <1>2

\* What place takes from what remains.
LEMMA PlaceSpends ==
  ASSUME problem \in Problems, remaining \in [Assignments -> Nat],
         NEW as \in SUBSET Assignments, NEW slot, NEW k \in Nat, k = Cardinality(slot),
         \A a \in as : k <= remaining[a], NEW twice, place(as, slot, twice)
  PROVE  /\ remaining' \in [Assignments -> Nat]
         /\ Total(remaining, Assignments) \in Nat /\ Total(remaining', Assignments) \in Nat
         /\ Total(remaining', Assignments) <= Total(remaining, Assignments)
         /\ as # {} /\ k > 0 =>
              Total(remaining', Assignments) < Total(remaining, Assignments)
         /\ \A a \in Assignments :
              remaining'[a] = IF a \in as THEN remaining[a] - k ELSE remaining[a]
  <1>1. remaining' = [a \in Assignments |-> IF a \in as THEN remaining[a] - k ELSE remaining[a]]
    BY DEF place
  <1>2. PICK rest : rest = remaining'
    OBVIOUS
  <1>3. ASSUME NEW a \in Assignments
        PROVE  /\ remaining[a] \in Nat /\ rest[a] \in Nat /\ rest[a] <= remaining[a]
               /\ a \in as /\ k > 0 => rest[a] < remaining[a]
               /\ rest[a] = IF a \in as THEN remaining[a] - k ELSE remaining[a]
    <2>1. PICK n, r : n = remaining[a] /\ r = rest[a] /\ n \in Nat
      OBVIOUS
    <2>2. r = (IF a \in as THEN n - k ELSE n) /\ (a \in as => k <= n)
      BY <1>1, <1>2, <2>1
    <2>3. r \in Nat /\ r <= n /\ (a \in as /\ k > 0 => r < n)
      BY <2>1, <2>2, LessLeft
    <2> QED
      BY <2>1, <2>2, <2>3
  <1>4. rest \in [Assignments -> Nat]
    <2>1. rest = [a \in Assignments |-> rest[a]]
      BY <1>1, <1>2
    <2> QED
      BY <1>3, <2>1
  <1>5. /\ Total(remaining, Assignments) \in Nat /\ Total(rest, Assignments) \in Nat
        /\ Total(rest, Assignments) <= Total(remaining, Assignments)
        /\ \A a \in Assignments :
             rest[a] < remaining[a] => Total(rest, Assignments) < Total(remaining, Assignments)
    BY <1>3, FiniteProblem, TotalFalls
  <1>6. ASSUME as # {}, k > 0 PROVE Total(rest, Assignments) < Total(remaining, Assignments)
    <2>1. PICK a \in as : a \in Assignments
      BY <1>6
    <2> QED
      BY <1>3, <1>5, <1>6, <2>1
  <1> QED
    BY <1>2, <1>3, <1>4, <1>5, <1>6

\* Nothing has been placed where nothing is to be seen.
LEMMA PlaceShows ==
  ASSUME NEW as, NEW slot, slot # {}, NEW twice, place(as, slot, twice), placements' = {}
  PROVE  as = {} /\ placements = {}
  <1>1. /\ placements = {}
        /\ \A a \in as : lessons(a, slot, a \in twice) = {}
    BY DEF place
  <1>2. ASSUME NEW a \in as PROVE FALSE
    <2>1. PICK p \in slot : TRUE
      OBVIOUS
    <2>2. lessons(a, slot, a \in twice) = {}
      BY <1>1
    <2>3. CASE a \in twice
      BY <2>2, <2>3 DEF lessons
    <2>4. CASE a \notin twice
      BY <2>1, <2>2, <2>4 DEF lessons
    <2> QED
      BY <2>3, <2>4
  <1> QED
    BY <1>1, <1>2

LEMMA PinSpends ==
  ASSUME IndInv, NothingOverplaced, NEW x \in pins, Pin(x)
  PROVE  /\ Unspent(phase', placements', remaining', units', todo')
         /\ Total(remaining, Assignments) \in Nat /\ Total(remaining', Assignments) \in Nat
         /\ Total(remaining', Assignments) <= Total(remaining, Assignments)
  <1>1. PICK a, slot, twice : /\ a = x.assignment /\ slot = x.periods
                              /\ twice = IF x.double THEN {x.assignment} ELSE {}
    OBVIOUS
  <1>2. /\ a \in Assignments /\ remaining[a] >= Cardinality(slot) /\ slot \subseteq Periods
        /\ place({a}, slot, twice) /\ phase = "pin" /\ phase' = phase
    BY <1>1 DEF Pin, keeps, canPlace, AvailablePeriods
  <1>3. /\ problem \in Problems /\ remaining \in [Assignments -> Nat]
        /\ placements = {} => \A b \in Assignments : remaining[b] = WeeklyPeriods(b)
    BY DEF NothingOverplaced, Unspent, IndInv
  <1>4. PICK k \in Nat : k = Cardinality(slot) /\ (slot = {} => k = 0)
    BY <1>2, FinitePeriods, FS_Subset, FS_CardinalityType, FS_EmptySet
  <1>5. /\ remaining' \in [Assignments -> Nat]
        /\ Total(remaining, Assignments) \in Nat /\ Total(remaining', Assignments) \in Nat
        /\ Total(remaining', Assignments) <= Total(remaining, Assignments)
        /\ \A b \in Assignments :
             remaining'[b] = IF b \in {a} THEN remaining[b] - k ELSE remaining[b]
    <2>1. {a} \in SUBSET Assignments /\ \A b \in {a} : k <= remaining[b]
      BY <1>2, <1>3, <1>4
    <2> QED
      BY <1>2, <1>3, <1>4, <2>1, PlaceSpends
  <1>6. ASSUME placements' = {}, NEW b \in Assignments PROVE remaining'[b] = WeeklyPeriods(b)
    <2>1. slot = {}
      <3>1. slot # {} => {a} = {}
        BY <1>2, <1>6, PlaceShows
      <3> QED
        BY <3>1
    <2>2. placements = {}
      BY <1>2, <1>6 DEF place
    <2>3. PICK n \in Nat : n = remaining[b] /\ n = WeeklyPeriods(b)
      BY <1>3, <2>2
    <2>4. k = 0
      BY <1>4, <2>1
    <2>5. remaining'[b] = IF b \in {a} THEN n - 0 ELSE n
      BY <1>5, <2>3, <2>4
    <2>6. n - 0 = n
      OBVIOUS
    <2>7. remaining'[b] = n
      BY <2>5, <2>6
    <2> QED
      BY <2>3, <2>7
  <1> QED
    BY <1>2, <1>5, <1>6 DEF Unspent, ColorPhases, SlotPhases

\* Slots of a pass that sees single periods or pairs.
LEMMA SlotWidth ==
  ASSUME NEW p, NEW slot \in SlotsOf(p)
  PROVE  /\ slot # {} /\ Cardinality(slot) \in {1, 2}
         /\ p \in ColorPhases => Cardinality(slot) = Width(p)
         /\ p = "doubles" => Cardinality(slot) = 2
         /\ p = "singles" => Cardinality(slot) = 1
  BY SlotSizes DEF SlotsOf, Width, ColorPhases

LEMMA ColorSpends ==
  ASSUME IndInv, NothingOverplaced, PlaceColor
  PROVE  /\ Unspent(phase', placements', remaining', units', todo')
         /\ Total(remaining, Assignments) \in Nat /\ Total(remaining', Assignments) \in Nat
         /\ Total(remaining', Assignments) <= Total(remaining, Assignments)
         /\ \E slot \in todo : todo' = todo \ {slot}
  <1>1. /\ phase \in ColorPhases /\ phase' = phase /\ problem \in Problems
        /\ remaining \in [Assignments -> Nat] /\ todo \subseteq SlotsOf(phase)
        /\ placements = {} => \A b \in Assignments : remaining[b] = WeeklyPeriods(b)
        /\ \A a \in Assignments : units[a] \in Nat /\ Width(phase) * units[a] <= remaining[a]
    BY DEF PlaceColor, NothingOverplaced, Unspent, IndInv, SlotPhases
  <1>2. PICK as \in colorClasses, slot \in todo :
          /\ \E bs \in Placed(as, slot) : place(bs, slot, twiceOf(bs))
          /\ units' = Less(units, as) /\ todo' = todo \ {slot}
    BY DEF PlaceColor
  <1>3. PICK bs, twice : bs \in Placed(as, slot) /\ place(bs, slot, twice)
    BY <1>2
  <1>4. bs \subseteq as /\ as \subseteq Assignments /\ \A a \in as : units[a] > 0
    BY <1>2, <1>3 DEF Placed, colorClasses
  <1>5. PICK k \in {1, 2} : k = Cardinality(slot) /\ k = Width(phase) /\ slot # {}
    BY <1>1, <1>2, SlotWidth
  <1>6. ASSUME NEW a \in Assignments
        PROVE  /\ units[a] \in Nat /\ remaining[a] \in Nat /\ k * units[a] <= remaining[a]
               /\ a \in as => k * (units[a] - 1) + k <= remaining[a] /\ units[a] - 1 \in Nat
                              /\ k <= remaining[a]
    <2>1. PICK u \in Nat, n \in Nat : u = units[a] /\ n = remaining[a] /\ k * u <= n
      BY <1>1, <1>5
    <2>2. a \in as => u > 0
      BY <1>4, <2>1
    <2>3. ASSUME a \in as PROVE k * (u - 1) + k <= n /\ u - 1 \in Nat /\ k <= n
      <3>1. u - 1 \in Nat
        BY <2>2, <2>3
      <3>2. CASE k = 1
        BY <2>1, <3>1, <3>2
      <3>3. CASE k = 2
        BY <2>1, <3>1, <3>3
      <3> QED
        BY <3>1, <3>2, <3>3
    <2> QED
      BY <2>1, <2>3
  <1>7. /\ remaining' \in [Assignments -> Nat]
        /\ Total(remaining, Assignments) \in Nat /\ Total(remaining', Assignments) \in Nat
        /\ Total(remaining', Assignments) <= Total(remaining, Assignments)
        /\ \A b \in Assignments :
             remaining'[b] = IF b \in bs THEN remaining[b] - k ELSE remaining[b]
    <2>1. bs \in SUBSET Assignments /\ \A b \in bs : k <= remaining[b]
      BY <1>4, <1>6
    <2>2. k \in Nat
      OBVIOUS
    <2> QED
      BY <1>1, <1>3, <1>5, <2>1, <2>2, PlaceSpends
  <1>8. ASSUME NEW a \in Assignments
        PROVE  units'[a] \in Nat /\ Width(phase') * units'[a] <= remaining'[a]
    <2>1. PICK u \in Nat, n \in Nat :
            /\ u = units[a] /\ n = remaining[a] /\ k * u <= n
            /\ a \in as => k * (u - 1) + k <= n /\ u - 1 \in Nat
      BY <1>6
    <2>2. units'[a] = IF a \in as THEN u - 1 ELSE u
      BY <1>2, <2>1 DEF Less
    <2>3. remaining'[a] = IF a \in bs THEN n - k ELSE n
      BY <1>7, <2>1
    <2>4. k = 1 \/ k = 2
      OBVIOUS
    <2>5. Width(phase') = k
      BY <1>1, <1>5
    <2>6. CASE a \in bs
      <3>1. units'[a] = u - 1 /\ remaining'[a] = n - k /\ k * (u - 1) + k <= n /\ u - 1 \in Nat
        BY <1>4, <2>1, <2>2, <2>3, <2>6
      <3> QED
        BY <2>4, <2>5, <3>1
    <2>7. CASE a \in as \ bs
      <3>1. units'[a] = u - 1 /\ remaining'[a] = n /\ u - 1 \in Nat
        BY <2>1, <2>2, <2>3, <2>7
      <3> QED
        BY <2>1, <2>4, <2>5, <3>1
    <2>8. CASE a \notin as
      <3>1. units'[a] = u /\ remaining'[a] = n
        BY <1>4, <2>2, <2>3, <2>8
      <3> QED
        BY <2>1, <2>5, <3>1
    <2> QED
      BY <2>6, <2>7, <2>8
  <1>9. ASSUME placements' = {}, NEW b \in Assignments PROVE remaining'[b] = WeeklyPeriods(b)
    <2>1. bs = {} /\ placements = {}
      BY <1>3, <1>5, <1>9, PlaceShows
    <2> QED
      BY <1>1, <1>7, <2>1
  <1>10. todo' \subseteq SlotsOf(phase')
    BY <1>1, <1>2
  <1> QED
    BY <1>2, <1>7, <1>8, <1>9, <1>10 DEF Unspent

LEMMA MatchingSpends ==
  ASSUME IndInv, NothingOverplaced, PlaceMatching
  PROVE  /\ Unspent(phase', placements', remaining', units', todo')
         /\ Total(remaining, Assignments) \in Nat /\ Total(remaining', Assignments) \in Nat
         /\ progress' \in BOOLEAN
         /\ \/ Total(remaining', Assignments) < Total(remaining, Assignments)
            \/ /\ Total(remaining', Assignments) = Total(remaining, Assignments)
               /\ progress' = progress
         /\ \E slot \in todo : todo' = todo \ {slot}
  <1>1. /\ phase \in {"doubles", "singles"} /\ phase' = phase /\ problem \in Problems
        /\ remaining \in [Assignments -> Nat] /\ todo \subseteq SlotsOf(phase)
        /\ placements = {} => \A b \in Assignments : remaining[b] = WeeklyPeriods(b)
        /\ progress \in BOOLEAN
    BY DEF PlaceMatching, NothingOverplaced, Unspent, IndInv, SlotPhases
  <1>2. PICK slot \in todo :
          \E as \in maximumMatchings(candidateEdges(slot)) : \E bs \in Placed(as, slot) :
            /\ place(bs, slot, IF phase = "doubles" THEN bs ELSE {})
            /\ progress' = (progress \/ bs # {}) /\ todo' = todo \ {slot}
    BY DEF PlaceMatching
  <1>3. PICK as \in maximumMatchings(candidateEdges(slot)) : \E bs \in Placed(as, slot) :
            /\ place(bs, slot, IF phase = "doubles" THEN bs ELSE {})
            /\ progress' = (progress \/ bs # {}) /\ todo' = todo \ {slot}
    BY <1>2
  <1>4. PICK bs, twice : /\ bs \in Placed(as, slot) /\ place(bs, slot, twice)
                         /\ progress' = (progress \/ bs # {}) /\ todo' = todo \ {slot}
    BY <1>3
  <1>5. bs \subseteq candidateEdges(slot) /\ bs \in SUBSET Assignments
    BY <1>3, <1>4 DEF Placed, maximumMatchings, candidateEdges
  <1>6. PICK k \in {1, 2} : /\ k = Cardinality(slot) /\ slot # {}
                            /\ phase = "doubles" => k = 2
                            /\ phase = "singles" => k = 1
    BY <1>1, <1>2, SlotWidth
  <1>7. ASSUME NEW a \in bs PROVE k <= remaining[a]
    <2>1. PICK n \in Nat : n = remaining[a]
      BY <1>1, <1>5
    <2>2. (phase = "doubles" => n >= 2) /\ (phase = "singles" => n > 0)
      BY <1>5, <2>1 DEF candidateEdges
    <2> QED
      BY <1>1, <1>6, <2>1, <2>2
  <1>8. /\ remaining' \in [Assignments -> Nat]
        /\ Total(remaining, Assignments) \in Nat /\ Total(remaining', Assignments) \in Nat
        /\ bs # {} => Total(remaining', Assignments) < Total(remaining, Assignments)
        /\ \A b \in Assignments :
             remaining'[b] = IF b \in bs THEN remaining[b] - k ELSE remaining[b]
    <2>1. k \in Nat /\ k > 0
      OBVIOUS
    <2>2. /\ problem \in Problems /\ remaining \in [Assignments -> Nat]
          /\ bs \in SUBSET Assignments /\ k = Cardinality(slot) /\ place(bs, slot, twice)
      BY <1>1, <1>4, <1>5, <1>6
    <2>3. /\ remaining' \in [Assignments -> Nat]
          /\ Total(remaining, Assignments) \in Nat /\ Total(remaining', Assignments) \in Nat
          /\ bs # {} /\ k > 0 =>
               Total(remaining', Assignments) < Total(remaining, Assignments)
          /\ \A b \in Assignments :
               remaining'[b] = IF b \in bs THEN remaining[b] - k ELSE remaining[b]
      <3>1. \A a \in bs : k <= remaining[a]
        BY <1>7
      <3> QED
        BY <2>1, <2>2, <3>1, PlaceSpends
    <2> QED
      BY <2>1, <2>3
  <1>9. bs = {} => remaining' = remaining /\ progress' = progress
    BY <1>1, <1>4, <1>8
  <1>10. ASSUME placements' = {}, NEW b \in Assignments PROVE remaining'[b] = WeeklyPeriods(b)
    <2>1. bs = {} /\ placements = {}
      BY <1>4, <1>6, <1>10, PlaceShows
    <2> QED
      BY <1>1, <1>8, <2>1
  <1>11. todo' \subseteq SlotsOf(phase') /\ phase' \notin ColorPhases
    BY <1>1, <1>4 DEF ColorPhases
  <1>12. Unspent(phase', placements', remaining', units', todo')
    BY <1>8, <1>10, <1>11 DEF Unspent
  <1>13. progress' \in BOOLEAN
    BY <1>1, <1>4
  <1> QED
    BY <1>4, <1>8, <1>9, <1>12, <1>13

LEMMA ExchangeSpends ==
  ASSUME IndInv, NothingOverplaced, repairSingles
  PROVE  /\ Unspent(phase', placements', remaining', units', todo')
         /\ Total(remaining, Assignments) \in Nat /\ Total(remaining', Assignments) \in Nat
         /\ Total(remaining', Assignments) < Total(remaining, Assignments)
  <1>1. /\ phase' = phase /\ phase = "repair" /\ problem \in Problems
        /\ remaining \in [Assignments -> Nat]
    BY DEF repairSingles, NothingOverplaced, Unspent, IndInv
  <1>2. PICK a \in Assignments :
          /\ remaining[a] > 0 /\ remaining' = [remaining EXCEPT ![a] = @ - 1]
          /\ placements' # {}
    BY DEF repairSingles, exchanges
  <1>3. PICK rest : rest = remaining'
    OBVIOUS
  <1>4. ASSUME NEW b \in Assignments
        PROVE  /\ remaining[b] \in Nat /\ rest[b] \in Nat /\ rest[b] <= remaining[b]
               /\ b = a => rest[b] < remaining[b]
    <2>1. PICK n \in Nat : n = remaining[b] /\ (b = a => n > 0)
      BY <1>1, <1>2
    <2>2. rest[b] = IF b = a THEN n - 1 ELSE n
      BY <1>1, <1>2, <1>3, <2>1
    <2> QED
      BY <2>1, <2>2
  <1>5. rest \in [Assignments -> Nat]
    <2>1. rest = [b \in Assignments |-> rest[b]]
      BY <1>1, <1>2, <1>3
    <2> QED
      BY <1>4, <2>1
  <1>6. /\ Total(remaining, Assignments) \in Nat /\ Total(rest, Assignments) \in Nat
        /\ Total(rest, Assignments) < Total(remaining, Assignments)
    BY <1>1, <1>4, FiniteProblem, TotalFalls
  <1>7. Unspent(phase', placements', rest, units', todo')
    BY <1>1, <1>2, <1>5 DEF Unspent, ColorPhases, SlotPhases
  <1> QED
    BY <1>3, <1>6, <1>7

\* A colouring begins with no more lessons than remain.
LEMMA EnterSpends ==
  ASSUME IndInv, NothingOverplaced, Leave
  PROVE  /\ Unspent(phase', placements', remaining', units', todo')
         /\ IsFiniteSet(todo')
  <1>1. /\ problem \in Problems /\ remaining \in [Assignments -> Nat]
        /\ placements' = placements /\ remaining' = remaining
        /\ placements = {} => \A a \in Assignments : remaining[a] = WeeklyPeriods(a)
    BY DEF Leave, NothingOverplaced, Unspent, IndInv
  <1>2. CASE phase' \in ColorPhases
    <2>1. PICK p \in ColorPhases : p = phase'
      BY <1>2
    <2>2. EnterColoring(p)
      BY <1>2, <2>1 DEF Leave
    <2>3. PICK used \in BOOLEAN : used <=> usable(p) /\ delta(unitsOf(p)) <= Cardinality(SlotsOf(p))
      OBVIOUS
    <2>4. PICK us : us = unitsOf(p)
      OBVIOUS
    <2>5. /\ units' = IF used THEN us ELSE [a \in Assignments |-> 0]
          /\ todo' = SlotsOf(p)
      BY <2>2, <2>3, <2>4 DEF EnterColoring
    <2>6. \A a \in Assignments : units'[a] \in Nat
      BY <1>1, <2>2, EnterPaced DEF Paced
    <2>7. ASSUME NEW a \in Assignments PROVE Width(p) * units'[a] <= remaining[a]
      <3>1. PICK r \in Nat : r = remaining[a]
        BY <1>1
      <3>2. PICK w \in Nat, d \in Nat : w = WeeklyPeriods(a) /\ d = DoubleBlocks(a)
        BY <1>1, FiniteProblem
      <3>3. CASE used
        <4>1. usable(p) /\ units'[a] = us[a]
          BY <2>3, <2>5, <3>3
        <4>2. placements = {}
          BY <4>1 DEF usable, canUsePairedDemandColoring, canUseExactColoring
        <4>3. r = w
          BY <1>1, <3>1, <3>2, <4>2
        <4>4. CASE p = "paired"
          <5>1. us[a] = w \div 2 /\ Width(p) = 2
            BY <2>4, <3>2, <4>4 DEF unitsOf, Width
          <5>2. 2 * (w \div 2) <= w
            OBVIOUS
          <5> QED
            BY <3>1, <4>1, <4>3, <5>1, <5>2
        <4>5. CASE p = "doubled"
          <5>1. us[a] = d /\ Width(p) = 2
            BY <2>4, <3>2, <4>5 DEF unitsOf, Width
          <5>2. w = d * 2
            BY <3>2, <4>1, <4>5 DEF usable, canUseExactColoring
          <5> QED
            BY <3>1, <4>1, <4>3, <5>1, <5>2
        <4>6. CASE p = "colored"
          <5>1. us[a] = w - d * 2 /\ Width(p) = 1
            BY <2>4, <3>2, <4>6 DEF unitsOf, Width
          <5>2. d = 0
            BY <3>2, <4>1, <4>6 DEF usable, canUseExactColoring
          <5> QED
            BY <3>1, <4>1, <4>3, <5>1, <5>2
        <4> QED
          BY <4>4, <4>5, <4>6 DEF ColorPhases
      <3>4. CASE ~used
        <4>1. units'[a] = 0
          BY <2>5, <3>4
        <4>2. Width(p) = 1 \/ Width(p) = 2
          BY DEF Width
        <4> QED
          BY <3>1, <4>1, <4>2
      <3> QED
        BY <3>3, <3>4
    <2> QED
      BY <1>1, <2>1, <2>5, <2>6, <2>7, SlotsAreFinite DEF Unspent
  <1>3. CASE phase' \notin ColorPhases
    <2>1. todo' = SlotsOf(phase') \/ todo' = {}
      BY <1>3 DEF Leave
    <2>2. IsFiniteSet(todo') /\ todo' \subseteq SlotsOf(phase')
      BY <2>1, SlotsAreFinite, FS_EmptySet
    <2> QED
      BY <1>1, <1>3, <2>2 DEF Unspent
  <1> QED
    BY <1>2, <1>3

\* The phases of an attempt come one after the other.
LEMMA RankFalls ==
  /\ \A p : RankOf(p) \in Nat
  /\ \A p \in DOMAIN after : RankOf(after[p]) < RankOf(p)
  /\ \A p \in SlotPhases \cup {"repair"} : RankOf("judge") < RankOf(p)
  /\ RankOf("restart") < RankOf("judge")
  /\ \A p \in Statuses : RankOf(p) < RankOf("restart")
  <1>1. ASSUME NEW p PROVE RankOf(p) \in Nat
    BY DEF RankOf, Rank
  <1>2. /\ RankOf("pin") = 9 /\ RankOf("paired") = 8 /\ RankOf("doubled") = 7
        /\ RankOf("doubles") = 6 /\ RankOf("colored") = 5 /\ RankOf("singles") = 4
        /\ RankOf("repair") = 3 /\ RankOf("judge") = 2 /\ RankOf("restart") = 1
    BY DEF RankOf, Rank
  <1>3. \A p \in Statuses : RankOf(p) = 0
    BY DEF Statuses, RankOf, Rank
  <1>4. \A p \in DOMAIN after : RankOf(after[p]) < RankOf(p)
    BY <1>2 DEF after
  <1>5. \A p \in SlotPhases \cup {"repair"} : RankOf("judge") < RankOf(p)
    BY <1>2 DEF SlotPhases, ColorPhases
  <1> QED
    BY <1>1, <1>2, <1>3, <1>4, <1>5

\* A slot or a lesson less to see.
LEMMA FewerToSee ==
  ASSUME NEW S, NEW T, IsFiniteSet(S), IsFiniteSet(T), NEW x \in S
  PROVE  /\ IsFiniteSet(S \ {x})
         /\ Cardinality(S \ {x}) + Cardinality(T) < Cardinality(S) + Cardinality(T)
         /\ Cardinality(T) + Cardinality(S \ {x}) < Cardinality(T) + Cardinality(S)
  <1>1. PICK m \in Nat, n \in Nat : m = Cardinality(S) /\ n = Cardinality(T)
    BY FS_CardinalityType
  <1>2. IsFiniteSet(S \ {x}) /\ Cardinality(S \ {x}) = m - 1
    BY <1>1, FS_RemoveElement
  <1> QED
    BY <1>1, <1>2

\* The measure of the next state, with the problem it shares with this one.
NextMeasure == <<Restarts - restart', RankOf(phase'), ToPlace(remaining', progress'),
                 Cardinality(pins') + Cardinality(todo')>>

OverplacedNext ==
  /\ restart' \in 0..Restarts
  /\ progress' \in BOOLEAN
  /\ IsFiniteSet(pins') /\ IsFiniteSet(todo')
  /\ Unspent(phase', placements', remaining', units', todo')

LEMMA ProgressStep ==
  ASSUME IndInv, NothingOverplaced, [Next]_vars
  PROVE  OverplacedNext /\ (UNCHANGED vars \/ Lower(NextMeasure, Measure))
  <1>1. /\ problem \in Problems /\ restart \in 0..Restarts /\ progress \in BOOLEAN
        /\ IsFiniteSet(pins) /\ IsFiniteSet(todo)
        /\ Unspent(phase, placements, remaining, units, todo)
        /\ Restarts \in Nat
    BY EngineAssumption DEF NothingOverplaced, IndInv
  <1>2. PICK r, f, t, s : Measure = <<r, f, t, s>> /\ r = Restarts - restart /\ f = RankOf(phase)
                          /\ t = ToPlace(remaining, progress)
                          /\ s = Cardinality(pins) + Cardinality(todo)
    BY DEF Measure
  <1>3. PICK r1, f1, t1, s1 :
          /\ NextMeasure = <<r1, f1, t1, s1>> /\ r1 = Restarts - restart' /\ f1 = RankOf(phase')
          /\ t1 = ToPlace(remaining', progress')
          /\ s1 = Cardinality(pins') + Cardinality(todo')
    BY DEF NextMeasure
  <1>4. ASSUME restart' = restart, f1 < f PROVE Lower(NextMeasure, Measure)
    BY <1>2, <1>3, <1>4, LowerTuple
  <1>5. ASSUME restart' = restart, phase' = phase, t1 < t PROVE Lower(NextMeasure, Measure)
    BY <1>2, <1>3, <1>5, LowerTuple
  <1>6. ASSUME restart' = restart, phase' = phase, t1 <= t, s1 < s, t \in Int, t1 \in Int
        PROVE  Lower(NextMeasure, Measure)
    <2>1. t1 < t \/ t1 = t
      BY <1>6
    <2> QED
      BY <1>2, <1>3, <1>6, <2>1, LowerTuple
  <1>7. CASE solveAttempt
    <2>1. /\ restart' = restart + 1 /\ restart < Restarts /\ phase' = "pin" /\ placements' = {}
          /\ remaining' = [a \in Assignments |-> WeeklyPeriods(a)]
          /\ pins' = problem.existing /\ todo' = todo /\ progress' = progress
      BY <1>7 DEF solveAttempt
    <2>2. restart' \in 0..Restarts /\ Restarts - restart' < Restarts - restart
      BY <1>1, <2>1
    <2>3. IsFiniteSet(pins')
      BY <1>1, <2>1, ProblemsAreFinite
    <2>4. Unspent(phase', placements', remaining', units', todo')
      BY <1>1, <2>1, FiniteProblem DEF Unspent, ColorPhases, SlotPhases
    <2>5. Lower(NextMeasure, Measure)
      BY <1>2, <1>3, <2>2, LowerTuple
    <2> QED
      BY <1>1, <2>1, <2>2, <2>3, <2>4, <2>5 DEF OverplacedNext
  <1>8. ASSUME NEW x \in pins, Pin(x) PROVE OverplacedNext /\ Lower(NextMeasure, Measure)
    <2>1. /\ restart' = restart /\ phase' = phase /\ progress' = progress
          /\ todo' = todo /\ pins' = pins \ {x}
      BY <1>8 DEF Pin
    <2>2. /\ Unspent(phase', placements', remaining', units', todo')
          /\ Total(remaining, Assignments) \in Nat /\ Total(remaining', Assignments) \in Nat
          /\ Total(remaining', Assignments) <= Total(remaining, Assignments)
      BY <1>8, PinSpends
    <2>3. t \in Int /\ t1 \in Int /\ t1 <= t
      BY <1>2, <1>3, <2>1, <2>2 DEF ToPlace
    <2>4. IsFiniteSet(pins') /\ s1 < s
      BY <1>1, <1>2, <1>3, <2>1, FewerToSee
    <2> QED
      BY <1>1, <1>6, <2>1, <2>2, <2>3, <2>4 DEF OverplacedNext
  <1>9. ASSUME NEW x \in pins, SkipPin(x) PROVE OverplacedNext /\ Lower(NextMeasure, Measure)
    <2>1. /\ restart' = restart /\ phase' = phase /\ progress' = progress
          /\ todo' = todo /\ pins' = pins \ {x} /\ remaining' = remaining
          /\ placements' = placements /\ units' = units
      BY <1>9 DEF SkipPin
    <2>2. t1 = t
      BY <1>2, <1>3, <2>1
    <2>3. IsFiniteSet(pins') /\ s1 < s
      BY <1>1, <1>2, <1>3, <2>1, FewerToSee
    <2>4. Lower(NextMeasure, Measure)
      BY <1>2, <1>3, <2>1, <2>2, <2>3, LowerTuple
    <2> QED
      BY <1>1, <2>1, <2>3, <2>4 DEF OverplacedNext
  <1>10. CASE PlaceColor
    <2>1. /\ restart' = restart /\ phase' = phase /\ progress' = progress /\ pins' = pins
      BY <1>10 DEF PlaceColor
    <2>2. /\ Unspent(phase', placements', remaining', units', todo')
          /\ Total(remaining, Assignments) \in Nat /\ Total(remaining', Assignments) \in Nat
          /\ Total(remaining', Assignments) <= Total(remaining, Assignments)
          /\ \E slot \in todo : todo' = todo \ {slot}
      BY <1>10, ColorSpends
    <2>3. t \in Int /\ t1 \in Int /\ t1 <= t
      BY <1>2, <1>3, <2>1, <2>2 DEF ToPlace
    <2>4. IsFiniteSet(todo') /\ s1 < s
      BY <1>1, <1>2, <1>3, <2>1, <2>2, FewerToSee
    <2> QED
      BY <1>1, <1>6, <2>1, <2>2, <2>3, <2>4 DEF OverplacedNext
  <1>11. CASE PlaceMatching
    <2>1. /\ restart' = restart /\ phase' = phase /\ pins' = pins
      BY <1>11 DEF PlaceMatching
    <2>2. /\ Unspent(phase', placements', remaining', units', todo')
          /\ Total(remaining, Assignments) \in Nat /\ Total(remaining', Assignments) \in Nat
          /\ progress' \in BOOLEAN
          /\ \/ Total(remaining', Assignments) < Total(remaining, Assignments)
             \/ /\ Total(remaining', Assignments) = Total(remaining, Assignments)
                /\ progress' = progress
          /\ \E slot \in todo : todo' = todo \ {slot}
      BY <1>11, MatchingSpends
    <2>3. t \in Int /\ t1 \in Int /\ t1 <= t
      BY <1>1, <1>2, <1>3, <2>2 DEF ToPlace
    <2>4. IsFiniteSet(todo') /\ s1 < s
      BY <1>1, <1>2, <1>3, <2>1, <2>2, FewerToSee
    <2> QED
      BY <1>1, <1>6, <2>1, <2>2, <2>3, <2>4 DEF OverplacedNext
  <1>12. CASE NextPass
    <2>1. /\ restart' = restart /\ phase' = phase /\ pins' = pins /\ remaining' = remaining
          /\ placements' = placements /\ units' = units /\ todo' = SlotsOf(phase)
          /\ progress /\ progress' = FALSE /\ phase \in {"doubles", "singles"}
      BY <1>12 DEF NextPass
    <2>2. Total(remaining, Assignments) \in Nat
      BY <1>1, FiniteProblem, TotalIsNat DEF Unspent
    <2>3. t1 < t
      BY <1>2, <1>3, <2>1, <2>2 DEF ToPlace
    <2>4. Unspent(phase', placements', remaining', units', todo')
      BY <1>1, <2>1 DEF Unspent, ColorPhases
    <2> QED
      BY <1>1, <1>5, <2>1, <2>3, <2>4, SlotsAreFinite DEF OverplacedNext
  <1>13. CASE repairSingles
    <2>1. /\ restart' = restart /\ phase' = phase /\ pins' = pins /\ todo' = todo
          /\ progress' = TRUE
      BY <1>13 DEF repairSingles
    <2>2. /\ Unspent(phase', placements', remaining', units', todo')
          /\ Total(remaining, Assignments) \in Nat /\ Total(remaining', Assignments) \in Nat
          /\ Total(remaining', Assignments) < Total(remaining, Assignments)
      BY <1>13, ExchangeSpends
    <2>3. t1 < t
      BY <1>1, <1>2, <1>3, <2>1, <2>2 DEF ToPlace
    <2> QED
      BY <1>1, <1>5, <2>1, <2>2, <2>3 DEF OverplacedNext
  <1>14. CASE Leave
    <2>1. /\ restart' = restart /\ pins' = pins /\ progress' = FALSE
          /\ phase \in DOMAIN after /\ phase' = after[phase]
      BY <1>14 DEF Leave
    <2>2. f1 < f
      BY <1>2, <1>3, <2>1, RankFalls
    <2> QED
      BY <1>1, <1>4, <1>14, <2>1, <2>2, EnterSpends DEF OverplacedNext
  <1>15. CASE Judge \/ Return
    <2>1. /\ restart' = restart /\ pins' = pins /\ progress' = progress /\ todo' = todo
          /\ remaining' = remaining /\ placements' = placements
      BY <1>15 DEF Judge, Return, attempt
    <2>2. \/ phase = "judge" /\ phase' = "restart"
          \/ phase = "restart" /\ phase' \in Statuses
      BY <1>15 DEF Judge, Return, statusOf, Statuses
    <2>3. f1 < f
      BY <1>2, <1>3, <2>2, RankFalls
    <2>4. Unspent(phase', placements', remaining', units', todo')
      BY <1>1, <2>1, <2>2 DEF Unspent, ColorPhases, SlotPhases, Statuses
    <2> QED
      BY <1>1, <1>4, <2>1, <2>3, <2>4 DEF OverplacedNext
  <1>16. CASE budgetExceeded
    <2>1. /\ restart' = restart /\ pins' = pins /\ progress' = FALSE /\ todo' = {}
          /\ remaining' = remaining /\ placements' = placements /\ phase' = "judge"
          /\ phase \in SlotPhases \cup {"repair"}
      BY <1>16 DEF budgetExceeded, budgetChecked, SlotPhases
    <2>2. f1 < f
      BY <1>2, <1>3, <2>1, RankFalls
    <2>3. Unspent(phase', placements', remaining', units', todo')
      BY <1>1, <2>1 DEF Unspent, ColorPhases, SlotPhases
    <2> QED
      BY <1>1, <1>4, <2>1, <2>2, <2>3, FS_EmptySet DEF OverplacedNext
  <1>17. CASE UNCHANGED vars
    BY <1>1, <1>17 DEF vars, attempt, OverplacedNext
  <1> QED
    BY <1>7, <1>8, <1>9, <1>10, <1>11, <1>12, <1>13, <1>14, <1>15, <1>16, <1>17
       DEF Next, Steps, Solved

LEMMA OverplacedStays ==
  ASSUME problem' = problem
  PROVE  (OverplacedNext => NothingOverplaced') /\ Measure' = NextMeasure
  <1>1. /\ Assignments' = Assignments
        /\ \A a : WeeklyPeriods(a)' = WeeklyPeriods(a)
    BY DEF Assignments, WeeklyPeriods
  <1>2. OverplacedNext => NothingOverplaced'
    BY <1>1 DEF OverplacedNext, NothingOverplaced, Unspent
  <1>3. Total(remaining, Assignments)' = Total(remaining', Assignments)
    BY <1>1 DEF Total, MapThenSumSet, MapThenFoldSet
  <1>4. ToPlace(remaining, progress)' = ToPlace(remaining', progress')
    BY <1>3 DEF ToPlace
  <1>5. Measure' = NextMeasure
    BY <1>4 DEF Measure, NextMeasure
  <1> QED
    BY <1>2, <1>5

LEMMA OverplacedInit == Init => NothingOverplaced
  <1> SUFFICES ASSUME Init PROVE NothingOverplaced
    OBVIOUS
  <1>1. /\ problem \in Problems /\ restart = 0 /\ progress = FALSE /\ pins = {} /\ todo = {}
        /\ remaining = [a \in Assignments |-> WeeklyPeriods(a)]
        /\ phase \in {"restart", "INFEASIBLE"}
    BY DEF Init
  <1>2. restart \in 0..Restarts
    BY <1>1, EngineAssumption
  <1>3. Unspent(phase, placements, remaining, units, todo)
    BY <1>1, FiniteProblem DEF Unspent, ColorPhases, SlotPhases
  <1> QED
    BY <1>1, <1>2, <1>3, FS_EmptySet DEF NothingOverplaced

LEMMA OverplacedStep ==
  ASSUME IndInv, NothingOverplaced, [Next]_vars
  PROVE  NothingOverplaced' /\ [Lower(Measure', Measure)]_vars
  <1>1. problem' = problem
    BY DEF Next, Steps, solveAttempt, Pin, SkipPin, PlaceColor, PlaceMatching, NextPass,
           repairSingles, Leave, Judge, Return, budgetExceeded, Solved, vars
  <1> QED
    BY <1>1, ProgressStep, OverplacedStays

\* No assignment is placed more often than demanded, so that everything the
\* measure counts is a natural number, pinned lessons and exchanges included.
THEOREM MeasureIsNatural == Spec => [](Measure \in Nat \X Nat \X Nat \X Nat)
  <1>1. IndInv /\ NothingOverplaced => Measure \in Nat \X Nat \X Nat \X Nat
    <2> SUFFICES ASSUME IndInv, NothingOverplaced PROVE Measure \in Nat \X Nat \X Nat \X Nat
      OBVIOUS
    <2>1. Restarts - restart \in Nat
      BY EngineAssumption DEF NothingOverplaced
    <2>2. RankOf(phase) \in Nat
      BY RankFalls
    <2>3. ToPlace(remaining, progress) \in Nat
      <3>1. Total(remaining, Assignments) \in Nat
        BY FiniteProblem, TotalIsNat DEF NothingOverplaced, Unspent, IndInv
      <3> QED
        BY <3>1 DEF ToPlace
    <2>4. Cardinality(pins) + Cardinality(todo) \in Nat
      BY FS_CardinalityType DEF NothingOverplaced
    <2> QED
      BY <2>1, <2>2, <2>3, <2>4 DEF Measure
  <1>2. Spec => []NothingOverplaced
    BY OverplacedInit, OverplacedStep, Invariance, PTL DEF Spec
  <1> QED
    BY <1>1, <1>2, Invariance, PTL

\* Whatever Solve does next, it has less to do afterwards: attempts, then the
\* phases of an attempt, then lessons to place, then slots and pins to look at.
\* With SolveNeverSticks and a measure of naturals this is why its loops end
\* without the budget, the repeated passes and the exchanges among them.
THEOREM EveryStepCounts == Spec => [][Lower(Measure', Measure)]_vars
  <1>1. Spec => []NothingOverplaced
    BY OverplacedInit, OverplacedStep, Invariance, PTL DEF Spec
  <1> QED
    BY <1>1, OverplacedStep, Invariance, PTL DEF Spec
=============================================================================
