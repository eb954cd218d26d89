--------------------------- MODULE OrdinaryEngine ---------------------------
(***************************************************************************)
(* Solve for a problem without delivery groups, learners and blocks: the   *)
(* preflight, then up to Restarts attempts.  An attempt pins the lessons   *)
(* it should keep, colours the demand when its shape allows it, places     *)
(* double lessons and then single lessons slot by slot with a maximum      *)
(* matching of teachers and classes, and at last exchanges lessons to make *)
(* room.  The validator judges every attempt and the best one is returned. *)
(*                                                                         *)
(* A slot is a set of periods: one, or two adjacent ones.  The seeded      *)
(* shuffles make every order of the slots and every maximum matching       *)
(* possible, so a pass takes the slots in any order.  The clock and the    *)
(* iteration budget may run out wherever the code looks at them.  Rooms    *)
(* and laboratories have capacity 1, as loadEngineProblem sets it.         *)
(***************************************************************************)
EXTENDS Integers, FiniteSets, FiniteSetsExt

CONSTANTS
  Problems,        \* the problems Solve may be called with
  NumPeriods,      \* usable periods of the week, in the order of usablePeriods
  Consecutive,     \* periods that the next one follows without a break
  DayOf,           \* the day of each period
  Restarts,        \* config.Restarts
  MaxConsecutive,  \* config.MaxConsecutive
  None             \* no resource; no attempt yet

ASSUME EngineAssumption ==
  /\ NumPeriods \in Nat
  /\ Consecutive \subseteq 1..(NumPeriods - 1)
  /\ Restarts \in Nat \ {0}

\* loadEngineProblem enters a teacher and a class with every assignment.
ASSUME ProblemsAreClosed ==
  \A q \in Problems : \A a \in DOMAIN q.assignments :
    /\ q.assignments[a].teacher \in DOMAIN q.unavailable
    /\ q.assignments[a].cohort \in q.cohorts

\* Slices and maps; intRequirement and a CHECK of the table refuse negative
\* demand, and a workload limit is positive or the number of periods.
ASSUME ProblemsAreFinite ==
  \A q \in Problems :
    /\ IsFiniteSet(DOMAIN q.assignments) /\ IsFiniteSet(DOMAIN q.unavailable)
    /\ IsFiniteSet(q.cohorts) /\ IsFiniteSet(q.existing)
    /\ \A a \in DOMAIN q.assignments :
         q.assignments[a].weekly \in Nat /\ q.assignments[a].doubles \in Nat
    /\ \A t \in DOMAIN q.unavailable : q.limit[t] \in Nat

VARIABLES
  problem,      \* EngineProblem, and the lessons to keep when incremental
  phase,        \* where Solve is, at the end its status
  restart,      \* attempts begun
  best,         \* validation of the best attempt so far, and its timedOut
  pins,         \* existing lessons still to pin
  remaining,    \* state.remaining
  doubles,      \* state.doubles
  placements,   \* state.placements
  teacherOcc,   \* state.teacherOcc: the periods each teacher is busy
  cohortOcc,    \* state.cohortOcc
  resourceOcc,  \* state.resourceOcc
  units,        \* lessons of each assignment the colouring has not coloured
  rounds,       \* colours still to come
  todo,         \* slots the current pass has not reached
  progress,     \* this pass placed something
  timedOut      \* state.timedOut

attempt == <<pins, remaining, doubles, placements, teacherOcc, cohortOcc,
             resourceOcc, units, rounds, todo, progress, timedOut>>
vars == <<problem, phase, restart, best, attempt>>

Periods == 1..NumPeriods
Statuses == {"COMPLETE", "COMPLETE_WITH_SOFT_VIOLATIONS", "PARTIAL_DRAFT",
             "TIME_BUDGET_EXCEEDED", "INFEASIBLE"}

Assignments == DOMAIN problem.assignments
Teachers == DOMAIN problem.unavailable
Cohorts == problem.cohorts

TeacherID(a) == problem.assignments[a].teacher
CohortID(a) == problem.assignments[a].cohort
SubjectID(a) == problem.assignments[a].subject
ResourceID(a) == problem.assignments[a].resource
WeeklyPeriods(a) == problem.assignments[a].weekly
DoubleBlocks(a) == problem.assignments[a].doubles
Resources == {ResourceID(a) : a \in Assignments} \ {None}

TaughtBy(t) == {a \in Assignments : TeacherID(a) = t}
AttendedBy(c) == {a \in Assignments : CohortID(a) = c}
Using(r) == {a \in Assignments : ResourceID(a) = r}

AtMost(m, n) == IF m < n THEN m ELSE n

-----------------------------------------------------------------------------
(* Slots.                                                                  *)

\* Pairs are cut greedily from each run of consecutive periods.
pairStarts[p \in 0..NumPeriods] == p \in Consecutive /\ ~pairStarts[p - 1]

Mut_adjacent == {{p, p + 1} : p \in Consecutive}

adjacent == {{p, p + 1} : p \in {q \in Periods : pairStarts[q]}}
singles == {{p} : p \in Periods}

-----------------------------------------------------------------------------
(* Preflight.                                                              *)

\* Disjoint adjacent pairs that avoid some periods, cut greedily.
adjacentCapacity(unavailable) ==
  LET usable == {p \in Consecutive : {p, p + 1} \cap unavailable = {}}
      starts[p \in 0..NumPeriods] == p \in usable /\ ~starts[p - 1]
  IN Cardinality({p \in Periods : starts[p]})

AvailablePeriods(t) == Periods \ problem.unavailable[t]

\* WorkloadLimit is at most the number of periods.
capacity(t) == AtMost(problem.limit[t], Cardinality(AvailablePeriods(t)))

Mut_TeacherFeasible(t) ==
  /\ MapThenSumSet(WeeklyPeriods, TaughtBy(t)) < capacity(t)
  /\ MapThenSumSet(DoubleBlocks, TaughtBy(t)) <= adjacentCapacity(problem.unavailable[t])

TeacherFeasible(t) ==
  /\ MapThenSumSet(WeeklyPeriods, TaughtBy(t)) <= capacity(t)
  /\ MapThenSumSet(DoubleBlocks, TaughtBy(t)) <= adjacentCapacity(problem.unavailable[t])

CohortFeasible(c) ==
  LET demand == MapThenSumSet(WeeklyPeriods, AttendedBy(c)) IN
  AttendedBy(c) # {} =>
    /\ demand <= NumPeriods
    /\ MapThenSumSet(DoubleBlocks, AttendedBy(c)) <= adjacentCapacity({})
    /\ problem.fullCoverage => demand = NumPeriods

\* Assignments no two of which share a teacher or a class.
Matching(as) ==
  \A a, b \in as : a # b => TeacherID(a) # TeacherID(b) /\ CohortID(a) # CohortID(b)

maximumMatchings(edges) ==
  LET matchings == {as \in SUBSET edges : Matching(as)}
      size == Max({Cardinality(as) : as \in matchings})
  IN {as \in matchings : Cardinality(as) = size}

maximumEligibleCoverage(p) ==
  LET eligible == {a \in Assignments : p \in AvailablePeriods(TeacherID(a))}
  IN Cardinality(CHOOSE as \in maximumMatchings(eligible) : TRUE)

SimultaneousFeasible(p) ==
  /\ Cardinality({t \in Teachers : p \in AvailablePeriods(t)}) >= Cardinality(Cohorts)
  /\ maximumEligibleCoverage(p) >= Cardinality(Cohorts)

\* No issue of any kind.
AnalyzeFeasibility ==
  /\ NumPeriods > 0
  /\ \A a \in Assignments : DoubleBlocks(a) * 2 <= WeeklyPeriods(a)
  /\ \A t \in Teachers : TeacherFeasible(t)
  /\ \A c \in Cohorts : CohortFeasible(c)
  /\ MapThenSumSet(WeeklyPeriods, Assignments) <= MapThenSumSet(capacity, Teachers)
  /\ \A r \in Resources : MapThenSumSet(WeeklyPeriods, Using(r)) <= NumPeriods
  /\ problem.fullCoverage => \A p \in Periods : SimultaneousFeasible(p)

-----------------------------------------------------------------------------
(* Attempts.                                                               *)

Init ==
  /\ problem \in Problems
  /\ phase = IF AnalyzeFeasibility THEN "restart" ELSE "INFEASIBLE"
  /\ restart = 0
  /\ best = None
  /\ pins = {}
  /\ remaining = [a \in Assignments |-> WeeklyPeriods(a)]
  /\ doubles = [a \in Assignments |-> DoubleBlocks(a)]
  /\ placements = {}
  /\ teacherOcc = [t \in Teachers |-> {}]
  /\ cohortOcc = [c \in Cohorts |-> {}]
  /\ resourceOcc = [r \in Resources |-> {}]
  /\ timedOut = FALSE
  /\ units = [a \in Assignments |-> 0]
  /\ rounds = 0
  /\ todo = {}
  /\ progress = FALSE

\* A valid attempt without soft violations ends the restarts.
Satisfied == best # None /\ best.valid /\ best.soft = 0

solveAttempt ==
  /\ phase = "restart"
  /\ restart < Restarts
  /\ ~Satisfied
  /\ restart' = restart + 1
  /\ phase' = "pin"
  /\ pins' = problem.existing
  /\ remaining' = [a \in Assignments |-> WeeklyPeriods(a)]
  /\ doubles' = [a \in Assignments |-> DoubleBlocks(a)]
  /\ placements' = {}
  /\ teacherOcc' = [t \in Teachers |-> {}]
  /\ cohortOcc' = [c \in Cohorts |-> {}]
  /\ resourceOcc' = [r \in Resources |-> {}]
  /\ timedOut' = FALSE
  /\ UNCHANGED <<problem, best, units, rounds, todo, progress>>

canPlace(a, slot) ==
  /\ slot \subseteq AvailablePeriods(TeacherID(a))
  /\ slot \cap teacherOcc[TeacherID(a)] = {}
  /\ slot \cap cohortOcc[CohortID(a)] = {}
  /\ ResourceID(a) # None => slot \cap resourceOcc[ResourceID(a)] = {}

\* Lessons that can be placed in a slot one after the other.
fit(as, slot) ==
  /\ \A a \in as : canPlace(a, slot)
  /\ \A a, b \in as : a # b /\ ResourceID(a) # None => ResourceID(a) # ResourceID(b)

\* What is placed when the lessons of as are tried in some order.
Placed(as, slot) ==
  {bs \in SUBSET as : fit(bs, slot) /\ \A a \in as \ bs : ~fit(bs \cup {a}, slot)}

\* A slot taken as one double lesson, or as a single lesson in each period.
lessons(a, slot, double) ==
  IF double THEN {[assignment |-> a, periods |-> slot, double |-> TRUE]}
  ELSE {[assignment |-> a, periods |-> {p}, double |-> FALSE] : p \in slot}

\* place for every assignment of as; those of twice are double lessons.
place(as, slot, twice) ==
  /\ placements' = placements \cup UNION {lessons(a, slot, a \in twice) : a \in as}
  /\ remaining' = [a \in Assignments |->
       IF a \in as THEN remaining[a] - Cardinality(slot) ELSE remaining[a]]
  /\ doubles' = [a \in Assignments |->
       IF a \in as \cap twice THEN doubles[a] - 1 ELSE doubles[a]]
  /\ teacherOcc' = [t \in Teachers |->
       IF \E a \in as : TeacherID(a) = t THEN teacherOcc[t] \cup slot ELSE teacherOcc[t]]
  /\ cohortOcc' = [c \in Cohorts |->
       IF \E a \in as : CohortID(a) = c THEN cohortOcc[c] \cup slot ELSE cohortOcc[c]]
  /\ resourceOcc' = [r \in Resources |->
       IF \E a \in as : ResourceID(a) = r THEN resourceOcc[r] \cup slot ELSE resourceOcc[r]]

-----------------------------------------------------------------------------
(* Existing lessons are kept where they still fit.                         *)

keeps(x) ==
  /\ x.assignment \in Assignments
  /\ remaining[x.assignment] >= Cardinality(x.periods)
  /\ x.double => doubles[x.assignment] # 0
  /\ canPlace(x.assignment, x.periods)

Pin(x) ==
  /\ phase = "pin"
  /\ x \in pins
  /\ keeps(x)
  /\ place({x.assignment}, x.periods, IF x.double THEN {x.assignment} ELSE {})
  /\ pins' = pins \ {x}
  /\ UNCHANGED <<problem, phase, restart, best, units, rounds, todo, progress, timedOut>>

SkipPin(x) ==
  /\ phase = "pin"
  /\ x \in pins
  /\ ~keeps(x)
  /\ pins' = pins \ {x}
  /\ UNCHANGED <<problem, phase, restart, best, remaining, doubles, placements,
                 teacherOcc, cohortOcc, resourceOcc, units, rounds, todo, progress,
                 timedOut>>

-----------------------------------------------------------------------------
(* Colouring: the teacher-class multigraph of the demand is split into as  *)
(* many matchings as its largest degree, one slot for each.                *)

ColorPhases == {"paired", "doubled", "colored"}

canUsePairedDemandColoring ==
  /\ placements = {}
  /\ \A a \in Assignments : WeeklyPeriods(a) % 2 = 0
  /\ \E a \in Assignments : DoubleBlocks(a) > 0
  /\ \E a \in Assignments : WeeklyPeriods(a) > DoubleBlocks(a) * 2

canUseExactColoring(double) ==
  /\ placements = {}
  /\ \A a \in Assignments :
       IF double THEN WeeklyPeriods(a) = DoubleBlocks(a) * 2 ELSE DoubleBlocks(a) = 0

usable(color) ==
  IF color = "paired" THEN canUsePairedDemandColoring
  ELSE canUseExactColoring(color = "doubled")

unitsOf(color) ==
  [a \in Assignments |->
     CASE color = "paired" -> WeeklyPeriods(a) \div 2
       [] color = "doubled" -> DoubleBlocks(a)
       [] color = "colored" -> WeeklyPeriods(a) - DoubleBlocks(a) * 2]

SlotsOf(p) == IF p \in {"paired", "doubled", "doubles"} THEN adjacent ELSE singles

degrees(us) ==
  {MapThenSumSet(LAMBDA a : us[a], TaughtBy(t)) : t \in Teachers} \cup
  {MapThenSumSet(LAMBDA a : us[a], AttendedBy(c)) : c \in Cohorts}
delta(us) == Max(degrees(us) \cup {0})

Less(us, as) == [a \in Assignments |-> IF a \in as THEN us[a] - 1 ELSE us[a]]

\* The colour classes exactBipartiteColors can produce next: matchings that
\* leave a graph the remaining colours suffice for (see ExactColoring).
colorClasses ==
  {as \in SUBSET {a \in Assignments : units[a] > 0} :
     Matching(as) /\ delta(Less(units, as)) < rounds}

\* Demand coloured as pairs is a double lesson as long as one is due.
twiceOf(as) ==
  CASE phase = "paired" -> {a \in as : doubles[a] > 0}
    [] phase = "doubled" -> as
    [] phase = "colored" -> {}

PlaceColor ==
  /\ phase \in ColorPhases
  /\ rounds > 0
  /\ \E as \in colorClasses, slot \in todo :
       /\ \E bs \in Placed(as, slot) : place(bs, slot, twiceOf(bs))
       /\ units' = Less(units, as)
       /\ todo' = todo \ {slot}
  /\ rounds' = rounds - 1
  /\ UNCHANGED <<problem, phase, restart, best, pins, progress, timedOut>>

-----------------------------------------------------------------------------
(* The loops over slots.                                                   *)

hasRemaining(values) == \E a \in Assignments : values[a] > 0
hasWork(p) == IF p = "doubles" THEN hasRemaining(doubles) ELSE hasRemaining(remaining)

Mut_candidateEdges(slot) ==
  {a \in Assignments :
     /\ IF phase = "doubles" THEN doubles[a] > 0 /\ remaining[a] >= 2
        ELSE remaining[a] > 0
     /\ canPlace(a, slot)}

candidateEdges(slot) ==
  {a \in Assignments :
     /\ IF phase = "doubles" THEN doubles[a] > 0 /\ remaining[a] >= 2
        ELSE doubles[a] <= 0 /\ remaining[a] > 0
     /\ canPlace(a, slot)}

Mut_PlaceMatching ==
  /\ phase \in {"doubles", "singles"}
  /\ \E slot \in todo : \E as \in maximumMatchings(candidateEdges(slot)) :
       \E bs \in Placed(as, slot) :
         /\ place(bs, slot, IF phase = "doubles" THEN bs ELSE {})
         /\ progress' = TRUE
         /\ todo' = todo \ {slot}
  /\ UNCHANGED <<problem, phase, restart, best, pins, units, rounds, timedOut>>

PlaceMatching ==
  /\ phase \in {"doubles", "singles"}
  /\ \E slot \in todo : \E as \in maximumMatchings(candidateEdges(slot)) :
       \E bs \in Placed(as, slot) :
         /\ place(bs, slot, IF phase = "doubles" THEN bs ELSE {})
         /\ progress' = (progress \/ bs # {})
         /\ todo' = todo \ {slot}
  /\ UNCHANGED <<problem, phase, restart, best, pins, units, rounds, timedOut>>

NextPass ==
  /\ phase \in {"doubles", "singles"}
  /\ todo = {}
  /\ progress
  /\ hasWork(phase)
  /\ todo' = SlotsOf(phase)
  /\ progress' = FALSE
  /\ UNCHANGED <<problem, phase, restart, best, pins, remaining, doubles, placements,
                 teacherOcc, cohortOcc, resourceOcc, units, rounds, timedOut>>

-----------------------------------------------------------------------------
(* The exchange: a lesson of the class moves to a hole and leaves its      *)
(* period to a lesson that has no place.                                   *)

blocks(x, a) ==
  /\ ~x.double
  /\ CohortID(x.assignment) = CohortID(a)
  /\ Cardinality(x.periods) = 1
  /\ ResourceID(x.assignment) = None

exchanges ==
  {e \in [target : Assignments, blocking : placements, hole : Periods] :
     LET a == e.target
         t == TeacherID(e.blocking.assignment)
     IN /\ remaining[a] > 0 /\ doubles[a] = 0 /\ ResourceID(a) = None
        /\ blocks(e.blocking, a)
        /\ e.blocking.periods \cap
             (teacherOcc[TeacherID(a)] \cup problem.unavailable[TeacherID(a)]) = {}
        /\ e.hole \notin cohortOcc[CohortID(a)] \cup teacherOcc[t] \cup problem.unavailable[t]}

Without(occ, who, periods) == [occ EXCEPT ![who] = @ \ periods]

Mut_repairSingles ==
  /\ phase = "repair"
  /\ \E e \in exchanges :
       LET a == e.target
           x == e.blocking
           moved == [x EXCEPT !.periods = {e.hole}]
       IN /\ placements' = (placements \ {x}) \cup {moved} \cup lessons(a, x.periods, FALSE)
          /\ remaining' = [remaining EXCEPT ![a] = @ - 1]
          /\ teacherOcc' = [teacherOcc EXCEPT ![TeacherID(x.assignment)] = @ \cup {e.hole},
                                              ![TeacherID(a)] = @ \cup x.periods]
          /\ cohortOcc' = [cohortOcc EXCEPT ![CohortID(a)] = @ \cup {e.hole}]
  /\ progress' = TRUE
  /\ UNCHANGED <<problem, phase, restart, best, pins, doubles, resourceOcc, units,
                 rounds, todo, timedOut>>

repairSingles ==
  /\ phase = "repair"
  /\ \E e \in exchanges :
       LET a == e.target
           x == e.blocking
           moved == [x EXCEPT !.periods = {e.hole}]
           freed == Without(teacherOcc, TeacherID(x.assignment), x.periods)
       IN /\ placements' = (placements \ {x}) \cup {moved} \cup lessons(a, x.periods, FALSE)
          /\ remaining' = [remaining EXCEPT ![a] = @ - 1]
          /\ teacherOcc' = [freed EXCEPT ![TeacherID(x.assignment)] = @ \cup {e.hole},
                                         ![TeacherID(a)] = @ \cup x.periods]
          /\ cohortOcc' = [cohortOcc EXCEPT ![CohortID(a)] = @ \cup {e.hole}]
  /\ progress' = TRUE
  /\ UNCHANGED <<problem, phase, restart, best, pins, doubles, resourceOcc, units,
                 rounds, todo, timedOut>>

-----------------------------------------------------------------------------
(* From one part of an attempt to the next.                                *)

after == [pin |-> "paired", paired |-> "doubled", doubled |-> "doubles",
          doubles |-> "colored", colored |-> "singles", singles |-> "repair",
          repair |-> "judge"]

Finished ==
  CASE phase = "pin" -> pins = {}
    [] phase \in ColorPhases -> rounds = 0
    [] phase \in {"doubles", "singles"} -> todo = {} /\ ~(progress /\ hasWork(phase))
    [] phase = "repair" -> exchanges = {}

\* Colours without enough slots are dropped.
EnterColoring(p) ==
  LET us == unitsOf(p)
      used == usable(p) /\ delta(us) <= Cardinality(SlotsOf(p))
  IN /\ units' = IF used THEN us ELSE [a \in Assignments |-> 0]
     /\ rounds' = IF used THEN delta(us) ELSE 0
     /\ todo' = SlotsOf(p)

Leave ==
  /\ phase \in DOMAIN after
  /\ Finished
  /\ phase' = after[phase]
  /\ progress' = FALSE
  /\ IF phase' \in ColorPhases THEN EnterColoring(phase')
     ELSE /\ todo' = IF phase' \in {"doubles", "singles"} /\ hasWork(phase')
                     THEN SlotsOf(phase') ELSE {}
          /\ UNCHANGED <<units, rounds>>
  /\ UNCHANGED <<problem, restart, best, pins, remaining, doubles, placements,
                 teacherOcc, cohortOcc, resourceOcc, timedOut>>

\* The budget is looked at after a colouring is computed, before each slot of
\* a pass and after each exchange.
budgetChecked ==
  CASE phase \in ColorPhases -> todo = SlotsOf(phase) /\ usable(phase)
    [] phase \in {"doubles", "singles"} -> todo # {}
    [] phase = "repair" -> progress
    [] OTHER -> FALSE

budgetExceeded ==
  /\ budgetChecked
  /\ phase' = "judge"
  /\ timedOut' = TRUE
  /\ units' = [a \in Assignments |-> 0]
  /\ rounds' = 0
  /\ todo' = {}
  /\ progress' = FALSE
  /\ UNCHANGED <<problem, restart, best, pins, remaining, doubles, placements,
                 teacherOcc, cohortOcc, resourceOcc>>

-----------------------------------------------------------------------------
(* The validator.                                                          *)

LessonsIn(xs, as) == {x \in xs : x.assignment \in as}

\* Periods in which the lessons of as meet.
Clashes(xs, as) ==
  {p \in Periods : \E x, y \in LessonsIn(xs, as) : x # y /\ p \in x.periods \cap y.periods}

periodCount(xs, as) ==
  MapThenSumSet(LAMBDA x : Cardinality(x.periods), LessonsIn(xs, as))

Misshapen(x) ==
  IF x.double THEN \A p \in Consecutive : x.periods # {p, p + 1}
  ELSE Cardinality(x.periods) # 1

\* One failed result for each offence.
hardConflicts(xs) ==
  LET busy(c) == UNION {x.periods : x \in LessonsIn(xs, AttendedBy(c))} IN
  Cardinality({x \in xs : Misshapen(x)})
  + MapThenSumSet(LAMBDA x : Cardinality(x.periods \cap problem.unavailable[TeacherID(x.assignment)]), xs)
  + MapThenSumSet(LAMBDA t : Cardinality(Clashes(xs, TaughtBy(t))), Teachers)
  + MapThenSumSet(LAMBDA c : Cardinality(Clashes(xs, AttendedBy(c))), Cohorts)
  + MapThenSumSet(LAMBDA r : Cardinality(Clashes(xs, Using(r))), Resources)
  + Cardinality({a \in Assignments : periodCount(xs, {a}) # WeeklyPeriods(a)})
  + Cardinality({t \in Teachers : periodCount(xs, TaughtBy(t)) > capacity(t)})
  + IF ~problem.fullCoverage THEN 0
    ELSE MapThenSumSet(LAMBDA c : Cardinality((Periods \ busy(c)) \cup Clashes(xs, AttendedBy(c))),
                       Cohorts)

unscheduled(xs) ==
  MapThenSumSet(LAMBDA a : WeeklyPeriods(a) - AtMost(WeeklyPeriods(a), periodCount(xs, {a})),
                Assignments)

\* Lessons of a subject in a class that begin in consecutive periods.
repeatedSubjectClusters(xs) ==
  LET starts(c, s) == {Min(x.periods) : x \in LessonsIn(xs, {a \in AttendedBy(c) : SubjectID(a) = s})}
  IN Cardinality({k \in Cohorts \X {SubjectID(a) : a \in Assignments} \X Consecutive :
                    {k[3], k[3] + 1} \subseteq starts(k[1], k[2])})

SameDay(p, q) == DayOf[p] = DayOf[q]

\* Free periods of a teacher between two lessons of the day.
idleGaps(busy) ==
  {p \in Periods \ busy : \E q, r \in busy : q < p /\ p < r /\ SameDay(q, p) /\ SameDay(p, r)}

\* Every period that ends more than MaxConsecutive busy ones in a row.
consecutiveOverloads(busy) ==
  {p \in Periods : p > MaxConsecutive
                  /\ \A q \in (p - MaxConsecutive)..p : q \in busy /\ SameDay(q, p)}

softViolations(xs) ==
  LET busy(t) == UNION {x.periods : x \in LessonsIn(xs, TaughtBy(t))} IN
  repeatedSubjectClusters(xs)
  + MapThenSumSet(LAMBDA t : Cardinality(idleGaps(busy(t)))
                             + Cardinality(consecutiveOverloads(busy(t))), Teachers)

ValidateSchedule(xs) ==
  [valid |-> hardConflicts(xs) = 0 /\ unscheduled(xs) = 0,
   unscheduled |-> unscheduled(xs), hard |-> hardConflicts(xs), soft |-> softViolations(xs),
   timedOut |-> timedOut]

Mut_better(v) ==
  \/ best = None
  \/ v.unscheduled < best.unscheduled
  \/ v.unscheduled = best.unscheduled /\ v.hard < best.hard
  \/ v.soft < best.soft

better(v) ==
  \/ best = None
  \/ v.unscheduled < best.unscheduled
  \/ v.unscheduled = best.unscheduled /\ v.hard < best.hard
  \/ v.valid /\ v.soft < best.soft

Judge ==
  /\ phase = "judge"
  /\ LET v == ValidateSchedule(placements) IN best' = IF better(v) THEN v ELSE best
  /\ phase' = "restart"
  /\ UNCHANGED <<problem, restart, attempt>>

\* late: the deadline has passed.
statusOf(late) ==
  IF best = None THEN "TIME_BUDGET_EXCEEDED"
  ELSE IF best.valid
       THEN IF best.soft > 0 THEN "COMPLETE_WITH_SOFT_VIOLATIONS" ELSE "COMPLETE"
       ELSE IF late \/ best.timedOut THEN "TIME_BUDGET_EXCEEDED" ELSE "PARTIAL_DRAFT"

\* The restarts are used up, satisfied, or cut off by the deadline.
Return ==
  /\ phase = "restart"
  /\ \E late \in BOOLEAN :
       /\ late \/ restart = Restarts \/ Satisfied
       /\ phase' = statusOf(late)
  /\ UNCHANGED <<problem, restart, best, attempt>>

Solved == phase \in Statuses /\ UNCHANGED vars

Steps ==
  \/ solveAttempt
  \/ \E x \in pins : Pin(x)
  \/ \E x \in pins : SkipPin(x)
  \/ PlaceColor
  \/ PlaceMatching
  \/ NextPass
  \/ repairSingles
  \/ Leave
  \/ Judge
  \/ Return

Next == Steps \/ budgetExceeded \/ Solved

Spec == Init /\ [][Next]_vars

\* Solve runs in one goroutine; the budget need not run out.
FairSpec == Spec /\ WF_vars(Steps)
-----------------------------------------------------------------------------
\* Two lessons that meet have different teachers, classes and resources.
BookedOnce ==
  \A x, y \in placements :
    x # y /\ x.periods \cap y.periods # {} =>
      /\ TeacherID(x.assignment) # TeacherID(y.assignment)
      /\ CohortID(x.assignment) # CohortID(y.assignment)
      /\ ResourceID(x.assignment) # None =>
           ResourceID(x.assignment) # ResourceID(y.assignment)

BusyPeriods(as) == UNION {x.periods : x \in LessonsIn(placements, as)}

\* The occupancy maps say exactly what the lessons occupy.
OccupancyAgrees ==
  /\ \A t \in Teachers : teacherOcc[t] = BusyPeriods(TaughtBy(t))
  /\ \A c \in Cohorts : cohortOcc[c] = BusyPeriods(AttendedBy(c))
  /\ \A r \in Resources : resourceOcc[r] = BusyPeriods(Using(r))

\* The occupancy maps, which repairSingles edits by hand, never part from the
\* lessons, and no attempt books a teacher, a class or a resource twice.
OccupancySound == OccupancyAgrees /\ BookedOnce

Doubles(xs, a) == {x \in LessonsIn(xs, {a}) : x.double}

\* A complete result has every double lesson that was asked for.  The
\* validator counts periods only; this rests on single lessons waiting until
\* no double is due (candidateEdges, the colourings).  Kept lessons are not
\* held to it.
CompleteKeepsDoubles ==
  phase = "judge" /\ ValidateSchedule(placements).valid /\ problem.existing = {} =>
    \A a \in Assignments : Cardinality(Doubles(placements, a)) = DoubleBlocks(a)

\* A weekly plan: the periods of each assignment.
HoldsDoubles(periods, n) ==
  \E starts \in SUBSET Consecutive :
    /\ Cardinality(starts) = n
    /\ \A p \in starts : {p, p + 1} \subseteq periods /\ p + 1 \notin starts

IsPlan(plan) ==
  /\ \A a \in Assignments :
       /\ Cardinality(plan[a]) = WeeklyPeriods(a)
       /\ plan[a] \subseteq AvailablePeriods(TeacherID(a))
       /\ HoldsDoubles(plan[a], DoubleBlocks(a))
  /\ \A a, b \in Assignments :
       a # b /\ plan[a] \cap plan[b] # {} =>
         /\ TeacherID(a) # TeacherID(b)
         /\ CohortID(a) # CohortID(b)
         /\ ResourceID(a) # None => ResourceID(a) # ResourceID(b)
  /\ \A t \in Teachers : MapThenSumSet(WeeklyPeriods, TaughtBy(t)) <= capacity(t)
  /\ problem.fullCoverage =>
       \A c \in Cohorts : UNION {plan[a] : a \in AttendedBy(c)} = Periods

\* docs/SCHEDULING_ENGINE.md: the preflight checks necessary conditions.  What
\* it refuses (AnalyzeFeasibility) has no plan at all.
PreflightSound ==
  phase = "INFEASIBLE" => \A plan \in [Assignments -> SUBSET Periods] : ~IsPlan(plan)

\* Nothing but teachers and classes constrains the lessons, and the demand is
\* all single lessons, all double lessons, or pairs that have enough slots.
ExactShape ==
  /\ problem.existing = {}
  /\ Resources = {}
  /\ \A t \in Teachers : problem.unavailable[t] = {}
  /\ \/ \A a \in Assignments : DoubleBlocks(a) = 0
     \/ \A a \in Assignments : WeeklyPeriods(a) = DoubleBlocks(a) * 2
     \/ /\ \A a \in Assignments : WeeklyPeriods(a) % 2 = 0
        /\ delta(unitsOf("paired")) <= Cardinality(adjacent)

\* Such demand, once past the preflight, is always placed completely by an
\* attempt that keeps within its budget (exactBipartiteColors).
ExactCompletes ==
  phase = "judge" /\ ~timedOut /\ ExactShape => ValidateSchedule(placements).valid

\* A restart never makes the result worse: no lesson is lost and a valid
\* schedule stays valid.
SolveKeepsBest ==
  [][best # None =>
       best'.unscheduled <= best.unscheduled /\ (best.valid => best'.valid)]_vars

\* The loops of every attempt end without the help of the budget.
SolveEnds == <>(phase \in Statuses)
=============================================================================
