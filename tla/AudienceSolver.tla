-------------------------- MODULE AudienceSolver ----------------------------
(***************************************************************************)
(* One attempt of the audience-aware solver: it turns assignments and      *)
(* delivery groups into tasks, places the members of every parallel block  *)
(* together, block after block, then places what is left task by task, and *)
(* the independent validator judges the outcome.  A group may belong to    *)
(* several blocks; its placements carry the id of one of them.             *)
(*                                                                         *)
(* The problem is any one of Problems, chosen in the initial state.  The   *)
(* seeded shuffles make every order of the candidate periods possible, so  *)
(* a placement takes any candidate that passes the checks.  Periods are    *)
(* the usable teaching periods in the order of the week; what each task    *)
(* occupies is read off the placements instead of kept in maps.            *)
(***************************************************************************)
EXTENDS Integers, FiniteSets, FiniteSetsExt

CONSTANTS
  Problems,     \* the problems loadEngineProblem may hand over
  NumPeriods,   \* usable periods of the week
  Consecutive,  \* periods that the next one follows without a break
  None          \* no resource, no parallel block

ASSUME PeriodsAssumption ==
  NumPeriods \in Nat /\ Consecutive \subseteq 1..(NumPeriods - 1)

\* createDeliveryGroup refuses a group without learners.
ASSUME GroupsHaveLearners ==
  \A p \in Problems : \A g \in DOMAIN p.groups : p.groups[g].learners # {}

\* Slices, maps and Go integers; the keys of the two tables never coincide.
ASSUME ProblemsAreFinite ==
  \A p \in Problems :
    /\ IsFiniteSet(DOMAIN p.assignments) /\ IsFiniteSet(DOMAIN p.groups)
    /\ DOMAIN p.assignments \cap DOMAIN p.groups = {}
    /\ \A a \in DOMAIN p.assignments : p.assignments[a].weekly \in Int
    /\ \A g \in DOMAIN p.groups :
         p.groups[g].weekly \in Int /\ IsFiniteSet(p.groups[g].assignments)

\* The null value is no id of a block.
ASSUME NoneAssumption == \A p \in Problems : None \notin DOMAIN p.blocks

VARIABLES
  problem,      \* EngineProblem
  remaining,    \* state.remaining: periods still to place, per task
  doubles,      \* state.doubles: double lessons still to place, per task
  placements,   \* state.placements
  blocks,       \* parallel blocks not begun
  turn,         \* the parallel block under work, or None
  parallelBlock, \* task.ParallelBlockID
  phase         \* "blocks", "tasks", or the status of the attempt

vars == <<problem, remaining, doubles, placements, blocks, turn, parallelBlock, phase>>

Periods == 1..NumPeriods

\* COMPLETE stands for COMPLETE_WITH_SOFT_VIOLATIONS too.
Statuses == {"COMPLETE", "PARTIAL_DRAFT", "TIME_BUDGET_EXCEEDED"}

Assignments == DOMAIN problem.assignments
Groups == DOMAIN problem.groups
Tasks == Assignments \cup Groups
Learners == DOMAIN problem.cohortOf
Blocks == DOMAIN problem.blocks

\* The groups of a block; one group may belong to several blocks.
Members(b) == problem.blocks[b]

-----------------------------------------------------------------------------
(* Tasks.  A task is named by its delivery group or its assignment.        *)

AssignmentIDs(t) == IF t \in Groups THEN problem.groups[t].assignments ELSE {t}
LearnerIDs(t) == IF t \in Groups THEN problem.groups[t].learners ELSE {}
CohortIDs(t) == {problem.assignments[a].cohort : a \in AssignmentIDs(t)}
ResourceID(t) == IF t \in Groups THEN None ELSE problem.assignments[t].resource

TeacherID(t) ==
  IF t \in Groups THEN problem.groups[t].teacher ELSE problem.assignments[t].teacher

\* The groups that teach an assignment, and the lessons they share with it.
groupsOf(a) == {g \in Groups : a \in problem.groups[g].assignments}
sharedCredit(a) == MapThenSumSet(LAMBDA g : problem.groups[g].weekly, groupsOf(a))
sharedDoubles(a) == MapThenSumSet(LAMBDA g : problem.groups[g].doubles, groupsOf(a))

AtLeastZero(n) == IF n < 0 THEN 0 ELSE n

Mut_residual(a) == problem.assignments[a].weekly

\* What the groups leave of an assignment is a task of its own.
residual(a) == AtLeastZero(problem.assignments[a].weekly - sharedCredit(a))

residualDoubles(a) ==
  LET left == AtLeastZero(problem.assignments[a].doubles - sharedDoubles(a)) IN
  IF left * 2 > residual(a) THEN residual(a) \div 2 ELSE left

Demand(t) == IF t \in Groups THEN problem.groups[t].weekly ELSE residual(t)
DoubleDemand(t) == IF t \in Groups THEN problem.groups[t].doubles ELSE residualDoubles(t)

-----------------------------------------------------------------------------
(* Preflight.                                                              *)

AvailablePeriods(teacher) == Periods \ problem.unavailable[teacher]

GroupFeasible(g) ==
  LET group == problem.groups[g] IN
  /\ group.weekly > 0
  /\ group.doubles * 2 <= group.weekly
  /\ \A l \in group.learners : l \in Learners /\ problem.cohortOf[l] \in CohortIDs(g)
  /\ \A a \in group.assignments :
       a \in Assignments /\ problem.assignments[a].teacher = group.teacher

CapacityFeasible ==
  /\ \A teacher \in DOMAIN problem.unavailable :
       MapThenSumSet(Demand, {t \in Tasks : TeacherID(t) = teacher})
         <= Cardinality(AvailablePeriods(teacher))
  /\ \A r \in {ResourceID(t) : t \in Tasks} \ {None} :
       MapThenSumSet(Demand, {t \in Tasks : ResourceID(t) = r}) <= NumPeriods

BlockFeasible(b) ==
  /\ Cardinality(Members(b)) >= 2
  /\ Members(b) \subseteq Groups
  /\ \A g, h \in Members(b) : g # h => LearnerIDs(g) \cap LearnerIDs(h) = {}

\* Any issue ends the solve as INFEASIBLE before the first attempt.
analyzeAudienceFeasibility ==
  /\ \A g \in Groups : GroupFeasible(g)
  /\ \A a \in Assignments : sharedCredit(a) <= problem.assignments[a].weekly
  /\ CapacityFeasible
  /\ \A b \in Blocks : BlockFeasible(b)

Init ==
  /\ problem \in Problems
  /\ analyzeAudienceFeasibility
  /\ remaining = [t \in Tasks |-> Demand(t)]
  /\ doubles = [t \in Tasks |-> DoubleDemand(t)]
  /\ placements = {}
  /\ blocks = Blocks
  /\ turn = None
  /\ parallelBlock = [t \in Tasks |-> None]
  /\ phase = "blocks"

-----------------------------------------------------------------------------
(* Candidates and the checks on them.                                      *)

\* Pairs are cut greedily from each run of consecutive periods.
pairStarts[p \in 0..NumPeriods] ==
  p \in Consecutive /\ ~pairStarts[p - 1]

adjacentPeriodPairs == {{p, p + 1} : p \in {q \in Periods : pairStarts[q]}}
singles == {{p} : p \in Periods}

Candidates(double) == IF double THEN adjacentPeriodPairs ELSE singles

\* Placements that occupy one of the periods.
Busy(periods) == {x \in placements : x.periods \cap periods # {}}

Mut_audienceFree(t, periods) ==
  \A x \in Busy(periods) :
    IF LearnerIDs(t) = {}
    THEN LearnerIDs(x.task) = {} => CohortIDs(x.task) \cap CohortIDs(t) = {}
    ELSE LearnerIDs(x.task) \cap LearnerIDs(t) = {}

\* A class lesson needs the class free and none of its learners in a group;
\* a group lesson needs its classes free of class lessons and its learners
\* free of other groups.
audienceFree(t, periods) ==
  \A x \in Busy(periods) :
    IF LearnerIDs(t) = {}
    THEN /\ LearnerIDs(x.task) = {} => CohortIDs(x.task) \cap CohortIDs(t) = {}
         /\ \A l \in LearnerIDs(x.task) : problem.cohortOf[l] \notin CohortIDs(t)
    ELSE /\ LearnerIDs(x.task) = {} => CohortIDs(x.task) \cap CohortIDs(t) = {}
         /\ LearnerIDs(x.task) \cap LearnerIDs(t) = {}

Mut_teacherFree(t, periods) == periods \subseteq AvailablePeriods(TeacherID(t))

teacherFree(t, periods) ==
  /\ periods \subseteq AvailablePeriods(TeacherID(t))
  /\ \A x \in Busy(periods) : TeacherID(x.task) # TeacherID(t)

Mut_resourceFree(t, periods) == TRUE

resourceFree(t, periods) ==
  ResourceID(t) # None =>
    \A x \in Busy(periods) : ResourceID(x.task) # ResourceID(t)

canPlaceTask(t, periods) ==
  /\ teacherFree(t, periods)
  /\ audienceFree(t, periods)
  /\ resourceFree(t, periods)

Mut_blockOf(t) == IF phase = "blocks" THEN parallelBlock[t] ELSE None

\* A placement carries the tag of its task, also when the task is placed alone.
blockOf(t) == parallelBlock[t]

\* placeTask for every task of a set, in the same periods.
placeTasks(ts, periods, double) ==
  /\ placements' = placements \cup
       {[task |-> t, periods |-> periods, double |-> double, block |-> blockOf(t)] : t \in ts}
  /\ remaining' = [t \in Tasks |->
       IF t \in ts THEN remaining[t] - Cardinality(periods) ELSE remaining[t]]
  /\ doubles' = [t \in Tasks |->
       IF double /\ t \in ts THEN doubles[t] - 1 ELSE doubles[t]]

-----------------------------------------------------------------------------
(* Parallel blocks.                                                        *)

blockNeedsDouble(b) == \E g \in Members(b) : doubles[g] > 0
blockHasRemaining(b) == \E g \in Members(b) : remaining[g] > 0

\* All members are checked before any of them is placed.
blockFits(b, periods) ==
  \A g \in Members(b) :
    /\ remaining[g] > 0
    /\ blockNeedsDouble(b) => doubles[g] > 0
    /\ canPlaceTask(g, periods)

\* Blocks are taken one after the other, in the order of their random ids; a
\* member takes the tag of the block, whatever block it was tagged with before.
StartBlock(b) ==
  /\ phase = "blocks"
  /\ turn = None
  /\ b \in blocks
  /\ turn' = b
  /\ blocks' = blocks \ {b}
  /\ parallelBlock' = [t \in Tasks |-> IF t \in Members(b) THEN b ELSE parallelBlock[t]]
  /\ UNCHANGED <<problem, remaining, doubles, placements, phase>>

placeParallelMembers(b) ==
  /\ phase = "blocks"
  /\ turn = b
  /\ blockHasRemaining(b)
  /\ \E periods \in Candidates(blockNeedsDouble(b)) :
       /\ blockFits(b, periods)
       /\ placeTasks(Members(b), periods, blockNeedsDouble(b))
  /\ UNCHANGED <<problem, blocks, turn, parallelBlock, phase>>

Mut_LeaveBlock(b) ==
  /\ phase = "blocks"
  /\ turn = b
  /\ ~blockHasRemaining(b)
  /\ turn' = None
  /\ UNCHANGED <<problem, remaining, doubles, placements, blocks, parallelBlock, phase>>

\* The block is finished, or no candidate suits all members: on to the next.
LeaveBlock(b) ==
  /\ phase = "blocks"
  /\ turn = b
  /\ blockHasRemaining(b) =>
       \A periods \in Candidates(blockNeedsDouble(b)) : ~blockFits(b, periods)
  /\ turn' = None
  /\ UNCHANGED <<problem, remaining, doubles, placements, blocks, parallelBlock, phase>>

BlocksDone ==
  /\ phase = "blocks"
  /\ turn = None
  /\ blocks = {}
  /\ phase' = "tasks"
  /\ UNCHANGED <<problem, remaining, doubles, placements, blocks, turn, parallelBlock>>

-----------------------------------------------------------------------------
(* What is left, task by task.                                             *)

\* Double lessons come first, and single lessons only after the last of them.
wantsDouble(t) == doubles[t] > 0 /\ remaining[t] >= 2
wantsSingle(t) == doubles[t] = 0 /\ remaining[t] > 0

placeable(t) ==
  /\ wantsDouble(t) \/ wantsSingle(t)
  /\ \E periods \in Candidates(wantsDouble(t)) : canPlaceTask(t, periods)

\* Groups before assignments, groups of many assignments first.
before(s, t) ==
  \/ s \in Groups /\ t \notin Groups
  \/ s \in Groups /\ t \in Groups
     /\ Cardinality(AssignmentIDs(s)) > Cardinality(AssignmentIDs(t))

\* The first task in that order that can still be placed.
placeFirstTask(t) ==
  /\ phase = "tasks"
  /\ wantsDouble(t) \/ wantsSingle(t)
  /\ \A s \in Tasks : before(s, t) => ~placeable(s)
  /\ \E periods \in Candidates(wantsDouble(t)) :
       /\ canPlaceTask(t, periods)
       /\ placeTasks({t}, periods, wantsDouble(t))
  /\ UNCHANGED <<problem, blocks, turn, parallelBlock, phase>>

-----------------------------------------------------------------------------
(* The validator.                                                          *)

\* Two placements that meet in a period.
Meet(x, y) == x # y /\ x.periods \cap y.periods # {}

\* Occupancy of teachers, groups, resources, classes and learners.
OccupancyValid ==
  \A x, y \in placements :
    Meet(x, y) =>
      /\ TeacherID(x.task) # TeacherID(y.task)
      /\ x.task # y.task
      /\ ResourceID(x.task) # None => ResourceID(x.task) # ResourceID(y.task)
      /\ LearnerIDs(x.task) = {} /\ LearnerIDs(y.task) = {} =>
           CohortIDs(x.task) \cap CohortIDs(y.task) = {}
      /\ LearnerIDs(x.task) \cap LearnerIDs(y.task) = {}

assignmentCount(a) ==
  MapThenSumSet(LAMBDA x : Cardinality(x.periods),
                {x \in placements : a \in AssignmentIDs(x.task)})

DemandSatisfied ==
  \A a \in Assignments : assignmentCount(a) = problem.assignments[a].weekly

\* Only the placements that carry the id of the block are counted.
BlockPeriods(b, g) ==
  UNION {x.periods : x \in {y \in placements : y.block = b /\ y.task = g}}

Simultaneous(b) == \A g, h \in Members(b) : BlockPeriods(b, g) = BlockPeriods(b, h)

\* Teacher availability and the shape of double lessons hold of every
\* candidate that canPlaceTask lets pass and are judged again here.
PlacementValid(x) ==
  /\ x.periods \subseteq AvailablePeriods(TeacherID(x.task))
  /\ IF x.double THEN \E p \in Consecutive : x.periods = {p, p + 1}
                 ELSE Cardinality(x.periods) = 1

ValidateSchedule ==
  /\ \A x \in placements : PlacementValid(x)
  /\ OccupancyValid
  /\ DemandSatisfied
  /\ \A b \in Blocks : Simultaneous(b)

\* No task can be placed any more: the attempt ends and is validated.
Finish ==
  /\ phase = "tasks"
  /\ \A t \in Tasks : ~placeable(t)
  /\ phase' = IF ValidateSchedule THEN "COMPLETE" ELSE "PARTIAL_DRAFT"
  /\ UNCHANGED <<problem, remaining, doubles, placements, blocks, turn, parallelBlock>>

\* The budget ends the attempt anywhere; its placements are kept.
budgetExceeded ==
  /\ phase \in {"blocks", "tasks"}
  /\ phase' = IF ValidateSchedule THEN "COMPLETE" ELSE "TIME_BUDGET_EXCEEDED"
  /\ UNCHANGED <<problem, remaining, doubles, placements, blocks, turn, parallelBlock>>

-----------------------------------------------------------------------------
(* Storing the result.                                                     *)

\* The class of an entry: NULL for a group of several classes.
cohortScalar(t) ==
  IF t \in Groups /\ Cardinality(CohortIDs(t)) > 1 THEN None
  ELSE CHOOSE c \in CohortIDs(t) : TRUE

\* The unique indexes on the occupancy of entries: two lessons of one period
\* with the same teacher, class, resource or learner are refused, and with
\* them the whole result.
entryRefused(x, y) ==
  /\ Meet(x, y)
  /\ \/ TeacherID(x.task) = TeacherID(y.task)
     \/ cohortScalar(x.task) # None /\ cohortScalar(x.task) = cohortScalar(y.task)
     \/ ResourceID(x.task) # None /\ ResourceID(x.task) = ResourceID(y.task)
     \/ LearnerIDs(x.task) \cap LearnerIDs(y.task) # {}

\* The result is handed to persistSolveResult.
Solved == phase \in Statuses /\ UNCHANGED vars

Next ==
  \/ \E b \in Blocks : StartBlock(b)
  \/ \E b \in Blocks : placeParallelMembers(b)
  \/ \E b \in Blocks : LeaveBlock(b)
  \/ BlocksDone
  \/ \E t \in Tasks : placeFirstTask(t)
  \/ Finish
  \/ budgetExceeded
  \/ Solved

Spec == Init /\ [][Next]_vars

\* The loops run on; the budget need not end.
Steps ==
  \/ \E b \in Blocks : StartBlock(b) \/ placeParallelMembers(b) \/ LeaveBlock(b)
  \/ BlocksDone
  \/ \E t \in Tasks : placeFirstTask(t)
  \/ Finish

FairSpec == Spec /\ WF_vars(Steps)
-----------------------------------------------------------------------------
\* The audience of a task, as learners: a group's own, or a class's.
Audience(t) ==
  IF LearnerIDs(t) # {} THEN LearnerIDs(t)
  ELSE {l \in Learners : problem.cohortOf[l] \in CohortIDs(t)}

\* No learner has two lessons in one period, the lessons of its class counted
\* in.  The validator compares classes with classes and groups with groups
\* only, so this rests on canPlaceTask and the preflight alone.
LearnersBookedOnce ==
  \A x, y \in placements :
    Meet(x, y) => Audience(x.task) \cap Audience(y.task) = {}

\* A teacher is booked twice only by a block that asks for it: its members are
\* checked against the others before any of them is placed
\* (placeParallelMembers); the validator then rejects the schedule.
TeachersBookedOnce ==
  \A x, y \in placements :
    Meet(x, y) /\ TeacherID(x.task) = TeacherID(y.task) =>
      \E b \in Blocks : {x.task, y.task} \subseteq Members(b)

\* Groups of different learners of one and the same class.
SplitClass(s, t) ==
  {s, t} \subseteq Groups /\ CohortIDs(s) = CohortIDs(t) /\ Cardinality(CohortIDs(s)) = 1

\* What an attempt hands over can be stored: the unique indexes refuse two of
\* its lessons only when they split a class, whose entries both carry the
\* class, or belong to a block with a teacher of several members.
\* persistSolveResult gives up the whole result in these two cases, although
\* the validator accepts the first.
StoredUnlessSplit ==
  phase \in Statuses =>
    \A x, y \in placements :
      entryRefused(x, y) =>
        \/ SplitClass(x.task, y.task)
        \/ /\ TeacherID(x.task) = TeacherID(y.task)
           /\ \E b \in Blocks : {x.task, y.task} \subseteq Members(b)

\* When every task is placed, every assignment has exactly its lessons: merged
\* lessons and residual lessons add up (audienceTasks).
PlacedMeansSatisfied ==
  (\A t \in Tasks : remaining[t] = 0) => DemandSatisfied

PeriodsOf(t) == UNION {x.periods : x \in {y \in placements : y.task = t}}

\* A block that fell through to single tasks (solveAudienceAttempt) is handed
\* over as COMPLETE only if its groups meet after all: every lesson of a group
\* of blocks is shared by all members of one of these blocks.
BlocksRunTogether ==
  phase = "COMPLETE" =>
    \A x \in placements :
      (\E b \in Blocks : x.task \in Members(b)) =>
        \E b \in Blocks :
          /\ x.task \in Members(b)
          /\ \A h \in Members(b) : x.periods \subseteq PeriodsOf(h)

\* Without the budget, the loops of an attempt end (solveAudienceAttempt).
AttemptEnds == <>(phase \in Statuses)
=============================================================================
