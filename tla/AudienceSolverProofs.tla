------------------------ MODULE AudienceSolverProofs ------------------------
(***************************************************************************)
(* Proofs about AudienceSolver, for every problem of every size: what the  *)
(* checks before a placement are worth, whatever is placed and in which    *)
(* order.                                                                  *)
(*                                                                         *)
(* The preflight is part of the inductive invariant: a learner of a group  *)
(* belongs to one of the group's classes, and the members of a block have  *)
(* no learner in common.  Without either, canPlaceTask does not suffice.   *)
(* That the lessons can be stored needs to know of classes and resources   *)
(* too, and that a class without learners is nevertheless booked once.     *)
(*                                                                         *)
(* That the lessons of groups and of their assignments add up is a matter  *)
(* of sums over tasks: what is placed and what remains of a task is what   *)
(* the task was given.  The lemmas about MapThenSumSet serve this.         *)
(*                                                                         *)
(* That the blocks of a complete schedule meet rests on the tags that the  *)
(* validator goes by, and on every block having begun before a group is    *)
(* placed alone.                                                           *)
(***************************************************************************)
EXTENDS AudienceSolver, FiniteSetTheorems, WellFoundedInduction, TLAPS

\* The facts of the preflight and of the loader that the checks rely on.
AudiencesKnown ==
  /\ \A g \in Groups : LearnerIDs(g) # {}
  /\ \A g \in Groups : \A l \in LearnerIDs(g) :
       l \in Learners /\ problem.cohortOf[l] \in CohortIDs(g)
  /\ \A g \in Groups : IsFiniteSet(problem.groups[g].assignments)
  /\ \A b \in Blocks :
       /\ Members(b) \subseteq Groups
       /\ \A g, h \in Members(b) : g # h => LearnerIDs(g) \cap LearnerIDs(h) = {}

PlacementsKnown == \A x \in placements : x.task \in Tasks

\* Two lessons that meet in a period share neither class nor resource; a class
\* is named by an assignment, even when it has no learners.
Apart(s, t) ==
  /\ LearnerIDs(s) = {} /\ LearnerIDs(t) = {} => CohortIDs(s) \cap CohortIDs(t) = {}
  /\ ResourceID(s) # None => ResourceID(s) # ResourceID(t)

LessonsApart == \A x, y \in placements : Meet(x, y) => Apart(x.task, y.task)

IndInv ==
  /\ AudiencesKnown
  /\ PlacementsKnown
  /\ LearnersBookedOnce
  /\ TeachersBookedOnce
  /\ LessonsApart

-----------------------------------------------------------------------------
(***************************************************************************)
(* What canPlaceTask is worth: the audience of the new lesson is disjoint  *)
(* from the audiences of all lessons in its periods.                       *)
(***************************************************************************)
LEMMA AudienceFreeIsEnough ==
  ASSUME AudiencesKnown, NEW t \in Tasks, NEW periods, audienceFree(t, periods),
         NEW x \in placements, x.task \in Tasks, x.periods \cap periods # {}
  PROVE  Audience(x.task) \cap Audience(t) = {}
<1>1. x \in Busy(periods)
  BY DEF Busy
<1>2. \A u \in Tasks : \A l \in LearnerIDs(u) : problem.cohortOf[l] \in CohortIDs(u)
  BY DEF AudiencesKnown, LearnerIDs
<1>3. CASE LearnerIDs(t) = {}
  <2>1. CASE LearnerIDs(x.task) = {}
    BY <1>1, <1>3, <2>1 DEF audienceFree, Audience
  <2>2. CASE LearnerIDs(x.task) # {}
    BY <1>1, <1>3, <2>2 DEF audienceFree, Audience
  <2> QED
    BY <2>1, <2>2
<1>4. CASE LearnerIDs(t) # {}
  <2>1. CASE LearnerIDs(x.task) = {}
    BY <1>1, <1>2, <1>4, <2>1 DEF audienceFree, Audience
  <2>2. CASE LearnerIDs(x.task) # {}
    BY <1>1, <1>4, <2>2 DEF audienceFree, Audience
  <2> QED
    BY <2>1, <2>2
<1> QED
  BY <1>3, <1>4

LEMMA TeacherFreeIsEnough ==
  ASSUME NEW t, NEW periods, teacherFree(t, periods),
         NEW x \in placements, x.periods \cap periods # {}
  PROVE  TeacherID(x.task) # TeacherID(t)
  BY DEF teacherFree, Busy

LEMMA ApartIsEnough ==
  ASSUME NEW t, NEW periods, audienceFree(t, periods), resourceFree(t, periods),
         NEW x \in placements, x.periods \cap periods # {}
  PROVE  Apart(x.task, t) /\ Apart(t, x.task)
  BY DEF audienceFree, resourceFree, Busy, Apart

-----------------------------------------------------------------------------
(***************************************************************************)
(* Placing the tasks of a set in the same periods, each of them checked    *)
(* against what was there, keeps the invariant if the tasks of the set go  *)
(* together: a single task, or the members of a block.                     *)
(***************************************************************************)
LEMMA PlacingStep ==
  ASSUME IndInv, UNCHANGED problem,
         NEW ts, ts \subseteq Tasks, NEW periods, NEW double,
         placeTasks(ts, periods, double),
         \A t \in ts : canPlaceTask(t, periods),
         \/ \E t : ts = {t}
         \/ \E b \in Blocks : ts = Members(b)
  PROVE  IndInv'
<1> DEFINE new == {[task |-> t, periods |-> periods, double |-> double,
                    block |-> blockOf(t)] : t \in ts}
<1>1. placements' = placements \cup new
  BY DEF placeTasks
<1>2. AudiencesKnown'
  BY DEF IndInv, AudiencesKnown, Groups, Learners, Blocks, Members, LearnerIDs, CohortIDs,
         AssignmentIDs
<1>3. PlacementsKnown'
  BY <1>1 DEF IndInv, PlacementsKnown, Tasks, Groups, Assignments
<1>4. \A t : Audience(t)' = Audience(t) /\ TeacherID(t)' = TeacherID(t)
  BY DEF Audience, LearnerIDs, CohortIDs, AssignmentIDs, TeacherID, Groups, Learners
<1>9. \A s, t : Apart(s, t)' <=> Apart(s, t)
  BY DEF Apart, LearnerIDs, CohortIDs, AssignmentIDs, ResourceID, Groups
<1>5. ASSUME NEW x \in placements, NEW y \in new, x.periods \cap y.periods # {}
      PROVE  /\ Audience(x.task) \cap Audience(y.task) = {}
             /\ TeacherID(x.task) # TeacherID(y.task)
             /\ Apart(x.task, y.task) /\ Apart(y.task, x.task)
  <2>1. /\ y.task \in ts /\ y.task \in Tasks /\ y.periods = periods
        /\ canPlaceTask(y.task, periods)
    OBVIOUS
  <2>2. x.task \in Tasks
    BY DEF IndInv, PlacementsKnown
  <2> QED
    BY <1>5, <2>1, <2>2, AudienceFreeIsEnough, TeacherFreeIsEnough, ApartIsEnough
       DEF canPlaceTask, IndInv
<1>6. ASSUME NEW x \in new, NEW y \in new, x # y
      PROVE  /\ Audience(x.task) \cap Audience(y.task) = {}
             /\ \E b \in Blocks : {x.task, y.task} \subseteq Members(b)
             /\ Apart(x.task, y.task)
  <2>1. x.task \in ts /\ y.task \in ts /\ x.task # y.task
    BY <1>6
  <2>2. PICK b \in Blocks : ts = Members(b)
    BY <2>1
  <2>3. x.task \in Groups /\ y.task \in Groups
    BY <2>1, <2>2 DEF IndInv, AudiencesKnown
  <2>4. LearnerIDs(x.task) \cap LearnerIDs(y.task) = {}
    BY <2>1, <2>2 DEF IndInv, AudiencesKnown
  <2>5. Audience(x.task) = LearnerIDs(x.task) /\ Audience(y.task) = LearnerIDs(y.task)
    BY <2>3 DEF Audience, IndInv, AudiencesKnown
  <2>6. Apart(x.task, y.task)
    BY <2>3 DEF Apart, ResourceID, IndInv, AudiencesKnown
  <2> QED
    BY <2>1, <2>2, <2>4, <2>5, <2>6
<1>7. LearnersBookedOnce'
  <2> SUFFICES ASSUME NEW x \in placements', NEW y \in placements',
                      x # y, x.periods \cap y.periods # {}
               PROVE  Audience(x.task) \cap Audience(y.task) = {}
    BY <1>4 DEF LearnersBookedOnce, Meet
  <2>1. CASE x \in placements /\ y \in placements
    BY <2>1 DEF IndInv, LearnersBookedOnce, Meet
  <2>2. CASE x \in placements /\ y \in new
    BY <2>2, <1>5
  <2>3. CASE x \in new /\ y \in placements
    <3>1. y.periods \cap x.periods # {}
      OBVIOUS
    <3> QED
      BY <2>3, <3>1, <1>5
  <2>4. CASE x \in new /\ y \in new
    BY <2>4, <1>6
  <2> QED
    BY <1>1, <2>1, <2>2, <2>3, <2>4
<1>8. TeachersBookedOnce'
  <2> SUFFICES ASSUME NEW x \in placements', NEW y \in placements',
                      x # y, x.periods \cap y.periods # {},
                      TeacherID(x.task) = TeacherID(y.task)
               PROVE  \E b \in Blocks : {x.task, y.task} \subseteq Members(b)
    BY <1>4 DEF Blocks, Members, TeachersBookedOnce, Meet
  <2>1. CASE x \in placements /\ y \in placements
    BY <2>1 DEF IndInv, TeachersBookedOnce, Meet
  <2>2. CASE x \in placements /\ y \in new
    BY <2>2, <1>5
  <2>3. CASE x \in new /\ y \in placements
    <3>1. y.periods \cap x.periods # {}
      OBVIOUS
    <3> QED
      BY <2>3, <3>1, <1>5
  <2>4. CASE x \in new /\ y \in new
    BY <2>4, <1>6
  <2> QED
    BY <1>1, <2>1, <2>2, <2>3, <2>4
<1>10. LessonsApart'
  <2> SUFFICES ASSUME NEW x \in placements', NEW y \in placements',
                      x # y, x.periods \cap y.periods # {}
               PROVE  Apart(x.task, y.task)
    BY <1>9 DEF LessonsApart, Meet
  <2>1. CASE x \in placements /\ y \in placements
    BY <2>1 DEF IndInv, LessonsApart, Meet
  <2>2. CASE x \in placements /\ y \in new
    BY <2>2, <1>5
  <2>3. CASE x \in new /\ y \in placements
    <3>1. y.periods \cap x.periods # {}
      OBVIOUS
    <3> QED
      BY <2>3, <3>1, <1>5
  <2>4. CASE x \in new /\ y \in new
    BY <2>4, <1>6
  <2> QED
    BY <1>1, <2>1, <2>2, <2>3, <2>4
<1> QED
  BY <1>2, <1>3, <1>7, <1>8, <1>10 DEF IndInv

(***************************************************************************)
(* The other steps place nothing.                                          *)
(***************************************************************************)
LEMMA QuietStep ==
  ASSUME IndInv, UNCHANGED <<problem, placements>>
  PROVE  IndInv'
<1>1. AudiencesKnown'
  BY DEF IndInv, AudiencesKnown, Groups, Learners, Blocks, Members, LearnerIDs, CohortIDs,
         AssignmentIDs
<1>2. PlacementsKnown'
  BY DEF IndInv, PlacementsKnown, Tasks, Groups, Assignments
<1>3. \A t : Audience(t)' = Audience(t) /\ TeacherID(t)' = TeacherID(t)
  BY DEF Audience, LearnerIDs, CohortIDs, AssignmentIDs, TeacherID, Groups, Learners
<1>4. LearnersBookedOnce'
  BY <1>3 DEF IndInv, LearnersBookedOnce, Meet
<1>5. TeachersBookedOnce'
  BY <1>3 DEF IndInv, TeachersBookedOnce, Meet, Blocks, Members
<1>6. \A s, t : Apart(s, t)' <=> Apart(s, t)
  BY DEF Apart, LearnerIDs, CohortIDs, AssignmentIDs, ResourceID, Groups
<1>7. LessonsApart'
  BY <1>6 DEF IndInv, LessonsApart, Meet
<1> QED
  BY <1>1, <1>2, <1>4, <1>5, <1>7 DEF IndInv

-----------------------------------------------------------------------------
LEMMA InitIndInv == Init => IndInv
<1> SUFFICES ASSUME Init PROVE IndInv
  OBVIOUS
<1>1. AudiencesKnown
  <2>1. \A g \in Groups : LearnerIDs(g) # {}
    BY GroupsHaveLearners DEF Init, Groups, LearnerIDs
  <2>2. \A g \in Groups : \A l \in LearnerIDs(g) :
          l \in Learners /\ problem.cohortOf[l] \in CohortIDs(g)
    BY DEF Init, analyzeAudienceFeasibility, GroupFeasible, LearnerIDs
  <2>3. \A b \in Blocks :
          /\ Members(b) \subseteq Groups
          /\ \A g, h \in Members(b) : g # h => LearnerIDs(g) \cap LearnerIDs(h) = {}
    BY DEF Init, analyzeAudienceFeasibility, BlockFeasible
  <2>4. \A g \in Groups : IsFiniteSet(problem.groups[g].assignments)
    BY ProblemsAreFinite DEF Init, Groups
  <2> QED
    BY <2>1, <2>2, <2>3, <2>4 DEF AudiencesKnown
<1>2. PlacementsKnown /\ LearnersBookedOnce /\ TeachersBookedOnce /\ LessonsApart
  BY DEF Init, PlacementsKnown, LearnersBookedOnce, TeachersBookedOnce, LessonsApart
<1> QED
  BY <1>1, <1>2 DEF IndInv

LEMMA NextIndInv == IndInv /\ [Next]_vars => IndInv'
<1> SUFFICES ASSUME IndInv, [Next]_vars PROVE IndInv'
  OBVIOUS
<1>1. ASSUME NEW b \in Blocks, placeParallelMembers(b) PROVE IndInv'
  <2>1. Members(b) \subseteq Tasks
    BY DEF IndInv, AudiencesKnown, Tasks
  <2>2. PICK periods : /\ blockFits(b, periods)
                       /\ placeTasks(Members(b), periods, blockNeedsDouble(b))
    BY <1>1 DEF placeParallelMembers
  <2>3. \A t \in Members(b) : canPlaceTask(t, periods)
    BY <2>2 DEF blockFits
  <2>4. UNCHANGED problem
    BY <1>1 DEF placeParallelMembers
  <2>5. PICK ts : ts = Members(b)
    OBVIOUS
  <2>6. /\ ts \subseteq Tasks /\ placeTasks(ts, periods, blockNeedsDouble(b))
        /\ \A t \in ts : canPlaceTask(t, periods)
    BY <2>1, <2>2, <2>3, <2>5
  <2> QED
    BY <2>4, <2>5, <2>6, PlacingStep
<1>2. ASSUME NEW b \in Blocks, StartBlock(b) \/ LeaveBlock(b) PROVE IndInv'
  BY <1>2, QuietStep DEF StartBlock, LeaveBlock
<1>3. ASSUME NEW t \in Tasks, placeFirstTask(t) PROVE IndInv'
  <2>1. PICK periods : /\ canPlaceTask(t, periods)
                       /\ placeTasks({t}, periods, wantsDouble(t))
    BY <1>3 DEF placeFirstTask
  <2>2. UNCHANGED problem
    BY <1>3 DEF placeFirstTask
  <2>3. PICK ts : ts = {t}
    OBVIOUS
  <2>4. ts \subseteq Tasks /\ \A s \in ts : canPlaceTask(s, periods)
    BY <2>1, <2>3
  <2>5. placeTasks(ts, periods, wantsDouble(t))
    BY <2>1, <2>3
  <2>6. \E s : ts = {s}
    BY <2>3
  <2> QED
    BY <2>2, <2>4, <2>5, <2>6, PlacingStep
<1>4. CASE BlocksDone \/ Finish \/ budgetExceeded \/ Solved \/ UNCHANGED vars
  BY <1>4, QuietStep DEF BlocksDone, Finish, budgetExceeded, Solved, vars
<1> QED
  BY <1>1, <1>2, <1>3, <1>4 DEF Next

\* The inductive invariant holds in every reachable state of an attempt.
THEOREM Invariance == Spec => []IndInv
  BY InitIndInv, NextIndInv, PTL DEF Spec

\* No attempt, finished or cut short, gives a learner two lessons at once,
\* class lessons included (canPlaceTask, placeParallelMembers).
THEOREM LearnersNeverClash == Spec => []LearnersBookedOnce
<1>1. IndInv => LearnersBookedOnce
  BY DEF IndInv
<1> QED
  BY <1>1, Invariance, PTL

\* Only the members of one block can book a teacher twice
\* (placeParallelMembers).
THEOREM TeachersClashOnlyInBlocks == Spec => []TeachersBookedOnce
<1>1. IndInv => TeachersBookedOnce
  BY DEF IndInv
<1> QED
  BY <1>1, Invariance, PTL

-----------------------------------------------------------------------------
(***************************************************************************)
(* What the unique indexes refuse.                                         *)
(***************************************************************************)
\* A task that names a class names its only class.
LEMMA ScalarIsTheClass ==
  ASSUME AudiencesKnown, NEW t \in Tasks, cohortScalar(t) # None
  PROVE  CohortIDs(t) = {cohortScalar(t)}
<1>1. CASE t \notin Groups
  BY <1>1 DEF cohortScalar, CohortIDs, AssignmentIDs
<1>2. CASE t \in Groups
  <2>1. CohortIDs(t) = {problem.assignments[a].cohort : a \in problem.groups[t].assignments}
    BY <1>2 DEF CohortIDs, AssignmentIDs
  <2>2. IsFiniteSet(CohortIDs(t)) /\ Cardinality(CohortIDs(t)) \in Nat
    <3>1. IsFiniteSet(problem.groups[t].assignments)
      BY <1>2 DEF AudiencesKnown
    <3> DEFINE f == [a \in problem.groups[t].assignments |-> problem.assignments[a].cohort]
    <3>2. f \in Surjection(problem.groups[t].assignments, CohortIDs(t))
      BY <2>1 DEF Surjection
    <3> QED
      BY <3>1, <3>2, FS_Surjection, FS_CardinalityType
  <2>3. CohortIDs(t) # {}
    BY <1>2 DEF AudiencesKnown
  <2>4. ~(Cardinality(CohortIDs(t)) > 1)
    BY <1>2 DEF cohortScalar
  <2>5. Cardinality(CohortIDs(t)) = 1
    BY <2>2, <2>3, <2>4, FS_EmptySet
  <2>6. PICK c : CohortIDs(t) = {c}
    BY <2>2, <2>5, FS_Singleton
  <2> QED
    BY <1>2, <2>4, <2>6 DEF cohortScalar
<1> QED
  BY <1>1, <1>2

\* Two lessons of one period that name the same class are two groups of it: a
\* class lesson would have the learners of the group, or be of the same class.
LEMMA SameClassIsSplit ==
  ASSUME IndInv, NEW x \in placements, NEW y \in placements, Meet(x, y),
         cohortScalar(x.task) # None, cohortScalar(x.task) = cohortScalar(y.task)
  PROVE  SplitClass(x.task, y.task)
<1> DEFINE c == cohortScalar(x.task)
<1>1. /\ x.task \in Tasks /\ y.task \in Tasks
      /\ CohortIDs(x.task) = {c} /\ CohortIDs(y.task) = {c}
  <2>1. x.task \in Tasks /\ y.task \in Tasks
    BY DEF IndInv, PlacementsKnown
  <2>2. cohortScalar(y.task) # None
    OBVIOUS
  <2> QED
    BY <2>1, <2>2, ScalarIsTheClass DEF IndInv
<1>2. Audience(x.task) \cap Audience(y.task) = {} /\ Apart(x.task, y.task)
  BY DEF IndInv, LearnersBookedOnce, LessonsApart
<1>3. \A t \in Groups : LearnerIDs(t) # {} /\ \A l \in LearnerIDs(t) :
        l \in Learners /\ problem.cohortOf[l] \in CohortIDs(t)
  BY DEF IndInv, AudiencesKnown
<1>4. \A t : t \notin Groups => LearnerIDs(t) = {}
  BY DEF LearnerIDs
<1>5. x.task \in Groups \/ y.task \in Groups
  BY <1>1, <1>2, <1>4 DEF Apart
<1>6. ASSUME NEW s \in Groups, NEW t \in Tasks \ Groups,
             CohortIDs(s) = {c}, CohortIDs(t) = {c}
      PROVE  Audience(s) \cap Audience(t) # {}
  <2>1. PICK l \in LearnerIDs(s) : l \in Learners /\ problem.cohortOf[l] \in CohortIDs(s)
    BY <1>3
  <2> QED
    BY <1>4, <1>6, <2>1 DEF Audience
<1>7. x.task \in Groups /\ y.task \in Groups
  BY <1>1, <1>2, <1>5, <1>6
<1>8. Cardinality({c}) = 1
  BY FS_Singleton
<1> QED
  BY <1>1, <1>7, <1>8 DEF SplitClass

\* What an attempt hands over can be stored: the unique indexes refuse two of
\* its lessons only when they split a class or belong to a block with a teacher
\* of several members (canPlaceTask, persistSolveResult).
THEOREM RefusedOnlyWhenSplit == Spec => []StoredUnlessSplit
<1>1. IndInv => StoredUnlessSplit
  <2> SUFFICES ASSUME IndInv, NEW x \in placements, NEW y \in placements,
                      entryRefused(x, y)
               PROVE  \/ SplitClass(x.task, y.task)
                      \/ /\ TeacherID(x.task) = TeacherID(y.task)
                         /\ \E b \in Blocks : {x.task, y.task} \subseteq Members(b)
    BY DEF StoredUnlessSplit
  <2>1. Meet(x, y)
    BY DEF entryRefused
  <2>2. CASE TeacherID(x.task) = TeacherID(y.task)
    BY <2>1, <2>2 DEF IndInv, TeachersBookedOnce
  <2>3. CASE cohortScalar(x.task) # None /\ cohortScalar(x.task) = cohortScalar(y.task)
    BY <2>1, <2>3, SameClassIsSplit
  <2>4. ~(ResourceID(x.task) # None /\ ResourceID(x.task) = ResourceID(y.task))
    BY <2>1 DEF IndInv, LessonsApart, Apart
  <2>5. LearnerIDs(x.task) \cap LearnerIDs(y.task) = {}
    BY <2>1 DEF IndInv, LearnersBookedOnce, Audience
  <2> QED
    BY <2>2, <2>3, <2>4, <2>5 DEF entryRefused
<1> QED
  BY <1>1, Invariance, PTL

-----------------------------------------------------------------------------
(* Sums.  MapThenSumSet is a recursive function that picks the elements of *)
(* a set in some order; the lemmas say that it exists for every finite set *)
(* and that the order does not matter.                                     *)

First(s) == CHOOSE x \in s : TRUE

\* g sums f over every subset of S, one element after the other.
Sums(g, f, S) ==
  /\ g = [s \in SUBSET S |-> g[s]]
  /\ \A s \in SUBSET S : g[s] = IF s = {} THEN 0 ELSE f[First(s)] + g[s \ {First(s)}]

\* MapThenSumSet of a function.
Total(f, S) == MapThenSumSet(LAMBDA x : f[x], S)

LEMMA FirstIsIn == ASSUME NEW s, s # {} PROVE First(s) \in s
  BY DEF First

\* Induction over the subsets of a finite set, as a smallest counterexample.
LEMMA SmallestSubset ==
  ASSUME NEW S, IsFiniteSet(S), NEW T \in SUBSET SUBSET S, T # {}
  PROVE  \E s \in T : \A r \in T : r \subseteq s => r = s
  <1>1. IsWellFoundedOn(StrictSubsetOrdering(S), SUBSET S)
    BY FS_StrictSubsetOrderingWellFounded, FS_FiniteSubsetsOfFinite
  <1>2. PICK s \in T : \A r \in T : <<r, s>> \notin StrictSubsetOrdering(S)
    BY <1>1, WFMin
  <1>3. ASSUME NEW r \in T, r \subseteq s PROVE r = s
    BY <1>2, <1>3 DEF StrictSubsetOrdering
  <1> QED
    BY <1>3

\* Two functions that sum f agree where both do.
LEMMA SumsAgree ==
  ASSUME NEW f, NEW S, NEW T, IsFiniteSet(S), NEW g, NEW h, Sums(g, f, S), Sums(h, f, T),
         NEW s \in SUBSET S, s \subseteq T
  PROVE  g[s] = h[s]
  <1> DEFINE Bad == {r \in SUBSET S : r \subseteq T /\ g[r] # h[r]}
  <1> SUFFICES ASSUME s \in Bad PROVE FALSE
    OBVIOUS
  <1>1. PICK r \in Bad : \A q \in Bad : q \subseteq r => q = r
    <2>1. Bad \in SUBSET SUBSET S /\ Bad # {}
      OBVIOUS
    <2> HIDE DEF Bad
    <2> QED
      BY <2>1, SmallestSubset
  <1>2. r # {}
    BY DEF Sums
  <1>3. r \ {First(r)} \notin Bad
    BY <1>1, <1>2, FirstIsIn
  <1>4. g[r \ {First(r)}] = h[r \ {First(r)}]
    BY <1>3
  <1> QED
    BY <1>2, <1>4 DEF Sums

\* There is one for every finite set.
LEMMA SumsExist ==
  ASSUME NEW f, NEW S, IsFiniteSet(S)
  PROVE  \E g : Sums(g, f, S)
  <1> DEFINE Bad == {r \in SUBSET S : ~ \E g : Sums(g, f, r)}
  <1> SUFFICES ASSUME S \in Bad PROVE FALSE
    OBVIOUS
  <1>1. PICK T \in Bad : \A q \in Bad : q \subseteq T => q = T
    <2>1. Bad \in SUBSET SUBSET S /\ Bad # {}
      OBVIOUS
    <2> HIDE DEF Bad
    <2> QED
      BY <2>1, SmallestSubset
  <1> DEFINE of(r) == CHOOSE g : Sums(g, f, r)
             total == [r \in SUBSET T |->
               IF r = {} THEN 0 ELSE f[First(r)] + of(r \ {First(r)})[r \ {First(r)}]]
  <1>2. \A r \in SUBSET T : r # T => Sums(of(r), f, r) /\ IsFiniteSet(r)
    BY <1>1, FS_Subset
  <1>3. \A r \in SUBSET T : r # {} => /\ First(r) \in r
                                      /\ r \ {First(r)} \in SUBSET T
                                      /\ r \ {First(r)} # T
    BY FirstIsIn
  <1>4. \A r \in SUBSET T : r # T => total[r] = of(r)[r]
    <2> SUFFICES ASSUME NEW r \in SUBSET T, r # T PROVE total[r] = of(r)[r]
      OBVIOUS
    <2> DEFINE q == r \ {First(r)}
    <2>1. CASE r = {}
      BY <1>2, <2>1 DEF Sums
    <2>2. CASE r # {}
      <3>1. q \in SUBSET T /\ q \in SUBSET r /\ q # T /\ q \in SUBSET q
        BY <1>3, <2>2
      <3>2. Sums(of(r), f, r) /\ Sums(of(q), f, q) /\ IsFiniteSet(r)
        BY <1>2, <3>1
      <3> HIDE DEF of, q
      <3>3. of(q)[q] = of(r)[q]
        BY <3>1, <3>2, SumsAgree
      <3>4. of(r)[r] = f[First(r)] + of(r)[q]
        BY <2>2, <3>2 DEF Sums, q
      <3>5. total[r] = f[First(r)] + of(q)[q]
        BY <2>2 DEF q
      <3> QED
        BY <3>3, <3>4, <3>5
    <2> QED
      BY <2>1, <2>2
  <1>5. Sums(total, f, T)
    <2>1. \A r \in SUBSET T : total[r] = IF r = {} THEN 0
            ELSE f[First(r)] + of(r \ {First(r)})[r \ {First(r)}]
      OBVIOUS
    <2>2. total = [r \in SUBSET T |-> total[r]]
      OBVIOUS
    <2> HIDE DEF total, of
    <2>3. ASSUME NEW r \in SUBSET T, r # {}
          PROVE  total[r] = f[First(r)] + total[r \ {First(r)}]
      BY <1>3, <1>4, <2>1, <2>3
    <2> QED
      BY <2>1, <2>2, <2>3 DEF Sums
  <1> QED
    BY <1>1, <1>5

\* MapThenSumSet builds such a function.
LEMMA TotalIsSum ==
  ASSUME NEW f, NEW S, IsFiniteSet(S), NEW g, Sums(g, f, S), NEW T \in SUBSET S
  PROVE  Total(f, T) = g[T]
  <1> DEFINE it == CHOOSE h : h = [s \in SUBSET T |->
               IF s = {} THEN 0
               ELSE f[CHOOSE x \in s : TRUE] + h[s \ {CHOOSE x \in s : TRUE}]]
  <1>1. IsFiniteSet(T)
    BY FS_Subset
  <1>2. PICK h : Sums(h, f, T)
    BY <1>1, SumsExist
  <1>3. h = [s \in SUBSET T |-> IF s = {} THEN 0
                                 ELSE f[CHOOSE x \in s : TRUE] + h[s \ {CHOOSE x \in s : TRUE}]]
    BY <1>2 DEF Sums, First
  <1>4. it = [s \in SUBSET T |-> IF s = {} THEN 0
                                 ELSE f[CHOOSE x \in s : TRUE] + it[s \ {CHOOSE x \in s : TRUE}]]
    BY <1>3
  <1>5. Total(f, T) = it[T]
    BY DEF Total, MapThenSumSet, MapThenFoldSet
  <1> HIDE DEF it
  <1>6. Sums(it, f, T)
    BY <1>4 DEF Sums, First
  <1>7. T \in SUBSET T /\ T \subseteq S
    OBVIOUS
  <1>8. it[T] = g[T]
    BY <1>1, <1>6, <1>7, SumsAgree
  <1> QED
    BY <1>5, <1>8

\* The sums of integers: none, and one more.
LEMMA TotalEmpty == ASSUME NEW f PROVE Total(f, {}) = 0
  <1>1. PICK g : Sums(g, f, {})
    BY FS_EmptySet, SumsExist
  <1>2. {} \in SUBSET {} /\ IsFiniteSet({})
    BY FS_EmptySet
  <1>3. Total(f, {}) = g[{}]
    BY <1>1, <1>2, TotalIsSum
  <1> QED
    BY <1>1, <1>2, <1>3 DEF Sums

LEMMA TotalFirst ==
  ASSUME NEW f, NEW S, IsFiniteSet(S), S # {}
  PROVE  Total(f, S) = f[First(S)] + Total(f, S \ {First(S)})
  <1>1. PICK g : Sums(g, f, S)
    BY SumsExist
  <1>2. S \in SUBSET S /\ S \ {First(S)} \in SUBSET S
    OBVIOUS
  <1>3. Total(f, S) = g[S] /\ Total(f, S \ {First(S)}) = g[S \ {First(S)}]
    BY <1>1, <1>2, TotalIsSum
  <1> QED
    BY <1>1, <1>2, <1>3 DEF Sums

LEMMA TotalIsInt ==
  ASSUME NEW f, NEW S, IsFiniteSet(S), \A x \in S : f[x] \in Int
  PROVE  Total(f, S) \in Int
  <1> DEFINE Bad == {r \in SUBSET S : Total(f, r) \notin Int}
  <1> SUFFICES ASSUME S \in Bad PROVE FALSE
    OBVIOUS
  <1>1. PICK r \in Bad : \A q \in Bad : q \subseteq r => q = r
    <2>1. Bad \in SUBSET SUBSET S /\ Bad # {}
      OBVIOUS
    <2> HIDE DEF Bad
    <2> QED
      BY <2>1, SmallestSubset
  <1>2. r # {}
    <2> SUFFICES ASSUME r = {} PROVE FALSE
      OBVIOUS
    <2>1. Total(f, r) = 0
      BY TotalEmpty
    <2> QED
      BY <2>1
  <1>3. First(r) \in r /\ r \ {First(r)} \notin Bad /\ r \in SUBSET S /\ IsFiniteSet(r)
    BY <1>1, <1>2, FirstIsIn, FS_Subset
  <1>4. Total(f, r \ {First(r)}) \in Int /\ f[First(r)] \in Int
    BY <1>3
  <1>5. Total(f, r) = f[First(r)] + Total(f, r \ {First(r)})
    BY <1>2, <1>3, TotalFirst
  <1> QED
    BY <1>4, <1>5

\* Any element may come first.
LEMMA TotalRemove ==
  ASSUME NEW f, NEW S, IsFiniteSet(S), \A x \in S : f[x] \in Int, NEW x \in S
  PROVE  Total(f, S) = f[x] + Total(f, S \ {x})
  <1> DEFINE Bad == {r \in SUBSET S : \E y \in r : Total(f, r) # f[y] + Total(f, r \ {y})}
  <1> SUFFICES ASSUME S \in Bad PROVE FALSE
    OBVIOUS
  <1>1. PICK r \in Bad : \A q \in Bad : q \subseteq r => q = r
    <2>1. Bad \in SUBSET SUBSET S /\ Bad # {}
      OBVIOUS
    <2> HIDE DEF Bad
    <2> QED
      BY <2>1, SmallestSubset
  <1>2. PICK y \in r : Total(f, r) # f[y] + Total(f, r \ {y})
    OBVIOUS
  <1>3. PICK c : c = First(r)
    OBVIOUS
  <1>4. r \in SUBSET S /\ IsFiniteSet(r) /\ c \in r
    BY <1>2, <1>3, FirstIsIn, FS_Subset
  <1>5. Total(f, r) = f[c] + Total(f, r \ {c})
    <2>1. r # {}
      BY <1>4
    <2> QED
      BY <1>3, <1>4, <2>1, TotalFirst
  <1>6. y # c
    BY <1>2, <1>5
  <1>7. r \ {c} \notin Bad /\ r \ {y} \notin Bad /\ r \ {c} \in SUBSET S /\ r \ {y} \in SUBSET S
    BY <1>1, <1>2, <1>4
  <1>8. /\ Total(f, r \ {c}) = f[y] + Total(f, (r \ {c}) \ {y})
        /\ Total(f, r \ {y}) = f[c] + Total(f, (r \ {y}) \ {c})
    BY <1>2, <1>4, <1>6, <1>7
  <1>9. (r \ {c}) \ {y} = (r \ {y}) \ {c}
    OBVIOUS
  <1>10. f[y] \in Int /\ f[c] \in Int /\ Total(f, (r \ {y}) \ {c}) \in Int
    BY <1>2, <1>4, TotalIsInt, FS_Subset
  <1>11. PICK fy, fc, rest : /\ fy = f[y] /\ fc = f[c] /\ rest = Total(f, (r \ {y}) \ {c})
                             /\ fy \in Int /\ fc \in Int /\ rest \in Int
    BY <1>10
  <1>12. Total(f, r) = fc + (fy + rest) /\ Total(f, r \ {y}) = fc + rest
    BY <1>5, <1>8, <1>9, <1>11
  <1>13. Total(f, r) = f[y] + Total(f, r \ {y})
    BY <1>11, <1>12
  <1> QED
    BY <1>2, <1>13

\* Only the values on the set count.
LEMMA TotalSame ==
  ASSUME NEW f, NEW h, NEW S, IsFiniteSet(S), \A x \in S : f[x] = h[x]
  PROVE  Total(f, S) = Total(h, S)
  <1>1. PICK g : Sums(g, f, S)
    BY SumsExist
  <1>2. Sums(g, h, S)
    BY <1>1, FirstIsIn DEF Sums
  <1> QED
    BY <1>1, <1>2, TotalIsSum

\* Sums over two sets without a common element add up.
LEMMA TotalUnion ==
  ASSUME NEW f, NEW S, NEW T, IsFiniteSet(S), IsFiniteSet(T), S \cap T = {},
         \A x \in S \cup T : f[x] \in Int
  PROVE  Total(f, S \cup T) = Total(f, S) + Total(f, T)
  <1> DEFINE Bad == {r \in SUBSET T : Total(f, S \cup r) # Total(f, S) + Total(f, r)}
  <1> SUFFICES ASSUME T \in Bad PROVE FALSE
    OBVIOUS
  <1>1. PICK r \in Bad : \A q \in Bad : q \subseteq r => q = r
    <2>1. Bad \in SUBSET SUBSET T /\ Bad # {}
      OBVIOUS
    <2> HIDE DEF Bad
    <2> QED
      BY <2>1, SmallestSubset
  <1>2. r \in SUBSET T /\ IsFiniteSet(r) /\ IsFiniteSet(S \cup r)
    BY <1>1, FS_Subset, FS_Union
  <1>3. r # {}
    <2> SUFFICES ASSUME r = {} PROVE FALSE
      OBVIOUS
    <2>1. Total(f, r) = 0 /\ S \cup r = S /\ Total(f, S) \in Int
      BY TotalEmpty, TotalIsInt
    <2> QED
      BY <1>1, <2>1
  <1>4. PICK x : x \in r
    BY <1>3
  <1>5. r \ {x} \notin Bad /\ r \ {x} \in SUBSET T /\ IsFiniteSet(r \ {x})
    BY <1>1, <1>2, <1>4, FS_Subset
  <1>6. Total(f, S \cup (r \ {x})) = Total(f, S) + Total(f, r \ {x})
    BY <1>5
  <1>7. Total(f, r) = f[x] + Total(f, r \ {x})
    BY <1>2, <1>4, TotalRemove
  <1>8. Total(f, S \cup r) = f[x] + Total(f, S \cup (r \ {x}))
    <2>1. (S \cup r) \ {x} = S \cup (r \ {x})
      BY <1>2, <1>4
    <2>2. \A y \in S \cup r : f[y] \in Int
      BY <1>2
    <2>3. x \in S \cup r
      BY <1>4
    <2>4. Total(f, S \cup r) = f[x] + Total(f, (S \cup r) \ {x})
      BY <1>2, <2>2, <2>3, TotalRemove
    <2> QED
      BY <2>1, <2>4
  <1>9. PICK v, a, b : /\ v = f[x] /\ a = Total(f, S) /\ b = Total(f, r \ {x})
                       /\ v \in Int /\ a \in Int /\ b \in Int
    BY <1>2, <1>4, <1>5, TotalIsInt
  <1>10. Total(f, S \cup r) = v + (a + b) /\ Total(f, r) = v + b
    BY <1>6, <1>7, <1>8, <1>9
  <1>11. Total(f, S \cup r) = Total(f, S) + Total(f, r)
    BY <1>9, <1>10
  <1> QED
    BY <1>1, <1>11

-----------------------------------------------------------------------------
(* Lessons add up.  Every task has as many periods placed and still to     *)
(* place as it was given; what an assignment gets is the sum over its      *)
(* groups and its own task.                                                *)

SizeIn(xs) == [x \in xs |-> Cardinality(x.periods)]
LessonsOf(xs, t) == {x \in xs : x.task = t}

LessonsCounted ==
  /\ problem \in Problems
  /\ \A a \in Assignments : sharedCredit(a) <= problem.assignments[a].weekly
  /\ IsFiniteSet(placements)
  /\ \A x \in placements : x.periods # {} /\ Cardinality(x.periods) \in Nat
  /\ \A t \in Tasks :
       /\ remaining[t] \in Int
       /\ Total(SizeIn(placements), LessonsOf(placements, t)) + remaining[t] = Demand(t)

\* The lessons of several tasks, task by task.
LEMMA TotalByTask ==
  ASSUME NEW xs, IsFiniteSet(xs), NEW f, \A x \in xs : f[x] \in Int,
         NEW D, IsFiniteSet(D), NEW sum, \A t \in D : sum[t] = Total(f, LessonsOf(xs, t))
  PROVE  Total(f, {x \in xs : x.task \in D}) = Total(sum, D)
  <1> DEFINE of(r) == {x \in xs : x.task \in r}
             Bad == {r \in SUBSET D : Total(f, of(r)) # Total(sum, r)}
  <1> SUFFICES ASSUME D \in Bad PROVE FALSE
    OBVIOUS
  <1>1. PICK r \in Bad : \A q \in Bad : q \subseteq r => q = r
    <2>1. Bad \in SUBSET SUBSET D /\ Bad # {}
      OBVIOUS
    <2> HIDE DEF Bad
    <2> QED
      BY <2>1, SmallestSubset
  <1>2. r # {}
    <2> SUFFICES ASSUME r = {} PROVE FALSE
      OBVIOUS
    <2>1. of(r) = {} /\ Total(f, {}) = 0 /\ Total(sum, {}) = 0
      BY TotalEmpty
    <2> QED
      BY <1>1, <2>1
  <1>3. PICK t : t \in r
    BY <1>2
  <1>4. r \in SUBSET D /\ IsFiniteSet(r) /\ r \ {t} \notin Bad /\ r \ {t} \in SUBSET D
    BY <1>1, <1>3, FS_Subset
  <1>5. Total(f, of(r \ {t})) = Total(sum, r \ {t})
    BY <1>4
  <1>6. /\ of(r) = of(r \ {t}) \cup LessonsOf(xs, t)
        /\ of(r \ {t}) \cap LessonsOf(xs, t) = {}
        /\ of(r \ {t}) \subseteq xs /\ LessonsOf(xs, t) \subseteq xs
    BY <1>3 DEF LessonsOf
  <1>7. Total(f, of(r)) = Total(f, of(r \ {t})) + Total(f, LessonsOf(xs, t))
    <2>1. PICK s1, s2 : s1 = of(r \ {t}) /\ s2 = LessonsOf(xs, t)
      OBVIOUS
    <2>2. /\ of(r) = s1 \cup s2 /\ s1 \cap s2 = {} /\ IsFiniteSet(s1) /\ IsFiniteSet(s2)
          /\ \A x \in s1 \cup s2 : f[x] \in Int
      BY <1>6, <2>1, FS_Subset
    <2>3. Total(f, s1 \cup s2) = Total(f, s1) + Total(f, s2)
      BY <2>2, TotalUnion
    <2> QED
      BY <2>1, <2>2, <2>3
  <1>8. \A u \in r : sum[u] \in Int
    <2> TAKE u \in r
    <2>1. LessonsOf(xs, u) \subseteq xs /\ IsFiniteSet(LessonsOf(xs, u))
      BY FS_Subset DEF LessonsOf
    <2>2. Total(f, LessonsOf(xs, u)) \in Int
      BY <2>1, TotalIsInt
    <2> QED
      BY <1>4, <2>2
  <1>9. Total(sum, r) = sum[t] + Total(sum, r \ {t})
    BY <1>3, <1>4, <1>8, TotalRemove
  <1>10. /\ sum[t] = Total(f, LessonsOf(xs, t)) /\ sum[t] \in Int
         /\ Total(sum, r \ {t}) \in Int
    <2>1. IsFiniteSet(r \ {t})
      BY <1>4, FS_Subset
    <2> QED
      BY <1>3, <1>4, <1>8, <2>1, TotalIsInt
  <1>11. PICK m, n : m = sum[t] /\ n = Total(sum, r \ {t}) /\ m \in Int /\ n \in Int
    BY <1>10
  <1>12. Total(f, of(r)) = n + m /\ Total(sum, r) = m + n
    BY <1>5, <1>7, <1>9, <1>10, <1>11
  <1> QED
    BY <1>1, <1>11, <1>12

\* The lessons that the groups of an assignment share with it, as a sum over
\* the demand of the tasks.
LEMMA SharedCreditIsTotal ==
  ASSUME problem \in Problems, NEW a \in Assignments
  PROVE  /\ IsFiniteSet(groupsOf(a)) /\ groupsOf(a) \subseteq Groups
         /\ sharedCredit(a) = Total([t \in Tasks |-> Demand(t)], groupsOf(a))
         /\ sharedCredit(a) \in Int /\ residual(a) \in Int /\ a \notin Groups
         /\ Demand(a) = residual(a)
         /\ sharedCredit(a) <= problem.assignments[a].weekly =>
              residual(a) + sharedCredit(a) = problem.assignments[a].weekly
  <1>1. groupsOf(a) \subseteq Groups /\ IsFiniteSet(groupsOf(a)) /\ a \notin Groups
    <2>1. groupsOf(a) \subseteq Groups
      BY DEF groupsOf
    <2>2. IsFiniteSet(Groups) /\ a \notin Groups
      BY ProblemsAreFinite DEF Groups, Assignments
    <2> QED
      BY <2>1, <2>2, FS_Subset
  <1>2. PICK w : w = [g \in groupsOf(a) |-> problem.groups[g].weekly]
    OBVIOUS
  <1>3. sharedCredit(a) = Total(w, groupsOf(a))
    BY <1>2 DEF sharedCredit, Total, MapThenSumSet, MapThenFoldSet
  <1>4. \A g \in groupsOf(a) : w[g] \in Int
    BY <1>1, <1>2, ProblemsAreFinite DEF Groups
  <1>5. sharedCredit(a) \in Int
    BY <1>1, <1>3, <1>4, TotalIsInt
  <1>6. PICK d : d = [t \in Tasks |-> Demand(t)]
    OBVIOUS
  <1>7. \A g \in groupsOf(a) : w[g] = d[g]
    BY <1>1, <1>2, <1>6 DEF Demand, Tasks
  <1>8. Total(w, groupsOf(a)) = Total(d, groupsOf(a))
    BY <1>1, <1>7, TotalSame
  <1>9. problem.assignments[a].weekly \in Int
    BY ProblemsAreFinite DEF Assignments
  <1>10. PICK m, n : m = problem.assignments[a].weekly /\ n = sharedCredit(a) /\ m \in Int /\ n \in Int
    BY <1>5, <1>9
  <1>11. residual(a) = IF m - n < 0 THEN 0 ELSE m - n
    BY <1>10 DEF residual, AtLeastZero
  <1>12. residual(a) \in Int /\ (n <= m => residual(a) + n = m)
    BY <1>10, <1>11
  <1>13. Demand(a) = residual(a)
    BY <1>1 DEF Demand
  <1> QED
    BY <1>1, <1>3, <1>5, <1>6, <1>8, <1>10, <1>12, <1>13

LEMMA DemandIsInt ==
  ASSUME problem \in Problems, NEW t \in Tasks
  PROVE  Demand(t) \in Int
  <1>1. CASE t \in Groups
    BY <1>1, ProblemsAreFinite DEF Demand, Groups
  <1>2. CASE t \in Assignments
    BY <1>2, SharedCreditIsTotal
  <1> QED
    BY <1>1, <1>2 DEF Tasks

\* The candidates are sets of one or two periods.
LEMMA CandidatesAreFinite ==
  ASSUME NEW double, NEW periods \in Candidates(double)
  PROVE  periods # {} /\ Cardinality(periods) \in Nat
  <1>1. periods \in adjacentPeriodPairs => \E p, q : periods = {p, q}
    BY DEF adjacentPeriodPairs
  <1>2. periods \in singles => \E p, q : periods = {p, q}
    <2> SUFFICES ASSUME periods \in singles PROVE \E p, q : periods = {p, q}
      OBVIOUS
    <2>1. PICK p : periods = {p}
      BY DEF singles
    <2>2. periods = {p, p}
      BY <2>1
    <2> QED
      BY <2>2
  <1>3. PICK p, q : periods = {p, q}
    BY <1>1, <1>2 DEF Candidates
  <1>4. IsFiniteSet({p}) /\ IsFiniteSet({q}) /\ periods = {p} \cup {q}
    BY <1>3, FS_Singleton
  <1>5. IsFiniteSet(periods)
    BY <1>4, FS_Union
  <1> QED
    BY <1>5, <1>3, FS_CardinalityType

\* The demand and the tasks belong to the problem.
LEMMA DemandStays ==
  ASSUME UNCHANGED problem
  PROVE  /\ Tasks' = Tasks /\ Assignments' = Assignments
         /\ \A t : Demand(t)' = Demand(t)
         /\ \A a : sharedCredit(a)' = sharedCredit(a)
  <1>1. Groups' = Groups /\ Assignments' = Assignments
    BY DEF Groups, Assignments
  <1>2. \A a : groupsOf(a)' = groupsOf(a)
    BY <1>1 DEF groupsOf
  <1>3. \A a : sharedCredit(a)' = sharedCredit(a)
    BY <1>2 DEF sharedCredit, MapThenSumSet, MapThenFoldSet
  <1> QED
    BY <1>1, <1>3 DEF Tasks, Demand, residual

\* A lesson is placed where its task has none, and counted once.
LEMMA PlacingCounts ==
  ASSUME LessonsCounted, UNCHANGED problem,
         NEW ts, ts \subseteq Tasks, NEW double, NEW periods \in Candidates(double),
         NEW flag, placeTasks(ts, periods, flag), \A t \in ts : canPlaceTask(t, periods)
  PROVE  LessonsCounted'
  <1> DEFINE new(t) == [task |-> t, periods |-> periods, double |-> flag,
                        block |-> blockOf(t)]
             n == Cardinality(periods)
  <1>1. periods # {} /\ n \in Nat
    BY CandidatesAreFinite
  <1>2. placements' = placements \cup {new(t) : t \in ts}
    BY DEF placeTasks
  <1>3. IsFiniteSet(ts) /\ IsFiniteSet(placements')
    <2>1. IsFiniteSet(ts)
      <3>1. IsFiniteSet(Assignments) /\ IsFiniteSet(Groups)
        BY ProblemsAreFinite DEF LessonsCounted, Assignments, Groups
      <3>2. IsFiniteSet(Tasks)
        BY <3>1, FS_Union DEF Tasks
      <3> QED
        BY <3>2, FS_Subset
    <2>2. [t \in ts |-> new(t)] \in Surjection(ts, {new(t) : t \in ts})
      BY DEF Surjection
    <2>3. IsFiniteSet({new(t) : t \in ts})
      BY <2>1, <2>2, FS_Surjection
    <2> QED
      BY <1>2, <2>1, <2>3, FS_Union DEF LessonsCounted
  <1>4. \A x \in placements' : x.periods # {} /\ Cardinality(x.periods) \in Nat
    BY <1>1, <1>2 DEF LessonsCounted
  <1>5. \A t \in ts : new(t) \notin placements
    <2> SUFFICES ASSUME NEW t \in ts, new(t) \in placements PROVE FALSE
      OBVIOUS
    <2>1. new(t).task = t /\ new(t).periods \cap periods # {}
      BY <1>1
    <2>2. teacherFree(t, periods)
      BY DEF canPlaceTask
    <2> QED
      BY <2>1, <2>2, TeacherFreeIsEnough
  <1>6. PICK f, g : f = SizeIn(placements) /\ g = SizeIn(placements')
    OBVIOUS
  <1>7. /\ \A x \in placements : g[x] = f[x] /\ f[x] \in Int
        /\ \A x \in placements' : g[x] = Cardinality(x.periods) /\ g[x] \in Int
    BY <1>2, <1>4, <1>6 DEF SizeIn, LessonsCounted
  <1>8. ASSUME NEW t \in Tasks
        PROVE  /\ remaining'[t] \in Int
               /\ Total(g, LessonsOf(placements', t)) + remaining'[t] = Demand(t)
    <2>1. PICK old : old = LessonsOf(placements, t)
      OBVIOUS
    <2>2. old \subseteq placements /\ IsFiniteSet(old)
      BY <2>1, FS_Subset DEF LessonsOf, LessonsCounted
    <2>3. Total(g, old) = Total(f, old) /\ Total(f, old) \in Int
      BY <1>7, <2>2, TotalSame, TotalIsInt
    <2>4. remaining[t] \in Int /\ Total(f, old) + remaining[t] = Demand(t)
      BY <1>6, <2>1 DEF LessonsCounted
    <2>5. remaining'[t] = IF t \in ts THEN remaining[t] - n ELSE remaining[t]
      BY DEF placeTasks
    <2>6. CASE t \notin ts
      <3>1. LessonsOf(placements', t) = old
        BY <1>2, <2>1, <2>6 DEF LessonsOf
      <3> QED
        BY <2>3, <2>4, <2>5, <2>6, <3>1
    <2>7. CASE t \in ts
      <3>1. LessonsOf(placements', t) = old \cup {new(t)} /\ new(t) \notin old
        BY <1>2, <1>5, <2>1, <2>7 DEF LessonsOf
      <3>2. PICK all, x : all = old \cup {new(t)} /\ x = new(t)
        OBVIOUS
      <3>3. x \in all /\ all \ {x} = old /\ all \subseteq placements' /\ g[x] = n
        BY <1>2, <1>7, <2>2, <2>7, <3>1, <3>2
      <3>4. IsFiniteSet(all) /\ \A y \in all : g[y] \in Int
        BY <1>3, <1>7, <3>3, FS_Subset
      <3>5. Total(g, all) = g[x] + Total(g, all \ {x})
        BY <3>3, <3>4, TotalRemove
      <3>6. PICK i, r, m : /\ i = Total(f, old) /\ r = remaining[t] /\ m = n
                           /\ i \in Int /\ r \in Int /\ m \in Nat
        BY <1>1, <2>3, <2>4
      <3>7. Total(g, LessonsOf(placements', t)) = m + i /\ remaining'[t] = r - m
        BY <2>3, <2>5, <2>7, <3>1, <3>2, <3>3, <3>5, <3>6
      <3>8. Demand(t) = i + r
        BY <2>4, <3>6
      <3> QED
        BY <3>6, <3>7, <3>8
    <2> QED
      BY <2>6, <2>7
  <1> QED
    BY <1>3, <1>4, <1>6, <1>8, DemandStays DEF LessonsCounted

LEMMA CountedStays ==
  ASSUME LessonsCounted, UNCHANGED <<problem, remaining, placements>>
  PROVE  LessonsCounted'
  BY DemandStays DEF LessonsCounted, SizeIn, LessonsOf

LEMMA CountedInit == Init => LessonsCounted
  <1> SUFFICES ASSUME Init PROVE LessonsCounted
    OBVIOUS
  <1>1. problem \in Problems /\ placements = {} /\ IsFiniteSet({})
    BY FS_EmptySet DEF Init
  <1>2. \A a \in Assignments : sharedCredit(a) <= problem.assignments[a].weekly
    BY DEF Init, analyzeAudienceFeasibility
  <1>3. ASSUME NEW t \in Tasks
        PROVE  /\ remaining[t] \in Int
               /\ Total(SizeIn(placements), LessonsOf(placements, t)) + remaining[t] = Demand(t)
    <2>1. LessonsOf(placements, t) = {}
      BY <1>1 DEF LessonsOf
    <2>2. Total(SizeIn(placements), {}) = 0
      BY TotalEmpty
    <2>3. remaining[t] = Demand(t) /\ Demand(t) \in Int
      BY <1>1, DemandIsInt DEF Init
    <2> QED
      BY <2>1, <2>2, <2>3
  <1> QED
    BY <1>1, <1>2, <1>3 DEF LessonsCounted

LEMMA CountedStep == IndInv /\ LessonsCounted /\ [Next]_vars => LessonsCounted'
  <1> SUFFICES ASSUME IndInv, LessonsCounted, [Next]_vars PROVE LessonsCounted'
    OBVIOUS
  <1>1. ASSUME NEW b \in Blocks, placeParallelMembers(b) PROVE LessonsCounted'
    <2>1. Members(b) \subseteq Tasks
      BY DEF IndInv, AudiencesKnown, Tasks
    <2>2. PICK periods \in Candidates(blockNeedsDouble(b)) :
            /\ blockFits(b, periods)
            /\ placeTasks(Members(b), periods, blockNeedsDouble(b))
      BY <1>1 DEF placeParallelMembers
    <2>3. \A t \in Members(b) : canPlaceTask(t, periods)
      BY <2>2 DEF blockFits
    <2>4. UNCHANGED problem
      BY <1>1 DEF placeParallelMembers
    <2>5. PICK ts : ts = Members(b)
      OBVIOUS
    <2>6. /\ ts \subseteq Tasks /\ \A t \in ts : canPlaceTask(t, periods)
          /\ placeTasks(ts, periods, blockNeedsDouble(b))
      BY <2>1, <2>2, <2>3, <2>5
    <2> QED
      BY <2>2, <2>4, <2>6, PlacingCounts
  <1>2. ASSUME NEW t \in Tasks, placeFirstTask(t) PROVE LessonsCounted'
    <2>1. PICK periods \in Candidates(wantsDouble(t)) :
            /\ canPlaceTask(t, periods)
            /\ placeTasks({t}, periods, wantsDouble(t))
      BY <1>2 DEF placeFirstTask
    <2>2. PICK ts : ts = {t}
      OBVIOUS
    <2>3. /\ ts \subseteq Tasks /\ \A s \in ts : canPlaceTask(s, periods)
          /\ placeTasks(ts, periods, wantsDouble(t))
      BY <2>1, <2>2
    <2>4. UNCHANGED problem
      BY <1>2 DEF placeFirstTask
    <2> QED
      BY <2>3, <2>4, PlacingCounts
  <1>3. CASE (\E b \in Blocks : StartBlock(b) \/ LeaveBlock(b)) \/ BlocksDone \/ Finish
             \/ budgetExceeded \/ Solved \/ UNCHANGED vars
    BY <1>3, CountedStays DEF StartBlock, LeaveBlock, BlocksDone, Finish, budgetExceeded, Solved, vars
  <1> QED
    BY <1>1, <1>2, <1>3 DEF Next

\* When every task is placed, the lessons of an assignment's groups and its own
\* residual lessons add up to exactly its demand: merging classes neither loses
\* nor repeats a lesson (audienceTasks, analyzeAudienceFeasibility).
THEOREM MergedLessonsAddUp == Spec => []PlacedMeansSatisfied
  <1>1. IndInv /\ LessonsCounted => PlacedMeansSatisfied
    <2> SUFFICES ASSUME IndInv, LessonsCounted, \A t \in Tasks : remaining[t] = 0,
                        NEW a \in Assignments
                 PROVE  assignmentCount(a) = problem.assignments[a].weekly
      BY DEF PlacedMeansSatisfied, DemandSatisfied
    <2>1. PICK f, D, d : /\ f = SizeIn(placements) /\ D = groupsOf(a) \cup {a}
                         /\ d = [t \in Tasks |-> Demand(t)]
      OBVIOUS
    <2>2. problem \in Problems /\ IsFiniteSet(placements) /\ \A x \in placements : f[x] \in Int
      BY <2>1 DEF LessonsCounted, SizeIn
    <2>3. /\ IsFiniteSet(groupsOf(a)) /\ groupsOf(a) \subseteq Groups /\ a \notin Groups
          /\ sharedCredit(a) = Total(d, groupsOf(a)) /\ Demand(a) = residual(a)
          /\ residual(a) + sharedCredit(a) = problem.assignments[a].weekly
      BY <2>1, <2>2, SharedCreditIsTotal DEF LessonsCounted
    <2>4. /\ D \subseteq Tasks /\ IsFiniteSet(D)
          /\ D \ {a} = groupsOf(a) /\ a \in D
      <3>1. IsFiniteSet({a})
        BY FS_Singleton
      <3> QED
        BY <2>1, <2>3, <3>1, FS_Union DEF Tasks
    <2>5. {x \in placements : a \in AssignmentIDs(x.task)} = {x \in placements : x.task \in D}
      <3>1. ASSUME NEW t \in Tasks PROVE a \in AssignmentIDs(t) <=> t \in D
        BY <2>1, <2>3 DEF AssignmentIDs, groupsOf
      <3> QED
        BY <3>1 DEF IndInv, PlacementsKnown
    <2>6. \A t \in D : d[t] = Total(f, LessonsOf(placements, t)) /\ d[t] \in Int
      <3> TAKE t \in D
      <3>1. t \in Tasks /\ d[t] = Demand(t) /\ d[t] \in Int
        BY <2>1, <2>2, <2>4, DemandIsInt
      <3>2. Total(f, LessonsOf(placements, t)) + 0 = Demand(t)
        BY <2>1, <3>1 DEF LessonsCounted
      <3>3. Total(f, LessonsOf(placements, t)) \in Int
        <4>1. LessonsOf(placements, t) \subseteq placements
          BY DEF LessonsOf
        <4>2. IsFiniteSet(LessonsOf(placements, t))
          BY <2>2, <4>1, FS_Subset
        <4> QED
          BY <2>2, <4>1, <4>2, TotalIsInt
      <3> QED
        BY <3>1, <3>2, <3>3
    <2>7. Total(f, {x \in placements : x.task \in D}) = Total(d, D)
      BY <2>2, <2>4, <2>6, TotalByTask
    <2>8. assignmentCount(a) = Total(f, {x \in placements : x.task \in D})
      <3>1. PICK xs : xs = {x \in placements : a \in AssignmentIDs(x.task)}
        OBVIOUS
      <3>2. PICK g : g = [x \in xs |-> Cardinality(x.periods)]
        OBVIOUS
      <3>3. PICK n : n = MapThenSumSet(LAMBDA x : Cardinality(x.periods), xs)
        OBVIOUS
      <3>4. assignmentCount(a) = Total(g, xs)
        <4>1. assignmentCount(a) = n
          BY <3>1, <3>3 DEF assignmentCount
        <4>2. n = Total(g, xs)
          BY ZenonT(60), <3>2, <3>3 DEF Total, MapThenSumSet, MapThenFoldSet
        <4> QED
          BY <4>1, <4>2
      <3>5. IsFiniteSet(xs) /\ \A x \in xs : g[x] = f[x]
        <4>1. xs \subseteq placements
          BY <3>1
        <4>2. \A x \in xs : g[x] = f[x]
          BY <2>1, <3>2, <4>1 DEF SizeIn
        <4> QED
          BY <2>2, <4>1, <4>2, FS_Subset
      <3> QED
        BY <2>5, <3>1, <3>4, <3>5, TotalSame
    <2>9. Total(d, D) = d[a] + Total(d, groupsOf(a))
      BY <2>4, <2>6, TotalRemove
    <2>10. d[a] = residual(a)
      BY <2>1, <2>3, <2>4
    <2> QED
      BY <2>3, <2>7, <2>8, <2>9, <2>10
  <1>2. IndInv /\ LessonsCounted /\ [Next]_vars => LessonsCounted'
    BY CountedStep
  <1> QED
    BY <1>1, <1>2, CountedInit, Invariance, PTL DEF Spec

-----------------------------------------------------------------------------
(***************************************************************************)
(* Tags.  When single tasks are placed, every member of a block has begun  *)
(* with it, so it carries the tag of one of its blocks, and the validator  *)
(* compares its lessons with those of this block.                          *)
(***************************************************************************)
InBlock(t) == \E b \in Blocks : t \in Members(b)
Tagged(tag, t) == tag \in Blocks /\ t \in Members(tag)

TagsKnown ==
  /\ problem \in Problems
  /\ turn # None => turn \in Blocks \ blocks
  /\ phase = "tasks" => blocks = {}
  /\ \A b \in Blocks \ blocks : \A t \in Members(b) : Tagged(parallelBlock[t], t)
  /\ \A x \in placements : InBlock(x.task) => Tagged(x.block, x.task)
  /\ phase = "COMPLETE" => \A b \in Blocks : Simultaneous(b)

LEMMA TagsInit == Init => TagsKnown
  BY DEF Init, TagsKnown

\* The blocks belong to the problem.
LEMMA BlocksStay ==
  ASSUME UNCHANGED problem
  PROVE  /\ Tasks' = Tasks /\ Blocks' = Blocks
         /\ \A b : Members(b)' = Members(b)
         /\ \A t : InBlock(t)' <=> InBlock(t)
         /\ \A tag, t : Tagged(tag, t)' <=> Tagged(tag, t)
  BY DEF Tasks, Assignments, Groups, Blocks, Members, InBlock, Tagged

\* What the validator compares depends on the placements alone.
LEMMA SimultaneousStays ==
  ASSUME UNCHANGED <<problem, placements>>, NEW b
  PROVE  Simultaneous(b)' <=> Simultaneous(b)
  <1>1. \A g : BlockPeriods(b, g)' = BlockPeriods(b, g)
    BY DEF BlockPeriods
  <1> QED
    BY <1>1, BlocksStay DEF Simultaneous

\* Placing tasks that carry the tag of one of their blocks, if they have any.
LEMMA TagsPlaced ==
  ASSUME TagsKnown, UNCHANGED <<problem, blocks, turn, parallelBlock, phase>>,
         phase # "COMPLETE", NEW ts, NEW periods, NEW double,
         placeTasks(ts, periods, double),
         \A t \in ts : InBlock(t) => Tagged(parallelBlock[t], t)
  PROVE  TagsKnown'
  <1>1. ASSUME NEW x \in placements', InBlock(x.task) PROVE Tagged(x.block, x.task)
    <2>1. CASE x \in placements
      BY <1>1, <2>1 DEF TagsKnown
    <2>2. CASE x \notin placements
      <3>1. PICK t \in ts : x = [task |-> t, periods |-> periods, double |-> double,
                                 block |-> blockOf(t)]
        BY <2>2 DEF placeTasks
      <3>2. x.task = t /\ x.block = parallelBlock[t]
        BY <3>1 DEF blockOf
      <3> QED
        BY <1>1, <3>2
    <2> QED
      BY <2>1, <2>2
  <1> QED
    BY <1>1, BlocksStay DEF TagsKnown

LEMMA TagsStep == IndInv /\ TagsKnown /\ [Next]_vars => TagsKnown'
  <1> SUFFICES ASSUME IndInv, TagsKnown, [Next]_vars PROVE TagsKnown'
    OBVIOUS
  <1>1. \A b \in Blocks : b # None /\ Members(b) \subseteq Tasks
    BY NoneAssumption DEF TagsKnown, Blocks, IndInv, AudiencesKnown, Tasks
  <1>2. ASSUME NEW b \in Blocks, StartBlock(b) PROVE TagsKnown'
    <2>1. /\ turn' = b /\ blocks' = blocks \ {b}
          /\ \A t \in Tasks : parallelBlock'[t] =
               IF t \in Members(b) THEN b ELSE parallelBlock[t]
          /\ UNCHANGED <<problem, placements, phase>> /\ phase = "blocks"
      BY <1>2 DEF StartBlock
    <2>2. ASSUME NEW c \in Blocks \ blocks', NEW t \in Members(c)
          PROVE  Tagged(parallelBlock'[t], t)
      <3>1. t \in Tasks
        BY <1>1
      <3>2. CASE t \in Members(b)
        BY <2>1, <3>1, <3>2 DEF Tagged
      <3>3. CASE t \notin Members(b)
        BY <2>1, <3>1, <3>3 DEF TagsKnown
      <3> QED
        BY <3>2, <3>3
    <2> QED
      BY <2>1, <2>2, BlocksStay DEF TagsKnown
  <1>3. ASSUME NEW b \in Blocks, placeParallelMembers(b) PROVE TagsKnown'
    <2>1. PICK periods : placeTasks(Members(b), periods, blockNeedsDouble(b))
      BY <1>3 DEF placeParallelMembers
    <2>2. \A t \in Members(b) : Tagged(parallelBlock[t], t)
      BY <1>1, <1>3 DEF placeParallelMembers, TagsKnown
    <2>3. UNCHANGED <<problem, blocks, turn, parallelBlock, phase>> /\ phase # "COMPLETE"
      BY <1>3 DEF placeParallelMembers
    <2>4. PICK ts : ts = Members(b)
      OBVIOUS
    <2> QED
      BY <2>1, <2>2, <2>3, <2>4, TagsPlaced
  <1>4. ASSUME NEW b \in Blocks, LeaveBlock(b) PROVE TagsKnown'
    BY <1>4, BlocksStay DEF LeaveBlock, TagsKnown
  <1>5. CASE BlocksDone
    BY <1>5, BlocksStay DEF BlocksDone, TagsKnown
  <1>6. ASSUME NEW t \in Tasks, placeFirstTask(t) PROVE TagsKnown'
    <2>1. PICK periods : placeTasks({t}, periods, wantsDouble(t))
      BY <1>6 DEF placeFirstTask
    <2>2. /\ UNCHANGED <<problem, blocks, turn, parallelBlock, phase>>
          /\ phase = "tasks" /\ blocks = {}
      BY <1>6 DEF placeFirstTask, TagsKnown
    <2>3. InBlock(t) => Tagged(parallelBlock[t], t)
      BY <2>2 DEF TagsKnown, InBlock
    <2>4. PICK ts : ts = {t}
      OBVIOUS
    <2> QED
      BY <2>1, <2>2, <2>3, <2>4, TagsPlaced
  <1>7. CASE Finish \/ budgetExceeded
    <2>1. UNCHANGED <<problem, placements, blocks, turn, parallelBlock>>
      BY <1>7 DEF Finish, budgetExceeded
    <2>2. phase' # "tasks" /\ (phase' = "COMPLETE" => \A b \in Blocks : Simultaneous(b))
      BY <1>7 DEF Finish, budgetExceeded, ValidateSchedule
    <2>3. \A b : Simultaneous(b)' <=> Simultaneous(b)
      BY <2>1, SimultaneousStays
    <2> QED
      BY <2>1, <2>2, <2>3, BlocksStay DEF TagsKnown
  <1>8. CASE Solved \/ UNCHANGED vars
    <2>1. \A b : Simultaneous(b)' <=> Simultaneous(b)
      BY <1>8, SimultaneousStays DEF Solved, vars
    <2> QED
      BY <1>8, <2>1, BlocksStay DEF Solved, vars, TagsKnown
  <1> QED
    BY <1>2, <1>3, <1>4, <1>5, <1>6, <1>7, <1>8 DEF Next

\* In a schedule that is COMPLETE every lesson of a group of blocks is shared by
\* all members of one of these blocks, also when the block fell through to
\* single tasks (solveAudienceAttempt, ValidateSchedule).
THEOREM CompleteBlocksMeet == Spec => []BlocksRunTogether
  <1>1. TagsKnown => BlocksRunTogether
    <2> SUFFICES ASSUME TagsKnown, phase = "COMPLETE",
                        NEW x \in placements, InBlock(x.task)
                 PROVE  \E b \in Blocks :
                          /\ x.task \in Members(b)
                          /\ \A h \in Members(b) : x.periods \subseteq PeriodsOf(h)
      BY DEF BlocksRunTogether, InBlock
    <2>1. x.block \in Blocks /\ x.task \in Members(x.block) /\ Simultaneous(x.block)
      BY DEF TagsKnown, Tagged
    <2>2. x.periods \subseteq BlockPeriods(x.block, x.task)
      BY DEF BlockPeriods
    <2>3. \A h : BlockPeriods(x.block, h) \subseteq PeriodsOf(h)
      BY DEF BlockPeriods, PeriodsOf
    <2>4. ASSUME NEW h \in Members(x.block) PROVE x.periods \subseteq PeriodsOf(h)
      BY <2>1, <2>2, <2>3 DEF Simultaneous
    <2> QED
      BY <2>1, <2>4
  <1> QED
    BY <1>1, TagsInit, TagsStep, Invariance, PTL DEF Spec
=============================================================================
