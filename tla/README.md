# Formal models of the Scholaroscope temporal service

TLA+ models of the timetable service in `src/`: its components as state
machines translated from the Go and SQL sources, model-checked by TLC on small
instances, and the most important invariants proved by TLAPS for every value
of the constants.

## 1. The system

The service keeps school timetables for workspaces that Scholaroscope (an
external system) provisions. It is a Go HTTP API (`cmd/server`), an outbox
worker (`cmd/outbox-worker`), a PostgreSQL schema (`migrations/`) with
constraints and triggers that carry part of the logic, and a Next.js portal
(`portal/`) without state of its own.

| component | state it keeps | operations | what makes it correct |
| --- | --- | --- | --- |
| Timetable lifecycle (`portalapi/handler.go`, `generate.go`) | `timetable_version`, `timetable_entry`, `solver_run`, `scheduling_conflict`, `timetable_generation_job` | create, edit, generate, validate, publish, derive a version | one version in force; what is in force was solved, was announced and does not change |
| Publication feed (outbox rows of publication) | `outbox_event` | written by `publishVersion` | exactly one announcement per publication, diffed against what it supersedes |
| Outbox worker (`outbox/worker.go`) | `outbox_event.status`, `attempts`, `next_retry_at` | claim, post, record, retry, dead-letter, replay | no event has two owners; DELIVERED is true and final; every event is settled |
| Provisioning and academic sync (`provisioning/`) | workspace, installation, academic projection | bootstrap, sync, disable | the projection is one snapshot and comes to be the newest |
| Launch and sessions (`launch/`) | `portal_launch_grant`, `portal_session` | exchange, use, logout, expiry | a grant opens one session; ended sessions stay ended |
| Audience solver (`scheduling/audience_solver.go`, `validator.go`) | in memory: tasks, placements | place blocks, place tasks, validate | no learner and no teacher in two places; COMPLETE means every demand is met |
| Ordinary engine (`scheduling/engine.go`, `preflight.go`, `validator.go`) | in memory: demand left, occupancy maps, the best attempt | preflight, pin, colour, match, exchange, judge, restart | occupancy maps agree with lessons; refused problems have no solution; colourable demand is placed; restarts lose nothing; loops end |
| Session scheduling (`scheduling/service.go`, `repo.go`), availability, conflict log | `scheduled_session`, `slot_occupancy`, `teacher_availability`, `scheduling_conflict` | schedule, unschedule, set availability, log, resolve | nobody booked twice; a session holds its slots; a refusal is justified |
| Bell periods (`calendar/service.go`) | in memory | validate the request, cut days into slots | slots tile the day, lessons are whole, breaks are kept |
| Calendar versions (`calendar/repo.go`) | `calendar_version`, `time_slot` | create, insert slots, activate | one active calendar, with slots; numbers without gap |
| Delivery groups, parallel blocks (`portalapi/delivery_groups.go`) | groups, members, blocks | create, disable | audiences are disjoint; drafts that depend on them are invalidated |
| Workflow, academic context (`portalapi/workflow.go`, `academic.go`) | none | derive a state from the tables | publication is offered for what can be published; what is in force is shown |
| Signature protocol, legacy events, manifest, health, database wiring | none or external | | |

How they interact: Scholaroscope events change the projection that generation
reads; generation calls a solver on that projection and on the active
calendar; publication writes outbox rows in its own transaction; the worker
posts them. All shared state is in PostgreSQL at READ COMMITTED, and a handler
is a sequence of statements and transactions, so every component meets
interleavings between the statements of two requests, crashes between two
statements, and values that are stale when they are used. Messages from and to
Scholaroscope are delivered at least once and in any order.

`PROJECT.json` lists the hazards line by line with the properties that would
catch them.

## 2. Modules

| module | models | proofs |
| --- | --- | --- |
| `TimetableLifecycle` | versions of one timetable and the handlers that drive them | `TimetableLifecycleProofs` |
| `PublicationFeed` | abstract specification of what subscribers are promised | `TimetableLifecycleProofs` (refinement) |
| `Workflow` | what `GET /workflow` derives from the tables of `TimetableLifecycle`, which it extends | `TimetableLifecycleProofs` |
| `Outbox` | outbox rows, workers, replay | `OutboxProofs` |
| `Integration` | inbound events, projection, grants, sessions | `IntegrationProofs` |
| `AudienceSolver` | one attempt of the audience solver and the validator's verdict | `AudienceSolverProofs` |
| `OrdinaryEngine` | `Solve` without groups: preflight, attempts, validator, restarts | `OrdinaryEngineProofs` |
| `ExactColoring` | `exactBipartiteColors` and its augmenting paths, as recursive operators | |
| `SessionScheduling` | scheduling of single sessions, availability, conflict log | `SessionSchedulingProofs` |
| `BellPeriods` | checks and loops that cut the day into slots | `BellPeriodsProofs` |
| `CalendarVersions` | numbering, storing, activating calendars | `CalendarVersionsProofs` |

`MC<module>` holds the instances for TLC: symmetry sets and families of inputs.

### TimetableLifecycle

State: one variable per table (`version`, `entries`, `solverRun`, `conflict`,
`job`, `outbox`), the workspace's snapshot hash, whether the term is open, and
per handler `at` (the next statement) and `req` (what it has read). Entries are
abstracted to a stamp, new for every write, and to the snapshot they were
generated from (`None` once edited by hand).

Actions follow the statements of the handlers: `ValidateVersion` ..
`ValidateWrite`, `PublishVersion` .. `PublishCommit` / `PublishRollback`,
`EditEntry`, `EditWrite`, `EditReset`, `GenerateVersion`, `startGenerationJob`,
`loadEngineProblem`, `persistSolveResult`, `persistInfeasible`,
`persistRollback`, `GenerateFinish`, `createTimetable`, `CreateVersion`,
`invalidateDraftsForTermTx`, and the environment: `SyncWorkspace`,
`TermLifecycle`, `HandlerStops` (a crash anywhere).

Why the steps are as large as they are:
- `persistSolveResult` locks the version (`FOR UPDATE`) and inserts of entries
  take `FOR KEY SHARE` on it, so edits wait for it: it is one step. A status
  UPDATE by a publication does not conflict with `FOR KEY SHARE`, so edits do
  not wait for publications: `EditWrite` may come at any time.
- of two racing publications the loser either supersedes the winner or fails
  on the exclusion constraint (`noPublishedOverlap`); a second publication of
  the same version fails on the outbox idempotency key
  (`idempotencyKeyFree`).
- the ten-minute age of a running job is a nondeterministic choice in
  `startGenerationJob`; the term opens and closes at any time.
- "the latest solver run" is the last one committed.

### PublicationFeed

What publication promises: at most one version in force, its content is what
was announced, a change of content needs a new announcement, no version is
announced twice. `TimetableLifecycle` implements it under the mapping `Feed`
when requests do not overlap (`ImplementsFeed`; proved as
`PublicationImplementsFeed`).

### Workflow

Extends the lifecycle by `later`, the pairs of versions of which the first has
the later `updated_at`. Every action that updates a row of `timetable_version`
is conjoined with `Touch` of the rows its UPDATE reaches; `now()` is the start
of a transaction, so the two versions of one publication tie and
`version_number` decides. `relevantVersion`,
`VersionFacts` and `deriveWorkflowState` are the query, the facts and the
conditions of workflow.go, over the state the lifecycle is in at that moment.
The facts about the set-up of the school come before those about versions and
only replace the state by one that asks for something else, so they are fixed
to "ready"; `selectTerm` is abstracted to a term that is selected. Counts of a
solver run are zero or not: an infeasible result stores zeros, since `Solve`
returns an empty validation for it.

### Outbox

`claim` (SELECT .. FOR UPDATE SKIP LOCKED and UPDATE in one transaction, which
also locks the row of the installation), `Post`, `Record`, `RecordLost` (the
UPDATE fails and the error is dropped), `Stop` (SIGTERM or crash: the batch is
forgotten), `Tick`, `Replay`, `SetInstallation`, `Enqueue`. `held` is the
number of attempts the worker has in memory, read before the claim. `Replay`
has no caller in the repository; it is modelled because the worker exports it.

### Integration

Scholaroscope's events are numbered in its order and arrive late, again and in
any order. `HandleScholaroscopeEvent` authenticates in one statement,
`ApplyEvent` runs the transaction; `BootstrapWorkspace` is one step because its
first upsert locks the row of the workspace. Grants: `Exchange`, `CheckGrant`,
`ConsumeGrant`; sessions: `Logout`, `Expire`, `GetSession`. Signatures are
taken to be authentic, key rotation is not modelled, permissions are abstracted
to one, records are abstracted to their status. One workspace and installation.

### AudienceSolver

The problem is any of `Problems`; infeasible ones are refused by
`analyzeAudienceFeasibility` as in the code. A seeded shuffle can produce any
order, so a placement takes any candidate that passes `canPlaceTask`. Tasks of
equal rank interleave in the model where the code takes them one after the
other, so every order of the code is one of the model's. Left out: soft scores, workload limits, cohort unavailability,
qualification, resources of capacity above one; `COMPLETE` stands for
`COMPLETE_WITH_SOFT_VIOLATIONS` too.

Blocks are taken one after the other in the order of random ids: `StartBlock`
takes any block that has not begun, `turn` keeps it until `LeaveBlock`. Blocks
may overlap (a group may belong to several: delivery_groups.go:317, migration
000010:136). `parallelBlock` is the tag of a task, overwritten by every block
that begins with it; each placement copies it (`blockOf`), also when the task is
placed alone later, and the validator compares the placements of a block by it
(`BlockPeriods`).

`cohortScalar` and `entryRefused` continue past the solver to the unique
indexes that the stored entries must satisfy (generate.go:418, migration
000007): what an attempt returns either can be stored or is one of the two
exceptions that `StoredUnlessSplit` names.

### OrdinaryEngine and ExactColoring

A lesson is an assignment, a set of periods and whether it is double; a slot is
one period or a pair that `pairStarts` cuts greedily as the code does. `phase`
runs through the parts of an attempt in the order of `solveAttempt`: pin, three
colourings, doubles, singles, repair, judge. A pass takes its slots in any
order and any maximum matching, because both are shuffled; placing the lessons
of a matching one after the other is `Placed`, which lets a shared resource go
to either. The budget may run out wherever the code looks at the clock or the
iteration counter (`budgetExceeded`), and the deadline may pass between
attempts (`Return`).

A colouring is placed one colour per step; which matchings can be the next
colour is `colorClasses`: those that leave a graph of smaller degree, which is
all that the theorem behind `exactBipartiteColors` promises. That the code's
construction (padding with two cursors, then a perfect matching per round)
keeps this promise is checked by `ColoringIsExact` on the recursive operators
of `ExactColoring`, for every graph of the family and several orders of the
adjacency lists. That there always is such a matching, so that the guard of
`PlaceColor` never blocks the model where the code goes on, is the theorem
`SolveNeverSticks`.

The validator is modelled by the number of failed results it reports, since
`better` compares that number, and by its soft violations. Problems are well
formed as `loadEngineProblem` builds them: one workspace and term, registered
and qualified assignments, all of them mandatory, resources of capacity 1,
classes without absences. `Existing` and `Incremental` are set by tests only
(generate.go passes neither); they are modelled because `Solve` accepts them.
Variances are left out: nothing compares them.

### SessionScheduling

The transaction that places a session is one step, `ScheduleSession`: its inserts
keep others out until it commits, and two of them cannot wait for each other,
since each takes its keys in the same order (the session first, then slot by
slot, and the indexes of a row in their order). `FetchSession` reads the row
again after the commit, in a step of its own: the session may have been
unscheduled since, and then the request goes on to the next candidate, as it
does when the SELECT fails. Unscheduling is two DELETEs with an observable gap:
`Unschedule` holds the rows it deleted, `UnscheduleSession` commits; an insert
waits for a transaction that has deleted a row in its way. Any statement may
fail (`MaxErrors`).

### BellPeriods

The loops over days, breaks and lessons, one iteration per step, over requests
that the validation may refuse. Sets of positions with "the one that starts
first" stand for the sorted lists. Code that cannot run after validation (the
skipping of a passed break, `PARTIAL_TEACHING_PERIOD`) is left out, and so is
`GenerateAndPersistTimeSlots`, which nothing calls.

### CalendarVersions

`PutCalendar` and `CreateCalendar` read the next number; versions are inserted
(`insertCalendarVersion`, or `CreateCalendarVersionWithSlotsActivated` in a
transaction), slots are inserted, activations deactivate the rows they see when
they begin. Transactions that deactivate all lock the oldest row, so the locked
part is one step at the commit. The unique index on the active version is
checked there (`secondActive`).

## 3. Runs

Every run ends within three minutes with two workers.

| run | instance | shows |
| --- | --- | --- |
| `LifecycleConcurrent` | 2 handlers, 2 versions, 2 writes | races and crashes: one version in force, runs describe entries, publications announced once, late generations leave published entries alone |
| `LifecycleSequential` | 1 handler, 2 snapshots, 2 versions, the term opens and closes | what is published was solved, is announced and never changes (`ImplementsFeed`); the workflow offers publication only of what passes its checks, and shows what is in force |
| `Outbox` | 2 workers, 2 events, batches of 1, 3 attempts, 1 replay, 2 losses | ownership, attempts, truth of DELIVERED; every event is settled or was lost with its worker |
| `Integration` | 2 requests, 2 events delivered without limit, 1 grant | grants, the projection, convergence to the newest snapshot |
| `AudienceSolver` | 2,102 feasible problems: 2 assignments, up to 3 groups, up to 2 blocks that may overlap, 4 periods | no learner or teacher in two places, results can be stored but for two named cases, placed means satisfied, blocks of a complete schedule meet, the loops end |
| `OrdinaryEngine` | 61 problems of up to 3 teachers, 3 classes, 6 assignments, 5 periods on 2 days, 2 restarts; 27 orders of the adjacency lists | occupancy, double lessons, the preflight against all weekly plans, completeness of colourable demand, the colouring itself, best of the restarts, termination |
| `SchedulingConcurrent` | 2 requests, 2 sessions of 1 or 2 slots, 1 teacher, 2 subjects | sessions hold their slots, no double booking, all requests answered |
| `SchedulingSequential` | 1 request, 2 teachers, a break in the day, 1 error | no blocked slot is left behind; "no valid slot" is true |
| `BellPeriods` | days of up to 6 minutes, up to 2 breaks anywhere | slots tile the day, breaks are kept |
| `CalendarConcurrent` | 3 requests, 4 versions, 1 unknown id, 1 error | numbers, one active calendar, its slots, it stays |
| `EditPublishRace`, `SnapshotRace` | smallest instance that shows it | documents the code does not keep (section 6) |

Why the bounds are enough. Races in this code are between two requests: a
third one adds no new statement order on one row, except for calendars, where
an activation, a creation and a second activation meet and three are used. Two
versions and two writes give a predecessor, a successor and an edit of each.
One retry before the last attempt and one after a replay show both ends of the
attempt counter. Batches of one make the batch limit bite with two events;
larger batches are covered by the proofs, which hold for every `BatchSize`. The
families of problems and of requests contain merged and split groups, double
lessons, doubles across a break, blocks that fit, that do not and that overlap, breaks that
touch, overlap, leave the day or fill it. The problems of `OrdinaryEngine` are
chosen by shape: demand that each of the three colourings accepts, with enough
slots and with too few; rings of three teachers and classes, whose matchings
need augmenting paths; absences, a shared resource and odd demand, where the
passes and the exchange do the work; and lessons to keep that still fit or no
longer do. The period of the second day belongs to no pair, and an absence
shifts the greedy cut of the first. `PreflightSound` compares with all 32^n weekly plans.

Symmetry is used where only safety is checked. Deadlock is checked everywhere
but in `BellPeriods`, where a computation ends; a finished attempt of
`AudienceSolver` and a finished `Solve` stutter explicitly.

Fairness. Outbox: workers poll for ever and posts have a timeout, so `claim`,
`Post`, `Record` are weakly fair, and time passes (`Tick`). Integration: a
request ends (weak), and Scholaroscope retries each event until it was applied
once and sends its newest one again and again (strong, an assumption on the
external system taken from docs/integration-contracts.md). SessionScheduling:
the statements of a request are executed (weak); `RequestsAnswered` assumes
that sessions are not unscheduled without end. AudienceSolver, OrdinaryEngine:
a running loop goes on (weak, on everything but the budget, so that `AttemptEnds`
and `SolveEnds` show that the loops end without it).

Every property of a passing run has a mutant in `PROJECT.json`: a plausible bug
of one definition (`Mut_...` in the module) under which TLC refutes it. Types
are proved (`TypeCorrect`) for the modules that have a proof module; for the two
solvers they are part of the invariants their proofs use.

## 4. Proofs

All theorems hold for any values of the constants: any number of handlers,
versions, requests, workers, teachers, classes and periods. They rest on the
named assumptions of the modules, which TLC evaluates in the runs of the module:

| assumption | says | why the code justifies it |
| --- | --- | --- |
| `None` assumptions | the model's "no row" is not a row | NULL is none of the values |
| `LifecycleAssumption`, `OutboxAssumption`, ... | counters are naturals, sets are finite where they are counted | constants of the model |
| `AudienceSolver.GroupsHaveLearners` | a group has a learner | `createDeliveryGroup` refuses others |
| `AudienceSolver.NoneAssumption` | "no block" is no id of a block | an empty string is no UUID |
| `AudienceSolver.ProblemsAreFinite` | finite tables with disjoint keys, demand is an integer | slices and maps; ids of two tables never coincide |
| `OrdinaryEngine.ProblemsAreClosed` | teacher and class of an assignment are in the problem | `loadEngineProblem` enters them with it |
| `OrdinaryEngine.ProblemsAreFinite` | finite problems, demand and limits are naturals | slices and maps; `intRequirement` and a CHECK refuse negative demand |

Two hypotheses stand in theorems instead. `OneAtATime` (any two handlers, or
requests, are the same one) is how "requests do not overlap" is said of a
specification with a constant set of handlers; the runs `LifecycleSequential`
and `SchedulingSequential` are instances, and section 6 shows what races do to
these properties. `NumPeriods > 0` stands in `OnlyHopelessIsRefused`: a week
without periods is refused even when nothing is demanded.

### TimetableLifecycleProofs

With any number of handlers: `IndInv` = types, `AtMostOnePublished`,
`RunDescribesEntries`, `PublicationAnnounced`, and two facts without which
these are not inductive: a handler that is under way works on a version that
exists (`HandlersOnVersions`), and a version that does not exist yet has no
solver run (`AbsentUnsolved`), else `CreateVersion` would meet a run of other
entries. `StepKinds` reduces `Next` to the few steps that touch the tables.
Theorems: `TypeCorrect`, `OnePublished`, `RunsDescribeEntries`,
`AllAnnounced`, and the action properties `NeverRepublished`,
`SupersededBySuccessor`, `GenerationKeepsOff`.

When requests do not overlap: `AloneInv` says for every place a handler can be
at that what it has read is still so (`HandlerIsUpToDate`), and what the writes
of a request that was cut short leave behind. Theorems: `InForceIsSolved`,
`ValidatedIsSolved`, `AmendmentsNameTheirBase`, and the refinement
`PublicationImplementsFeed` (initial states map to initial states, a committed
publication to `Announce`, every other step to a stutter).

Of the workflow, also when requests do not overlap: `ShownInv` adds that
`later` is a strict weak order (`LaterRanks`: rows may tie) and that nothing
that was superseded was updated after what is in force (`ReplacedNotLater`).
`RelevantVersion` says which row the query returns; `Gates` takes the nested
conditions of `deriveWorkflowState` apart. Theorems: `ReadyCanBePublished`,
`PortalShowsInForce`.

### OutboxProofs

`SingleOwner` needs to know that a row in a batch is DELIVERING; the bound on
attempts needs the bound for each status (`StatusBounds`), that the attempts in
memory agree with the row (`AttemptsAgree`), and that posts are counted
(`PostsCounted`). Theorems: `TypeCorrect`, `OwnersAreUnique`,
`NoFalseDelivery`, `AttemptsAreBounded`, `DeliveryIsFinal`.

### IntegrationProofs

The invariants with `RequestsHold`: a request that has authenticated an event
holds one that was emitted, and one that checked a grant holds an issued one.
Theorems: `TypeCorrect`, `GrantsAreSpentOnce`, `ProjectionIsConsistent`,
`ProvisioningAcknowledgedOnce`, `EndedIsEnded`.

### AudienceSolverProofs

`AudienceFreeIsEnough` shows that the four cases of `canPlaceTask` (class or
group against class or group) together keep audiences disjoint, from the facts
that learners of a group belong to its classes (`AudiencesKnown`, established
by the preflight) and that placements are of known tasks. Theorems:
`LearnersNeverClash`, `TeachersClashOnlyInBlocks`, and `RefusedOnlyWhenSplit`,
which adds classes and resources and concludes that the unique indexes accept
a result but for the two named cases.

`MergedLessonsAddUp` is about sums: `LessonsCounted` says that the periods
placed of a task and those that remain are what the task was given. Summed
over the groups of an assignment and its own residual task, this is its demand,
since the preflight has refused assignments whose groups claim more.

`CompleteBlocksMeet` is about tags: by the time single tasks are placed every
block has begun, so every group of a block carries the tag of one of its blocks
(`TagsKnown`), and what the validator compares by tag covers all its lessons.

### OrdinaryEngineProofs

- `OccupancyStaysSound`: `Booked` states each of the three maps against the
  lessons, period by period; `PlaceIsSound` covers pins, colours and passes,
  `ExchangeIsSound` the exchange, which edits two maps by hand.
- `BestIsKept`: `better` compares counts that are naturals (`HardIsNat`,
  `UnscheduledIsNat`); then its third condition cannot lose a lesson, because a
  valid attempt has none left over.
- `CompleteHasDoubles`: `DoublesKept` says that the lessons placed and the
  counters add up to the demand (`Counted`), that at least two periods remain
  for every double that is due (`RoomForDoubles`), and that what a colouring has
  not coloured is still to be placed (`UnitsAreDue`). When nothing remains, no
  double is due.
- `OnlyHopelessIsRefused`: a weekly plan passes every check of the preflight.
  Lessons that share a teacher, a class or a resource are disjoint sets of
  periods, so their sizes and their pairs add up (`PlanCounts`); the total is
  taken teacher by teacher (`TotalByPart`); no choice of disjoint pairs beats
  the greedy one, since every pair begins where the greedy cut begins one or
  right after (`GreedyCut`, `GreedyIsMost`); and with full coverage the lessons
  of one period are a matching that covers the classes (`SimultaneousPlan`).

- `ColoringsComplete`: a problem of a shape that can be coloured (`ExactShape`),
  once past the preflight, is placed completely by every attempt within its
  budget (`ExactCompletes`). The inductive invariant `ColoringPlaces` has three
  parts. Before its colouring an attempt has placed nothing (`Waiting`). While
  it lasts, the units are what remains, a teacher's are no more than the colours
  left, and the slots to come are untouched and do not overlap (`Filling`).
  Afterwards nothing remains (`Filled`). The sums of the preflight bound the
  degree by the number of slots (`ColoringFits`), for pairs because
  `adjacentCapacity` counts the pairs that the greedy cut takes
  (`AdjacentPairs`), and a colour is placed whole because its slot is free for
  everybody. Nothing in the argument depends on which matching a colour is or
  on the order of the slots, both of which the code draws at random.
- `SolveNeverSticks`: as long as it has something to try, an attempt can try it
  (`NeverStuck`). For a colouring, `ColoringPaced` keeps the degree of the units
  at most the colours left and these at most the slots left, and `ColorExists`
  is the theorem of König that the comment on `exactBipartiteColors` relies on:
  a bipartite multigraph has a matching that meets every node of full degree.
  It is proved without induction, from a matching that meets most of them: if
  one is missed, either the matching can be moved along an alternating path to
  meet one more (`Augment`), or the teachers that the paths reach need more
  lessons than their classes can take (`NeighboursSuffice`). This shows that
  the theorems above are not about a model that halts half-way.
- `MeasureIsNatural`, `EveryStepCounts`: why `Solve` ends without its budget.
  Every step, a pass that is repeated and an exchange of the repair included,
  lowers lexicographically: the attempts left, the phases left of the attempt,
  twice the lessons to place (plus one if the pass will be repeated), and the
  pins and slots to look at. All four are naturals because no assignment is
  placed more often than demanded (`NothingOverplaced`), which is not obvious of
  the exchange, the pins and the doubles, each of which edits `remaining`
  in its own way.

Sums and measures need the problem to be finite (`ProblemsAreFinite`):
assignments, availability and kept lessons are slices.

Both solver modules prove the same facts about `MapThenSumSet`, which is a
recursive function over subsets: that it exists for every finite set and does
not depend on the order in which elements are picked (`SumsExist`,
`SumsAgree`). The library's induction theorems cannot be instantiated, so these
are proved by a smallest counterexample (`SmallestSubset`).

### SessionSchedulingProofs

`ConsecutiveIsFull`: as many lesson slots as asked for within the range means
all of them, a pigeonhole argument on cardinalities, so counting is enough to
keep a session out of a break. The indexes keep rows apart (`RowsApart`),
sessions hold their rows, hence sessions are apart. Theorems: `TypeCorrect`,
`SessionsKeepTheirSlots`, `NobodyBookedTwice`. For requests one at a time
`Informed` adds that the rows a request has deleted are all of the session's
and that a candidate it passed over is taken: `NothingStaysBlocked`,
`NoValidSlotAnswered`.

### BellPeriodsProofs

`IndInv` adds where the loops are: everything before `current` is cut
(`AtDay`), the segment ends at a break or at the end of the day (`AtSegment`),
finished days are complete and passed breaks are kept (`Progress`). Theorems:
`TypeCorrect`, `SlotsTileTheDay`, `NoLessonShortened`, `EveryBreakIsKept`.

### CalendarVersionsProofs

The number a request has read is at most the next one, and a number that waits
in an open transaction is not taken and waits once; so no number is skipped or
used twice. Theorems: `TypeCorrect`, `NumberedWithoutGap`, `OneActive`,
`ActiveIsComplete`, and the action property `ActivationsReplace`.

### Only model-checked

- Liveness (`EventuallySettled`, `NewestSnapshotArrives`, `AttemptEnds`,
  `RequestsAnswered`, `SolveEnds`): out of the prover's reach. Of `SolveEnds`
  the two arguments are proved, that no state before the end is stuck and that
  every step lowers a measure; the step from there to the end is not.
- `ColoringIsExact`: about the recursive operators of `ExactColoring`, which
  the prover cannot load. That a colouring exists at every step is proved
  (`ColorExists`); that padding and a perfect matching per round construct it
  would need an induction over rounds.

Proved and no longer checked by a run, because the theorems say more: atomic
succession, the base that an announcement names, finality of DELIVERED, agreement of the attempts, one
acknowledgement per installation, ended sessions, whole lessons.

## 5. What is not modelled

- Creation and disabling of delivery groups and blocks, and their eligibility
  checks (their effect on drafts and on the solver is modelled): planned.
- Which term a date selects (`selectTerm`), class lists, default rooms.
- Workload limits and soft scores of audience problems; variances.
- Rooms and teaching demands: single guarded statements.
- Signatures and canonical JSON: cryptography; authentic events are assumed.
- Legacy event routes: all answer 410.
- Server wiring, health, manifest, database pool, portal UI, benchmarks: I/O
  without state that the others rely on.

## 6. Where the code and its documents part

Shown by runs (TLC prints the trace):

- `EditPublishRace`: "Published versions remain immutable"
  (docs/TIMETABLE_WORKSPACE.md:84). The check of the status and the write of an
  entry are two statements; a publication in between is overwritten.
- `SnapshotRace`: "Generation binds that hash to the draft"
  (docs/TIMETABLE_WORKSPACE.md:81). The hash is read when the result is saved,
  so a snapshot that arrived during the solve is bound to older entries.

The properties of the passing runs name the other exceptions instead of hiding
them:

- `EventuallySettled` excepts `Stranded` events: `claim` takes PENDING rows
  only and `Replay` DEAD_LETTER rows only, so what a stopped worker had claimed,
  or what a failed UPDATE left DELIVERING, is never sent again, although
  docs/adr_external_timetable_plugin.md:37 asks for at-least-once delivery.
- `GenerationSparesPublished` speaks of entries: a generation that ends
  infeasible skips the status check and turns a version published meanwhile
  back into a DRAFT (`persistInfeasible`; generate.go:385, 486), which
  `PublishedOnce` then keeps from being published again.
- `PublishedSolved` and `ImplementsFeed` are checked with one handler, and
  `AmendmentNamesItsBase` is proved for requests that do not overlap. With two, a solver run dropped between the checks and the
  transaction does not stop a publication (handler.go:199, 292), and the
  version a publication supersedes may be another than the one it was diffed
  against (handler.go:230, 278).
- `OccupancyOwned` is checked with one request. With two, a session scheduled
  between the two DELETEs of its unscheduling loses its row and leaves its
  slots blocked (scheduling/repo.go:205, against the comment at line 197).
- `NoValidSlotIsTrue` speaks of behaviours without a failed statement: any
  error, even that of the fetch after the commit, counts as a taken slot
  (service.go:101, against docs/adr_external_timetable_plugin.md:49). With two
  requests no error is needed: when the session is unscheduled between the
  commit and the fetch, the request that placed it goes on and may place it
  again at a later candidate, or answer that there is none (repo.go:136).
- `ActiveHasSlots` excepts requests under way and failures: `POST .../calendar`
  stores version and slots in two statements (calendar/service.go:47), so a
  version without slots stays behind when the second one fails.
- `ActiveStays` excepts the activation of an unknown id, which deactivates the
  calendar in use and answers "activated" (calendar/repo.go:181).
- The theorem `EndedIsEnded` speaks of logout and expiry. A disablement shuts
  sessions out only while it lasts (launch/repo.go:164, against
  docs/adr_external_timetable_plugin.md:33).
- `NewestSnapshotArrives` speaks of the end, when Scholaroscope sends its newest
  snapshot again: no version is compared, so an older snapshot that arrives late
  replaces a newer one until then (provisioning/repo.go:43, against "Out-of-order
  aggregate versions are rejected", docs/integration-contracts.md:25). And it
  speaks of snapshots the service would accept. After a
  late disabling event all but a bootstrap is refused (provisioning/handler.go:58),
  and applying a repeated event again restores its older state
  (handler.go:85).
- `ProjectionIsOneSnapshot` speaks of records: actors whom a snapshot no longer
  names stay ACTIVE (provisioning/repo.go:192).
- `BlocksRunTogether` speaks of complete results: members of a block that fits
  nowhere are placed one by one (audience_solver.go:70), so "placed atomically"
  (docs/SCHEDULING_ENGINE.md:29) holds of these only. And it lets every lesson
  choose its block: the validator compares placements that carry the id of the
  block, and a group of several blocks carries that of the last. Of three
  blocks {G1, G2}, {G1, G3}, {G2, G4} the first may fit nowhere; when the other
  two have placed G1 and G2 apart, no placement carries its id and the schedule
  is COMPLETE, although G1 and G2 "must run in the same period"
  (docs/SCHEDULING_ENGINE.md:11; validator.go:213).
- `StoredUnlessSplit` names two results that the solver returns and the database
  refuses. Two groups of one class in a parallel block, the split lesson of
  docs/SCHEDULING_ENGINE.md:11, satisfy the validator, but both entries carry
  the class (generate.go:418) and `timetable_entry_occupancy_cohort_idx` accepts
  one of them; and a teacher of two members of a block. Either way
  `persistSolveResult` gives up the whole result.
- `ReadyIsPublishable` speaks of the version, not of the snapshot and the term:
  a VALIDATED version whose snapshot is stale is shown READY_TO_PUBLISH, and the
  only thing the portal offers, to publish it, is refused.
- `InForceIsShown` names two cases in which the portal does not show what is in
  force: a publication of an older draft ties with the higher-numbered version
  it supersedes, which is then the one shown (workflow.go:146); and a RUNNING
  job that a crash left behind shows GENERATING until the next generation
  declares it dead (workflow.go:39, generate.go:97).
- An infeasible draft has a solver run with zero conflicts and zero lessons left
  over, so the workflow shows DRAFT_READY_FOR_VALIDATION (`Counts`;
  workflow.go:51, engine.go:56), and its validation always answers BLOCKED.
- `CompleteKeepsDoubles` speaks of problems without lessons to keep: kept single
  lessons can use up the periods of a double, and the validator does not count
  doubles (engine.go:118, validator.go:175).
- The index of open conflicts does not contain the session, so the second
  conflict of a kind is dropped (service.go:105; migration 000001:495).

Seen while reading, outside the models: a manual edit drops the solver run and
a regeneration deletes manual entries, so hand-made changes cannot be published
as they are; disabling a group or block does not invalidate drafts;
`createDeliveryGroup` executes statements while the rows of its query are open;
`authorization.revoked.v1` is answered "ignored"; `Replay` does not reset
attempts; residual doubles are lost silently by a clamp in the audience solver;
the snapshot hash does not cover the calendar, and a timetable
keeps the calendar it was created with, while the workflow counts the periods of
the active one; the default room of a class is checked for exclusiveness in one
statement and assigned in another (academic.go).

## 7. Plan

Done in this order: lifecycle and feed, outbox, integration, audience solver,
session scheduling, bell periods, calendar versions; their proofs; the ordinary
engine with its colouring, the workflow over the lifecycle, and what of a result
can be stored; the proofs for calendars, for requests that do not overlap, for
the workflow and for both solvers, complete colourings and the termination
argument of the ordinary one among them.

Next:
1. `DeliveryGroups`: creation of groups and blocks with their eligibility
   checks, composed with `AudienceSolver` (what creation guarantees is what the
   preflight needs).
2. Compositions: lifecycle with calendar versions (drafts generated from a
   calendar that is no longer active), lifecycle with outbox (from publication
   to delivery).
