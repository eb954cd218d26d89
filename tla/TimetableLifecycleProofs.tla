---------------------- MODULE TimetableLifecycleProofs ----------------------
(***************************************************************************)
(* Proofs about TimetableLifecycle and Workflow, for any number of         *)
(* handlers, snapshots, versions and writes.                               *)
(*                                                                         *)
(* The properties of races are inductive only together with two facts     *)
(* about what the handlers hold: a handler works on a version that exists, *)
(* and a version that does not exist yet has no solver run waiting for it. *)
(*                                                                         *)
(* What the documents promise of publication and the portal holds when     *)
(* requests do not overlap (OneAtATime): what a handler has read is then   *)
(* still true when it writes, also after another one was cut short.        *)
(***************************************************************************)
EXTENDS Workflow, FiniteSetTheorems, SequenceTheorems, WellFoundedInduction, TLAPS

HandlersOnVersions ==
  \A h \in Handlers :
    at[h] # "idle" => req[h].v \in Version /\ Exists(req[h].v)

AbsentUnsolved ==
  \A v \in Version : ~Exists(v) => solverRun[v] = NoRun

IndInv ==
  /\ TypeOK
  /\ HandlersOnVersions
  /\ AbsentUnsolved
  /\ AtMostOnePublished
  /\ RunDescribesEntries
  /\ PublicationAnnounced

-----------------------------------------------------------------------------
(***************************************************************************)
(* Types.                                                                  *)
(***************************************************************************)
HandlersTyped ==
  /\ at \in [Handlers -> Step]
  /\ req \in [Handlers -> Request]

\* The constants that stand for empty rows have the rows' types.
LEMMA EmptyRows ==
  /\ NoRows \in EntryRows
  /\ NoRun \in RunRow
  /\ NoRequest \in Request
  BY LifecycleAssumption
  DEF NoRows, EntryRows, NoRun, RunRow, NoRequest, Request, Stamp

\* The ways a handler moves keep its control state and memory typed.
LEMMA ControlTyped ==
  ASSUME HandlersTyped, NEW h \in Handlers, NEW step \in Step
  PROVE  /\ Goto(h, step) => HandlersTyped'
         /\ Answer(h) => HandlersTyped'
         /\ \A v \in Version : Begin(h, v, step) => HandlersTyped'
         /\ \A r \in Request : Learn(h, step, r) => HandlersTyped'
<1> USE EmptyRows
<1>1. Goto(h, step) => HandlersTyped'
  BY DEF Goto, HandlersTyped
<1>2. Answer(h) => HandlersTyped'
  BY DEF Answer, HandlersTyped, Step
<1>3. ASSUME NEW v \in Version, Begin(h, v, step)
      PROVE  HandlersTyped'
  <2>1. [req[h] EXCEPT !.v = v] \in Request
    BY LifecycleAssumption DEF HandlersTyped, Request, Version
  <2> QED
    BY <1>3, <2>1 DEF Begin, HandlersTyped
<1>4. ASSUME NEW r \in Request, Learn(h, step, r)
      PROVE  HandlersTyped'
  BY <1>4 DEF Learn, HandlersTyped
<1> QED
  BY <1>1, <1>2, <1>3, <1>4

\* Every name of a step that an action uses is a step.
LEMMA StepNames ==
  {"idle", "v_conflicts", "v_run", "v_summary", "v_write", "p_status",
   "p_run", "p_conflicts", "p_blocker", "p_select", "p_entries",
   "p_supersede", "p_commit", "e_write", "e_reset", "g_start", "g_load",
   "g_persist", "g_finish"} \subseteq Step
  BY DEF Step

\* A step that touches no table keeps the types if it keeps the handlers'.
LEMMA TypesOfReads ==
  ASSUME TypeOK, UNCHANGED tables, HandlersTyped'
  PROVE  TypeOK'
  BY DEF TypeOK, tables, HandlersTyped

\* So does one that rebuilds the conflicts of a version.
LEMMA TypesOfRebuild ==
  ASSUME TypeOK, NEW v, rebuildConflictsForVersion(v),
         UNCHANGED tablesButConflict, HandlersTyped'
  PROVE  TypeOK'
<1>1. conflict' \in [Version -> BOOLEAN]
  BY DEF rebuildConflictsForVersion, DetectedConflicts, TypeOK
<1> QED
  BY <1>1 DEF TypeOK, tablesButConflict, HandlersTyped

\* And one that writes only versions.
LEMMA TypesOfVersionWrite ==
  ASSUME TypeOK, version' \in [Version -> VersionRow],
         UNCHANGED tablesButVersion, HandlersTyped'
  PROVE  TypeOK'
  BY DEF TypeOK, tablesButVersion, HandlersTyped

LEMMA TypesOfValidate ==
  ASSUME TypeOK, NEW h \in Handlers, Validate(h)
  PROVE  TypeOK'
<1> USE StepNames
<1>0. HandlersTyped
  BY DEF TypeOK, HandlersTyped
<1>1. ASSUME NEW v \in Version, ValidateVersion(h, v)
      PROVE  TypeOK'
  BY <1>0, <1>1, TypesOfReads, ControlTyped DEF ValidateVersion
<1>2. CASE ValidateConflicts(h)
  BY <1>0, <1>2, TypesOfRebuild, ControlTyped DEF ValidateConflicts
<1>3. CASE ValidateRun(h)
  <2>1. [req[h] EXCEPT !.complete = solverRun[req[h].v].status = "COMPLETE"]
          \in Request
    BY <1>0 DEF HandlersTyped, Request
  <2> QED
    BY <1>0, <1>3, <2>1, TypesOfReads, ControlTyped DEF ValidateRun
<1>4. CASE ValidateSummary(h)
  <2>1. [req[h] EXCEPT !.complete = @ /\ ~conflict[req[h].v]] \in Request
    BY <1>0 DEF HandlersTyped, Request
  <2> QED
    BY <1>0, <1>4, <2>1, TypesOfReads, ControlTyped DEF ValidateSummary
<1>5. CASE ValidateWrite(h)
  <2>0. \A status \in Status :
          StatusAfterValidation(status, req[h].complete) \in Status
    BY DEF StatusAfterValidation, Status
  <2>1. version' \in [Version -> VersionRow]
    BY <1>5, <2>0 DEF ValidateWrite, TypeOK, VersionRow
  <2> QED
    BY <1>0, <1>5, <2>1, TypesOfVersionWrite, ControlTyped DEF ValidateWrite
<1> QED
  BY <1>1, <1>2, <1>3, <1>4, <1>5 DEF Validate

LEMMA TypesOfPublish ==
  ASSUME TypeOK, HandlersOnVersions, NEW h \in Handlers, Publish(h)
  PROVE  TypeOK'
<1> USE StepNames
<1>0. HandlersTyped
  BY DEF TypeOK, HandlersTyped
<1>v. at[h] # "idle" => req[h].v \in Version
  BY DEF HandlersOnVersions
<1>1. ASSUME NEW v \in Version, PublishVersion(h, v)
      PROVE  TypeOK'
  BY <1>0, <1>1, TypesOfReads, ControlTyped DEF PublishVersion
<1>2. CASE PublishStatus(h)
  BY <1>0, <1>2, TypesOfReads, ControlTyped DEF PublishStatus, GotoOrAnswer
<1>3. CASE PublishRun(h)
  <2>1. [req[h] EXCEPT !.complete = solverRun[req[h].v].status = "COMPLETE"]
          \in Request
    BY <1>0 DEF HandlersTyped, Request
  <2> QED
    BY <1>0, <1>3, <2>1, TypesOfReads, ControlTyped DEF PublishRun
<1>4. CASE PublishConflicts(h)
  BY <1>0, <1>4, TypesOfRebuild, ControlTyped DEF PublishConflicts
<1>5. CASE PublishBlocker(h)
  <2>1. [req[h] EXCEPT !.complete = FALSE] \in Request
    BY <1>0 DEF HandlersTyped, Request
  <2> QED
    BY <1>0, <1>5, <2>1, TypesOfReads, ControlTyped DEF PublishBlocker
<1>6. CASE PublishSelect(h)
  <2>1. previousVersion(req[h].v) \subseteq 0..MaxVersion
    BY LifecycleAssumption DEF previousVersion, Published, Version
  <2>2. ASSUME NEW base \in 0..MaxVersion
        PROVE  [req[h] EXCEPT !.base = base] \in Request
    BY <1>0 DEF HandlersTyped, Request
  <2> QED
    BY <1>0, <1>6, <2>1, <2>2, TypesOfReads, ControlTyped DEF PublishSelect
<1>7. CASE PublishEntries(h)
  <2>1. entries[req[h].v].stamp \in Stamp
    BY <1>7, <1>v DEF PublishEntries, TypeOK, EntryRows
  <2>2. [req[h] EXCEPT !.payload = entries[req[h].v].stamp] \in Request
    BY <1>0, <2>1 DEF HandlersTyped, Request
  <2> QED
    BY <1>0, <1>7, <2>2, TypesOfReads, ControlTyped DEF PublishEntries
<1>8. CASE PublishSupersede(h)
  <2>1. Published \ {req[h].v} \in SUBSET Version
    BY DEF Published
  <2>2. [req[h] EXCEPT !.replaced = Published \ {req[h].v}] \in Request
    BY <1>0, <2>1 DEF HandlersTyped, Request
  <2> QED
    BY <1>0, <1>8, <2>2, TypesOfReads, ControlTyped DEF PublishSupersede
<1>9. CASE PublishCommit(h)
  <2>1. version' \in [Version -> VersionRow]
    BY <1>9 DEF PublishCommit, PublishedStatuses, TypeOK, VersionRow, Status
  <2>2. outbox' \in SUBSET Event
    BY <1>9, <1>v
    DEF PublishCommit, PublicationEvents, TypeOK, Event, Request
  <2>3. HandlersTyped'
    BY <1>0, <1>9, ControlTyped DEF PublishCommit
  <2> QED
    BY <1>9, <2>1, <2>2, <2>3 DEF PublishCommit, TypeOK, HandlersTyped
<1>10. CASE PublishRollback(h)
  BY <1>0, <1>10, TypesOfReads, ControlTyped DEF PublishRollback
<1> QED
  BY <1>1, <1>2, <1>3, <1>4, <1>5, <1>6, <1>7, <1>8, <1>9, <1>10 DEF Publish

LEMMA TypesOfEdit ==
  ASSUME TypeOK, HandlersOnVersions, NEW h \in Handlers, Edit(h)
  PROVE  TypeOK'
<1> USE StepNames
<1>0. HandlersTyped
  BY DEF TypeOK, HandlersTyped
<1>1. ASSUME NEW v \in Version, EditEntry(h, v)
      PROVE  TypeOK'
  BY <1>0, <1>1, TypesOfReads, ControlTyped DEF EditEntry
<1>2. CASE EditWrite(h)
  <2>0. writes + 1 \in Stamp
    BY <1>2, LifecycleAssumption DEF EditWrite, WriteEntries, TypeOK, Stamp
  <2>1. writes' \in Stamp /\ entries' \in [Version -> EntryRows]
    BY <1>2, <2>0 DEF EditWrite, WriteEntries, TypeOK, EntryRows
  <2>2. solverRun' \in [Version -> RunRow]
    BY <1>2, EmptyRows DEF EditWrite, RunAfterEntryWrite, TypeOK
  <2>3. HandlersTyped'
    BY <1>0, <1>2, ControlTyped DEF EditWrite
  <2> QED
    BY <1>2, <2>1, <2>2, <2>3 DEF EditWrite, TypeOK, HandlersTyped
<1>3. CASE EditRefused(h)
  BY <1>0, <1>3, TypesOfReads, ControlTyped DEF EditRefused
<1>4. CASE EditReset(h)
  <2>0. \A status \in Status : StatusAfterEdit(status) \in Status
    BY DEF StatusAfterEdit, Status
  <2>1. version' \in [Version -> VersionRow]
    BY <1>4, <2>0 DEF EditReset, TypeOK, VersionRow
  <2> QED
    BY <1>0, <1>4, <2>1, TypesOfVersionWrite, ControlTyped DEF EditReset
<1> QED
  BY <1>1, <1>2, <1>3, <1>4 DEF Edit

LEMMA TypesOfGenerate ==
  ASSUME TypeOK, HandlersOnVersions, NEW h \in Handlers, Generate(h)
  PROVE  TypeOK'
<1> USE StepNames
<1>0. HandlersTyped
  BY DEF TypeOK, HandlersTyped
<1>v. at[h] # "idle" => req[h].v \in Version
  BY DEF HandlersOnVersions
<1>r. [req[h] EXCEPT !.basis = None] \in Request
  BY <1>0 DEF HandlersTyped, Request
<1>g. ASSUME NEW v \in Version
      PROVE  GeneratedVersion(v) \in VersionRow
  BY DEF GeneratedVersion, VersionRow, Status, TypeOK
<1>1. ASSUME NEW v \in Version, GenerateVersion(h, v)
      PROVE  TypeOK'
  BY <1>0, <1>1, TypesOfReads, ControlTyped DEF GenerateVersion
<1>2. CASE startGenerationJob(h)
  <2>1. job' \in [Version -> Handlers \cup {None, "interrupted"}]
    BY <1>2 DEF startGenerationJob, TypeOK
  <2>2. HandlersTyped'
    BY <1>0, <1>2, ControlTyped DEF startGenerationJob
  <2> QED
    BY <1>2, <2>1, <2>2 DEF startGenerationJob, TypeOK, HandlersTyped
<1>3. CASE loadEngineProblem(h)
  <2>1. [req[h] EXCEPT !.basis = workspaceHash] \in Request
    BY <1>0 DEF HandlersTyped, Request, TypeOK
  <2> QED
    BY <1>0, <1>3, <2>1, TypesOfReads, ControlTyped DEF loadEngineProblem
<1>4. CASE persistSolveResult(h)
  <2>1. PICK result \in SolveStatus \ {"INFEASIBLE"} :
          /\ WriteEntries(req[h].v, req[h].basis)
          /\ solverRun' = [solverRun EXCEPT ![req[h].v] =
                             [status |-> result, stamp |-> writes + 1]]
    BY <1>4 DEF persistSolveResult
  <2>2. req[h].basis \in Snapshots \cup {None}
    BY <1>0 DEF HandlersTyped, Request
  <2>3. writes + 1 \in Stamp
    BY <2>1, LifecycleAssumption DEF WriteEntries, TypeOK, Stamp
  <2>4. writes' \in Stamp /\ entries' \in [Version -> EntryRows]
    BY <2>1, <2>2, <2>3 DEF WriteEntries, TypeOK, EntryRows
  <2>5. solverRun' \in [Version -> RunRow]
    BY <2>1, <2>3 DEF TypeOK, RunRow
  <2>6. version' \in [Version -> VersionRow]
    BY <1>4, <1>v, <1>g DEF persistSolveResult, TypeOK
  <2>7. HandlersTyped'
    BY <1>0, <1>4, <1>r, ControlTyped DEF persistSolveResult
  <2> QED
    BY <1>4, <2>4, <2>5, <2>6, <2>7
    DEF persistSolveResult, TypeOK, HandlersTyped
<1>5. CASE persistInfeasible(h)
  <2>1. entries[req[h].v].stamp \in Stamp
    BY <1>5, <1>v DEF persistInfeasible, TypeOK, EntryRows
  <2>2. solverRun' \in [Version -> RunRow]
    BY <1>5, <2>1 DEF persistInfeasible, TypeOK, RunRow, SolveStatus
  <2>3. version' \in [Version -> VersionRow]
    BY <1>5, <1>v, <1>g DEF persistInfeasible, TypeOK
  <2>4. HandlersTyped'
    BY <1>0, <1>5, <1>r, ControlTyped DEF persistInfeasible
  <2> QED
    BY <1>5, <2>2, <2>3, <2>4 DEF persistInfeasible, TypeOK, HandlersTyped
<1>6. CASE persistRollback(h)
  BY <1>0, <1>6, <1>r, TypesOfReads, ControlTyped DEF persistRollback
<1>7. CASE GenerateFinish(h)
  <2>1. job' \in [Version -> Handlers \cup {None, "interrupted"}]
    BY <1>7 DEF GenerateFinish, TypeOK
  <2>2. HandlersTyped'
    BY <1>0, <1>7, ControlTyped DEF GenerateFinish
  <2> QED
    BY <1>7, <2>1, <2>2 DEF GenerateFinish, TypeOK, HandlersTyped
<1> QED
  BY <1>1, <1>2, <1>3, <1>4, <1>5, <1>6, <1>7 DEF Generate

\* Requests of one transaction, syncs, the term and handlers that stop.
Others ==
  \/ \E h \in Handlers :
       \/ createTimetable(h)
       \/ \E v \in Version : CreateVersion(h, v)
       \/ invalidateDraftsForTermTx(h)
       \/ HandlerStops(h)
  \/ SyncWorkspace
  \/ TermLifecycle

LEMMA TypesOfOthers ==
  ASSUME TypeOK, Others
  PROVE  TypeOK'
<1> USE StepNames, EmptyRows
<1>0. HandlersTyped
  BY DEF TypeOK, HandlersTyped
<1>1. ASSUME NEW h \in Handlers, createTimetable(h)
      PROVE  TypeOK'
  BY <1>1 DEF createTimetable, TypeOK, VersionRow, Status
<1>2. ASSUME NEW h \in Handlers, NEW v \in Version, CreateVersion(h, v)
      PROVE  TypeOK'
  <2>1. v - 1 \in Version
    BY <1>2, LifecycleAssumption DEF CreateVersion, Version
  <2>2. version' \in [Version -> VersionRow]
    BY <1>2 DEF CreateVersion, TypeOK, VersionRow, Status
  <2>3. entries' \in [Version -> EntryRows]
    BY <1>2, <2>1 DEF CreateVersion, TypeOK
  <2> QED
    BY <1>2, <2>2, <2>3 DEF CreateVersion, TypeOK
<1>3. ASSUME NEW h \in Handlers, invalidateDraftsForTermTx(h)
      PROVE  TypeOK'
  BY <1>3 DEF invalidateDraftsForTermTx, TypeOK
<1>4. ASSUME NEW h \in Handlers, HandlerStops(h)
      PROVE  TypeOK'
  <2>1. job' \in [Version -> Handlers \cup {None, "interrupted"}]
    BY <1>4 DEF HandlerStops, TypeOK
  <2>2. HandlersTyped'
    BY <1>0, <1>4, ControlTyped DEF HandlerStops
  <2> QED
    BY <1>4, <2>1, <2>2 DEF HandlerStops, TypeOK, HandlersTyped
<1>5. CASE SyncWorkspace
  BY <1>5 DEF SyncWorkspace, TypeOK
<1>6. CASE TermLifecycle
  BY <1>6, LifecycleAssumption DEF TermLifecycle, TypeOK
<1> QED
  BY <1>1, <1>2, <1>3, <1>4, <1>5, <1>6 DEF Others

\* The type invariant is preserved by every step.
LEMMA TypesOfNext ==
  ASSUME TypeOK, HandlersOnVersions, [Next]_vars
  PROVE  TypeOK'
<1>1. CASE UNCHANGED vars
  BY <1>1 DEF vars, TypeOK
<1>2. CASE Next
  <2>1. Others \/ \E h \in Handlers :
          Validate(h) \/ Publish(h) \/ Edit(h) \/ Generate(h)
    BY <1>2 DEF Next, Others
  <2> QED
    BY <2>1, TypesOfValidate, TypesOfPublish, TypesOfEdit, TypesOfGenerate,
       TypesOfOthers
<1> QED
  BY <1>1, <1>2

-----------------------------------------------------------------------------
(***************************************************************************)
(* The kinds of steps, by the tables of the version they write.            *)
(***************************************************************************)
Quiet == UNCHANGED <<version, entries, solverRun, outbox>>

Restatus(h) == ValidateWrite(h) \/ EditReset(h)

LEMMA StepKinds ==
  ASSUME [Next]_vars
  PROVE  \/ Quiet
         \/ \E h \in Handlers :
              \/ Restatus(h) \/ PublishCommit(h) \/ EditWrite(h)
              \/ persistSolveResult(h) \/ persistInfeasible(h)
              \/ createTimetable(h) \/ \E v \in Version : CreateVersion(h, v)
              \/ invalidateDraftsForTermTx(h)
<1> USE DEF Quiet, tables, tablesButConflict
<1>1. CASE UNCHANGED vars
  BY <1>1 DEF vars
<1>2. ASSUME NEW h \in Handlers, Validate(h)
      PROVE  Quiet \/ Restatus(h)
  BY <1>2 DEF Validate, ValidateVersion, ValidateConflicts, ValidateRun,
              ValidateSummary, Restatus
<1>3. ASSUME NEW h \in Handlers, Publish(h)
      PROVE  Quiet \/ PublishCommit(h)
  BY <1>3 DEF Publish, PublishVersion, PublishStatus, PublishRun,
              PublishConflicts, PublishBlocker, PublishSelect,
              PublishEntries, PublishSupersede, PublishRollback
<1>4. ASSUME NEW h \in Handlers, Edit(h)
      PROVE  Quiet \/ Restatus(h) \/ EditWrite(h)
  BY <1>4 DEF Edit, EditEntry, EditRefused, Restatus
<1>5. ASSUME NEW h \in Handlers, Generate(h)
      PROVE  Quiet \/ persistSolveResult(h) \/ persistInfeasible(h)
  BY <1>5 DEF Generate, GenerateVersion, startGenerationJob,
              loadEngineProblem, persistRollback, GenerateFinish
<1>6. (\E h \in Handlers : HandlerStops(h)) \/ SyncWorkspace \/ TermLifecycle
        => Quiet
  BY DEF HandlerStops, SyncWorkspace, TermLifecycle
<1> QED
  BY <1>1, <1>2, <1>3, <1>4, <1>5, <1>6 DEF Next

\* Validation and the reset after an edit only move a version between DRAFT
\* and VALIDATED.
LEMMA RestatusKinds ==
  ASSUME TypeOK, NEW h \in Handlers, Restatus(h), NEW u \in Version
  PROVE  \/ version'[u].status = version[u].status
         \/ /\ version[u].status \notin Frozen
            /\ version'[u].status \in {"DRAFT", "VALIDATED"}
<1>1. CASE ValidateWrite(h)
  <2>1. \/ version'[u] = version[u]
        \/ version'[u].status =
             StatusAfterValidation(version[u].status, req[h].complete)
    BY <1>1 DEF ValidateWrite, TypeOK, VersionRow
  <2> QED
    BY <2>1 DEF StatusAfterValidation
<1>2. CASE EditReset(h)
  <2>1. \/ version'[u] = version[u]
        \/ version'[u].status = StatusAfterEdit(version[u].status)
    BY <1>2 DEF EditReset, TypeOK, VersionRow
  <2> QED
    BY <2>1 DEF StatusAfterEdit, Frozen
<1> QED
  BY <1>1, <1>2 DEF Restatus

\* No step makes a version disappear.
LEMMA VersionsStay ==
  ASSUME TypeOK, [Next]_vars, NEW u \in Version, Exists(u)
  PROVE  Exists(u)'
<1> USE DEF Exists
<1>1. CASE Quiet
  BY <1>1 DEF Quiet
<1>2. ASSUME NEW h \in Handlers, Restatus(h)
      PROVE  Exists(u)'
  BY <1>2, RestatusKinds
<1>3. ASSUME NEW h \in Handlers, PublishCommit(h)
      PROVE  Exists(u)'
  BY <1>3 DEF PublishCommit, PublishedStatuses, TypeOK, VersionRow
<1>4. ASSUME NEW h \in Handlers, EditWrite(h) \/ invalidateDraftsForTermTx(h)
      PROVE  Exists(u)'
  BY <1>4 DEF EditWrite, invalidateDraftsForTermTx
<1>5. ASSUME NEW h \in Handlers, persistSolveResult(h) \/ persistInfeasible(h)
      PROVE  Exists(u)'
  BY <1>5 DEF persistSolveResult, persistInfeasible, GeneratedVersion, TypeOK
<1>6. ASSUME NEW h \in Handlers,
             createTimetable(h) \/ \E v \in Version : CreateVersion(h, v)
      PROVE  Exists(u)'
  BY <1>6 DEF createTimetable, CreateVersion, TypeOK
<1> QED
  BY StepKinds, <1>1, <1>2, <1>3, <1>4, <1>5, <1>6

-----------------------------------------------------------------------------
(***************************************************************************)
(* Handlers work on versions that exist.                                   *)
(***************************************************************************)
LEMMA ControlOnVersions ==
  ASSUME HandlersTyped, HandlersOnVersions, NEW h \in Handlers, NEW step,
         \A u \in Version : Exists(u) => Exists(u)'
  PROVE  /\ at[h] # "idle" /\ Goto(h, step) => HandlersOnVersions'
         /\ Answer(h) => HandlersOnVersions'
         /\ \A v \in Version : Begin(h, v, step) => HandlersOnVersions'
         /\ \A r : at[h] # "idle" /\ r.v = req[h].v /\ Learn(h, step, r)
                    => HandlersOnVersions'
         /\ UNCHANGED <<at, req>> => HandlersOnVersions'
<1> USE DEF HandlersOnVersions, HandlersTyped
<1>1. at[h] # "idle" /\ Goto(h, step) => HandlersOnVersions'
  BY DEF Goto
<1>2. Answer(h) => HandlersOnVersions'
  BY DEF Answer
<1>3. ASSUME NEW v \in Version, Begin(h, v, step)
      PROVE  HandlersOnVersions'
  <2>1. req'[h].v = v
    BY <1>3 DEF Begin, Request
  <2>2. \A g \in Handlers \ {h} : at'[g] = at[g] /\ req'[g] = req[g]
    BY <1>3 DEF Begin
  <2>3. Exists(v)'
    BY <1>3 DEF Begin
  <2> QED
    BY <2>1, <2>2, <2>3
<1>4. ASSUME NEW r, at[h] # "idle", r.v = req[h].v, Learn(h, step, r)
      PROVE  HandlersOnVersions'
  BY <1>4 DEF Learn
<1>5. UNCHANGED <<at, req>> => HandlersOnVersions'
  OBVIOUS
<1> QED
  BY <1>1, <1>2, <1>3, <1>4, <1>5

LEMMA NextOnVersions ==
  ASSUME TypeOK, HandlersOnVersions, [Next]_vars
  PROVE  HandlersOnVersions'
<1>0. HandlersTyped /\ \A u \in Version : Exists(u) => Exists(u)'
  BY VersionsStay DEF TypeOK, HandlersTyped
<1>r. ASSUME NEW h \in Handlers
      PROVE  /\ \A x : [req[h] EXCEPT !.complete = x].v = req[h].v
             /\ \A x : [req[h] EXCEPT !.base = x].v = req[h].v
             /\ \A x : [req[h] EXCEPT !.payload = x].v = req[h].v
             /\ \A x : [req[h] EXCEPT !.replaced = x].v = req[h].v
             /\ \A x : [req[h] EXCEPT !.basis = x].v = req[h].v
  BY DEF TypeOK, Request
<1>1. CASE UNCHANGED vars
  BY <1>0, <1>1 DEF vars, HandlersOnVersions
<1>2. ASSUME NEW h \in Handlers, Validate(h)
      PROVE  HandlersOnVersions'
  BY <1>0, <1>2, <1>r, ControlOnVersions
  DEF Validate, ValidateVersion, ValidateConflicts, ValidateRun,
      ValidateSummary, ValidateWrite
<1>3. ASSUME NEW h \in Handlers, Publish(h)
      PROVE  HandlersOnVersions'
  BY <1>0, <1>3, <1>r, ControlOnVersions
  DEF Publish, PublishVersion, PublishStatus, GotoOrAnswer, PublishRun,
      PublishConflicts, PublishBlocker, PublishSelect, PublishEntries,
      PublishSupersede, PublishCommit, PublishRollback
<1>4. ASSUME NEW h \in Handlers, Edit(h)
      PROVE  HandlersOnVersions'
  BY <1>0, <1>4, ControlOnVersions
  DEF Edit, EditEntry, EditWrite, EditRefused, EditReset
<1>5. ASSUME NEW h \in Handlers, Generate(h)
      PROVE  HandlersOnVersions'
  BY <1>0, <1>5, <1>r, ControlOnVersions
  DEF Generate, GenerateVersion, startGenerationJob, loadEngineProblem,
      persistSolveResult, persistInfeasible, persistRollback, GenerateFinish
<1>6. CASE Others
  <2>1. CASE \E h \in Handlers : HandlerStops(h)
    BY <1>0, <2>1, ControlOnVersions DEF HandlerStops
  <2>2. CASE UNCHANGED <<at, req>>
    BY <1>0, <2>2 DEF HandlersOnVersions
  <2> QED
    BY <1>6, <2>1, <2>2
    DEF Others, createTimetable, CreateVersion, invalidateDraftsForTermTx,
        SyncWorkspace, TermLifecycle
<1> QED
  BY <1>1, <1>2, <1>3, <1>4, <1>5, <1>6 DEF Next, Others

-----------------------------------------------------------------------------
(***************************************************************************)
(* The invariants of the version tables, kind of step by kind of step.     *)
(***************************************************************************)

\* A publication that commits leaves its own version as the only one in
\* force: whatever else was, is in the set its UPDATE superseded.
LEMMA CommitLeavesOne ==
  ASSUME TypeOK, HandlersOnVersions, NEW h \in Handlers, PublishCommit(h)
  PROVE  \A u \in Version :
           /\ u = req[h].v => version'[u].status = "PUBLISHED"
           /\ u # req[h].v /\ version[u].status = "PUBLISHED"
                => version'[u].status = "SUPERSEDED"
           /\ u # req[h].v /\ version[u].status # "PUBLISHED"
                => version'[u] = version[u]
<1>1. req[h].v \in Version
  BY DEF PublishCommit, HandlersOnVersions
<1>2. Published \ {req[h].v} \subseteq req[h].replaced
  BY DEF PublishCommit, noPublishedOverlap
<1>3. version' = PublishedStatuses(req[h].v, req[h].replaced)
  BY DEF PublishCommit
<1> QED
  BY <1>1, <1>2, <1>3 DEF PublishedStatuses, Published, TypeOK, VersionRow

\* Only a publication puts a version in force or supersedes one.
LEMMA OnlyCommitPublishes ==
  ASSUME TypeOK, [Next]_vars, NEW u \in Version,
         \A h \in Handlers : ~PublishCommit(h)
  PROVE  version'[u].status \in Frozen => version'[u].status = version[u].status
<1>1. CASE Quiet
  BY <1>1 DEF Quiet
<1>2. ASSUME NEW h \in Handlers, Restatus(h)
      PROVE  version'[u].status \in Frozen =>
               version'[u].status = version[u].status
  BY <1>2, RestatusKinds DEF Frozen
<1>3. ASSUME NEW h \in Handlers, EditWrite(h) \/ invalidateDraftsForTermTx(h)
      PROVE  version' = version
  BY <1>3 DEF EditWrite, invalidateDraftsForTermTx
<1>4. ASSUME NEW h \in Handlers, persistSolveResult(h) \/ persistInfeasible(h)
      PROVE  version'[u] = version[u] \/ version'[u].status = "DRAFT"
  BY <1>4 DEF persistSolveResult, persistInfeasible, GeneratedVersion, TypeOK
<1>5. ASSUME NEW h \in Handlers,
             createTimetable(h) \/ \E v \in Version : CreateVersion(h, v)
      PROVE  version'[u] = version[u] \/ version'[u].status = "DRAFT"
  BY <1>5 DEF createTimetable, CreateVersion, TypeOK
<1> QED
  BY StepKinds, <1>1, <1>2, <1>3, <1>4, <1>5 DEF Frozen

\* The outbox grows by publications only.
LEMMA OnlyCommitAnnounces ==
  ASSUME [Next]_vars, \A h \in Handlers : ~PublishCommit(h)
  PROVE  outbox' = outbox
  BY StepKinds
  DEF Quiet, Restatus, ValidateWrite, EditReset, tablesButVersion, EditWrite,
      persistSolveResult, persistInfeasible, createTimetable, CreateVersion,
      invalidateDraftsForTermTx

LEMMA AtMostOnePublishedStep ==
  ASSUME IndInv, [Next]_vars
  PROVE  AtMostOnePublished'
<1>1. ASSUME NEW h \in Handlers, PublishCommit(h)
      PROVE  AtMostOnePublished'
  BY <1>1, CommitLeavesOne DEF AtMostOnePublished, IndInv
<1>2. ASSUME \A h \in Handlers : ~PublishCommit(h)
      PROVE  AtMostOnePublished'
  BY <1>2, OnlyCommitPublishes DEF AtMostOnePublished, IndInv, Frozen
<1> QED
  BY <1>1, <1>2

LEMMA PublicationAnnouncedStep ==
  ASSUME IndInv, [Next]_vars
  PROVE  PublicationAnnounced'
<1>1. ASSUME NEW h \in Handlers, PublishCommit(h)
      PROVE  PublicationAnnounced'
  <2> DEFINE e == [version |-> req[h].v, base |-> req[h].base,
                   payload |-> req[h].payload]
  <2>1. outbox' = outbox \cup {e} /\ \A f \in outbox : f.version # req[h].v
    BY <1>1 DEF PublishCommit, PublicationEvents, idempotencyKeyFree
  <2>2. \A u \in Version : version'[u].status \in Frozen =>
          u = req[h].v \/ version[u].status \in Frozen
    BY <1>1, CommitLeavesOne DEF IndInv, Frozen
  <2>3. e.version = req[h].v
    OBVIOUS
  <2> HIDE DEF e
  <2>4. \A v \in Version : version'[v].status \in Frozen =>
          \E f \in outbox' : f.version = v
    BY <2>1, <2>2, <2>3 DEF PublicationAnnounced, IndInv
  <2>5. \A f, g \in outbox' : f.version = g.version => f = g
    BY <2>1, <2>3 DEF PublicationAnnounced, IndInv
  <2> QED
    BY <2>4, <2>5 DEF PublicationAnnounced
<1>2. ASSUME \A h \in Handlers : ~PublishCommit(h)
      PROVE  PublicationAnnounced'
  BY <1>2, OnlyCommitPublishes, OnlyCommitAnnounces
  DEF PublicationAnnounced, IndInv
<1> QED
  BY <1>1, <1>2

LEMMA AbsentUnsolvedStep ==
  ASSUME IndInv, [Next]_vars
  PROVE  AbsentUnsolved'
<1>0. TypeOK /\ AbsentUnsolved /\ HandlersOnVersions
  BY DEF IndInv
<1>1. ASSUME NEW u \in Version, ~Exists(u), ~Exists(u)'
      PROVE  solverRun'[u] = NoRun
  <2>0. solverRun[u] = NoRun
    BY <1>0, <1>1 DEF AbsentUnsolved
  <2>1. CASE solverRun' = solverRun
    BY <2>0, <2>1
  <2>2. ASSUME NEW h \in Handlers,
               EditWrite(h) \/ persistSolveResult(h) \/ persistInfeasible(h)
        PROVE  solverRun'[u] = solverRun[u]
    <3>1. req[h].v # u
      BY <1>0, <1>1, <2>2
      DEF HandlersOnVersions, EditWrite, persistSolveResult, persistInfeasible
    <3> QED
      BY <1>0, <2>2, <3>1
      DEF EditWrite, persistSolveResult, persistInfeasible, TypeOK
  <2>3. ASSUME NEW h \in Handlers, invalidateDraftsForTermTx(h)
        PROVE  solverRun'[u] = NoRun
    BY <2>0, <2>3 DEF invalidateDraftsForTermTx
  <2> QED
    BY StepKinds, <2>0, <2>1, <2>2, <2>3
    DEF Quiet, Restatus, ValidateWrite, EditReset, tablesButVersion,
        PublishCommit, createTimetable, CreateVersion
<1> QED
  BY <1>0, <1>1, VersionsStay DEF AbsentUnsolved

LEMMA RunDescribesEntriesStep ==
  ASSUME IndInv, [Next]_vars
  PROVE  RunDescribesEntries'
<1>0. TypeOK /\ AbsentUnsolved /\ RunDescribesEntries
  BY DEF IndInv
<1>1. CASE UNCHANGED <<entries, solverRun>>
  BY <1>0, <1>1 DEF RunDescribesEntries
<1>2. ASSUME NEW h \in Handlers, EditWrite(h)
      PROVE  RunDescribesEntries'
  BY <1>0, <1>2
  DEF EditWrite, WriteEntries, RunAfterEntryWrite, NoRun, TypeOK,
      RunDescribesEntries
<1>3. ASSUME NEW h \in Handlers, persistSolveResult(h)
      PROVE  RunDescribesEntries'
  BY <1>0, <1>3
  DEF persistSolveResult, WriteEntries, TypeOK, RunDescribesEntries
<1>4. ASSUME NEW h \in Handlers, persistInfeasible(h)
      PROVE  RunDescribesEntries'
  BY <1>0, <1>4 DEF persistInfeasible, TypeOK, RunDescribesEntries
<1>5. ASSUME NEW h \in Handlers, NEW v \in Version, CreateVersion(h, v)
      PROVE  RunDescribesEntries'
  <2>1. solverRun[v] = NoRun
    BY <1>0, <1>5 DEF CreateVersion, AbsentUnsolved
  <2> QED
    BY <1>0, <1>5, <2>1 DEF CreateVersion, NoRun, TypeOK, RunDescribesEntries
<1>6. ASSUME NEW h \in Handlers, invalidateDraftsForTermTx(h)
      PROVE  RunDescribesEntries'
  BY <1>0, <1>6 DEF invalidateDraftsForTermTx, NoRun, RunDescribesEntries
<1> QED
  BY StepKinds, <1>1, <1>2, <1>3, <1>4, <1>5, <1>6
  DEF Quiet, Restatus, ValidateWrite, EditReset, tablesButVersion,
      PublishCommit, createTimetable

-----------------------------------------------------------------------------
(***************************************************************************)
(* The theorems.                                                           *)
(***************************************************************************)

\* The inductive invariant: it holds initially and every step keeps it.
THEOREM Invariance == Spec => []IndInv
<1>1. Init => IndInv
  <2> SUFFICES ASSUME Init PROVE IndInv
    OBVIOUS
  <2>1. TypeOK
    BY EmptyRows, LifecycleAssumption
    DEF Init, TypeOK, VersionRow, Status, Stamp, Step
  <2>2. HandlersOnVersions
    BY DEF Init, HandlersOnVersions
  <2>3. AbsentUnsolved /\ AtMostOnePublished /\ RunDescribesEntries
    BY DEF Init, AbsentUnsolved, AtMostOnePublished, RunDescribesEntries, NoRun
  <2>4. PublicationAnnounced
    BY DEF Init, PublicationAnnounced, Frozen
  <2> QED
    BY <2>1, <2>2, <2>3, <2>4 DEF IndInv
<1>2. IndInv /\ [Next]_vars => IndInv'
  <2> SUFFICES ASSUME IndInv, [Next]_vars PROVE IndInv'
    OBVIOUS
  <2>1. TypeOK' /\ HandlersOnVersions'
    BY TypesOfNext, NextOnVersions DEF IndInv
  <2>2. AbsentUnsolved' /\ AtMostOnePublished' /\ RunDescribesEntries'
          /\ PublicationAnnounced'
    BY AbsentUnsolvedStep, AtMostOnePublishedStep, RunDescribesEntriesStep,
       PublicationAnnouncedStep
  <2> QED
    BY <2>1, <2>2 DEF IndInv
<1> QED
  BY <1>1, <1>2, PTL DEF Spec

\* Every reachable state of the tables and the handlers is typed.
THEOREM TypeCorrect == Spec => []TypeOK
<1>1. IndInv => TypeOK
  BY DEF IndInv
<1> QED
  BY Invariance, <1>1, PTL

\* Racing publications never leave two versions of a timetable in force.
THEOREM OnePublished == Spec => []AtMostOnePublished
<1>1. IndInv => AtMostOnePublished
  BY DEF IndInv
<1> QED
  BY Invariance, <1>1, PTL

\* A solver run that counts always describes the entries next to it.
THEOREM RunsDescribeEntries == Spec => []RunDescribesEntries
<1>1. IndInv => RunDescribesEntries
  BY DEF IndInv
<1> QED
  BY Invariance, <1>1, PTL

\* Everything that was ever in force is announced exactly once.
THEOREM AllAnnounced == Spec => []PublicationAnnounced
<1>1. IndInv => PublicationAnnounced
  BY DEF IndInv
<1> QED
  BY Invariance, <1>1, PTL

\* No version comes into force a second time.
THEOREM NeverRepublished == Spec => PublishedOnce
<1> DEFINE Step1 == \A v \in Version :
       version[v].status # "PUBLISHED" /\ version'[v].status = "PUBLISHED" =>
         \A e \in outbox : e.version # v
<1>1. IndInv /\ [Next]_vars => [Step1]_vars
  <2> SUFFICES ASSUME IndInv, [Next]_vars, NEW v \in Version,
                      version[v].status # "PUBLISHED",
                      version'[v].status = "PUBLISHED"
               PROVE  \A e \in outbox : e.version # v
    OBVIOUS
  <2>1. PICK h \in Handlers : PublishCommit(h)
    BY OnlyCommitPublishes DEF IndInv, Frozen
  <2>2. v = req[h].v
    BY <2>1, CommitLeavesOne DEF IndInv
  <2> QED
    BY <2>1, <2>2 DEF PublishCommit, idempotencyKeyFree
<1> QED
  BY Invariance, <1>1, PTL DEF Spec, PublishedOnce

\* A version is superseded by the very step that publishes its successor.
THEOREM SupersededBySuccessor == Spec => AtomicSuccession
<1> DEFINE Step1 ==
      (\E u \in Version : /\ version[u].status = "PUBLISHED"
                          /\ version'[u].status = "SUPERSEDED") =>
        \E v \in Version : /\ version[v].status # "PUBLISHED"
                           /\ version'[v].status = "PUBLISHED"
<1>1. IndInv /\ [Next]_vars => [Step1]_vars
  <2> SUFFICES ASSUME IndInv, [Next]_vars, NEW u \in Version,
                      version[u].status = "PUBLISHED",
                      version'[u].status = "SUPERSEDED"
               PROVE  \E v \in Version : /\ version[v].status # "PUBLISHED"
                                         /\ version'[v].status = "PUBLISHED"
    OBVIOUS
  <2>1. PICK h \in Handlers : PublishCommit(h)
    BY OnlyCommitPublishes DEF IndInv, Frozen
  <2>2. req[h].v \in Version
    BY <2>1 DEF PublishCommit, IndInv, HandlersOnVersions
  <2>3. version'[req[h].v].status = "PUBLISHED"
    BY <2>1, <2>2, CommitLeavesOne DEF IndInv
  <2>4. version[req[h].v].status # "PUBLISHED"
    BY <2>1, <2>2
    DEF PublishCommit, idempotencyKeyFree, IndInv, PublicationAnnounced, Frozen
  <2> QED
    BY <2>2, <2>3, <2>4
<1> QED
  BY Invariance, <1>1, PTL DEF Spec, AtomicSuccession

\* A generation never replaces entries of a version that is or was in force.
THEOREM GenerationKeepsOff == Spec => GenerationSparesPublished
<1> DEFINE Step1 == \A v \in Version :
       version[v].status \in Frozen /\ entries'[v] # entries[v] =>
         \E h \in Handlers : at[h] = "e_write" /\ req[h].v = v
<1>1. IndInv /\ [Next]_vars => [Step1]_vars
  <2> SUFFICES ASSUME IndInv, [Next]_vars, NEW v \in Version,
                      version[v].status \in Frozen, entries'[v] # entries[v]
               PROVE  \E h \in Handlers : at[h] = "e_write" /\ req[h].v = v
    OBVIOUS
  <2>1. entries \in [Version -> EntryRows]
    BY DEF IndInv, TypeOK
  <2>2. ASSUME NEW h \in Handlers, EditWrite(h)
        PROVE  at[h] = "e_write" /\ req[h].v = v
    BY <2>1, <2>2 DEF EditWrite, WriteEntries
  <2>3. ASSUME NEW h \in Handlers, persistSolveResult(h)
        PROVE  FALSE
    <3>1. req[h].v # v
      BY <2>3 DEF persistSolveResult, mutable
    <3> QED
      BY <2>1, <2>3, <3>1 DEF persistSolveResult, WriteEntries
  <2>4. ASSUME NEW h \in Handlers, NEW u \in Version, CreateVersion(h, u)
        PROVE  FALSE
    BY <2>1, <2>4 DEF CreateVersion, Exists, Frozen
  <2>5. ASSUME NEW h \in Handlers,
               \/ Restatus(h) \/ PublishCommit(h) \/ persistInfeasible(h)
               \/ createTimetable(h) \/ invalidateDraftsForTermTx(h)
        PROVE  FALSE
    BY <2>5 DEF Restatus, ValidateWrite, EditReset, tablesButVersion, PublishCommit,
                persistInfeasible, createTimetable, invalidateDraftsForTermTx
  <2> QED
    BY <2>2, <2>3, <2>4, <2>5, StepKinds DEF Quiet
<1> QED
  BY Invariance, <1>1, PTL DEF Spec, GenerationSparesPublished

-----------------------------------------------------------------------------
(***************************************************************************)
(* When requests for the timetable do not overlap.                         *)
(*                                                                         *)
(* What a handler has read is then still true when it acts on it; the      *)
(* inductive invariant says so step by step.                               *)
(***************************************************************************)
OneAtATime == \A g, h \in Handlers : g = h

HandlerIsUpToDate(h) ==
  LET v == req[h].v IN
  /\ at[h] \in {"e_write", "g_persist"} => version[v].status \notin Frozen
  /\ at[h] \in {"v_summary", "v_write", "p_conflicts", "p_blocker"}
     /\ req[h].complete =>
       solverRun[v].status = "COMPLETE"
  /\ at[h] \in {"p_select", "p_entries", "p_supersede", "p_commit"} =>
       solverRun[v].status = "COMPLETE"
  /\ at[h] \in {"p_entries", "p_supersede", "p_commit"} =>
       /\ version[v].status = "VALIDATED"
       /\ req[h].base \in previousVersion(v)
  /\ at[h] \in {"p_supersede", "p_commit"} => req[h].payload = entries[v].stamp
  /\ at[h] = "p_commit" => req[h].replaced = Published \ {v}

\* An edit may have dropped the run of a validated version, but no other run
\* than a complete one stands next to it.
ValidatedSolved ==
  \A v \in Version :
    version[v].status = "VALIDATED" => solverRun[v].status \in {"COMPLETE", "none"}

AloneInv ==
  /\ OneAtATime
  /\ IndInv
  /\ \A h \in Handlers : HandlerIsUpToDate(h)
  /\ ValidatedSolved
  /\ PublishedSolved

\* Where the ways to move lead a handler, and with what.
LEMMA Moves ==
  ASSUME HandlersTyped, NEW h \in Handlers, NEW step, NEW r, NEW v
  PROVE  /\ Goto(h, step) => at'[h] = step /\ req'[h] = req[h]
         /\ Answer(h) => at'[h] = "idle"
         /\ Begin(h, v, step) => at'[h] = step /\ req'[h].v = v
         /\ Learn(h, step, r) => at'[h] = step /\ req'[h] = r
BY DEF HandlersTyped, Request, Goto, Answer, Begin, Learn

\* What a handler knows does not depend on the conflicts, the snapshot or jobs.
LEMMA SameTables ==
  ASSUME UNCHANGED <<version, entries, solverRun>>
  PROVE  Published' = Published /\ \A v : previousVersion(v)' = previousVersion(v)
BY DEF Published, previousVersion

LEMMA UpToDateValidate ==
  ASSUME AloneInv, NEW h \in Handlers, Validate(h)
  PROVE  HandlerIsUpToDate(h)'
<1>1. HandlersTyped /\ HandlerIsUpToDate(h)
  BY DEF AloneInv, IndInv, TypeOK, HandlersTyped
<1>2. ASSUME NEW v \in Version, ValidateVersion(h, v)
      PROVE  HandlerIsUpToDate(h)'
  <2>1. at'[h] = "v_conflicts"
    BY <1>1, <1>2, Moves DEF ValidateVersion
  <2> QED
    BY <2>1 DEF HandlerIsUpToDate
<1>3. CASE ValidateConflicts(h)
  <2>1. at'[h] = "v_run"
    BY <1>1, <1>3, Moves DEF ValidateConflicts
  <2> QED
    BY <2>1 DEF HandlerIsUpToDate
<1>4. CASE ValidateRun(h)
  <2>1. CASE Answer(h)
    <3>1. at'[h] = "idle"
      BY <1>1, <2>1, Moves
    <3> QED
      BY <3>1 DEF HandlerIsUpToDate
  <2> DEFINE r == [req[h] EXCEPT !.complete = solverRun[req[h].v].status = "COMPLETE"]
  <2>2. CASE Learn(h, "v_summary", r)
    <3>1. at'[h] = "v_summary" /\ req'[h] = r
      BY <1>1, <2>2, Moves
    <3>2. r.v = req[h].v /\ (r.complete <=> solverRun[req[h].v].status = "COMPLETE")
      BY <1>1 DEF HandlersTyped, Request
    <3>3. solverRun' = solverRun
      BY <1>4 DEF ValidateRun, tables
    <3> HIDE DEF r
    <3> QED
      BY <3>1, <3>2, <3>3 DEF HandlerIsUpToDate
  <2> QED
    BY <1>4, <2>1, <2>2 DEF ValidateRun
<1>5. CASE ValidateSummary(h)
  <2> DEFINE r == [req[h] EXCEPT !.complete = @ /\ ~conflict[req[h].v]]
  <2>1. at'[h] = "v_write" /\ req'[h] = r
    BY <1>1, <1>5, Moves DEF ValidateSummary
  <2>2. r.v = req[h].v /\ (r.complete => req[h].complete)
    BY <1>1 DEF HandlersTyped, Request
  <2>3. solverRun' = solverRun /\ at[h] = "v_summary"
    BY <1>5 DEF ValidateSummary, tables
  <2> HIDE DEF r
  <2> QED
    BY <1>1, <2>1, <2>2, <2>3 DEF HandlerIsUpToDate
<1>6. CASE ValidateWrite(h)
  <2>1. at'[h] = "idle"
    BY <1>1, <1>6, Moves DEF ValidateWrite
  <2> QED
    BY <2>1 DEF HandlerIsUpToDate
<1> QED
  BY <1>2, <1>3, <1>4, <1>5, <1>6 DEF Validate

LEMMA UpToDatePublish ==
  ASSUME AloneInv, NEW h \in Handlers, Publish(h)
  PROVE  HandlerIsUpToDate(h)'
<1>1. HandlersTyped /\ HandlerIsUpToDate(h)
  BY DEF AloneInv, IndInv, TypeOK, HandlersTyped
<1>2. CASE Answer(h)
  <2>1. at'[h] = "idle"
    BY <1>1, <1>2, Moves
  <2> QED
    BY <2>1 DEF HandlerIsUpToDate
<1>3. ASSUME NEW v \in Version, PublishVersion(h, v)
      PROVE  HandlerIsUpToDate(h)'
  <2>1. at'[h] = "p_status"
    BY <1>1, <1>3, Moves DEF PublishVersion
  <2> QED
    BY <2>1 DEF HandlerIsUpToDate
<1>4. CASE PublishStatus(h)
  <2>1. at'[h] \in {"p_run", "idle"}
    BY <1>1, <1>4, Moves DEF PublishStatus, GotoOrAnswer
  <2> QED
    BY <2>1 DEF HandlerIsUpToDate
<1>5. CASE PublishRun(h)
  <2> DEFINE r == [req[h] EXCEPT !.complete = solverRun[req[h].v].status = "COMPLETE"]
  <2>1. CASE Learn(h, "p_conflicts", r)
    <3>1. at'[h] = "p_conflicts" /\ req'[h] = r
      BY <1>1, <2>1, Moves
    <3>2. r.v = req[h].v /\ (r.complete <=> solverRun[req[h].v].status = "COMPLETE")
      BY <1>1 DEF HandlersTyped, Request
    <3>3. solverRun' = solverRun
      BY <1>5 DEF PublishRun, tables
    <3> HIDE DEF r
    <3> QED
      BY <3>1, <3>2, <3>3 DEF HandlerIsUpToDate
  <2> QED
    BY <1>2, <1>5, <2>1 DEF PublishRun
<1>6. CASE PublishConflicts(h)
  <2>1. at'[h] = "p_blocker" /\ req'[h] = req[h] /\ at[h] = "p_conflicts"
    BY <1>1, <1>6, Moves DEF PublishConflicts
  <2>2. solverRun' = solverRun
    BY <1>6 DEF PublishConflicts, tablesButConflict
  <2> QED
    BY <1>1, <2>1, <2>2 DEF HandlerIsUpToDate
<1>7. CASE PublishBlocker(h)
  <2> DEFINE r == [req[h] EXCEPT !.complete = FALSE]
  <2>1. CASE /\ Learn(h, "p_select", r)
             /\ ~publicationBlocker(req[h].complete, conflict[req[h].v])
    <3>1. at'[h] = "p_select" /\ req'[h] = r /\ at[h] = "p_blocker"
      BY <1>1, <1>7, <2>1, Moves DEF PublishBlocker
    <3>2. r.v = req[h].v
      BY <1>1 DEF HandlersTyped, Request
    <3>3. solverRun' = solverRun /\ req[h].complete
      BY <1>7, <2>1 DEF PublishBlocker, tables, publicationBlocker
    <3> HIDE DEF r
    <3> QED
      BY <1>1, <3>1, <3>2, <3>3 DEF HandlerIsUpToDate
  <2> QED
    BY <1>2, <1>7, <2>1 DEF PublishBlocker
<1>8. CASE PublishSelect(h)
  <2>1. ASSUME NEW base \in previousVersion(req[h].v),
               version[req[h].v].status = "VALIDATED",
               Learn(h, "p_entries", [req[h] EXCEPT !.base = base])
        PROVE  HandlerIsUpToDate(h)'
    <3> DEFINE r == [req[h] EXCEPT !.base = base]
    <3>1. at'[h] = "p_entries" /\ req'[h] = r /\ at[h] = "p_select"
      BY <1>1, <1>8, <2>1, Moves DEF PublishSelect
    <3>2. r.v = req[h].v /\ r.base = base
      BY <1>1 DEF HandlersTyped, Request
    <3>3. UNCHANGED <<version, entries, solverRun>>
      BY <1>8 DEF PublishSelect, tables
    <3> HIDE DEF r
    <3> QED
      BY <1>1, <2>1, <3>1, <3>2, <3>3, SameTables DEF HandlerIsUpToDate
  <2> QED
    BY <1>2, <1>8, <2>1 DEF PublishSelect
<1>9. CASE PublishEntries(h)
  <2> DEFINE r == [req[h] EXCEPT !.payload = entries[req[h].v].stamp]
  <2>1. at'[h] = "p_supersede" /\ req'[h] = r /\ at[h] = "p_entries"
    BY <1>1, <1>9, Moves DEF PublishEntries
  <2>2. r.v = req[h].v /\ r.base = req[h].base /\ r.payload = entries[req[h].v].stamp
    BY <1>1 DEF HandlersTyped, Request
  <2>3. UNCHANGED <<version, entries, solverRun>>
    BY <1>9 DEF PublishEntries, tables
  <2> HIDE DEF r
  <2> QED
    BY <1>1, <2>1, <2>2, <2>3, SameTables DEF HandlerIsUpToDate
<1>10. CASE PublishSupersede(h)
  <2> DEFINE r == [req[h] EXCEPT !.replaced = Published \ {req[h].v}]
  <2>1. at'[h] = "p_commit" /\ req'[h] = r /\ at[h] = "p_supersede"
    BY <1>1, <1>10, Moves DEF PublishSupersede
  <2>2. /\ r.v = req[h].v /\ r.base = req[h].base /\ r.payload = req[h].payload
        /\ r.replaced = Published \ {req[h].v}
    BY <1>1 DEF HandlersTyped, Request
  <2>3. UNCHANGED <<version, entries, solverRun>>
    BY <1>10 DEF PublishSupersede, tables
  <2> HIDE DEF r
  <2> QED
    BY <1>1, <2>1, <2>2, <2>3, SameTables DEF HandlerIsUpToDate
<1>11. CASE PublishCommit(h) \/ PublishRollback(h)
  BY <1>2, <1>11 DEF PublishCommit, PublishRollback
<1> QED
  BY <1>3, <1>4, <1>5, <1>6, <1>7, <1>8, <1>9, <1>10, <1>11 DEF Publish

LEMMA UpToDateEdit ==
  ASSUME AloneInv, NEW h \in Handlers, Edit(h)
  PROVE  HandlerIsUpToDate(h)'
<1>1. HandlersTyped /\ HandlerIsUpToDate(h)
  BY DEF AloneInv, IndInv, TypeOK, HandlersTyped
<1>2. ASSUME NEW v \in Version, EditEntry(h, v)
      PROVE  HandlerIsUpToDate(h)'
  <2>1. at'[h] = "e_write" /\ req'[h].v = v
    BY <1>1, <1>2, Moves DEF EditEntry
  <2>2. version' = version /\ version[v].status \notin Frozen
    BY <1>2 DEF EditEntry, versionEditable, tables
  <2> QED
    BY <2>1, <2>2 DEF HandlerIsUpToDate
<1>3. CASE EditWrite(h) \/ EditRefused(h) \/ EditReset(h)
  <2>1. at'[h] \in {"idle", "e_reset"}
    BY <1>1, <1>3, Moves DEF EditWrite, EditRefused, EditReset
  <2> QED
    BY <2>1 DEF HandlerIsUpToDate
<1> QED
  BY <1>2, <1>3 DEF Edit

LEMMA UpToDateGenerate ==
  ASSUME AloneInv, NEW h \in Handlers, Generate(h)
  PROVE  HandlerIsUpToDate(h)'
<1>1. HandlersTyped /\ HandlerIsUpToDate(h)
  BY DEF AloneInv, IndInv, TypeOK, HandlersTyped
<1>2. CASE /\ Learn(h, "g_persist", [req[h] EXCEPT !.basis = workspaceHash])
           /\ version[req[h].v].status \notin Frozen
           /\ version' = version
  <2> DEFINE r == [req[h] EXCEPT !.basis = workspaceHash]
  <2>1. at'[h] = "g_persist" /\ req'[h] = r
    BY <1>1, <1>2, Moves
  <2>2. r.v = req[h].v
    BY <1>1 DEF HandlersTyped, Request
  <2> HIDE DEF r
  <2> QED
    BY <1>2, <2>1, <2>2 DEF HandlerIsUpToDate
<1>3. CASE at'[h] \in {"idle", "g_start", "g_load", "g_finish"}
  BY <1>3 DEF HandlerIsUpToDate
<1>4. ASSUME NEW v \in Version, GenerateVersion(h, v)
      PROVE  HandlerIsUpToDate(h)'
  <2>1. at'[h] = "g_start"
    BY <1>1, <1>4, Moves DEF GenerateVersion
  <2> QED
    BY <1>3, <2>1
<1>5. CASE startGenerationJob(h)
  <2>1. at'[h] \in {"idle", "g_load"}
    BY <1>1, <1>5, Moves DEF startGenerationJob
  <2> QED
    BY <1>3, <2>1
<1>6. CASE loadEngineProblem(h)
  <2>1. CASE Goto(h, "g_finish")
    BY <1>1, <1>3, <2>1, Moves
  <2> QED
    BY <1>2, <1>6, <2>1 DEF loadEngineProblem, tables
<1>7. CASE persistSolveResult(h) \/ persistInfeasible(h) \/ persistRollback(h)
  <2>1. at'[h] = "g_finish"
    BY <1>1, <1>7, Moves DEF persistSolveResult, persistInfeasible, persistRollback
  <2> QED
    BY <1>3, <2>1
<1>8. CASE GenerateFinish(h)
  BY <1>1, <1>3, <1>8, Moves DEF GenerateFinish
<1> QED
  BY <1>4, <1>5, <1>6, <1>7, <1>8 DEF Generate

\* Nothing else runs while the handler is busy, except the syncs.
LEMMA UpToDateOthers ==
  ASSUME AloneInv, NEW h \in Handlers, Others \/ UNCHANGED vars
  PROVE  HandlerIsUpToDate(h)'
<1>1. HandlersTyped /\ HandlerIsUpToDate(h) /\ \A g \in Handlers : g = h
  BY DEF AloneInv, IndInv, TypeOK, HandlersTyped, OneAtATime
<1>2. CASE UNCHANGED <<version, entries, solverRun, at, req>>
  BY <1>1, <1>2, SameTables DEF HandlerIsUpToDate
<1>3. CASE at'[h] = "idle"
  BY <1>3 DEF HandlerIsUpToDate
<1>4. CASE UNCHANGED vars \/ SyncWorkspace \/ TermLifecycle
  BY <1>2, <1>4 DEF vars, SyncWorkspace, TermLifecycle
<1>5. ASSUME NEW g \in Handlers, HandlerStops(g)
      PROVE  at'[h] = "idle"
  BY <1>1, <1>5, Moves DEF HandlerStops
<1>6. ASSUME NEW g \in Handlers,
             \/ createTimetable(g)
             \/ \E v \in Version : CreateVersion(g, v)
             \/ invalidateDraftsForTermTx(g)
      PROVE  at'[h] = "idle"
  BY <1>1, <1>6 DEF createTimetable, CreateVersion, invalidateDraftsForTermTx
<1> QED
  BY <1>3, <1>4, <1>5, <1>6 DEF Others

\* Nobody writes the entries or the run of a version in force, and a version
\* comes into force with the run that its request has looked at.
LEMMA PublishedSolvedStep ==
  ASSUME AloneInv, [Next]_vars
  PROVE  PublishedSolved'
<1> SUFFICES ASSUME NEW u \in Version, version'[u].status = "PUBLISHED"
             PROVE  solverRun'[u] = [status |-> "COMPLETE", stamp |-> entries'[u].stamp]
  BY DEF PublishedSolved, Published
<1>1. /\ TypeOK /\ HandlersOnVersions /\ RunDescribesEntries
      /\ \A h \in Handlers : HandlerIsUpToDate(h)
      /\ \A v \in Version : version[v].status = "PUBLISHED" =>
           solverRun[v] = [status |-> "COMPLETE", stamp |-> entries[v].stamp]
  BY DEF AloneInv, IndInv, PublishedSolved, Published
<1>2. ASSUME NEW h \in Handlers, PublishCommit(h)
      PROVE  solverRun'[u] = [status |-> "COMPLETE", stamp |-> entries'[u].stamp]
  <2>1. u = req[h].v
    BY <1>1, <1>2, CommitLeavesOne
  <2>2. solverRun[u].status = "COMPLETE"
    BY <1>1, <1>2, <2>1 DEF HandlerIsUpToDate, PublishCommit
  <2>3. solverRun[u] = [status |-> "COMPLETE", stamp |-> entries[u].stamp]
    BY <1>1, <2>2 DEF RunDescribesEntries, TypeOK, RunRow
  <2> QED
    BY <1>2, <2>3 DEF PublishCommit
<1>3. ASSUME \A h \in Handlers : ~PublishCommit(h)
      PROVE  solverRun'[u] = [status |-> "COMPLETE", stamp |-> entries'[u].stamp]
  <2>1. version[u].status = "PUBLISHED"
    BY <1>1, <1>3, OnlyCommitPublishes DEF Frozen
  <2>2. solverRun[u] = [status |-> "COMPLETE", stamp |-> entries[u].stamp]
    BY <1>1, <2>1
  <2>3. CASE UNCHANGED <<entries, solverRun>>
    BY <2>2, <2>3
  <2>4. ASSUME NEW h \in Handlers,
               EditWrite(h) \/ persistSolveResult(h) \/ persistInfeasible(h)
        PROVE  entries'[u] = entries[u] /\ solverRun'[u] = solverRun[u]
    <3>1. req[h].v # u /\ req[h].v \in Version
      BY <1>1, <2>1, <2>4
      DEF HandlerIsUpToDate, HandlersOnVersions, Frozen, EditWrite,
          persistSolveResult, persistInfeasible
    <3> QED
      BY <1>1, <2>4, <3>1
      DEF EditWrite, persistSolveResult, persistInfeasible, WriteEntries, TypeOK
  <2>5. ASSUME NEW h \in Handlers, NEW v \in Version, CreateVersion(h, v)
        PROVE  entries'[u] = entries[u] /\ solverRun'[u] = solverRun[u]
    BY <1>1, <2>1, <2>5 DEF CreateVersion, Exists, TypeOK
  <2>6. ASSUME NEW h \in Handlers, invalidateDraftsForTermTx(h)
        PROVE  entries'[u] = entries[u] /\ solverRun'[u] = solverRun[u]
    BY <2>1, <2>6 DEF invalidateDraftsForTermTx, Invalidated, Frozen
  <2> QED
    BY StepKinds, <1>3, <2>2, <2>3, <2>4, <2>5, <2>6
    DEF Quiet, Restatus, ValidateWrite, EditReset, tablesButVersion, createTimetable
<1> QED
  BY <1>2, <1>3

LEMMA ValidatedSolvedStep ==
  ASSUME AloneInv, [Next]_vars
  PROVE  ValidatedSolved'
<1> SUFFICES ASSUME NEW u \in Version, version'[u].status = "VALIDATED"
             PROVE  solverRun'[u].status \in {"COMPLETE", "none"}
  BY DEF ValidatedSolved
<1>1. /\ TypeOK /\ HandlersOnVersions
      /\ \A h \in Handlers : HandlerIsUpToDate(h)
      /\ version[u].status = "VALIDATED" => solverRun[u].status \in {"COMPLETE", "none"}
  BY DEF AloneInv, IndInv, ValidatedSolved
<1>2. CASE Quiet
  BY <1>1, <1>2 DEF Quiet
<1>3. ASSUME NEW h \in Handlers, ValidateWrite(h)
      PROVE  solverRun'[u].status \in {"COMPLETE", "none"}
  <2>1. solverRun' = solverRun
    BY <1>3 DEF ValidateWrite, tablesButVersion
  <2>2. CASE version'[u] = version[u]
    BY <1>1, <2>1, <2>2
  <2>3. CASE version'[u] # version[u]
    <3>1. u = req[h].v /\ version'[u].status =
            StatusAfterValidation(version[u].status, req[h].complete)
      BY <1>1, <1>3, <2>3 DEF ValidateWrite, TypeOK, VersionRow
    <3>2. req[h].complete
      BY <3>1 DEF StatusAfterValidation, Frozen
    <3>3. solverRun[u].status = "COMPLETE"
      BY <1>1, <1>3, <3>1, <3>2 DEF HandlerIsUpToDate, ValidateWrite
    <3> QED
      BY <2>1, <3>3
  <2> QED
    BY <2>2, <2>3
<1>4. ASSUME NEW h \in Handlers, EditReset(h)
      PROVE  solverRun'[u].status \in {"COMPLETE", "none"}
  <2>1. version'[u] = version[u]
    BY <1>1, <1>4 DEF EditReset, StatusAfterEdit, TypeOK, VersionRow
  <2> QED
    BY <1>1, <1>4, <2>1 DEF EditReset, tablesButVersion
<1>5. ASSUME NEW h \in Handlers, PublishCommit(h)
      PROVE  solverRun'[u].status \in {"COMPLETE", "none"}
  <2>1. version'[u] = version[u]
    BY <1>1, <1>5, CommitLeavesOne
  <2> QED
    BY <1>1, <1>5, <2>1 DEF PublishCommit
<1>6. ASSUME NEW h \in Handlers, EditWrite(h)
      PROVE  solverRun'[u].status \in {"COMPLETE", "none"}
  BY <1>1, <1>6 DEF EditWrite, RunAfterEntryWrite, NoRun, TypeOK
<1>7. ASSUME NEW h \in Handlers, persistSolveResult(h) \/ persistInfeasible(h)
      PROVE  solverRun'[u].status \in {"COMPLETE", "none"}
  <2>1. req[h].v # u
    BY <1>1, <1>7
    DEF persistSolveResult, persistInfeasible, GeneratedVersion, TypeOK
  <2>2. version'[u] = version[u] /\ solverRun'[u] = solverRun[u]
    BY <1>1, <1>7, <2>1 DEF persistSolveResult, persistInfeasible, TypeOK
  <2> QED
    BY <1>1, <2>2
<1>8. ASSUME NEW h \in Handlers,
             createTimetable(h) \/ \E v \in Version : CreateVersion(h, v)
      PROVE  solverRun'[u].status \in {"COMPLETE", "none"}
  <2>1. version'[u] = version[u] /\ solverRun' = solverRun
    BY <1>1, <1>8 DEF createTimetable, CreateVersion, TypeOK
  <2> QED
    BY <1>1, <2>1
<1>9. ASSUME NEW h \in Handlers, invalidateDraftsForTermTx(h)
      PROVE  solverRun'[u].status \in {"COMPLETE", "none"}
  BY <1>1, <1>9 DEF invalidateDraftsForTermTx, NoRun
<1> QED
  BY StepKinds, <1>2, <1>3, <1>4, <1>5, <1>6, <1>7, <1>8, <1>9 DEF Restatus

LEMMA InvarianceAlone == OneAtATime /\ Spec => []AloneInv
<1>1. OneAtATime /\ Init /\ IndInv => AloneInv
  BY DEF Init, AloneInv, HandlerIsUpToDate, ValidatedSolved, PublishedSolved, Published
<1>2. AloneInv /\ [Next]_vars /\ IndInv' => AloneInv'
  <2> SUFFICES ASSUME AloneInv, [Next]_vars, IndInv' PROVE AloneInv'
    OBVIOUS
  <2>1. OneAtATime'
    BY DEF AloneInv, OneAtATime
  <2>2. ASSUME NEW h \in Handlers PROVE HandlerIsUpToDate(h)'
    <3>1. Others \/ UNCHANGED vars \/ \E g \in Handlers :
            Validate(g) \/ Publish(g) \/ Edit(g) \/ Generate(g)
      BY DEF Next, Others
    <3>2. \A g \in Handlers : g = h
      BY DEF AloneInv, OneAtATime
    <3> QED
      BY <3>1, <3>2, UpToDateValidate, UpToDatePublish, UpToDateEdit,
         UpToDateGenerate, UpToDateOthers
  <2> QED
    BY <2>1, <2>2, PublishedSolvedStep, ValidatedSolvedStep DEF AloneInv
<1> QED
  BY Invariance, <1>1, <1>2, PTL DEF Spec

\* When requests do not overlap, what is in force is what a complete solver run
\* produced, through edits, crashes, invalidations and syncs (publishVersion).
THEOREM InForceIsSolved == OneAtATime /\ Spec => []PublishedSolved
<1>1. AloneInv => PublishedSolved
  BY DEF AloneInv
<1> QED
  BY InvarianceAlone, <1>1, PTL

\* When requests do not overlap, a validated version never stands next to a
\* partial or infeasible run, also after a crash between the two writes of an
\* edit (updateEntry, ValidateVersion, persistSolveResult).
THEOREM ValidatedIsSolved == OneAtATime /\ Spec => []ValidatedSolved
<1>1. AloneInv => ValidatedSolved
  BY DEF AloneInv
<1> QED
  BY InvarianceAlone, <1>1, PTL

\* What a publication supersedes and announces is what its request has read.
LEMMA CommitAlone ==
  ASSUME AloneInv, NEW h \in Handlers, PublishCommit(h)
  PROVE  LET v == req[h].v IN
         /\ v \in Version /\ v \notin Published /\ Published' = {v}
         /\ \A u \in Published : version'[u].status = "SUPERSEDED"
         /\ Published = {req[h].base} \ {0}
         /\ req[h].payload = entries[v].stamp
<1> DEFINE v == req[h].v
<1>1. /\ TypeOK /\ HandlersOnVersions /\ AtMostOnePublished /\ HandlerIsUpToDate(h)
      /\ at[h] = "p_commit"
  BY DEF AloneInv, IndInv, PublishCommit
<1>2. /\ v \in Version /\ version[v].status = "VALIDATED"
      /\ req[h].base \in previousVersion(v) /\ req[h].payload = entries[v].stamp
  BY <1>1 DEF HandlerIsUpToDate, HandlersOnVersions
<1>3. v \notin Published /\ Published \ {v} = Published
  BY <1>2 DEF Published
<1>4. Published' = {v} /\ \A u \in Published : version'[u].status = "SUPERSEDED"
  BY <1>1, <1>2, <1>3, CommitLeavesOne DEF Published
<1>5. 0 \notin Version /\ Published \subseteq Version
  BY LifecycleAssumption DEF Version, Published
<1>6. Published = {req[h].base} \ {0}
  <2>1. CASE Published = {}
    BY <1>2, <1>3, <2>1 DEF previousVersion
  <2>2. CASE Published # {}
    <3>1. req[h].base \in Published
      BY <1>2, <1>3, <2>2 DEF previousVersion
    <3>2. \A u \in Published : u = req[h].base
      BY <1>1, <3>1 DEF AtMostOnePublished, Published
    <3> QED
      BY <1>5, <3>1, <3>2
  <2> QED
    BY <2>1, <2>2
<1> QED
  BY <1>2, <1>3, <1>4, <1>6

\* When requests do not overlap, an announcement names the version that its
\* publication supersedes, or none when it is the first (publishVersion).
THEOREM AmendmentsNameTheirBase == OneAtATime /\ Spec => AmendmentNamesItsBase
<1> DEFINE Named == \A e \in outbox' \ outbox :
       {u \in Published : version'[u].status = "SUPERSEDED"} = {e.base} \ {0}
<1>1. AloneInv /\ [Next]_vars => [Named]_vars
  <2> SUFFICES ASSUME AloneInv, [Next]_vars, NEW e \in outbox' \ outbox
               PROVE  {u \in Published : version'[u].status = "SUPERSEDED"}
                        = {e.base} \ {0}
    OBVIOUS
  <2>1. PICK h \in Handlers : PublishCommit(h)
    BY OnlyCommitAnnounces
  <2>2. e = [version |-> req[h].v, base |-> req[h].base, payload |-> req[h].payload]
    BY <2>1 DEF PublishCommit, PublicationEvents
  <2>3. {u \in Published : version'[u].status = "SUPERSEDED"} = Published
    BY <2>1, CommitAlone
  <2>4. Published = {req[h].base} \ {0}
    BY <2>1, CommitAlone
  <2> QED
    BY <2>2, <2>3, <2>4
<1> QED
  BY InvarianceAlone, <1>1, PTL DEF Spec, AmendmentNamesItsBase

-----------------------------------------------------------------------------
(***************************************************************************)
(* The versions and the outbox implement PublicationFeed.                  *)
(***************************************************************************)
\* A step that publishes nothing leaves what is in force as it is.
LEMMA FeedStands ==
  ASSUME AloneInv, [Next]_vars, \A h \in Handlers : ~PublishCommit(h)
  PROVE  UNCHANGED Feed!vars
<1>1. /\ TypeOK /\ HandlersOnVersions /\ PublishedSolved
      /\ \A h \in Handlers : HandlerIsUpToDate(h)
  BY DEF AloneInv, IndInv
<1>2. outbox' = outbox
  BY OnlyCommitAnnounces
<1>3. ASSUME NEW u \in Published
      PROVE  u \in Published' /\ entries'[u] = entries[u]
  <2>1. u \in Version /\ version[u].status = "PUBLISHED"
    BY DEF Published
  <2>2. CASE Quiet
    BY <2>1, <2>2 DEF Quiet, Published
  <2>3. ASSUME NEW h \in Handlers, Restatus(h)
        PROVE  u \in Published' /\ entries'[u] = entries[u]
    <3>1. version'[u].status = "PUBLISHED"
      BY <1>1, <2>1, <2>3, RestatusKinds DEF Frozen
    <3> QED
      BY <2>1, <2>3, <3>1
      DEF Published, Restatus, ValidateWrite, EditReset, tablesButVersion
  <2>4. ASSUME NEW h \in Handlers,
               EditWrite(h) \/ persistSolveResult(h) \/ persistInfeasible(h)
        PROVE  u \in Published' /\ entries'[u] = entries[u]
    <3>1. req[h].v # u /\ req[h].v \in Version
      BY <1>1, <2>1, <2>4
      DEF HandlerIsUpToDate, HandlersOnVersions, Frozen, EditWrite,
          persistSolveResult, persistInfeasible
    <3>2. version'[u] = version[u] /\ entries'[u] = entries[u]
      BY <1>1, <2>1, <2>4, <3>1
      DEF EditWrite, persistSolveResult, persistInfeasible, WriteEntries, TypeOK
    <3> QED
      BY <2>1, <3>2 DEF Published
  <2>5. ASSUME NEW h \in Handlers,
               \/ createTimetable(h)
               \/ \E v \in Version : CreateVersion(h, v)
               \/ invalidateDraftsForTermTx(h)
        PROVE  u \in Published' /\ entries'[u] = entries[u]
    <3>1. version'[u] = version[u] /\ entries'[u] = entries[u]
      BY <1>1, <2>1, <2>5
      DEF createTimetable, CreateVersion, invalidateDraftsForTermTx, Exists, TypeOK
    <3> QED
      BY <2>1, <3>1 DEF Published
  <2> QED
    BY StepKinds, <2>2, <2>3, <2>4, <2>5
<1>4. ASSUME NEW u \in Published' PROVE u \in Published
  BY <1>1, OnlyCommitPublishes DEF Published, Frozen
<1>5. Published' = Published
  BY <1>3, <1>4
<1>6. InForce' = InForce
  BY <1>5 DEF InForce
<1>7. InForce # 0 => InForce \in Published
  BY DEF InForce
<1>8. InForce # 0 => entries'[InForce] = entries[InForce]
  BY <1>3, <1>7
<1> QED
  BY <1>2, <1>6, <1>8 DEF Feed!vars

\* A publication announces what it puts in force.
LEMMA CommitAnnounces ==
  ASSUME AloneInv, NEW h \in Handlers, PublishCommit(h)
  PROVE  Feed!Next
<1>1. PICK v : v = req[h].v
  OBVIOUS
<1>2. PICK c : c = entries[v].stamp
  OBVIOUS
<1>3. PICK e : e = [version |-> v, base |-> req[h].base, payload |-> c]
  OBVIOUS
<1>4. /\ v \in Version /\ Published' = {v} /\ req[h].payload = c
  BY <1>1, <1>2, CommitAlone
<1>5. /\ outbox' = outbox \cup {e} /\ entries' = entries
      /\ \A f \in outbox : f.version # v
  BY <1>1, <1>3, <1>4 DEF PublishCommit, PublicationEvents, idempotencyKeyFree
<1>6. v # 0 /\ e.version = v /\ e.payload = c
  BY <1>3, <1>4, LifecycleAssumption DEF Version
<1>7. InForce' = v
  BY <1>4 DEF InForce
<1>8. c \in Stamp
  BY <1>2, <1>4 DEF AloneInv, IndInv, TypeOK, EntryRows
<1>9. {<<f.version, f.payload>> : f \in outbox'}
        = {<<f.version, f.payload>> : f \in outbox} \cup {<<v, c>>}
  BY <1>5, <1>6
<1>10. Feed!Announce(v, c)
  BY <1>2, <1>5, <1>6, <1>7, <1>9 DEF Feed!Announce
<1> QED
  BY <1>4, <1>8, <1>10 DEF Feed!Next

\* When requests do not overlap, the versions and the outbox implement the
\* promise of PublicationFeed: what is in force is what was announced, it
\* changes only by announcing another version, and no version is announced
\* twice (publishVersion).
THEOREM PublicationImplementsFeed == OneAtATime /\ Spec => ImplementsFeed
<1>1. Init => Feed!Init
  <2> SUFFICES ASSUME Init PROVE Feed!Init
    OBVIOUS
  <2>1. Published = {} /\ outbox = {}
    BY DEF Init, Published
  <2>2. InForce = 0
    BY <2>1 DEF InForce
  <2> QED
    BY <2>1, <2>2 DEF Feed!Init
<1>2. AloneInv /\ [Next]_vars => [Feed!Next]_(Feed!vars)
  BY FeedStands, CommitAnnounces
<1> QED
  BY InvarianceAlone, <1>1, <1>2, PTL DEF Spec, ImplementsFeed, Feed!Spec

-----------------------------------------------------------------------------
(***************************************************************************)
(* What the portal shows.                                                  *)
(*                                                                         *)
(* updated_at orders the versions like a clock: they can be ranked, and    *)
(* rows of one transaction tie.  While a version is in force, none that it *)
(* replaced is updated after it.                                           *)
(***************************************************************************)
LaterRanks ==
  /\ later \subseteq Version \X Version
  /\ \A v \in Version : <<v, v>> \notin later
  /\ \A u, v, w \in Version : <<u, v>> \in later /\ <<v, w>> \in later => <<u, w>> \in later
  /\ \A u, v, w \in Version : <<u, w>> \in later => <<u, v>> \in later \/ <<v, w>> \in later

ReplacedNotLater ==
  \A v \in Published, u \in Version :
    version[u].status = "SUPERSEDED" => <<u, v>> \notin later

ShownInv == AloneInv /\ LaterRanks /\ ReplacedNotLater

\* A step of Workflow is a step of the lifecycle.
LEMMA WorkflowSteps == [WorkflowNext]_workflowVars => [Next]_vars
<1>1. WorkflowNext => Next
  BY DEF WorkflowNext, Next, Validate, Publish, Edit, Generate
<1> QED
  BY <1>1 DEF workflowVars

LEMMA TouchRanks ==
  ASSUME LaterRanks, NEW vs \in SUBSET Version, Touch(vs)
  PROVE  /\ LaterRanks'
         /\ \A u, v \in Version : <<u, v>> \in later' <=>
              v \notin vs /\ (u \in vs \/ <<u, v>> \in later)
<1>1. \A u, v \in Version : <<u, v>> \in later' <=> v \notin vs /\ (u \in vs \/ <<u, v>> \in later)
  <2> TAKE u, v \in Version
  <2>1. <<u, v>> \in vs \X (Version \ vs) <=> u \in vs /\ v \notin vs
    OBVIOUS
  <2>2. <<u, v>> \in {p \in later : p[1] \notin vs /\ p[2] \notin vs} <=>
          <<u, v>> \in later /\ u \notin vs /\ v \notin vs
    OBVIOUS
  <2> QED
    BY <2>1, <2>2 DEF Touch
<1>2. later' \subseteq Version \X Version
  BY DEF Touch, LaterRanks
<1>3. \A v \in Version : <<v, v>> \notin later'
  BY <1>1 DEF LaterRanks
<1>4. \A u, v, w \in Version : <<u, v>> \in later' /\ <<v, w>> \in later' => <<u, w>> \in later'
  BY <1>1 DEF LaterRanks
<1>5. \A u, v, w \in Version : <<u, w>> \in later' => <<u, v>> \in later' \/ <<v, w>> \in later'
  BY <1>1 DEF LaterRanks
<1> QED
  BY <1>1, <1>2, <1>3, <1>4, <1>5 DEF LaterRanks

\* What a step does to the statuses and to the order, except a publication:
\* what it updates is no version that is or was in force.
LEMMA UpdatesSpareFrozen ==
  ASSUME AloneInv, [WorkflowNext]_workflowVars, \A h \in Handlers : ~PublishCommit(h)
  PROVE  \E vs \in SUBSET Version :
           /\ Touch(vs) \/ (vs = {} /\ later' = later)
           /\ \A u \in vs : version'[u].status \notin Frozen
           /\ \A u \in Version : version'[u].status \in Frozen => version'[u] = version[u]
<1> DEFINE Spares(vs) ==
      /\ Touch(vs) \/ (vs = {} /\ later' = later)
      /\ \A u \in vs : version'[u].status \notin Frozen
      /\ \A u \in Version : version'[u].status \in Frozen => version'[u] = version[u]
<1>0. TypeOK /\ HandlersOnVersions /\ \A h \in Handlers : HandlerIsUpToDate(h)
  BY DEF AloneInv, IndInv
<1>1. CASE UNCHANGED <<version, later>>
  <2>1. {} \in SUBSET Version /\ Spares({})
    BY <1>1
  <2> QED
    BY <2>1
<1>2. ASSUME NEW h \in Handlers, ValidateWrite(h),
             Touch({req[h].v} \cap {v \in Version : version[v].status \notin Frozen})
      PROVE  \E vs \in SUBSET Version : Spares(vs)
  <2>1. PICK vs : vs = {req[h].v} \cap {v \in Version : version[v].status \notin Frozen}
    OBVIOUS
  <2>2. vs \in SUBSET Version /\ Touch(vs)
    BY <1>2, <2>1
  <2>3. \A u \in Version :
          \/ version'[u] = version[u] /\ u \notin vs
          \/ version'[u].status \notin Frozen
    <3> TAKE u \in Version
    <3>1. /\ u # req[h].v => version'[u] = version[u]
          /\ u = req[h].v => version'[u] = [version[u] EXCEPT !.status =
                               StatusAfterValidation(version[u].status, req[h].complete)]
      BY <1>0, <1>2 DEF ValidateWrite, TypeOK
    <3>2. version[u] \in VersionRow
      BY <1>0 DEF TypeOK
    <3>3. u \in vs <=> u = req[h].v /\ version[u].status \notin Frozen
      BY <2>1
    <3> QED
      BY <3>1, <3>2, <3>3 DEF StatusAfterValidation, VersionRow, Frozen
  <2>4. Spares(vs)
    BY <2>2, <2>3
  <2> QED
    BY <2>2, <2>4
<1>3. ASSUME NEW h \in Handlers, EditReset(h),
             Touch({req[h].v} \cap {v \in Version : version[v].status = "VALIDATED"})
      PROVE  \E vs \in SUBSET Version : Spares(vs)
  <2>1. PICK vs : vs = {req[h].v} \cap {v \in Version : version[v].status = "VALIDATED"}
    OBVIOUS
  <2>2. vs \in SUBSET Version /\ Touch(vs)
    BY <1>3, <2>1
  <2>3. \A u \in Version :
          \/ version'[u] = version[u] /\ u \notin vs
          \/ version'[u].status \notin Frozen
    <3> TAKE u \in Version
    <3>1. /\ u # req[h].v => version'[u] = version[u]
          /\ u = req[h].v => version'[u] = [version[u] EXCEPT !.status =
                               StatusAfterEdit(version[u].status)]
      BY <1>0, <1>3 DEF EditReset, TypeOK
    <3>2. version[u] \in VersionRow
      BY <1>0 DEF TypeOK
    <3>3. u \in vs <=> u = req[h].v /\ version[u].status = "VALIDATED"
      BY <2>1
    <3> QED
      BY <3>1, <3>2, <3>3 DEF StatusAfterEdit, VersionRow, Frozen
  <2>4. Spares(vs)
    BY <2>2, <2>3
  <2> QED
    BY <2>2, <2>4
<1>4. ASSUME NEW h \in Handlers, NEW v \in Version, Touch({v}),
             version' = [version EXCEPT ![v] = [status |-> "DRAFT", hash |-> workspaceHash]]
      PROVE  \E vs \in SUBSET Version : Spares(vs)
  <2>1. PICK vs : vs = {v}
    OBVIOUS
  <2>2. vs \in SUBSET Version /\ Touch(vs)
    BY <1>4, <2>1
  <2>3. version'[v].status \notin Frozen /\ \A u \in Version : u # v => version'[u] = version[u]
    BY <1>0, <1>4 DEF TypeOK, Frozen
  <2>4. Spares(vs)
    BY <2>1, <2>2, <2>3
  <2> QED
    BY <2>2, <2>4
<1>5. ASSUME NEW h \in Handlers, persistSolveResult(h) \/ persistInfeasible(h), Touch({req[h].v})
      PROVE  \E vs \in SUBSET Version : Spares(vs)
  <2>1. req[h].v \in Version
    BY <1>0, <1>5 DEF HandlersOnVersions, persistSolveResult, persistInfeasible
  <2> QED
    BY <1>4, <1>5, <2>1 DEF persistSolveResult, persistInfeasible, GeneratedVersion
<1>6. ASSUME NEW h \in Handlers, createTimetable(h), Touch({1})
      PROVE  \E vs \in SUBSET Version : Spares(vs)
  BY <1>4, <1>6 DEF createTimetable
<1>7. ASSUME NEW h \in Handlers, NEW v \in Version, CreateVersion(h, v), Touch({v})
      PROVE  \E vs \in SUBSET Version : Spares(vs)
  BY <1>4, <1>7 DEF CreateVersion
<1> HIDE DEF Spares
<1>8. \/ UNCHANGED <<version, later>>
      \/ \E h \in Handlers :
           \/ ValidateWrite(h) /\ Touch({req[h].v} \cap {v \in Version : version[v].status \notin Frozen})
           \/ EditReset(h) /\ Touch({req[h].v} \cap {v \in Version : version[v].status = "VALIDATED"})
           \/ (persistSolveResult(h) \/ persistInfeasible(h)) /\ Touch({req[h].v})
           \/ createTimetable(h) /\ Touch({1})
           \/ \E v \in Version : CreateVersion(h, v) /\ Touch({v})
  BY DEF WorkflowNext, workflowVars, vars, tables, tablesButConflict, ValidateVersion,
         PublishVersion, EditEntry, GenerateVersion, ValidateConflicts, ValidateRun,
         ValidateSummary, PublishStatus, PublishRun, PublishConflicts, PublishBlocker,
         PublishSelect, PublishEntries, PublishSupersede, PublishRollback, EditWrite,
         EditRefused, startGenerationJob, loadEngineProblem, persistRollback,
         GenerateFinish, invalidateDraftsForTermTx, HandlerStops, SyncWorkspace,
         TermLifecycle
<1>9. \E vs \in SUBSET Version : Spares(vs)
  BY <1>1, <1>2, <1>3, <1>5, <1>6, <1>7, <1>8 DEF Spares
<1> QED
  BY <1>9 DEF Spares

\* The order in which the rows were updated, and what was replaced, in every
\* reachable state.
LEMMA ShownStep ==
  ASSUME ShownInv, [WorkflowNext]_workflowVars
  PROVE  LaterRanks' /\ ReplacedNotLater'
<1>0. AloneInv /\ LaterRanks /\ ReplacedNotLater /\ TypeOK
  BY DEF ShownInv, AloneInv, IndInv
<1>1. ASSUME NEW h \in Handlers, PublishCommit(h) PROVE LaterRanks' /\ ReplacedNotLater'
  <2> DEFINE v == req[h].v
             vs == {v} \cup (req[h].replaced \cap Published)
  <2>1. v \in Version /\ v \notin Published /\ Published' = {v}
    BY <1>0, <1>1, CommitAlone
  <2>2. vs \in SUBSET Version
    BY <2>1 DEF Published
  <2>3. Touch(vs)
    <3>1. version' # version
      BY <2>1 DEF Published
    <3>2. at[h] = "p_commit"
      BY <1>1 DEF PublishCommit
    <3>3. version'[v].status = "PUBLISHED" /\ version[v].status # "PUBLISHED"
      BY <2>1 DEF Published
    <3>4. \E g \in Handlers : PublishCommit(g) /\ Touch({req[g].v} \cup (req[g].replaced \cap Published))
      <4>1. CASE \A g \in Handlers : ~(PublishCommit(g) /\ Touch({req[g].v} \cup (req[g].replaced \cap Published)))
        <5>1. WorkflowNext
          BY <3>1 DEF workflowVars, vars
        <5>2. PICK g \in Handlers :
                \/ ValidateWrite(g) \/ EditReset(g) \/ persistSolveResult(g)
                \/ persistInfeasible(g) \/ createTimetable(g)
                \/ \E u \in Version : CreateVersion(g, u)
          BY <3>1, <4>1, <5>1 DEF WorkflowNext, vars, tables, tablesButConflict, ValidateVersion,
             PublishVersion, EditEntry, GenerateVersion, ValidateConflicts, ValidateRun,
             ValidateSummary, PublishStatus, PublishRun, PublishConflicts, PublishBlocker,
             PublishSelect, PublishEntries, PublishSupersede, PublishRollback, EditWrite,
             EditRefused, startGenerationJob, loadEngineProblem, persistRollback,
             GenerateFinish, invalidateDraftsForTermTx, HandlerStops, SyncWorkspace,
             TermLifecycle
        <5>3. g = h
          BY <1>0 DEF AloneInv, OneAtATime
        <5> QED
          BY <3>2, <5>2, <5>3 DEF ValidateWrite, EditReset, persistSolveResult,
             persistInfeasible, createTimetable, CreateVersion
      <4> QED
        BY <4>1
    <3> QED
      BY <1>0, <3>4 DEF AloneInv, OneAtATime
  <2>4. LaterRanks' /\ \A u \in Version : <<u, v>> \notin later'
    <3> HIDE DEF vs
    <3>1. v \in vs
      BY DEF vs
    <3> QED
      BY <1>0, <2>1, <2>2, <2>3, <3>1, TouchRanks
  <2> QED
    BY <2>1, <2>4 DEF ReplacedNotLater
<1>2. ASSUME \A h \in Handlers : ~PublishCommit(h) PROVE LaterRanks' /\ ReplacedNotLater'
  <2>1. PICK vs \in SUBSET Version :
           /\ Touch(vs) \/ (vs = {} /\ later' = later)
           /\ \A u \in vs : version'[u].status \notin Frozen
           /\ \A u \in Version : version'[u].status \in Frozen => version'[u] = version[u]
    BY <1>0, <1>2, UpdatesSpareFrozen
  <2>2. /\ LaterRanks'
        /\ \A u, v \in Version : <<u, v>> \in later' <=>
              v \notin vs /\ (u \in vs \/ <<u, v>> \in later)
    <3>1. CASE Touch(vs)
      BY <1>0, <3>1, TouchRanks
    <3>2. CASE vs = {} /\ later' = later
      BY <1>0, <3>2 DEF LaterRanks
    <3> QED
      BY <2>1, <3>1, <3>2
  <2>3. ASSUME NEW v \in Published', NEW u \in Version, version'[u].status = "SUPERSEDED"
        PROVE  <<u, v>> \notin later'
    <3>1. v \in Version /\ version'[v].status = "PUBLISHED"
      BY DEF Published
    <3>2. version'[v] = version[v] /\ version'[u] = version[u] /\ u \notin vs
      BY <2>1, <2>3, <3>1 DEF Frozen
    <3>3. v \in Published /\ version[u].status = "SUPERSEDED"
      BY <2>3, <3>1, <3>2 DEF Published
    <3> QED
      BY <1>0, <2>2, <3>1, <3>2, <3>3 DEF ReplacedNotLater
  <2> QED
    BY <2>2, <2>3 DEF ReplacedNotLater
<1> QED
  BY <1>1, <1>2

LEMMA InvarianceShown == OneAtATime /\ WorkflowSpec => []ShownInv
<1>1. Init /\ later = {} => LaterRanks /\ ReplacedNotLater
  BY DEF Init, LaterRanks, ReplacedNotLater
<1>2. ShownInv /\ [WorkflowNext]_workflowVars /\ AloneInv' => ShownInv'
  BY ShownStep DEF ShownInv
<1>3. AloneInv /\ LaterRanks /\ ReplacedNotLater => ShownInv
  BY DEF ShownInv
<1>4. OneAtATime /\ WorkflowSpec => []AloneInv
  BY InvarianceAlone, WorkflowSteps, PTL DEF Spec, WorkflowSpec
<1> QED
  BY <1>1, <1>2, <1>3, <1>4, PTL DEF WorkflowSpec

LEMMA SmallestSubset ==
  ASSUME NEW S, IsFiniteSet(S), NEW T \in SUBSET SUBSET S, T # {}
  PROVE  \E s \in T : \A r \in T : r \subseteq s => r = s
<1>1. IsWellFoundedOn(StrictSubsetOrdering(S), SUBSET S)
  BY FS_StrictSubsetOrderingWellFounded, FS_FiniteSubsetsOfFinite
<1>2. PICK s \in T : \A r \in T : <<r, s>> \notin StrictSubsetOrdering(S)
  BY <1>1, WFMin
<1>3. ASSUME NEW r \in T, r \subseteq s PROVE r = s
  BY <1>2, <1>3 DEF StrictSubsetOrdering
<1> QED
  BY <1>3

\* A finite set has an element that no other precedes.
LEMMA FirstExists ==
  ASSUME NEW S, IsFiniteSet(S), S # {}, NEW R,
         \A u \in S : <<u, u>> \notin R,
         \A u, v, w \in S : <<u, v>> \in R /\ <<v, w>> \in R => <<u, w>> \in R
  PROVE  \E v \in S : \A u \in S : <<u, v>> \notin R
<1> DEFINE before(v) == {u \in S : <<u, v>> \in R}
           T == {before(v) : v \in S}
<1>1. T \in SUBSET SUBSET S /\ T # {}
  <2>1. PICK v \in S : TRUE
    OBVIOUS
  <2>2. before(v) \in T
    OBVIOUS
  <2>3. ASSUME NEW t \in T PROVE t \in SUBSET S
    <3>1. PICK u \in S : t = before(u)
      OBVIOUS
    <3> QED
      BY <3>1
  <2> QED
    BY <2>2, <2>3
<1>2. PICK s \in T : \A r \in T : r \subseteq s => r = s
  <2> HIDE DEF T
  <2> QED
    BY <1>1, SmallestSubset
<1>3. PICK v \in S : s = before(v)
  BY <1>2
<1>4. ASSUME NEW u \in S, <<u, v>> \in R PROVE FALSE
  <2>1. before(u) \in T /\ before(u) \subseteq s /\ u \in s
    BY <1>3, <1>4
  <2>2. u \in before(u)
    BY <1>2, <2>1
  <2> QED
    BY <2>2
<1> QED
  BY <1>4

LEMMA MaxIsIn ==
  ASSUME NEW S \in SUBSET Int, IsFiniteSet(S), S # {}
  PROVE  Max(S) \in S /\ \A v \in S : Max(S) >= v
<1> DEFINE above == {p \in S \X S : p[1] > p[2]}
<1>1. \A u, v \in S : <<u, v>> \in above <=> u > v
  OBVIOUS
<1>2. PICK m \in S : \A u \in S : <<u, m>> \notin above
  <2> HIDE DEF above
  <2>1. \A u \in S : <<u, u>> \notin above
    BY <1>1
  <2>2. \A u, v, w \in S : <<u, v>> \in above /\ <<v, w>> \in above => <<u, w>> \in above
    BY <1>1
  <2> QED
    BY <2>1, <2>2, FirstExists
<1>3. \A v \in S : m >= v
  <2> HIDE DEF above
  <2> TAKE v \in S
  <2>1. v \in Int /\ m \in Int /\ ~(v > m)
    BY <1>1, <1>2
  <2> QED
    BY <2>1
<1> QED
  BY <1>3 DEF Max

\* The version that Workflow shows: none other was updated after it, and of
\* those that tie it has the highest number.
LEMMA RelevantVersion ==
  ASSUME LaterRanks
  PROVE  LET candidates == IF Drafts # {} THEN Drafts ELSE {v \in Version : Exists(v)}
             newest == {v \in candidates : \A u \in candidates : <<u, v>> \notin later}
         IN \/ candidates = {} /\ relevantVersion = 0
            \/ /\ relevantVersion \in newest
               /\ \A v \in newest : relevantVersion >= v
<1> DEFINE candidates == IF Drafts # {} THEN Drafts ELSE {v \in Version : Exists(v)}
           newest == {v \in candidates : \A u \in candidates : <<u, v>> \notin later}
<1>1. candidates \subseteq Version /\ Version \subseteq Int /\ IsFiniteSet(Version)
  BY LifecycleAssumption, FS_Interval DEF Drafts, Version
<1>2. CASE candidates = {}
  BY <1>2 DEF relevantVersion
<1>3. CASE candidates # {}
  <2>1. IsFiniteSet(candidates) /\ IsFiniteSet(newest) /\ newest \in SUBSET Int
    <3> newest \subseteq candidates
      OBVIOUS
    <3> HIDE DEF candidates, newest
    <3> QED
      BY <1>1, FS_Subset
  <2>2. newest # {}
    <3> HIDE DEF candidates
    <3>1. /\ \A u \in candidates : <<u, u>> \notin later
          /\ \A u, v, w \in candidates :
               <<u, v>> \in later /\ <<v, w>> \in later => <<u, w>> \in later
      BY <1>1 DEF LaterRanks
    <3>2. \E v \in candidates : \A u \in candidates : <<u, v>> \notin later
      BY <1>3, <2>1, <3>1, FirstExists
    <3> QED
      BY <3>2
  <2>3. relevantVersion = Max(newest)
    BY <1>3 DEF relevantVersion
  <2>4. Max(newest) \in newest /\ \A v \in newest : Max(newest) >= v
    <3> HIDE DEF newest
    <3> QED
      BY <2>1, <2>2, MaxIsIn
  <2> QED
    BY <2>3, <2>4
<1> QED
  BY <1>2, <1>3

\* Four conditions followed by seven.
LEMMA Joined ==
  ASSUME NEW a1, NEW a2, NEW a3, NEW a4,
         NEW b1, NEW b2, NEW b3, NEW b4, NEW b5, NEW b6, NEW b7
  PROVE  LET s == <<a1, a2, a3, a4>>
             t == <<b1, b2, b3, b4, b5, b6, b7>>
         IN /\ DOMAIN (s \o t) = 1..11
            /\ \A i \in 1..4 : (s \o t)[i] = s[i]
            /\ \A i \in 1..7 : (s \o t)[i + 4] = t[i]
<1> DEFINE T == {a1, a2, a3, a4, b1, b2, b3, b4, b5, b6, b7}
<1>1. PICK s : s = <<a1, a2, a3, a4>>
  OBVIOUS
<1>2. PICK t : t = <<b1, b2, b3, b4, b5, b6, b7>>
  OBVIOUS
<1>3. s \in Seq(T) /\ Len(s) = 4
  BY <1>1
<1>4. t \in Seq(T) /\ Len(t) = 7
  BY <1>2
<1>5. /\ DOMAIN (s \o t) = 1..11
      /\ \A i \in 1..4 : (s \o t)[i] = s[i]
      /\ \A i \in 1..7 : (s \o t)[i + 4] = t[i]
  <2> HIDE DEF T
  <2>1. PICK st : st = s \o t
    OBVIOUS
  <2>2. /\ st \in Seq(T) /\ Len(st) = Len(s) + Len(t)
        /\ \A i \in 1..(Len(s) + Len(t)) :
             st[i] = IF i <= Len(s) THEN s[i] ELSE t[i - Len(s)]
    BY <1>3, <1>4, <2>1, ConcatProperties
  <2>3. /\ st \in Seq(T) /\ Len(st) = 11
        /\ \A i \in 1..11 : st[i] = IF i <= 4 THEN s[i] ELSE t[i - 4]
    BY <1>3, <1>4, <2>2
  <2>4. DOMAIN st = 1..11
    BY <2>3
  <2>5. ASSUME NEW i \in 1..4 PROVE st[i] = s[i]
    BY <2>3
  <2>6. ASSUME NEW i \in 1..7 PROVE st[i + 4] = t[i]
    <3>1. i + 4 \in 1..11 /\ ~(i + 4 <= 4) /\ (i + 4) - 4 = i
      OBVIOUS
    <3> QED
      BY <2>3, <3>1
  <2> QED
    BY <2>1, <2>4, <2>5, <2>6
<1> QED
  BY <1>1, <1>2, <1>5

\* deriveWorkflowState answers the first of its conditions that holds.  The
\* set-up of the school is complete, so the first four do not.
LEMMA Gates ==
  ASSUME NEW facts
  PROVE  \E i \in 1..7 :
           /\ deriveWorkflowState(ReadySetup, facts) = versionGates(facts)[i][2]
           /\ versionGates(facts)[i][1]
           /\ \A j \in 1..(i - 1) : ~versionGates(facts)[j][1]
<1> DEFINE setup == setupGates(ReadySetup)
           gates == versionGates(facts)
           all == setup \o gates
<1>1. ~setup[1][1] /\ ~setup[2][1] /\ ~setup[3][1] /\ ~setup[4][1]
  BY DEF setupGates, ReadySetup
<1>2. /\ DOMAIN all = 1..11
      /\ \A i \in 1..4 : all[i] = setup[i]
      /\ \A i \in 1..7 : all[i + 4] = gates[i]
  <2>1. PICK a1, a2, a3, a4 : setup = <<a1, a2, a3, a4>>
    BY DEF setupGates
  <2>2. PICK b1, b2, b3, b4, b5, b6, b7 : gates = <<b1, b2, b3, b4, b5, b6, b7>>
    BY DEF versionGates
  <2> HIDE DEF setup, gates
  <2> QED
    BY <2>1, <2>2, Joined
<1>3. gates[7][1]
  BY DEF versionGates
<1>4. \A i \in 1..4 : ~setup[i][1]
  <2> HIDE DEF setup
  <2> TAKE i \in 1..4
  <2>1. i = 1 \/ i = 2 \/ i = 3 \/ i = 4
    OBVIOUS
  <2> QED
    BY <1>1, <2>1
<1> HIDE DEF setup, gates, all
<1> DEFINE open == {i \in 1..11 : all[i][1]}
           less == {p \in (1..11) \X (1..11) : p[1] < p[2]}
<1>5. \A i, j \in 1..11 : <<i, j>> \in less <=> i < j
  OBVIOUS
<1>6. 11 \in open /\ open \subseteq 1..11
  BY <1>2, <1>3
<1>7. IsFiniteSet(open)
  <2> HIDE DEF open
  <2>1. 1 \in Int /\ 11 \in Int
    OBVIOUS
  <2>2. IsFiniteSet(1..11)
    BY <2>1, FS_Interval, Zenon
  <2> QED
    BY <1>6, <2>2, FS_Subset
<1>8. PICK k \in open : \A j \in open : <<j, k>> \notin less
  <2> HIDE DEF open, less
  <2>1. \A i, j \in open : <<i, j>> \in less <=> i < j
    BY <1>5, <1>6
  <2>2. open \subseteq Int
    BY <1>6
  <2>3. \A j \in open : <<j, j>> \notin less
    BY <2>1, <2>2
  <2>4. \A i, j, l \in open : <<i, j>> \in less /\ <<j, l>> \in less => <<i, l>> \in less
    BY <2>1, <2>2
  <2> QED
    BY <1>6, <1>7, <2>3, <2>4, FirstExists
<1> DEFINE First(i) == all[i][1] /\ \A j \in 1..(i - 1) : ~all[j][1]
<1>9. k \in 1..11 /\ First(k)
  <2> HIDE DEF less
  <2>1. k \in 1..11 /\ all[k][1]
    BY <1>8
  <2>2. ASSUME NEW j \in 1..(k - 1) PROVE ~all[j][1]
    <3>1. j \in 1..11 /\ j < k
      BY <2>1
    <3>2. j \notin open
      BY <1>5, <1>8, <2>1, <3>1
    <3> QED
      BY <3>1, <3>2
  <2> QED
    BY <2>1, <2>2
<1>10. PICK n \in 1..11 : First(n) /\ deriveWorkflowState(ReadySetup, facts) = all[n][2]
  <2>1. deriveWorkflowState(ReadySetup, facts) = all[CHOOSE i \in 1..11 : First(i)][2]
    BY <1>2 DEF deriveWorkflowState, firstState, all, setup, gates
  <2> HIDE DEF First
  <2> QED
    BY <1>9, <2>1
<1>11. n \notin 1..4
  BY <1>2, <1>4, <1>10
<1>12. n - 4 \in 1..7 /\ all[n] = gates[n - 4]
  <2>1. n - 4 \in 1..7 /\ (n - 4) + 4 = n
    BY <1>11
  <2> QED
    BY <1>2, <2>1
<1>13. ASSUME NEW j \in 1..((n - 4) - 1) PROVE ~gates[j][1]
  <2>1. j \in 1..7 /\ j + 4 \in 1..(n - 1)
    BY <1>12
  <2> QED
    BY <1>2, <1>10, <2>1
<1> QED
  BY <1>10, <1>12, <1>13 DEF gates

LEMMA ReadyGate ==
  ASSUME NEW facts, deriveWorkflowState(ReadySetup, facts) = "READY_TO_PUBLISH"
  PROVE  /\ facts.HasVersion /\ facts.HasSolverRun /\ ~facts.HardConflicts
         /\ facts.VersionStatus = "VALIDATED"
<1>1. PICK i \in 1..7 :
        /\ versionGates(facts)[i][2] = "READY_TO_PUBLISH"
        /\ versionGates(facts)[i][1]
        /\ \A j \in 1..(i - 1) : ~versionGates(facts)[j][1]
  BY Gates
<1>2. i = 6
  BY <1>1 DEF versionGates
<1>3. ~versionGates(facts)[2][1] /\ ~versionGates(facts)[4][1] /\ ~versionGates(facts)[5][1]
  BY <1>1, <1>2
<1> QED
  BY <1>1, <1>2, <1>3 DEF versionGates

LEMMA PublishedGate ==
  ASSUME NEW facts, facts.HasVersion, ~facts.GenerationRunning,
         facts.VersionStatus = "PUBLISHED"
  PROVE  deriveWorkflowState(ReadySetup, facts) = "PUBLISHED"
<1>1. PICK i \in 1..7 :
        /\ deriveWorkflowState(ReadySetup, facts) = versionGates(facts)[i][2]
        /\ versionGates(facts)[i][1]
        /\ \A j \in 1..(i - 1) : ~versionGates(facts)[j][1]
  BY Gates
<1>2. /\ ~versionGates(facts)[1][1] /\ ~versionGates(facts)[2][1]
      /\ versionGates(facts)[3][1] /\ versionGates(facts)[3][2] = "PUBLISHED"
  BY DEF versionGates
<1>3. i = 3
  <2>1. ~(3 \in 1..(i - 1)) /\ i # 1 /\ i # 2
    BY <1>1, <1>2
  <2> QED
    BY <2>1
<1> QED
  BY <1>1, <1>2, <1>3

\* When requests do not overlap, a version offered for publication passes the
\* checks of publishVersion on the status, the solver run and the conflicts,
\* whatever edits, crashes, invalidations and generations came before
\* (Workflow, deriveWorkflowState).
THEOREM ReadyCanBePublished == OneAtATime /\ WorkflowSpec => []ReadyIsPublishable
<1>1. ShownInv => ReadyIsPublishable
  <2> DEFINE r == relevantVersion
  <2> SUFFICES ASSUME ShownInv, "READY_TO_PUBLISH" \in WorkflowStates
               PROVE  /\ version[r].status = "VALIDATED"
                      /\ ~publicationBlocker(solverRun[r].status = "COMPLETE", conflict[r])
                      /\ solverRun[r].stamp = entries[r].stamp
    BY DEF ReadyIsPublishable
  <2>1. LaterRanks /\ TypeOK /\ RunDescribesEntries /\ ValidatedSolved
    BY DEF ShownInv, AloneInv, IndInv
  <2>2. PICK facts \in VersionFacts : deriveWorkflowState(ReadySetup, facts) = "READY_TO_PUBLISH"
    BY DEF WorkflowStates
  <2>3. /\ facts.HasVersion /\ facts.HasSolverRun /\ ~facts.HardConflicts
        /\ facts.VersionStatus = "VALIDATED"
    BY <2>2, ReadyGate
  <2>4. r # 0
    BY <2>2, <2>3 DEF VersionFacts, NoVersionFacts
  <2>5. r \in Version
    BY <2>1, <2>4, RelevantVersion DEF Drafts
  <2>6. PICK c \in Counts(solverRun[r]) :
          facts = [HasVersion |-> TRUE, VersionStatus |-> version[r].status,
                   GenerationRunning |-> job[r] # None,
                   HasSolverRun |-> solverRun[r].status # "none",
                   HardConflicts |-> c[1] \/ conflict[r], Unscheduled |-> c[2]]
    BY <2>2, <2>4 DEF VersionFacts
  <2>7. version[r].status = "VALIDATED" /\ solverRun[r].status # "none" /\ ~conflict[r]
    BY <2>3, <2>6
  <2>8. solverRun[r].status = "COMPLETE"
    BY <2>1, <2>5, <2>7 DEF ValidatedSolved
  <2> QED
    BY <2>1, <2>5, <2>7, <2>8 DEF RunDescribesEntries, publicationBlocker
<1> QED
  BY InvarianceShown, <1>1, PTL

\* When requests do not overlap and no draft exists, the portal shows the
\* version in force, or one that it replaced and that has a higher number: rows
\* of one transaction tie in updated_at (Workflow, relevantVersion).
THEOREM PortalShowsInForce == OneAtATime /\ WorkflowSpec => []InForceIsShown
<1>1. ShownInv => InForceIsShown
  <2> DEFINE r == relevantVersion
  <2> SUFFICES ASSUME ShownInv, Drafts = {}, NEW v \in Published,
                      \A u \in Version : job[u] = None
               PROVE  WorkflowStates = {"PUBLISHED"} \/ r > v
    BY DEF InForceIsShown
  <2> DEFINE candidates == {u \in Version : Exists(u)}
             newest == {w \in candidates : \A u \in candidates : <<u, w>> \notin later}
  <2>1. LaterRanks /\ ReplacedNotLater /\ TypeOK
    BY DEF ShownInv, AloneInv, IndInv
  <2>2. v \in candidates /\ v \in Version
    BY DEF Published, Exists
  <2>3. r \in newest /\ \A w \in newest : r >= w
    BY <2>1, <2>2, RelevantVersion
  <2>4. r \in Version /\ r # 0 /\ v \in Nat /\ r \in Nat
    BY <2>2, <2>3, LifecycleAssumption DEF Version
  <2>5. CASE r \in Published
    <3>1. \A facts \in VersionFacts : deriveWorkflowState(ReadySetup, facts) = "PUBLISHED"
      <4> TAKE facts \in VersionFacts
      <4>1. PICK c \in Counts(solverRun[r]) :
              facts = [HasVersion |-> TRUE, VersionStatus |-> version[r].status,
                       GenerationRunning |-> job[r] # None,
                       HasSolverRun |-> solverRun[r].status # "none",
                       HardConflicts |-> c[1] \/ conflict[r], Unscheduled |-> c[2]]
        BY <2>4 DEF VersionFacts
      <4>2. version[r].status = "PUBLISHED" /\ job[r] = None
        BY <2>4, <2>5 DEF Published
      <4>3. facts.HasVersion /\ ~facts.GenerationRunning /\ facts.VersionStatus = "PUBLISHED"
        BY <4>1, <4>2
      <4> QED
        BY <4>3, PublishedGate
    <3>2. VersionFacts # {}
      <4>1. <<FALSE, FALSE>> \in Counts(solverRun[r])
        BY DEF Counts
      <4> QED
        BY <2>4, <4>1 DEF VersionFacts
    <3> QED
      BY <3>1, <3>2 DEF WorkflowStates
  <2>6. CASE r \notin Published
    <3>1. version[r].status = "SUPERSEDED"
      <4>1. version[r].status \in Status /\ version[r].status # "ABSENT"
        BY <2>1, <2>3, <2>4 DEF TypeOK, VersionRow, Exists
      <4>2. version[r].status \notin {"DRAFT", "VALIDATED", "PUBLISHED"}
        BY <2>4, <2>6 DEF Drafts, Published
      <4> QED
        BY <4>1, <4>2 DEF Status
    <3>2. <<r, v>> \notin later
      BY <2>1, <2>4, <3>1 DEF ReplacedNotLater
    <3>3. ASSUME NEW u \in candidates PROVE <<u, v>> \notin later
      <4>1. <<u, r>> \notin later
        BY <2>3
      <4> QED
        BY <2>1, <2>2, <2>4, <3>2, <4>1 DEF LaterRanks
    <3>4. r >= v
      BY <2>2, <2>3, <3>3
    <3> QED
      BY <2>4, <2>6, <3>4
  <2> QED
    BY <2>5, <2>6
<1> QED
  BY InvarianceShown, <1>1, PTL
=============================================================================
