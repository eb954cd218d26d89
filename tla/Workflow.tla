------------------------------ MODULE Workflow ------------------------------
(***************************************************************************)
(* GET /api/v1/workflow: which version of the term's timetable the portal  *)
(* shows and which step it offers next, over the rows that the handlers of *)
(* TimetableLifecycle write.  The portal offers one button for each state. *)
(*                                                                         *)
(* The module adds what TimetableLifecycle leaves out: the order in which  *)
(* the version rows were last updated (updated_at).  now() is the start of *)
(* the transaction, so the rows of one transaction tie.                    *)
(***************************************************************************)
EXTENDS TimetableLifecycle, Sequences, FiniteSetsExt

VARIABLE later   \* pairs of versions, the first last updated after the second

workflowVars == <<vars, later>>

\* UPDATE ... updated_at = now() on the rows of vs, or their INSERT.
Touch(vs) ==
  later' = {p \in later : p[1] \notin vs /\ p[2] \notin vs} \cup (vs \X (Version \ vs))

\* The rows a step updates; the guards of the UPDATEs are those of the code.
WorkflowNext ==
  \/ \E h \in Handlers :
       \/ ValidateWrite(h) /\ Touch({req[h].v} \cap {v \in Version : version[v].status \notin Frozen})
       \/ PublishCommit(h) /\ Touch({req[h].v} \cup (req[h].replaced \cap Published))
       \/ EditReset(h) /\ Touch({req[h].v} \cap {v \in Version : version[v].status = "VALIDATED"})
       \/ persistSolveResult(h) /\ Touch({req[h].v})
       \/ persistInfeasible(h) /\ Touch({req[h].v})
       \/ createTimetable(h) /\ Touch({1})
       \/ \E v \in Version : CreateVersion(h, v) /\ Touch({v})
  \/ /\ \/ \E h \in Handlers, v \in Version :
             \/ ValidateVersion(h, v) \/ PublishVersion(h, v)
             \/ EditEntry(h, v) \/ GenerateVersion(h, v)
        \/ \E h \in Handlers :
             \/ ValidateConflicts(h) \/ ValidateRun(h) \/ ValidateSummary(h)
             \/ PublishStatus(h) \/ PublishRun(h) \/ PublishConflicts(h)
             \/ PublishBlocker(h) \/ PublishSelect(h) \/ PublishEntries(h)
             \/ PublishSupersede(h) \/ PublishRollback(h)
             \/ EditWrite(h) \/ EditRefused(h)
             \/ startGenerationJob(h) \/ loadEngineProblem(h)
             \/ persistRollback(h) \/ GenerateFinish(h)
             \/ invalidateDraftsForTermTx(h) \/ HandlerStops(h)
        \/ SyncWorkspace
        \/ TermLifecycle
     /\ UNCHANGED later

WorkflowSpec == Init /\ later = {} /\ [][WorkflowNext]_workflowVars

-----------------------------------------------------------------------------
(* What Workflow reads, statement by statement, and derives.               *)

Drafts == {v \in Version : version[v].status \in {"DRAFT", "VALIDATED"}}

\* ORDER BY drafts first, updated_at DESC, version_number DESC LIMIT 1.
relevantVersion ==
  LET candidates == IF Drafts # {} THEN Drafts ELSE {v \in Version : Exists(v)}
      newest == {v \in candidates : \A u \in candidates : <<u, v>> \notin later}
  IN IF candidates = {} THEN 0 ELSE Max(newest)

\* solver_run.hard_conflicts and unscheduled_mandatory_lessons, as zero or not.
\* They are zero for an infeasible problem, and may be for a time budget that
\* ended before the first attempt.
Counts(run) ==
  IF run.status = "PARTIAL_DRAFT" THEN BOOLEAN \X BOOLEAN ELSE {<<FALSE, FALSE>>}

\* Term, synchronization, assignments and bell periods: a missing one only
\* replaces the state by one that asks for it.
ReadySetup == [HasTerm |-> TRUE, IntegrationFailed |-> FALSE,
               IntegrationReady |-> TRUE, Assignments |-> TRUE, BellPeriods |-> TRUE]

NoVersionFacts == [HasVersion |-> FALSE, VersionStatus |-> "ABSENT",
                   GenerationRunning |-> FALSE, HasSolverRun |-> FALSE,
                   HardConflicts |-> FALSE, Unscheduled |-> FALSE]

VersionFacts ==
  IF relevantVersion = 0 THEN {NoVersionFacts}
  ELSE LET v == relevantVersion IN
       {[HasVersion |-> TRUE, VersionStatus |-> version[v].status,
         GenerationRunning |-> job[v] # None,
         HasSolverRun |-> solverRun[v].status # "none",
         HardConflicts |-> c[1] \/ conflict[v], Unscheduled |-> c[2]] : c \in Counts(solverRun[v])}

\* The state of the first condition that holds.
firstState(gates) ==
  gates[CHOOSE i \in DOMAIN gates :
          gates[i][1] /\ \A j \in 1..(i - 1) : ~gates[j][1]][2]

setupGates(facts) ==
  << <<~facts.HasTerm, "ACADEMIC_CONTEXT_REQUIRED">>,
     <<facts.IntegrationFailed, "INTEGRATION_DEGRADED">>,
     <<~facts.IntegrationReady \/ ~facts.Assignments, "ASSIGNMENTS_REQUIRED">>,
     <<~facts.BellPeriods, "BELL_PERIODS_REQUIRED">> >>

MutRun_versionGates(facts) ==
  << <<facts.GenerationRunning, "GENERATING">>,
     <<~facts.HasVersion, "READY_TO_GENERATE">>,
     <<facts.VersionStatus = "PUBLISHED", "PUBLISHED">>,
     <<facts.HardConflicts, "DRAFT_HAS_CONFLICTS">>,
     <<facts.Unscheduled, "DRAFT_IN_PROGRESS">>,
     <<facts.VersionStatus = "VALIDATED", "READY_TO_PUBLISH">>,
     <<TRUE, "DRAFT_READY_FOR_VALIDATION">> >>

MutOrder_versionGates(facts) ==
  << <<facts.GenerationRunning, "GENERATING">>,
     <<~facts.HasVersion, "READY_TO_GENERATE">>,
     <<facts.HardConflicts, "DRAFT_HAS_CONFLICTS">>,
     <<facts.VersionStatus = "PUBLISHED", "PUBLISHED">>,
     <<~facts.HasSolverRun \/ facts.Unscheduled, "DRAFT_IN_PROGRESS">>,
     <<facts.VersionStatus = "VALIDATED", "READY_TO_PUBLISH">>,
     <<TRUE, "DRAFT_READY_FOR_VALIDATION">> >>

versionGates(facts) ==
  << <<facts.GenerationRunning, "GENERATING">>,
     <<~facts.HasVersion, "READY_TO_GENERATE">>,
     <<facts.VersionStatus = "PUBLISHED", "PUBLISHED">>,
     <<facts.HardConflicts, "DRAFT_HAS_CONFLICTS">>,
     <<~facts.HasSolverRun \/ facts.Unscheduled, "DRAFT_IN_PROGRESS">>,
     <<facts.VersionStatus = "VALIDATED", "READY_TO_PUBLISH">>,
     <<TRUE, "DRAFT_READY_FOR_VALIDATION">> >>

deriveWorkflowState(setup, facts) == firstState(setupGates(setup) \o versionGates(facts))

\* The states that Workflow may answer once the school is set up.
WorkflowStates == {deriveWorkflowState(ReadySetup, facts) : facts \in VersionFacts}

-----------------------------------------------------------------------------
\* "This timetable is valid and ready to publish" (workflowCopy): the version
\* shown passes every check of publishVersion but those that look at the
\* snapshot and the term, through crashes between the two writes of an edit,
\* dropped solver runs and generations that ended badly.
ReadyIsPublishable ==
  "READY_TO_PUBLISH" \in WorkflowStates =>
    LET v == relevantVersion IN
    /\ version[v].status = "VALIDATED"
    /\ ~publicationBlocker(solverRun[v].status = "COMPLETE", conflict[v])
    /\ solverRun[v].stamp = entries[v].stamp

\* As long as no draft exists, the portal shows what is in force: later
\* conflicts and syncs do not hide it, and neither does a version it replaced,
\* except one with a higher number (Workflow orders rows of one transaction by
\* their number).  A RUNNING job that a crash left behind hides it as well.
InForceIsShown ==
  Drafts = {} /\ Published # {} /\ (\A v \in Version : job[v] = None) =>
    \/ WorkflowStates = {"PUBLISHED"}
    \/ \E v \in Published : relevantVersion > v
=============================================================================
