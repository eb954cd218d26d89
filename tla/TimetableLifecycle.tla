------------------------- MODULE TimetableLifecycle -------------------------
(***************************************************************************)
(* The life of the versions of one timetable, as the portal API drives it: *)
(* generate, edit, validate, publish, derive a new version, while academic *)
(* snapshots arrive from Scholaroscope.                                    *)
(*                                                                         *)
(* A request handler is a sequence of database statements and              *)
(* transactions; each statement (or transaction) is one action, and the    *)
(* handlers in Handlers interleave between them.  A transaction's writes   *)
(* take effect when it commits; what it has read before stays in req[h].   *)
(*                                                                         *)
(* The entries of a version are abstracted to a stamp (a new one for every *)
(* write, so equal stamps mean equal entries) and the academic snapshot    *)
(* the generator worked from.  The term opens and closes at any moment, so *)
(* the read of its lifecycle is taken with the read of the snapshot hash   *)
(* next to it.                                                             *)
(***************************************************************************)
EXTENDS Naturals

CONSTANTS
  Handlers,     \* request handlers of the API that can be in flight together
  Snapshots,    \* academic snapshot hashes
  TermStates,   \* bound: the values termOpen takes
  MaxVersion,   \* bound: version numbers of the timetable
  MaxWrites,    \* bound: writes to entries in a behaviour
  None          \* the SQL NULL

ASSUME LifecycleAssumption ==
  /\ MaxVersion \in Nat
  /\ MaxWrites \in Nat
  /\ TermStates \subseteq BOOLEAN
  /\ None \notin Snapshots
  /\ None \notin Handlers
  /\ "interrupted" \notin Handlers

VARIABLES
  workspaceHash,  \* external_workspace.academic_snapshot_hash
  termOpen,       \* the timetable's term is ACTIVE or UPCOMING
  version,        \* timetable_version: status and academic_snapshot_hash
  entries,        \* timetable_entry rows of each version
  solverRun,      \* latest solver_run row of each version
  conflict,       \* an open HARD scheduling_conflict row exists
  job,            \* owner of the version's RUNNING timetable_generation_job
  outbox,         \* publication rows of outbox_event
  writes,         \* entry writes so far
  at,             \* next step of each handler
  req             \* what each handler has read so far

vars == <<workspaceHash, termOpen, version, entries, solverRun, conflict,
          job, outbox, writes, at, req>>

Version == 1..MaxVersion
Stamp == 0..MaxWrites

\* VALIDATING and ARCHIVED are in the schema and no code sets them.
Status == {"ABSENT", "DRAFT", "VALIDATED", "PUBLISHED", "SUPERSEDED"}
Frozen == {"PUBLISHED", "SUPERSEDED"}

\* COMPLETE stands for both complete outcomes, PARTIAL_DRAFT also for
\* TIME_BUDGET_EXCEEDED; "none" is the absence of a row.
SolveStatus == {"COMPLETE", "PARTIAL_DRAFT", "INFEASIBLE"}

VersionRow == [status : Status, hash : Snapshots \cup {None}]
\* basis is None for entries that are not all the generator's.
EntryRows == [stamp : Stamp, basis : Snapshots \cup {None}]
RunRow == [status : SolveStatus \cup {"none"}, stamp : Stamp]
Event == [version : Version, base : 0..MaxVersion, payload : Stamp]
Request == [v : 0..MaxVersion, complete : BOOLEAN, base : 0..MaxVersion,
            payload : Stamp, replaced : SUBSET Version,
            basis : Snapshots \cup {None}]

Step == {"idle",
         "v_conflicts", "v_run", "v_summary", "v_write",
         "p_status", "p_run", "p_conflicts", "p_blocker",
         "p_select", "p_entries", "p_supersede", "p_commit",
         "e_write", "e_reset",
         "g_start", "g_load", "g_persist", "g_finish"}

NoRows == [stamp |-> 0, basis |-> None]
NoRun == [status |-> "none", stamp |-> 0]
NoRequest == [v |-> 0, complete |-> FALSE, base |-> 0, payload |-> 0,
              replaced |-> {}, basis |-> None]

Exists(v) == version[v].status # "ABSENT"
Published == {v \in Version : version[v].status = "PUBLISHED"}

Init ==
  /\ workspaceHash \in Snapshots
  /\ termOpen = TRUE
  /\ version = [v \in Version |-> [status |-> "ABSENT", hash |-> None]]
  /\ entries = [v \in Version |-> NoRows]
  /\ solverRun = [v \in Version |-> NoRun]
  /\ conflict = [v \in Version |-> FALSE]
  /\ job = [v \in Version |-> None]
  /\ outbox = {}
  /\ writes = 0
  /\ at = [h \in Handlers |-> "idle"]
  /\ req = [h \in Handlers |-> NoRequest]

-----------------------------------------------------------------------------
(***************************************************************************)
(* Handlers' control: a handler moves to its next step, or answers its     *)
(* request and forgets it.                                                 *)
(***************************************************************************)
Begin(h, v, step) ==
  /\ at[h] = "idle"
  /\ Exists(v)
  /\ at' = [at EXCEPT ![h] = step]
  /\ req' = [req EXCEPT ![h].v = v]

Goto(h, step) ==
  /\ at' = [at EXCEPT ![h] = step]
  /\ req' = req

Learn(h, step, r) ==
  /\ at' = [at EXCEPT ![h] = step]
  /\ req' = [req EXCEPT ![h] = r]

Answer(h) ==
  /\ at' = [at EXCEPT ![h] = "idle"]
  /\ req' = [req EXCEPT ![h] = NoRequest]

GotoOrAnswer(h, condition, step) ==
  \/ condition /\ Goto(h, step)
  \/ ~condition /\ Answer(h)

(***************************************************************************)
(* Shared helpers.                                                         *)
(***************************************************************************)
academicSnapshotIsCurrent(v) == version[v].hash = workspaceHash

\* A rebuilt conflict table: generated entries do not overlap and their
\* teachers are authorized in the snapshot they were generated from.
DetectedConflicts(v) ==
  IF entries[v].stamp = 0 \/ entries[v].basis = workspaceHash
  THEN {FALSE}
  ELSE BOOLEAN

rebuildConflictsForVersion(v) ==
  \E hard \in DetectedConflicts(v) :
    conflict' = [conflict EXCEPT ![v] = hard]

Mut_RunAfterEntryWrite(run) == run

\* What the trigger on timetable_entry leaves of the version's solver runs.
RunAfterEntryWrite(run) == NoRun

\* A statement that writes entries, with its trigger.
WriteEntries(v, basis) ==
  /\ writes < MaxWrites
  /\ writes' = writes + 1
  /\ entries' = [entries EXCEPT ![v] =
                   [stamp |-> writes + 1, basis |-> basis]]

-----------------------------------------------------------------------------
(***************************************************************************)
(* ValidateVersion.                                                        *)
(***************************************************************************)
tables == <<workspaceHash, termOpen, version, entries, solverRun, conflict,
            job, outbox, writes>>
tablesButConflict == <<workspaceHash, termOpen, version, entries, solverRun,
                       job, outbox, writes>>
tablesButVersion == <<workspaceHash, termOpen, entries, solverRun, conflict,
                      job, outbox, writes>>

ValidateVersion(h, v) ==
  /\ academicSnapshotIsCurrent(v)
  /\ termOpen
  /\ Begin(h, v, "v_conflicts")
  /\ UNCHANGED tables

ValidateConflicts(h) ==
  /\ at[h] = "v_conflicts"
  /\ rebuildConflictsForVersion(req[h].v)
  /\ Goto(h, "v_run")
  /\ UNCHANGED tablesButConflict

ValidateRun(h) ==
  /\ at[h] = "v_run"
  /\ \/ /\ solverRun[req[h].v].status = "none"
        /\ Answer(h)
     \/ /\ solverRun[req[h].v].status # "none"
        /\ Learn(h, "v_summary", [req[h] EXCEPT
             !.complete = solverRun[req[h].v].status = "COMPLETE"])
  /\ UNCHANGED tables

ValidateSummary(h) ==
  /\ at[h] = "v_summary"
  /\ Learn(h, "v_write", [req[h] EXCEPT
       !.complete = @ /\ ~conflict[req[h].v]])
  /\ UNCHANGED tables

StatusAfterValidation(status, complete) ==
  IF status \in Frozen THEN status
  ELSE IF complete THEN "VALIDATED" ELSE "DRAFT"

ValidateWrite(h) ==
  /\ at[h] = "v_write"
  /\ version' = [version EXCEPT ![req[h].v].status =
                   StatusAfterValidation(@, req[h].complete)]
  /\ Answer(h)
  /\ UNCHANGED tablesButVersion

-----------------------------------------------------------------------------
(***************************************************************************)
(* publishVersion: checks outside the transaction, then the transaction.   *)
(***************************************************************************)
PublishVersion(h, v) ==
  /\ academicSnapshotIsCurrent(v)
  /\ termOpen
  /\ Begin(h, v, "p_status")
  /\ UNCHANGED tables

PublishStatus(h) ==
  /\ at[h] = "p_status"
  /\ GotoOrAnswer(h, version[req[h].v].status = "VALIDATED", "p_run")
  /\ UNCHANGED tables

PublishRun(h) ==
  /\ at[h] = "p_run"
  /\ \/ /\ solverRun[req[h].v].status = "none"
        /\ Answer(h)
     \/ /\ solverRun[req[h].v].status # "none"
        /\ Learn(h, "p_conflicts", [req[h] EXCEPT
             !.complete = solverRun[req[h].v].status = "COMPLETE"])
  /\ UNCHANGED tables

PublishConflicts(h) ==
  /\ at[h] = "p_conflicts"
  /\ rebuildConflictsForVersion(req[h].v)
  /\ Goto(h, "p_blocker")
  /\ UNCHANGED tablesButConflict

publicationBlocker(complete, hard) == ~complete \/ hard

PublishBlocker(h) ==
  /\ at[h] = "p_blocker"
  /\ \/ /\ publicationBlocker(req[h].complete, conflict[req[h].v])
        /\ Answer(h)
     \/ /\ ~publicationBlocker(req[h].complete, conflict[req[h].v])
        /\ Learn(h, "p_select", [req[h] EXCEPT !.complete = FALSE])
  /\ UNCHANGED tables

previousVersion(v) ==
  IF Published \ {v} = {} THEN {0} ELSE Published \ {v}

\* BEGIN; the version again, and the published version it will replace.
PublishSelect(h) ==
  LET v == req[h].v IN
  /\ at[h] = "p_select"
  /\ \/ /\ version[v].status # "VALIDATED"
        /\ Answer(h)
     \/ /\ version[v].status = "VALIDATED"
        /\ \E base \in previousVersion(v) :
             Learn(h, "p_entries", [req[h] EXCEPT !.base = base])
  /\ UNCHANGED tables

PublishEntries(h) ==
  /\ at[h] = "p_entries"
  /\ Learn(h, "p_supersede", [req[h] EXCEPT !.payload = entries[req[h].v].stamp])
  /\ UNCHANGED tables

\* The UPDATE to SUPERSEDED; it sees the versions published when it starts.
PublishSupersede(h) ==
  /\ at[h] = "p_supersede"
  /\ Learn(h, "p_commit", [req[h] EXCEPT !.replaced = Published \ {req[h].v}])
  /\ UNCHANGED tables

Mut_noPublishedOverlap(v, replaced) == TRUE

\* The exclusion constraint: all versions of a timetable share its dates.
noPublishedOverlap(v, replaced) == Published \ {v} \subseteq replaced

Mut_idempotencyKeyFree(v) == TRUE

\* The unique key "publication:<version>" of the outbox.
idempotencyKeyFree(v) == \A e \in outbox : e.version # v

\* Both UPDATEs of timetable_version; neither looks at v's present status.
PublishedStatuses(v, replaced) ==
  [u \in Version |->
     IF u = v THEN [version[u] EXCEPT !.status = "PUBLISHED"]
     ELSE IF u \in replaced \cap Published
          THEN [version[u] EXCEPT !.status = "SUPERSEDED"]
          ELSE version[u]]

Mut_PublicationEvents(h) == outbox

PublicationEvents(h) ==
  outbox \cup {[version |-> req[h].v, base |-> req[h].base,
                payload |-> req[h].payload]}

PublishCommit(h) ==
  LET v == req[h].v IN
  /\ at[h] = "p_commit"
  /\ noPublishedOverlap(v, req[h].replaced)
  /\ idempotencyKeyFree(v)
  /\ version' = PublishedStatuses(v, req[h].replaced)
  /\ outbox' = PublicationEvents(h)
  /\ Answer(h)
  /\ UNCHANGED <<workspaceHash, termOpen, entries, solverRun, conflict, job,
                 writes>>

PublishRollback(h) ==
  /\ at[h] = "p_commit"
  /\ ~ (noPublishedOverlap(req[h].v, req[h].replaced)
        /\ idempotencyKeyFree(req[h].v))
  /\ Answer(h)
  /\ UNCHANGED tables

-----------------------------------------------------------------------------
(***************************************************************************)
(* createEntry, updateEntry, deleteEntry.                                  *)
(***************************************************************************)
Mut_versionEditable(v) == version[v].status # "SUPERSEDED"

versionEditable(v) == version[v].status \notin Frozen

EditEntry(h, v) ==
  /\ versionEditable(v)
  /\ Begin(h, v, "e_write")
  /\ UNCHANGED tables

\* The INSERT, UPDATE or DELETE of one entry and its trigger.
EditWrite(h) ==
  LET v == req[h].v IN
  /\ at[h] = "e_write"
  /\ WriteEntries(v, None)
  /\ solverRun' = [solverRun EXCEPT ![v] = RunAfterEntryWrite(@)]
  /\ Goto(h, "e_reset")
  /\ UNCHANGED <<workspaceHash, termOpen, version, conflict, job,
                 outbox>>

\* An unknown reference, an occupied period or a vanished entry: an error
\* is answered, except that an UPDATE of a vanished entry counts as saved.
EditRefused(h) ==
  /\ at[h] = "e_write"
  /\ Answer(h) \/ Goto(h, "e_reset")
  /\ UNCHANGED tables

StatusAfterEdit(status) == IF status = "VALIDATED" THEN "DRAFT" ELSE status

EditReset(h) ==
  /\ at[h] = "e_reset"
  /\ version' = [version EXCEPT ![req[h].v].status = StatusAfterEdit(@)]
  /\ Answer(h)
  /\ UNCHANGED tablesButVersion

-----------------------------------------------------------------------------
(***************************************************************************)
(* GenerateVersion.                                                        *)
(***************************************************************************)
GenerateVersion(h, v) ==
  /\ termOpen
  /\ Begin(h, v, "g_start")
  /\ UNCHANGED tables

\* A RUNNING job older than ten minutes is given up, then a new one is
\* inserted unless one is still running.
startGenerationJob(h) ==
  LET v == req[h].v IN
  /\ at[h] = "g_start"
  /\ \/ /\ job[v] # None
        /\ Answer(h)
        /\ job' = job
     \/ \* no job is running, or the running one is old
        /\ job' = [job EXCEPT ![v] = h]
        /\ Goto(h, "g_load")
  /\ UNCHANGED <<workspaceHash, termOpen, version, entries, solverRun,
                 conflict, outbox, writes>>

\* A frozen version, or a problem that is not fully configured, is refused.
loadEngineProblem(h) ==
  /\ at[h] = "g_load"
  /\ \/ /\ version[req[h].v].status \notin Frozen
        /\ Learn(h, "g_persist", [req[h] EXCEPT !.basis = workspaceHash])
     \/ Goto(h, "g_finish")
  /\ UNCHANGED tables

Mut_mutable(v) == TRUE

\* SELECT status ... FOR UPDATE, unless the result is infeasible.
mutable(v) == version[v].status \notin Frozen

\* The closing UPDATE of persistSolveResult.
GeneratedVersion(v) == [status |-> "DRAFT", hash |-> workspaceHash]

persistSolveResult(h) ==
  LET v == req[h].v IN
  /\ at[h] = "g_persist"
  /\ mutable(v)
  /\ \E result \in SolveStatus \ {"INFEASIBLE"} :
       /\ WriteEntries(v, req[h].basis)
       /\ solverRun' = [solverRun EXCEPT ![v] =
                          [status |-> result, stamp |-> writes + 1]]
  /\ version' = [version EXCEPT ![v] = GeneratedVersion(v)]
  /\ Learn(h, "g_finish", [req[h] EXCEPT !.basis = None])
  /\ UNCHANGED <<workspaceHash, termOpen, conflict, job, outbox>>

\* An infeasible result keeps the entries and skips the status check.
persistInfeasible(h) ==
  LET v == req[h].v IN
  /\ at[h] = "g_persist"
  /\ solverRun' = [solverRun EXCEPT ![v] =
                     [status |-> "INFEASIBLE", stamp |-> entries[v].stamp]]
  /\ version' = [version EXCEPT ![v] = GeneratedVersion(v)]
  /\ Learn(h, "g_finish", [req[h] EXCEPT !.basis = None])
  /\ UNCHANGED <<workspaceHash, termOpen, entries, conflict, job,
                 outbox, writes>>

\* A frozen version or an occupied period rolls the transaction back.
persistRollback(h) ==
  /\ at[h] = "g_persist"
  /\ Learn(h, "g_finish", [req[h] EXCEPT !.basis = None])
  /\ UNCHANGED tables

GenerateFinish(h) ==
  LET v == req[h].v IN
  /\ at[h] = "g_finish"
  /\ job' = [job EXCEPT ![v] = IF @ = h THEN None ELSE @]
  /\ Answer(h)
  /\ UNCHANGED <<workspaceHash, termOpen, version, entries, solverRun,
                 conflict, outbox, writes>>

-----------------------------------------------------------------------------
(***************************************************************************)
(* Requests that are one transaction, and the world outside the handlers.  *)
(***************************************************************************)
createTimetable(h) ==
  /\ at[h] = "idle"
  /\ termOpen
  /\ 1 \in Version /\ ~Exists(1)
  /\ version' = [version EXCEPT ![1] =
                   [status |-> "DRAFT", hash |-> workspaceHash]]
  /\ UNCHANGED <<workspaceHash, termOpen, entries, solverRun, conflict, job,
                 outbox, writes, at, req>>

\* The latest version's entries are copied, whatever its status.
CreateVersion(h, v) ==
  /\ at[h] = "idle"
  /\ v > 1 /\ Exists(v - 1) /\ ~Exists(v)
  /\ version' = [version EXCEPT ![v] =
                   [status |-> "DRAFT", hash |-> workspaceHash]]
  /\ entries' = [entries EXCEPT ![v] = entries[v - 1]]
  /\ UNCHANGED <<workspaceHash, termOpen, solverRun, conflict, job,
                 outbox, writes, at, req>>

Mut_Invalidated(v) == TRUE

Invalidated(v) == version[v].status \notin Frozen

\* A new delivery group or parallel block drops the drafts' solver runs.
invalidateDraftsForTermTx(h) ==
  /\ at[h] = "idle"
  /\ termOpen
  /\ solverRun' = [v \in Version |->
                     IF Invalidated(v) THEN NoRun ELSE solverRun[v]]
  /\ UNCHANGED <<workspaceHash, termOpen, version, entries, conflict, job,
                 outbox, writes, at, req>>

\* BootstrapWorkspace stores the hash of whatever snapshot arrived last.
SyncWorkspace ==
  /\ workspaceHash' \in Snapshots
  /\ UNCHANGED <<termOpen, version, entries, solverRun, conflict, job,
                 outbox, writes, at, req>>

\* The date moves on, or a sync closes, freezes or reopens the term.
TermLifecycle ==
  /\ termOpen' \in TermStates
  /\ UNCHANGED <<workspaceHash, version, entries, solverRun, conflict, job,
                 outbox, writes, at, req>>

\* The process dies, or the client hangs up outside a generation: an open
\* transaction rolls back, and a killed generation leaves its job RUNNING.
HandlerStops(h) ==
  /\ at[h] # "idle"
  /\ Answer(h)
  /\ job' = [v \in Version |-> IF job[v] = h THEN "interrupted" ELSE job[v]]
  /\ UNCHANGED <<workspaceHash, termOpen, version, entries, solverRun,
                 conflict, outbox, writes>>

-----------------------------------------------------------------------------
Validate(h) ==
  \/ \E v \in Version : ValidateVersion(h, v)
  \/ ValidateConflicts(h) \/ ValidateRun(h)
  \/ ValidateSummary(h) \/ ValidateWrite(h)

Publish(h) ==
  \/ \E v \in Version : PublishVersion(h, v)
  \/ PublishStatus(h) \/ PublishRun(h)
  \/ PublishConflicts(h) \/ PublishBlocker(h) \/ PublishSelect(h)
  \/ PublishEntries(h) \/ PublishSupersede(h) \/ PublishCommit(h)
  \/ PublishRollback(h)

Edit(h) ==
  \/ \E v \in Version : EditEntry(h, v)
  \/ EditWrite(h) \/ EditRefused(h) \/ EditReset(h)

Generate(h) ==
  \/ \E v \in Version : GenerateVersion(h, v)
  \/ startGenerationJob(h) \/ loadEngineProblem(h) \/ persistSolveResult(h)
  \/ persistInfeasible(h) \/ persistRollback(h) \/ GenerateFinish(h)

Next ==
  \/ \E h \in Handlers :
       \/ Validate(h) \/ Publish(h) \/ Edit(h) \/ Generate(h)
       \/ createTimetable(h)
       \/ \E v \in Version : CreateVersion(h, v)
       \/ invalidateDraftsForTermTx(h)
       \/ HandlerStops(h)
  \/ SyncWorkspace
  \/ TermLifecycle

Spec == Init /\ [][Next]_vars

-----------------------------------------------------------------------------
(***************************************************************************)
(* Properties that hold however the handlers interleave.                   *)
(***************************************************************************)

\* Every table and every handler's memory has the shape the schema and the
\* handlers give it.
TypeOK ==
  /\ workspaceHash \in Snapshots
  /\ termOpen \in BOOLEAN
  /\ version \in [Version -> VersionRow]
  /\ entries \in [Version -> EntryRows]
  /\ solverRun \in [Version -> RunRow]
  /\ conflict \in [Version -> BOOLEAN]
  /\ job \in [Version -> Handlers \cup {None, "interrupted"}]
  /\ outbox \in SUBSET Event
  /\ writes \in Stamp
  /\ at \in [Handlers -> Step]
  /\ req \in [Handlers -> Request]

\* Two publications of one timetable racing each other never leave two
\* versions in force: the loser's transaction rolls back or is superseded.
AtMostOnePublished ==
  \A u, v \in Version :
    version[u].status = "PUBLISHED" /\ version[v].status = "PUBLISHED" => u = v

\* A solver run that may allow validation or publication always describes
\* the entries the version has now: edits and regenerations that race with
\* each other never leave a run next to entries it did not produce.
RunDescribesEntries ==
  \A v \in Version :
    solverRun[v].status \in {"COMPLETE", "PARTIAL_DRAFT"} =>
      solverRun[v].stamp = entries[v].stamp

\* publishVersion writes the status and the outbox row in one transaction:
\* whatever was published has its announcement, exactly one.
PublicationAnnounced ==
  /\ \A v \in Version :
       version[v].status \in Frozen => \E e \in outbox : e.version = v
  /\ \A e, f \in outbox : e.version = f.version => e = f

\* No version is put in force twice, although the publishing UPDATE does not
\* look at the status it overwrites: a second request that passed its checks
\* before the first one committed cannot revive a superseded version.
PublishedOnce ==
  [][\A v \in Version :
       version[v].status # "PUBLISHED" /\ version'[v].status = "PUBLISHED" =>
         \A e \in outbox : e.version # v]_vars

\* A version is superseded only by the very step that publishes another.
AtomicSuccession ==
  [][(\E u \in Version : /\ version[u].status = "PUBLISHED"
                         /\ version'[u].status = "SUPERSEDED") =>
       \E v \in Version : /\ version[v].status # "PUBLISHED"
                          /\ version'[v].status = "PUBLISHED"]_vars

\* A generation that outlives the publication of its version, or its ten
\* minutes, never replaces entries of a version that is or was in force: only
\* an edit can, one that looked at the version too early (persistSolveResult,
\* "refuses to mutate published/superseded versions").
GenerationSparesPublished ==
  [][\A v \in Version :
       version[v].status \in Frozen /\ entries'[v] # entries[v] =>
         \E h \in Handlers : at[h] = "e_write" /\ req[h].v = v]_vars

-----------------------------------------------------------------------------
(***************************************************************************)
(* Properties that hold when requests for the timetable do not overlap.    *)
(***************************************************************************)

\* What is in force was produced by a complete solver run on exactly these
\* entries, through every order of edits, crashes
\* between an edit's two writes, invalidations, validations and syncs.
PublishedSolved ==
  \A v \in Published :
    solverRun[v] = [status |-> "COMPLETE", stamp |-> entries[v].stamp]

InForce == IF Published = {} THEN 0 ELSE CHOOSE v \in Published : TRUE

Feed == INSTANCE PublicationFeed WITH
          Versions <- Version, Contents <- Stamp,
          current <- InForce,
          shown <- IF InForce = 0 THEN 0 ELSE entries[InForce].stamp,
          feed <- {<<e.version, e.payload>> : e \in outbox}

\* The versions and the outbox together implement the promise of
\* PublicationFeed: in particular what is published never changes.
ImplementsFeed == Feed!Spec

\* The version a publication supersedes is the one its announcement was
\* diffed against; the first publication supersedes nothing.
AmendmentNamesItsBase ==
  [][\A e \in outbox' \ outbox :
       {u \in Published : version'[u].status = "SUPERSEDED"} =
         {e.base} \ {0}]_vars

-----------------------------------------------------------------------------
(***************************************************************************)
(* What the documents say, and overlapping requests refute.                *)
(***************************************************************************)

\* "Published versions are immutable": the entries of a version in force
\* stay what they are.
PublishedImmutable ==
  [][\A v \in Published : entries'[v] = entries[v]]_vars

\* "Generation binds that hash to the draft": a version that passes the
\* snapshot check was generated from the snapshot it is compared with.
SnapshotBinding ==
  \A v \in Version :
    version[v].status \in {"VALIDATED", "PUBLISHED"} =>
      entries[v].basis = version[v].hash
=============================================================================
