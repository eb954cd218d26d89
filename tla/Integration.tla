---------------------------- MODULE Integration -----------------------------
(***************************************************************************)
(* The inbound side of the integration with Scholaroscope for one          *)
(* workspace and its installation: signed events (bootstrap, academic      *)
(* sync, disabled) that provision and refresh the local projection, and    *)
(* launch grants that open portal sessions.                                *)
(*                                                                         *)
(* Scholaroscope numbers its events in the order in which it emits them;   *)
(* delivery is at least once and in any order.  A request authenticates in *)
(* one statement and changes the tables in a later transaction, so other   *)
(* requests may commit in between.  Signatures are taken to be authentic.  *)
(***************************************************************************)
EXTENDS Naturals, Sequences, FiniteSets

CONSTANTS
  Requests,   \* HTTP requests served at the same time
  Actors,     \* synchronized actors of the workspace
  Records,    \* all other synchronized records, actor roles among them
  Grants,     \* launch grants, each with its own id and nonce
  MaxEvents,  \* bound: events Scholaroscope emits
  None        \* no value

ASSUME IntegrationAssumption ==
  /\ MaxEvents \in Nat
  /\ None \notin Nat /\ None \notin Actors

VARIABLES
  events,     \* external: events Scholaroscope has emitted, in its order
  issued,     \* external: the actor of every launch grant issued
  status,     \* integration_installation.status
  actors,     \* external_actor.status
  records,    \* status of the records of the academic projection
  applied,    \* the event whose hash is academic_snapshot_hash
  acks,       \* provisioning acknowledgements in the outbox
  consumed,   \* rows of portal_launch_grant
  sessions,   \* portal_session of each grant
  opened,     \* history: sessions ever opened with each grant
  processed,  \* history: events that were ever applied
  req         \* what each request has established so far

vars == <<events, issued, status, actors, records, applied, acks, consumed,
          sessions, opened, processed, req>>

projection == <<status, actors, records, applied, acks, processed>>
portal == <<consumed, sessions, opened>>

EventNumbers == 1..MaxEvents

\* What a snapshot says of a record: its status, or nothing at all.
SourceStatus == {"ACTIVE", "DISABLED", "MISSING"}
RowStatus == {"ABSENT", "ACTIVE", "DISABLED"}
Snapshot == [actors : [Actors -> SourceStatus], records : [Records -> SourceStatus]]
Event == [type : {"bootstrap", "academic_sync", "disabled"},
          sync : Snapshot \cup {None}]

Idle == [pc |-> "idle", arg |-> None]

Init ==
  /\ events = <<>>
  /\ issued = [g \in Grants |-> None]
  /\ status = "ABSENT"
  /\ actors = [a \in Actors |-> "ABSENT"]
  /\ records = [r \in Records |-> "ABSENT"]
  /\ applied = 0
  /\ acks = 0
  /\ consumed = {}
  /\ sessions = [g \in Grants |-> "NONE"]
  /\ opened = [g \in Grants |-> 0]
  /\ processed = {}
  /\ req = [q \in Requests |-> Idle]

-----------------------------------------------------------------------------
(* Scholaroscope.                                                          *)

\* Whether the plugin is enabled there: its events say so.
PluginEnabled == events # <<>> /\ events[Len(events)].type # "disabled"

\* A snapshot is taken, or the plugin is disabled, and an event tells of it.
\* A bootstrap enables the plugin.
Emit ==
  /\ Len(events) < MaxEvents
  /\ \E type \in {"bootstrap", "academic_sync", "disabled"},
        sync \in Snapshot \cup {None} :
       /\ type # "bootstrap" => PluginEnabled
       /\ (sync = None) <=> (type = "disabled")
       /\ events' = Append(events, [type |-> type, sync |-> sync])
  /\ UNCHANGED <<issued, status, actors, records, applied, acks, consumed,
                 sessions, opened, processed, req>>

\* A user opens the plugin: a grant for one actor.
IssueGrant(g) ==
  /\ issued[g] = None
  /\ \E a \in Actors : issued' = [issued EXCEPT ![g] = a]
  /\ UNCHANGED <<events, status, actors, records, applied, acks, consumed,
                 sessions, opened, processed, req>>

-----------------------------------------------------------------------------
(* Events.                                                                 *)

\* Only a bootstrap may come from an installation that is not active.
authenticated(i) == status = "ACTIVE" \/ events[i].type = "bootstrap"

\* An event arrives, for the first time or again, and is authenticated.
HandleScholaroscopeEvent(q, i) ==
  /\ req[q] = Idle
  /\ i \in 1..Len(events)
  /\ authenticated(i)
  /\ req' = [req EXCEPT ![q] = [pc |-> "event", arg |-> i]]
  /\ UNCHANGED <<events, issued, status, actors, records, applied, acks,
                 consumed, sessions, opened, processed>>

\* An upsert writes what the snapshot says of a record, if anything.
Upserted(row, source) == IF source = "MISSING" THEN row ELSE source

Mut_StaleDisabled(row) == row

\* The projection is disabled as a whole before the snapshot is written.
StaleDisabled(row) == IF row = "ABSENT" THEN "ABSENT" ELSE "DISABLED"

\* external_actor is not among the tables disabled first.
actorsAfter(sync) == [a \in Actors |-> Upserted(actors[a], sync.actors[a])]

recordsAfter(sync) ==
  [r \in Records |-> Upserted(StaleDisabled(records[r]), sync.records[r])]

\* The acknowledgement has one idempotency key per installation.
acksAfter == IF acks = 0 THEN 1 ELSE acks

\* Bootstrap and academic sync: workspace, installation, projection, hash and
\* acknowledgement in one transaction.  Its first statement locks the row of
\* the workspace, so two of them follow each other.
BootstrapWorkspace(i) ==
  /\ status' = "ACTIVE"
  /\ actors' = actorsAfter(events[i].sync)
  /\ records' = recordsAfter(events[i].sync)
  /\ applied' = i
  /\ acks' = acksAfter

DisableWorkspace ==
  /\ status' = IF status = "ABSENT" THEN "ABSENT" ELSE "DISABLED"
  /\ UNCHANGED <<actors, records, applied, acks>>

Mut_ApplyEvent(q) ==
  /\ req[q].pc = "event"
  /\ LET i == req[q].arg IN
     /\ \/ i \in processed /\ UNCHANGED <<status, actors, records, applied, acks>>
        \/ i \notin processed /\ events[i].type # "disabled" /\ BootstrapWorkspace(i)
        \/ i \notin processed /\ events[i].type = "disabled" /\ DisableWorkspace
     /\ processed' = processed \cup {i}
  /\ req' = [req EXCEPT ![q] = Idle]
  /\ UNCHANGED <<events, issued, portal>>

ApplyEvent(q) ==
  /\ req[q].pc = "event"
  /\ LET i == req[q].arg IN
     /\ \/ events[i].type # "disabled" /\ BootstrapWorkspace(i)
        \/ events[i].type = "disabled" /\ DisableWorkspace
     /\ processed' = processed \cup {i}
  /\ req' = [req EXCEPT ![q] = Idle]
  /\ UNCHANGED <<events, issued, portal>>

-----------------------------------------------------------------------------
(* Launch grants and sessions.                                             *)

\* The grant is fresh and signed for an active installation.
Exchange(q, g) ==
  /\ req[q] = Idle
  /\ issued[g] # None
  /\ status = "ACTIVE"
  /\ req' = [req EXCEPT ![q] = [pc |-> "exchange", arg |-> g]]
  /\ UNCHANGED <<events, issued, projection, portal>>

\* ConsumeGrant reads installation and actor; neither row is locked.
CheckGrant(q) ==
  /\ req[q].pc = "exchange"
  /\ status = "ACTIVE"
  /\ actors[issued[req[q].arg]] = "ACTIVE"
  /\ req' = [req EXCEPT ![q].pc = "checked"]
  /\ UNCHANGED <<events, issued, projection, portal>>

Mut_grantFree(g) == TRUE

\* The unique nonce: of two inserts the second waits and then writes nothing.
grantFree(g) == g \notin consumed

ConsumeGrant(q) ==
  /\ req[q].pc = "checked"
  /\ grantFree(req[q].arg)
  /\ consumed' = consumed \cup {req[q].arg}
  /\ sessions' = [sessions EXCEPT ![req[q].arg] = "OPEN"]
  /\ opened' = [opened EXCEPT ![req[q].arg] = @ + 1]
  /\ req' = [req EXCEPT ![q] = Idle]
  /\ UNCHANGED <<events, issued, projection>>

\* Any error: the transaction rolls back and the request is answered.
Reject(q) ==
  /\ req[q] # Idle
  /\ req' = [req EXCEPT ![q] = Idle]
  /\ UNCHANGED <<events, issued, projection, portal>>

\* RevokeSession, on logout.
Logout(g) ==
  /\ sessions[g] # "NONE"
  /\ sessions' = [sessions EXCEPT ![g] = "REVOKED"]
  /\ UNCHANGED <<events, issued, projection, consumed, opened, req>>

\* Time passes expires_at.
Expire(g) ==
  /\ sessions[g] = "OPEN"
  /\ sessions' = [sessions EXCEPT ![g] = "EXPIRED"]
  /\ UNCHANGED <<events, issued, projection, consumed, opened, req>>

\* The session a portal request may use: what RequirePortalSession lets pass.
GetSession(g) ==
  /\ sessions[g] = "OPEN"
  /\ status = "ACTIVE"
  /\ actors[issued[g]] = "ACTIVE"

-----------------------------------------------------------------------------
Next ==
  \/ Emit
  \/ \E g \in Grants : IssueGrant(g)
  \/ \E q \in Requests, i \in EventNumbers : HandleScholaroscopeEvent(q, i)
  \/ \E q \in Requests : ApplyEvent(q)
  \/ \E q \in Requests, g \in Grants : Exchange(q, g)
  \/ \E q \in Requests : CheckGrant(q)
  \/ \E q \in Requests : ConsumeGrant(q)
  \/ \E q \in Requests : Reject(q)
  \/ \E g \in Grants : Logout(g)
  \/ \E g \in Grants : Expire(g)

Spec == Init /\ [][Next]_vars

\* Scholaroscope retries an event until it was applied once, and reconciles by
\* sending its newest event again and again.
Retried(i) == i \notin processed \/ i = Len(events)

\* The newest event is a snapshot the service would accept.
Due(i) ==
  /\ i = Len(events)
  /\ events[i].type # "disabled"
  /\ authenticated(i)

\* A retry gets through in the end, and a request always ends.
Fairness ==
  \A q \in Requests :
    /\ \A i \in EventNumbers :
         /\ SF_vars(Retried(i) /\ HandleScholaroscopeEvent(q, i))
         /\ SF_vars(Retried(i) /\ req[q].arg = i /\ ApplyEvent(q))
    /\ WF_vars(ApplyEvent(q) \/ CheckGrant(q) \/ ConsumeGrant(q) \/ Reject(q))

FairSpec == Spec /\ Fairness
-----------------------------------------------------------------------------
\* Every row and every request is in a state the code can write.
TypeOK ==
  /\ events \in Seq(Event)
  /\ Len(events) <= MaxEvents
  /\ \A i \in 1..Len(events) :
       events[i].type # "disabled" => events[i].sync \in Snapshot
  /\ issued \in [Grants -> Actors \cup {None}]
  /\ status \in RowStatus
  /\ actors \in [Actors -> RowStatus]
  /\ records \in [Records -> RowStatus]
  /\ applied \in 0..Len(events)
  /\ acks \in Nat
  /\ consumed \subseteq Grants
  /\ sessions \in [Grants -> {"NONE", "OPEN", "REVOKED", "EXPIRED"}]
  /\ opened \in [Grants -> Nat]
  /\ processed \subseteq 1..Len(events)
  /\ req \in [Requests -> [pc : {"idle", "event", "exchange", "checked"},
                           arg : (1..Len(events)) \cup Grants \cup {None}]]

\* A grant opens at most one session, however its exchanges interleave and
\* even after a logout (ConsumeGrant, portal_launch_grant_unique_nonce).
GrantOpensOneSession ==
  \A g \in Grants :
    /\ opened[g] = IF g \in consumed THEN 1 ELSE 0
    /\ (sessions[g] # "NONE") <=> (g \in consumed)

\* The projection is exactly one snapshot, the one whose hash the workspace
\* carries, never a mixture of two syncs (upsertAcademicSync).
ProjectionIsOneSnapshot ==
  IF applied = 0
  THEN \A r \in Records : records[r] = "ABSENT"
  ELSE /\ events[applied].type # "disabled"
       /\ \A r \in Records :
            LET source == events[applied].sync.records[r] IN
            IF source = "MISSING" THEN records[r] # "ACTIVE"
                                  ELSE records[r] = source

\* A session that was logged out or has expired never lets a request pass
\* again: no second exchange of its grant, repeated bootstrap or enabled
\* plugin revives it (ConsumeGrant, GetSession).
EndedSessionsStayEnded ==
  [][\A g \in Grants :
       sessions[g] \in {"REVOKED", "EXPIRED"} => ~GetSession(g)']_vars

\* A provisioned workspace acknowledges exactly once, however many bootstraps
\* and syncs it processes (BootstrapWorkspace).
AcknowledgedOnce ==
  /\ acks = IF status = "ABSENT" THEN 0 ELSE 1
  /\ (applied = 0) <=> (status = "ABSENT")

\* A newest snapshot that would be accepted does not stay unapplied while
\* Scholaroscope retries it, whatever older deliveries come in between
\* (HandleScholaroscopeEvent, BootstrapWorkspace).
NewestSnapshotArrives ==
  \A i \in EventNumbers : []<>(applied = i \/ ~Due(i))
=============================================================================
