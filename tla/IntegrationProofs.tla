------------------------- MODULE IntegrationProofs --------------------------
(***************************************************************************)
(* Proofs about Integration, for any number of requests, actors, records,  *)
(* grants and events.                                                      *)
(*                                                                         *)
(* The invariants of the runs are inductive once it is known what a        *)
(* request holds between its two transactions: the number of an emitted    *)
(* event, or a grant.  That no other request commits in between is not     *)
(* needed.                                                                 *)
(***************************************************************************)
EXTENDS Integration, TLAPS

RequestsHold ==
  \A q \in Requests :
    /\ req[q].pc = "event" => req[q].arg \in 1..Len(events)
    /\ req[q].pc \in {"exchange", "checked"} => req[q].arg \in Grants

IndInv ==
  /\ TypeOK
  /\ RequestsHold
  /\ GrantOpensOneSession
  /\ ProjectionIsOneSnapshot
  /\ AcknowledgedOnce

-----------------------------------------------------------------------------
(***************************************************************************)
(* What a snapshot leaves of a table: its own records as it says, and no   *)
(* other record active.                                                    *)
(***************************************************************************)
LEMMA RecordsAfterFacts ==
  ASSUME records \in [Records -> RowStatus], NEW sync \in Snapshot
  PROVE  /\ recordsAfter(sync) \in [Records -> RowStatus]
         /\ \A r \in Records :
              IF sync.records[r] = "MISSING"
              THEN recordsAfter(sync)[r] # "ACTIVE"
              ELSE recordsAfter(sync)[r] = sync.records[r]
<1>1. \A r \in Records : sync.records[r] \in SourceStatus
  BY DEF Snapshot
<1> QED
  BY <1>1 DEF recordsAfter, Upserted, StaleDisabled, RowStatus, SourceStatus

LEMMA ActorsAfterFacts ==
  ASSUME actors \in [Actors -> RowStatus], NEW sync \in Snapshot
  PROVE  actorsAfter(sync) \in [Actors -> RowStatus]
<1>1. \A a \in Actors : sync.actors[a] \in SourceStatus
  BY DEF Snapshot
<1> QED
  BY <1>1 DEF actorsAfter, Upserted, RowStatus, SourceStatus

-----------------------------------------------------------------------------
(***************************************************************************)
(* One lemma per action that changes a table.                              *)
(***************************************************************************)
LEMMA EmitStep ==
  ASSUME IndInv, Emit
  PROVE  IndInv'
<1> USE IntegrationAssumption
<1>1. PICK e : /\ e \in Event
               /\ e.type # "disabled" => e.sync \in Snapshot
               /\ events' = Append(events, e)
  <2>1. PICK type \in {"bootstrap", "academic_sync", "disabled"},
             sync \in Snapshot \cup {None} :
               /\ (sync = None) <=> (type = "disabled")
               /\ events' = Append(events, [type |-> type, sync |-> sync])
    BY DEF Emit
  <2> QED
    BY <2>1 DEF Event
<1>2. /\ events \in Seq(Event) /\ Len(events) < MaxEvents
      /\ events' \in Seq(Event)
      /\ Len(events') = Len(events) + 1
      /\ \A i \in 1..Len(events) : events'[i] = events[i]
      /\ events'[Len(events) + 1] = e
  BY <1>1 DEF Emit, IndInv, TypeOK
<1>3. 1..Len(events) \subseteq 1..Len(events') /\ Len(events) \in Nat
  BY <1>2
<1>4. \A i \in 1..Len(events') :
        events'[i].type # "disabled" => events'[i].sync \in Snapshot
  <2> SUFFICES ASSUME NEW i \in 1..Len(events')
               PROVE  events'[i].type # "disabled" => events'[i].sync \in Snapshot
    OBVIOUS
  <2>1. i \in 1..Len(events) \/ i = Len(events) + 1
    BY <1>2, <1>3
  <2> QED
    BY <1>1, <1>2, <2>1 DEF IndInv, TypeOK
<1>5. TypeOK'
  <2>1. req' \in [Requests -> [pc : {"idle", "event", "exchange", "checked"},
                               arg : (1..Len(events')) \cup Grants \cup {None}]]
    BY <1>3 DEF Emit, IndInv, TypeOK
  <2> QED
    BY <1>2, <1>3, <1>4, <2>1 DEF Emit, IndInv, TypeOK
<1>6. RequestsHold'
  BY <1>3 DEF Emit, IndInv, RequestsHold
<1>7. ProjectionIsOneSnapshot'
  BY <1>2, <1>3 DEF Emit, IndInv, TypeOK, ProjectionIsOneSnapshot
<1>8. GrantOpensOneSession' /\ AcknowledgedOnce'
  BY DEF Emit, IndInv, GrantOpensOneSession, AcknowledgedOnce
<1> QED
  BY <1>5, <1>6, <1>7, <1>8 DEF IndInv

LEMMA ApplyEventStep ==
  ASSUME IndInv, NEW q \in Requests, ApplyEvent(q)
  PROVE  IndInv'
<1> USE IntegrationAssumption
<1> DEFINE i == req[q].arg
<1>1. i \in 1..Len(events) /\ i # 0
  BY DEF ApplyEvent, IndInv, RequestsHold
<1>2. /\ req' \in [Requests -> [pc : {"idle", "event", "exchange", "checked"},
                                arg : (1..Len(events)) \cup Grants \cup {None}]]
      /\ RequestsHold'
  BY DEF ApplyEvent, IndInv, TypeOK, RequestsHold, Idle
<1>3. /\ UNCHANGED <<events, issued, consumed, sessions, opened>>
      /\ processed' \subseteq 1..Len(events)
      /\ GrantOpensOneSession'
  BY <1>1 DEF ApplyEvent, portal, IndInv, TypeOK, GrantOpensOneSession
<1>4. CASE events[i].type # "disabled" /\ BootstrapWorkspace(i)
  <2>1. events[i].sync \in Snapshot
    BY <1>1, <1>4 DEF IndInv, TypeOK
  <2>2. /\ status' = "ACTIVE" /\ applied' = i
        /\ actors' \in [Actors -> RowStatus]
        /\ records' \in [Records -> RowStatus]
        /\ \A r \in Records :
             IF events[i].sync.records[r] = "MISSING"
             THEN records'[r] # "ACTIVE"
             ELSE records'[r] = events[i].sync.records[r]
    BY <1>4, <2>1, RecordsAfterFacts, ActorsAfterFacts
       DEF BootstrapWorkspace, IndInv, TypeOK
  <2>3. acks' = 1
    BY <1>4 DEF BootstrapWorkspace, acksAfter, IndInv, AcknowledgedOnce
  <2>4. TypeOK'
    BY <1>1, <1>2, <1>3, <2>2, <2>3 DEF IndInv, TypeOK, RowStatus
  <2>5. ProjectionIsOneSnapshot'
    BY <1>1, <1>3, <1>4, <2>2 DEF ProjectionIsOneSnapshot
  <2>6. AcknowledgedOnce'
    BY <1>1, <2>2, <2>3 DEF AcknowledgedOnce
  <2> QED
    BY <1>2, <1>3, <2>4, <2>5, <2>6 DEF IndInv
<1>5. CASE events[i].type = "disabled" /\ DisableWorkspace
  <2>1. TypeOK'
    BY <1>2, <1>3, <1>5 DEF DisableWorkspace, IndInv, TypeOK, RowStatus
  <2>2. ProjectionIsOneSnapshot' /\ AcknowledgedOnce'
    BY <1>3, <1>5
       DEF DisableWorkspace, IndInv, ProjectionIsOneSnapshot, AcknowledgedOnce
  <2> QED
    BY <1>2, <1>3, <2>1, <2>2 DEF IndInv
<1> QED
  BY <1>4, <1>5 DEF ApplyEvent

LEMMA ConsumeGrantStep ==
  ASSUME IndInv, NEW q \in Requests, ConsumeGrant(q)
  PROVE  IndInv'
<1> DEFINE g == req[q].arg
<1>1. g \in Grants /\ g \notin consumed
  BY DEF ConsumeGrant, grantFree, IndInv, RequestsHold
<1>2. /\ opened[g] = 0
      /\ opened' = [opened EXCEPT ![g] = 1]
      /\ sessions' = [sessions EXCEPT ![g] = "OPEN"]
      /\ consumed' = consumed \cup {g}
  <2>1. opened[g] = 0
    BY <1>1 DEF IndInv, GrantOpensOneSession
  <2>2. opened' = [opened EXCEPT ![g] = opened[g] + 1]
    BY DEF ConsumeGrant
  <2>3. opened' = [opened EXCEPT ![g] = 1]
    BY <2>1, <2>2
  <2> QED
    BY <2>1, <2>3 DEF ConsumeGrant
<1>3. /\ opened'[g] = 1 /\ sessions'[g] = "OPEN"
      /\ \A h \in Grants \ {g} : opened'[h] = opened[h] /\ sessions'[h] = sessions[h]
  BY <1>1, <1>2 DEF IndInv, TypeOK
<1>4. GrantOpensOneSession'
  BY <1>1, <1>2, <1>3 DEF IndInv, GrantOpensOneSession
<1>5. /\ req' \in [Requests -> [pc : {"idle", "event", "exchange", "checked"},
                                arg : (1..Len(events)) \cup Grants \cup {None}]]
      /\ RequestsHold'
  BY DEF ConsumeGrant, IndInv, TypeOK, RequestsHold, Idle
<1>6. TypeOK'
  BY <1>1, <1>2, <1>5 DEF ConsumeGrant, projection, IndInv, TypeOK
<1>7. ProjectionIsOneSnapshot' /\ AcknowledgedOnce'
  BY DEF ConsumeGrant, projection, IndInv, ProjectionIsOneSnapshot, AcknowledgedOnce
<1> QED
  BY <1>4, <1>5, <1>6, <1>7 DEF IndInv

(***************************************************************************)
(* A step that changes only what requests hold, and holds the right thing. *)
(***************************************************************************)
LEMMA RequestStep ==
  ASSUME IndInv,
         UNCHANGED <<events, issued, status, actors, records, applied, acks,
                     consumed, sessions, opened, processed>>,
         NEW q \in Requests, NEW r,
         r \in [pc : {"idle", "event", "exchange", "checked"},
                arg : (1..Len(events)) \cup Grants \cup {None}],
         r.pc = "event" => r.arg \in 1..Len(events),
         r.pc \in {"exchange", "checked"} => r.arg \in Grants,
         req' = [req EXCEPT ![q] = r]
  PROVE  IndInv'
<1>1. TypeOK' /\ RequestsHold'
  BY DEF IndInv, TypeOK, RequestsHold
<1>2. GrantOpensOneSession' /\ ProjectionIsOneSnapshot' /\ AcknowledgedOnce'
  BY DEF IndInv, GrantOpensOneSession, ProjectionIsOneSnapshot, AcknowledgedOnce
<1> QED
  BY <1>1, <1>2 DEF IndInv

LEMMA SessionEndStep ==
  ASSUME IndInv, NEW g \in Grants, Logout(g) \/ Expire(g)
  PROVE  IndInv'
<1>1. PICK s \in {"REVOKED", "EXPIRED"} : sessions' = [sessions EXCEPT ![g] = s]
  BY DEF Logout, Expire
<1>2. /\ sessions[g] # "NONE"
      /\ UNCHANGED <<events, issued, status, actors, records, applied, acks,
                     consumed, opened, processed, req>>
  BY DEF Logout, Expire, projection
<1>3. TypeOK' /\ RequestsHold'
  BY <1>1, <1>2 DEF IndInv, TypeOK, RequestsHold
<1>4. GrantOpensOneSession'
  BY <1>1, <1>2 DEF IndInv, TypeOK, GrantOpensOneSession
<1>5. ProjectionIsOneSnapshot' /\ AcknowledgedOnce'
  BY <1>2 DEF IndInv, ProjectionIsOneSnapshot, AcknowledgedOnce
<1> QED
  BY <1>3, <1>4, <1>5 DEF IndInv

LEMMA IssueGrantStep ==
  ASSUME IndInv, NEW g \in Grants, IssueGrant(g)
  PROVE  IndInv'
<1>1. TypeOK' /\ RequestsHold'
  BY DEF IssueGrant, IndInv, TypeOK, RequestsHold
<1>2. GrantOpensOneSession' /\ ProjectionIsOneSnapshot' /\ AcknowledgedOnce'
  BY DEF IssueGrant, IndInv, GrantOpensOneSession, ProjectionIsOneSnapshot,
         AcknowledgedOnce
<1> QED
  BY <1>1, <1>2 DEF IndInv

-----------------------------------------------------------------------------
LEMMA InitIndInv == Init => IndInv
<1> SUFFICES ASSUME Init PROVE IndInv
  OBVIOUS
<1>1. TypeOK /\ RequestsHold
  BY IntegrationAssumption DEF Init, Idle, TypeOK, RequestsHold, RowStatus
<1>2. GrantOpensOneSession /\ ProjectionIsOneSnapshot /\ AcknowledgedOnce
  BY DEF Init, GrantOpensOneSession, ProjectionIsOneSnapshot, AcknowledgedOnce
<1> QED
  BY <1>1, <1>2 DEF IndInv

LEMMA NextIndInv == IndInv /\ [Next]_vars => IndInv'
<1> SUFFICES ASSUME IndInv, [Next]_vars PROVE IndInv'
  OBVIOUS
<1>1. CASE Emit
  BY <1>1, EmitStep
<1>2. ASSUME NEW g \in Grants, IssueGrant(g) PROVE IndInv'
  BY <1>2, IssueGrantStep
<1>3. ASSUME NEW q \in Requests, NEW i \in EventNumbers,
             HandleScholaroscopeEvent(q, i)
      PROVE  IndInv'
  BY <1>3, RequestStep DEF HandleScholaroscopeEvent
<1>4. ASSUME NEW q \in Requests, ApplyEvent(q) PROVE IndInv'
  BY <1>4, ApplyEventStep
<1>5. ASSUME NEW q \in Requests, NEW g \in Grants, Exchange(q, g) PROVE IndInv'
  BY <1>5, RequestStep DEF Exchange, projection, portal
<1>6. ASSUME NEW q \in Requests, CheckGrant(q) PROVE IndInv'
  <2>1. req[q].arg \in Grants
    BY <1>6 DEF CheckGrant, IndInv, RequestsHold
  <2>2. req' = [req EXCEPT ![q] = [pc |-> "checked", arg |-> req[q].arg]]
    <3>1. req[q] \in [pc : {"idle", "event", "exchange", "checked"},
                      arg : (1..Len(events)) \cup Grants \cup {None}]
      BY DEF IndInv, TypeOK
    <3>2. [req[q] EXCEPT !.pc = "checked"] = [pc |-> "checked", arg |-> req[q].arg]
      BY <3>1
    <3>3. req' = [req EXCEPT ![q] = [req[q] EXCEPT !.pc = "checked"]]
      BY <1>6 DEF CheckGrant
    <3> QED
      BY <3>2, <3>3
  <2> QED
    BY <1>6, <2>1, <2>2, RequestStep DEF CheckGrant, projection, portal
<1>7. ASSUME NEW q \in Requests, ConsumeGrant(q) PROVE IndInv'
  BY <1>7, ConsumeGrantStep
<1>8. ASSUME NEW q \in Requests, Reject(q) PROVE IndInv'
  BY <1>8, RequestStep DEF Reject, Idle, projection, portal
<1>9. ASSUME NEW g \in Grants, Logout(g) \/ Expire(g) PROVE IndInv'
  BY <1>9, SessionEndStep
<1>10. CASE UNCHANGED vars
  BY <1>10 DEF vars, IndInv, TypeOK, RequestsHold, GrantOpensOneSession,
               ProjectionIsOneSnapshot, AcknowledgedOnce
<1> QED
  BY <1>1, <1>2, <1>3, <1>4, <1>5, <1>6, <1>7, <1>8, <1>9, <1>10 DEF Next

\* The inductive invariant holds in every reachable state.
THEOREM Invariance == Spec => []IndInv
  BY InitIndInv, NextIndInv, PTL DEF Spec

\* Rows and requests are typed (BootstrapWorkspace, ConsumeGrant).
THEOREM TypeCorrect == Spec => []TypeOK
<1>1. IndInv => TypeOK
  BY DEF IndInv
<1> QED
  BY <1>1, Invariance, PTL

\* No interleaving of exchanges opens two sessions with one grant
\* (ConsumeGrant).
THEOREM GrantsAreSpentOnce == Spec => []GrantOpensOneSession
<1>1. IndInv => GrantOpensOneSession
  BY DEF IndInv
<1> QED
  BY <1>1, Invariance, PTL

\* Syncs that are repeated, reordered or concurrent never leave a mixture of
\* two snapshots (upsertAcademicSync).
THEOREM ProjectionIsConsistent == Spec => []ProjectionIsOneSnapshot
<1>1. IndInv => ProjectionIsOneSnapshot
  BY DEF IndInv
<1> QED
  BY <1>1, Invariance, PTL

\* Provisioning is acknowledged once (BootstrapWorkspace).
THEOREM ProvisioningAcknowledgedOnce == Spec => []AcknowledgedOnce
<1>1. IndInv => AcknowledgedOnce
  BY DEF IndInv
<1> QED
  BY <1>1, Invariance, PTL

\* Ended portal sessions are never usable again, whatever events arrive and
\* whatever grants are exchanged (ConsumeGrant, GetSession).
THEOREM EndedIsEnded == Spec => EndedSessionsStayEnded
<1> DEFINE Ended == \A g \in Grants :
                      sessions[g] \in {"REVOKED", "EXPIRED"} => ~GetSession(g)'
<1>1. IndInv /\ [Next]_vars => [Ended]_vars
  <2> SUFFICES ASSUME IndInv, [Next]_vars, NEW g \in Grants,
                      sessions[g] \in {"REVOKED", "EXPIRED"}
               PROVE  sessions'[g] # "OPEN"
    BY DEF GetSession
  <2>1. sessions \in [Grants -> {"NONE", "OPEN", "REVOKED", "EXPIRED"}]
    BY DEF IndInv, TypeOK
  <2>2. ASSUME NEW q \in Requests, ConsumeGrant(q)
        PROVE  sessions'[g] = sessions[g]
    <3>1. g # req[q].arg
      BY <2>2 DEF ConsumeGrant, grantFree, IndInv, GrantOpensOneSession
    <3> QED
      BY <2>1, <2>2, <3>1 DEF ConsumeGrant
  <2>3. ASSUME NEW f \in Grants, Logout(f) \/ Expire(f)
        PROVE  sessions'[g] # "OPEN"
    BY <2>1, <2>3 DEF Logout, Expire
  <2>4. CASE \/ UNCHANGED vars \/ Emit
             \/ \E f \in Grants : IssueGrant(f)
             \/ \E q \in Requests, i \in EventNumbers : HandleScholaroscopeEvent(q, i)
             \/ \E q \in Requests, f \in Grants : Exchange(q, f)
             \/ \E q \in Requests : ApplyEvent(q) \/ CheckGrant(q) \/ Reject(q)
    BY <2>4 DEF vars, Emit, IssueGrant, HandleScholaroscopeEvent, Exchange, ApplyEvent,
                BootstrapWorkspace, DisableWorkspace, CheckGrant, Reject, portal
  <2> QED
    BY <2>2, <2>3, <2>4 DEF Next
<1> QED
  BY Invariance, <1>1, PTL DEF Spec, EndedSessionsStayEnded
=============================================================================
