-------------------------- MODULE CalendarVersions --------------------------
(***************************************************************************)
(* The calendar versions of one workspace: how they are numbered, stored   *)
(* with their time slots, and made the active one, by requests that        *)
(* interleave between their statements.                                    *)
(*                                                                         *)
(* At READ COMMITTED an UPDATE works on the rows it saw when it began,     *)
(* even if it then waits for another transaction.  The transactions that   *)
(* deactivate versions all lock the oldest one, so their locked parts      *)
(* exclude each other and are one step, taken when the transaction commits.*)
(***************************************************************************)
EXTENDS Integers, FiniteSets

CONSTANTS
  Requests,     \* requests served at the same time
  Ids,          \* ids that a version may get; bounds the versions
  UnknownIds,   \* ids of no version of this workspace
  MaxErrors,    \* bound: statements that fail, processes that stop
  None          \* no row

ASSUME CalendarAssumption ==
  /\ MaxErrors \in Nat
  /\ Ids \cap UnknownIds = {}

VARIABLES
  versions,     \* org_calendar_version: the row of each id
  errors,       \* failures so far
  req           \* what each request knows

vars == <<versions, errors, req>>

Row == [number : Nat \ {0}, slots : BOOLEAN, active : BOOLEAN]

ASSUME NoneAssumption == None \notin Row

Idle == [pc |-> "idle"]

Init ==
  /\ versions = [v \in Ids |-> None]
  /\ errors = 0
  /\ req = [q \in Requests |-> Idle]

Stored == {v \in Ids : versions[v] # None}
Active == {v \in Stored : versions[v].active}

\* Ids are random UUIDs: no request gets one that another has.
FreshIds ==
  {v \in Ids \ Stored : \A q \in Requests : req[q].pc = "saving" => req[q].id # v}

Answer(q) == req' = [req EXCEPT ![q] = Idle]
-----------------------------------------------------------------------------
(* Creating a version.                                                     *)

NextVersionNumber ==
  CHOOSE n \in 1..(Cardinality(Stored) + 1) :
    /\ \A v \in Stored : versions[v].number < n
    /\ n = 1 \/ \E v \in Stored : versions[v].number = n - 1

\* Bound: there is an id left for every version under way.
buildCalendarVersion(q, activated) ==
  /\ req[q] = Idle
  /\ Cardinality(FreshIds) > Cardinality({p \in Requests : req[p].pc = "built"})
  /\ req' = [req EXCEPT ![q] =
       [pc |-> "built", number |-> NextVersionNumber, activated |-> activated]]
  /\ UNCHANGED <<versions, errors>>

\* PUT /api/v1/calendar activates the new version, POST /orgs/../calendar does not.
PutCalendar(q) == buildCalendarVersion(q, TRUE)

CreateCalendar(q) == buildCalendarVersion(q, FALSE)

Mut_numberTaken(n) == FALSE

\* org_calendar_version_unique_number.
numberTaken(n) == \E v \in Stored : versions[v].number = n

\* An insert waits for an open transaction that has inserted the same number.
numberHeld(n) == \E q \in Requests : req[q].pc = "saving" /\ req[q].number = n

NumberRefused(q) ==
  /\ req[q].pc = "built"
  /\ numberTaken(req[q].number)
  /\ Answer(q)
  /\ UNCHANGED <<versions, errors>>

insertCalendarVersion(q, v) ==
  /\ req[q].pc = "built" /\ ~req[q].activated
  /\ ~numberTaken(req[q].number) /\ ~numberHeld(req[q].number)
  /\ versions' = [versions EXCEPT ![v] =
       [number |-> req[q].number, slots |-> FALSE, active |-> FALSE]]
  /\ req' = [req EXCEPT ![q] = [pc |-> "inserted", id |-> v]]
  /\ UNCHANGED errors

Mut_BulkInsertTimeSlots(q) ==
  /\ req[q].pc = "inserted"
  /\ Answer(q)
  /\ UNCHANGED <<versions, errors>>

BulkInsertTimeSlots(q) ==
  /\ req[q].pc = "inserted"
  /\ versions' = [versions EXCEPT ![req[q].id].slots = TRUE]
  /\ Answer(q)
  /\ UNCHANGED errors

\* The transaction up to the UPDATE that deactivates the others, which has
\* seen the versions stored by now.
CreateCalendarVersionWithSlotsActivated(q, v) ==
  /\ req[q].pc = "built" /\ req[q].activated
  /\ ~numberTaken(req[q].number) /\ ~numberHeld(req[q].number)
  /\ req' = [req EXCEPT ![q] =
       [pc |-> "saving", id |-> v, number |-> req[q].number, seen |-> Stored]]
  /\ UNCHANGED <<versions, errors>>

-----------------------------------------------------------------------------
(* Switching the active version.                                           *)

Mut_secondActive(seen, v) == FALSE

\* org_calendar_version_single_active_idx: an active version that the
\* transaction has not deactivated.
secondActive(seen, v) == Active \ (seen \cup {v}) # {}

Deactivated(seen) ==
  [v \in Ids |-> IF v \in seen THEN [versions[v] EXCEPT !.active = FALSE]
                               ELSE versions[v]]

CommitActivated(q) ==
  /\ req[q].pc = "saving"
  /\ \/ /\ secondActive(req[q].seen, req[q].id)
        /\ UNCHANGED versions
     \/ /\ ~secondActive(req[q].seen, req[q].id)
        /\ versions' = [Deactivated(req[q].seen) EXCEPT ![req[q].id] =
             [number |-> req[q].number, slots |-> TRUE, active |-> TRUE]]
  /\ Answer(q)
  /\ UNCHANGED errors

ActivateCalendarVersion(q, v) ==
  /\ req[q] = Idle
  /\ req' = [req EXCEPT ![q] = [pc |-> "activating", id |-> v, seen |-> Stored]]
  /\ UNCHANGED <<versions, errors>>

\* Any id of the path is taken.
ActivateCalendar(q) == \E v \in Stored \cup UnknownIds : ActivateCalendarVersion(q, v)

Mut_CommitActivation(q) ==
  /\ req[q].pc = "activating"
  /\ versions' = Deactivated(req[q].seen)
  /\ Answer(q)
  /\ UNCHANGED errors

\* Nobody looks whether the second UPDATE found the version.
CommitActivation(q) ==
  /\ req[q].pc = "activating"
  /\ \/ /\ req[q].id \in Stored
        /\ secondActive(req[q].seen, req[q].id)
        /\ UNCHANGED versions
     \/ /\ req[q].id \in Stored
        /\ ~secondActive(req[q].seen, req[q].id)
        /\ versions' = [Deactivated(req[q].seen) EXCEPT ![req[q].id].active = TRUE]
     \/ /\ req[q].id \notin Stored
        /\ versions' = Deactivated(req[q].seen)
  /\ Answer(q)
  /\ UNCHANGED errors

\* A statement fails or the process stops: what is open rolls back.
Fail(q) ==
  /\ req[q] # Idle
  /\ errors < MaxErrors
  /\ errors' = errors + 1
  /\ Answer(q)
  /\ UNCHANGED versions

Next ==
  \/ \E q \in Requests : PutCalendar(q) \/ CreateCalendar(q)
  \/ \E q \in Requests, v \in FreshIds :
       \/ insertCalendarVersion(q, v)
       \/ CreateCalendarVersionWithSlotsActivated(q, v)
  \/ \E q \in Requests : NumberRefused(q)
  \/ \E q \in Requests : BulkInsertTimeSlots(q)
  \/ \E q \in Requests : CommitActivated(q)
  \/ \E q \in Requests : ActivateCalendar(q)
  \/ \E q \in Requests : CommitActivation(q)
  \/ \E q \in Requests : Fail(q)

Spec == Init /\ [][Next]_vars
-----------------------------------------------------------------------------
\* Versions are numbered 1, 2, 3 without gap or repetition, although the next
\* number is read in one statement and used in another, and requests fail in
\* between (NextVersionNumber, insertCalendarVersion).
NumbersWithoutGap ==
  /\ \A v \in Stored, w \in Stored :
       versions[v].number = versions[w].number => v = w
  /\ {versions[v].number : v \in Stored} = 1..Cardinality(Stored)

\* There is at most one active calendar, whatever activations race
\* (ActivateCalendarVersion, CreateCalendarVersionWithSlotsActivated).
AtMostOneActive == Cardinality(Active) <= 1

\* A workspace that has an active calendar keeps having one, whatever requests
\* race and fail: activations replace.  Only the activation of an id that is no
\* version of this workspace takes the calendar away (ActivateCalendarVersion
\* "sets a version as active and deactivates all others").
ActiveStays ==
  [][Active # {} /\ Active' = {} =>
       \E q \in Requests : req[q].pc = "activating" /\ req[q].id \in UnknownIds]_vars

\* The active calendar has its time slots, unless it was activated before its
\* request has inserted them or a statement has failed
\* (CreateCalendarWithSlots, CreateCalendarVersionWithSlotsActivated).
ActiveHasSlots ==
  \A v \in Active :
    \/ versions[v].slots
    \/ errors > 0
    \/ \E q \in Requests : req[q].pc = "inserted" /\ req[q].id = v
=============================================================================
