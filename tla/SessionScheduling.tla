------------------------- MODULE SessionScheduling --------------------------
(***************************************************************************)
(* Scheduling single sessions into the lesson slots of one calendar        *)
(* version: requests that look for a free run of slots, requests that      *)
(* unschedule, teachers whose availability changes, and the conflict log.  *)
(*                                                                         *)
(* The transaction that schedules a session takes effect as one step: the  *)
(* rows it inserted keep others out until it commits, so its commit could  *)
(* have been its only statement; the row is read again in another step.    *)
(* Unscheduling is two DELETEs, and at READ COMMITTED each of them sees    *)
(* what has been committed by then.                                        *)
(***************************************************************************)
EXTENDS Integers, FiniteSets

CONSTANTS
  Requests,      \* requests served at the same time
  Sessions,
  Teachers,
  Subjects,      \* cohort subjects
  LessonSlots,   \* <<day_of_week, slot_index>> of the LESSON slots
  MaxDuration,   \* bound: slots that a session may ask for
  Asked,         \* bound: what clients ask for
  MaxErrors,     \* bound: statements that fail for another reason than a conflict
  None           \* no row

ASSUME SlotsAssumption ==
  /\ LessonSlots \subseteq Nat \X Nat
  /\ IsFiniteSet(LessonSlots)
  /\ MaxDuration \in Nat \ {0}
  /\ MaxErrors \in Nat

Durations == 1..MaxDuration

Asks == [session : Sessions, teacher : Teachers, subject : Subjects,
         duration : Durations]

ASSUME AskedAssumption == Asked \subseteq Asks

VARIABLES
  unavailable,   \* teacher_availability: slots with is_available = FALSE
  scheduled,     \* scheduled_session: the row of each session
  occupancy,     \* slot_occupancy
  open,          \* scheduling_conflict: the session of the unresolved row
  errors,        \* statements that failed so far
  req            \* what each request knows and holds

vars == <<unavailable, scheduled, occupancy, open, errors, req>>

Booking == [teacher : Teachers, subject : Subjects,
            first : LessonSlots, duration : Durations]

ASSUME NoneAssumption == None \notin Sessions /\ None \notin Booking

Occupancy == [session : Sessions, teacher : Teachers, subject : Subjects,
              slot : LessonSlots]

Idle == [pc |-> "idle"]

Init ==
  /\ unavailable = [t \in Teachers |-> {}]
  /\ scheduled = [s \in Sessions |-> None]
  /\ occupancy = {}
  /\ open = None
  /\ errors = 0
  /\ req = [q \in Requests |-> Idle]

Ask(q) == req[q].ask
Answer(q) == req' = [req EXCEPT ![q] = Idle]

-----------------------------------------------------------------------------
(* Candidates.                                                             *)

\* ORDER BY day_of_week, slot_index.
Earlier(a, b) == a[1] < b[1] \/ (a[1] = b[1] /\ a[2] < b[2])

\* The lesson slots among the next duration slots of the same day.
Consecutive(first, duration) ==
  {slot \in LessonSlots : /\ slot[1] = first[1]
                          /\ slot[2] >= first[2]
                          /\ slot[2] < first[2] + duration}

Mut_fits(first, duration, blocked) ==
  /\ first \notin blocked
  /\ \A slot \in Consecutive(first, duration) : slot \notin blocked

\* A candidate whose slots all are lessons, and all available.
fits(first, duration, blocked) ==
  /\ first \notin blocked
  /\ Cardinality(Consecutive(first, duration)) >= duration
  /\ \A slot \in Consecutive(first, duration) : slot \notin blocked

\* The rows that a request would insert for a candidate.
Occupancies(ask, first) ==
  {[session |-> ask.session, teacher |-> ask.teacher,
    subject |-> ask.subject, slot |-> slot] : slot \in Consecutive(first, ask.duration)}

Mut_Collide(a, b) == a.slot = b.slot /\ (a.subject = b.subject \/ a.session = b.session)

\* Two rows that one of the unique indexes keeps apart.
Collide(a, b) ==
  /\ a.slot = b.slot
  /\ a.teacher = b.teacher \/ a.subject = b.subject \/ a.session = b.session

-----------------------------------------------------------------------------
(* Scheduling.                                                             *)

\* The teacher's unavailable slots are read once; the lesson slots of a
\* calendar version do not change.
Schedule(q, ask) ==
  /\ req[q] = Idle
  /\ req' = [req EXCEPT ![q] =
       [pc |-> "schedule", ask |-> ask, placed |-> FALSE,
        blocked |-> unavailable[ask.teacher],
        left |-> {slot \in LessonSlots :
                    fits(slot, ask.duration, unavailable[ask.teacher])}]]
  /\ UNCHANGED <<unavailable, scheduled, occupancy, open, errors>>

\* The candidate that the loop has come to.
AtCandidate(q, slot) ==
  /\ req[q].pc = "schedule"
  /\ slot \in req[q].left
  /\ \A other \in req[q].left \ {slot} : Earlier(slot, other)

Mut_NextCandidate(q, slot) == UNCHANGED req

NextCandidate(q, slot) == req' = [req EXCEPT ![q].left = @ \ {slot}]

\* Rows that a transaction in progress has deleted: an insert that collides
\* with one of them waits until that transaction ends.
Deleted == UNION {req[q].rows : q \in {p \in Requests : req[p].pc = "unschedule"}}

Free(rows) == \A a \in rows, b \in occupancy : ~Collide(a, b)

\* The rows are inserted in the order of their slots; one collides with a row
\* that stays, and none before it has to wait.
Refused(rows) ==
  \E a \in rows :
    /\ \E b \in occupancy \ Deleted : Collide(a, b)
    /\ \A c \in rows, b \in Deleted : Earlier(c.slot, a.slot) => ~Collide(c, b)

\* The transaction inserts the session and its rows, and commits.
ScheduleSession(q, slot) ==
  /\ AtCandidate(q, slot)
  /\ scheduled[Ask(q).session] = None
  /\ Free(Occupancies(Ask(q), slot))
  /\ scheduled' = [scheduled EXCEPT ![Ask(q).session] =
       [teacher |-> Ask(q).teacher, subject |-> Ask(q).subject,
        first |-> slot, duration |-> Ask(q).duration]]
  /\ occupancy' = occupancy \cup Occupancies(Ask(q), slot)
  /\ req' = [req EXCEPT ![q].pc = "fetch", ![q].left = @ \ {slot}, ![q].placed = TRUE]
  /\ UNCHANGED <<unavailable, open, errors>>

Mut_FetchSession(q) ==
  /\ req[q].pc = "fetch"
  /\ req' = [req EXCEPT ![q].pc = "schedule"]
  /\ UNCHANGED <<unavailable, scheduled, occupancy, open, errors>>

\* The row is read again after the commit.  A request that finds none, because
\* the session has been unscheduled since, or whose SELECT fails, takes the
\* candidate for refused and goes on.
FetchSession(q) ==
  /\ req[q].pc = "fetch"
  /\ \/ /\ scheduled[Ask(q).session] # None
        /\ Answer(q)
        /\ UNCHANGED errors
     \/ /\ \/ scheduled[Ask(q).session] = None /\ UNCHANGED errors
           \/ errors < MaxErrors /\ errors' = errors + 1
        /\ req' = [req EXCEPT ![q].pc = "schedule"]
  /\ UNCHANGED <<unavailable, scheduled, occupancy, open>>

\* A unique constraint, or any other error: the loop goes on.
ScheduleFails(q, slot) ==
  /\ AtCandidate(q, slot)
  /\ \/ /\ \/ scheduled[Ask(q).session] # None
           \/ Refused(Occupancies(Ask(q), slot))
        /\ UNCHANGED errors
     \/ errors < MaxErrors /\ errors' = errors + 1
  /\ NextCandidate(q, slot)
  /\ UNCHANGED <<unavailable, scheduled, occupancy, open>>

\* The index of open conflicts does not contain the session, so a second row
\* is refused; Schedule drops the error.
Log(s) == open' = IF open = None THEN s ELSE open

\* No candidate is left.
NoValidSlot(q) ==
  /\ req[q].pc = "schedule"
  /\ req[q].left = {}
  /\ \/ Log(Ask(q).session) /\ UNCHANGED errors
     \/ errors < MaxErrors /\ errors' = errors + 1 /\ UNCHANGED open
  /\ Answer(q)
  /\ UNCHANGED <<unavailable, scheduled, occupancy>>

-----------------------------------------------------------------------------
(* Unscheduling.                                                           *)

RowsOf(s) == {row \in occupancy : row.session = s}

\* DELETE FROM slot_occupancy: waits for a transaction that deletes the same
\* rows.  The rows stay visible to others until the commit.
Unschedule(q, s) ==
  /\ req[q] = Idle
  /\ RowsOf(s) \cap Deleted = {}
  /\ req' = [req EXCEPT ![q] =
       [pc |-> "unschedule", session |-> s, rows |-> RowsOf(s)]]
  /\ UNCHANGED <<unavailable, scheduled, occupancy, open, errors>>

Mut_UnscheduleSession(q) ==
  /\ req[q].pc = "unschedule"
  /\ scheduled' = [scheduled EXCEPT ![req[q].session] = None]
  /\ Answer(q)
  /\ UNCHANGED <<unavailable, occupancy, open, errors>>

\* DELETE FROM scheduled_session and COMMIT.
UnscheduleSession(q) ==
  /\ req[q].pc = "unschedule"
  /\ scheduled' = [scheduled EXCEPT ![req[q].session] = None]
  /\ occupancy' = occupancy \ req[q].rows
  /\ Answer(q)
  /\ UNCHANGED <<unavailable, open, errors>>

\* Any request may end between two statements: what is open rolls back.
Fail(q) ==
  /\ req[q] # Idle
  /\ errors < MaxErrors
  /\ errors' = errors + 1
  /\ Answer(q)
  /\ UNCHANGED <<unavailable, scheduled, occupancy, open>>

-----------------------------------------------------------------------------
\* BulkUpsert: one batch is one implicit transaction.
SetAvailability(t) ==
  /\ \E slots \in SUBSET LessonSlots : unavailable' = [unavailable EXCEPT ![t] = slots]
  /\ UNCHANGED <<scheduled, occupancy, open, errors, req>>

MarkResolved ==
  /\ open # None
  /\ open' = None
  /\ UNCHANGED <<unavailable, scheduled, occupancy, errors, req>>

Next ==
  \/ \E q \in Requests, ask \in Asked : Schedule(q, ask)
  \/ \E q \in Requests, slot \in LessonSlots :
       \/ ScheduleSession(q, slot)
       \/ ScheduleFails(q, slot)
  \/ \E q \in Requests : FetchSession(q)
  \/ \E q \in Requests : NoValidSlot(q)
  \/ \E q \in Requests, s \in Sessions : Unschedule(q, s)
  \/ \E q \in Requests : UnscheduleSession(q)
  \/ \E q \in Requests : Fail(q)
  \/ \E t \in Teachers : SetAvailability(t)
  \/ MarkResolved

Spec == Init /\ [][Next]_vars

\* The statements of a request are executed one after the other.
RequestStep(q) ==
  \/ \E slot \in LessonSlots :
       ScheduleSession(q, slot) \/ ScheduleFails(q, slot)
  \/ FetchSession(q)
  \/ NoValidSlot(q)
  \/ UnscheduleSession(q)

FairSpec == Spec /\ \A q \in Requests : WF_vars(RequestStep(q))
-----------------------------------------------------------------------------
\* Every row and every request is in a state the code can write.
TypeOK ==
  /\ unavailable \in [Teachers -> SUBSET LessonSlots]
  /\ scheduled \in [Sessions -> Booking \cup {None}]
  /\ occupancy \subseteq Occupancy
  /\ open \in Sessions \cup {None}
  /\ errors \in 0..MaxErrors
  /\ \A q \in Requests :
       \/ req[q] = Idle
       \/ /\ req[q].pc \in {"schedule", "fetch"}
          /\ req[q].ask \in Asks
          /\ req[q].placed \in BOOLEAN
          /\ req[q].blocked \subseteq LessonSlots
          /\ req[q].left \subseteq LessonSlots
       \/ /\ req[q].pc = "unschedule"
          /\ req[q].session \in Sessions
          /\ req[q].rows \subseteq Occupancy

\* The slots a booked session takes: its first one and the next ones.
SlotsOf(s) ==
  {<<scheduled[s].first[1], scheduled[s].first[2] + k>> :
     k \in 0..(scheduled[s].duration - 1)}

\* A scheduled session holds an occupancy row, with its own teacher and
\* subject, for every one of its slots: a session never runs into a break, and
\* no race between scheduling and unscheduling frees a slot that is in use
\* (ScheduleSession, UnscheduleSession).
SessionHoldsItsSlots ==
  \A s \in Sessions : scheduled[s] # None =>
    \A slot \in SlotsOf(s) :
      [session |-> s, teacher |-> scheduled[s].teacher,
       subject |-> scheduled[s].subject, slot |-> slot] \in occupancy

\* No teacher and no cohort subject is booked twice, on the level of sessions:
\* the unique indexes guard the occupancy rows only (slot_occupancy).
NoDoubleBooking ==
  \A s1 \in Sessions, s2 \in Sessions :
    /\ s1 # s2
    /\ scheduled[s1] # None /\ scheduled[s2] # None
    /\ SlotsOf(s1) \cap SlotsOf(s2) # {}
    => /\ scheduled[s1].teacher # scheduled[s2].teacher
       /\ scheduled[s1].subject # scheduled[s2].subject

\* Every occupancy row belongs to a scheduled session that uses its slot:
\* unscheduling leaves no slot blocked (UnscheduleSession, "removes a scheduled
\* session and its occupancy rows atomically").
OccupancyOwned ==
  \A row \in occupancy :
    /\ scheduled[row.session] # None
    /\ row.slot \in SlotsOf(row.session)

\* "No valid slot" is the truth as long as no statement has failed: the request
\* has not placed its session, and if the session is not booked otherwise,
\* every candidate collides with a row (Schedule).
NoValidSlotIsTrue ==
  [][\A q \in Requests : NoValidSlot(q) /\ errors = 0 =>
       /\ ~req[q].placed
       /\ scheduled[Ask(q).session] = None =>
            \A slot \in LessonSlots :
              fits(slot, Ask(q).duration, req[q].blocked)
                => ~Free(Occupancies(Ask(q), slot))]_vars

\* Every request is answered unless sessions are unscheduled without end: an
\* insert waits for a transaction that deletes a row in its way, and nobody
\* waits in a circle (ScheduleSession, UnscheduleSession).
RequestsAnswered ==
  <>[][\A q \in Requests, s \in Sessions : ~Unschedule(q, s)]_vars
    => \A q \in Requests : (req[q] # Idle) ~> (req[q] = Idle)
=============================================================================
