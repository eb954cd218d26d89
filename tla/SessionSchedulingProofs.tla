---------------------- MODULE SessionSchedulingProofs -----------------------
(***************************************************************************)
(* Proofs about SessionScheduling, for any number of requests, sessions,   *)
(* teachers, subjects and slots, and any number of failing statements.     *)
(*                                                                         *)
(* SessionHoldsItsSlots is not inductive alone: a request must be known to *)
(* try only candidates that fit, and to delete only rows of its own        *)
(* session.  NoDoubleBooking then follows from the indexes (RowsApart),    *)
(* because every booked session holds a row for each of its slots.         *)
(***************************************************************************)
EXTENDS SessionScheduling, FiniteSetTheorems, TLAPS

\* What a request holds between two statements.
Searching ==
  {r \in [pc : {"schedule", "fetch"}, ask : Asks, placed : BOOLEAN,
          blocked : SUBSET LessonSlots, left : SUBSET LessonSlots] :
     \A slot \in r.left : fits(slot, r.ask.duration, r.blocked)}

Removing ==
  {r \in [pc : {"unschedule"}, session : Sessions, rows : SUBSET Occupancy] :
     \A row \in r.rows : row.session = r.session}

RequestsHold ==
  req \in [Requests -> {Idle} \cup Searching \cup Removing]

Tables ==
  /\ unavailable \in [Teachers -> SUBSET LessonSlots]
  /\ scheduled \in [Sessions -> Booking \cup {None}]
  /\ occupancy \subseteq Occupancy
  /\ open \in Sessions \cup {None}
  /\ errors \in 0..MaxErrors

\* The unique indexes of slot_occupancy.
RowsApart == \A a \in occupancy, b \in occupancy : a # b => ~Collide(a, b)

IndInv == Tables /\ RequestsHold /\ SessionHoldsItsSlots /\ RowsApart

-----------------------------------------------------------------------------
(***************************************************************************)
(* A candidate that has as many lesson slots as it asks for has all of     *)
(* them: counting the slots is enough to keep a session out of a break.    *)
(***************************************************************************)
LEMMA ConsecutiveIsFull ==
  ASSUME NEW first \in LessonSlots, NEW duration \in Durations,
         Cardinality(Consecutive(first, duration)) >= duration,
         NEW k \in 0..(duration - 1)
  PROVE  <<first[1], first[2] + k>> \in Consecutive(first, duration)
<1> DEFINE C == Consecutive(first, duration)
           T == 0..(duration - 1)
           f == [slot \in C |-> slot[2] - first[2]]
<1> SUFFICES ASSUME <<first[1], first[2] + k>> \notin C
             PROVE  FALSE
  OBVIOUS
<1>1. /\ first[1] \in Nat /\ first[2] \in Nat /\ duration \in Nat \ {0}
      /\ \A slot \in LessonSlots : slot[1] \in Nat /\ slot[2] \in Nat
                                   /\ slot = <<slot[1], slot[2]>>
  BY SlotsAssumption DEF Durations
<1>2. /\ IsFiniteSet(T)
      /\ Cardinality(T) = duration
  <2>1. PICK m \in Int : m = duration - 1
    BY <1>1
  <2>2. /\ IsFiniteSet(0..m)
        /\ Cardinality(0..m) = IF 0 > m THEN 0 ELSE m - 0 + 1
    BY 0 \in Int, FS_Interval
  <2> QED
    BY <1>1, <2>1, <2>2
<1>3. /\ IsFiniteSet(T \ {k})
      /\ Cardinality(T \ {k}) = duration - 1
  BY <1>2, FS_RemoveElement
<1>4. f \in Injection(C, T \ {k})
  <2>1. \A slot \in C : slot[2] - first[2] \in T \ {k}
    BY <1>1 DEF Consecutive
  <2>2. \A a \in C, b \in C : f[a] = f[b] => a = b
    BY <1>1 DEF Consecutive
  <2> QED
    BY <2>1, <2>2 DEF Injection, IsInjective
<1>5. Cardinality(C) <= duration - 1 /\ IsFiniteSet(C)
  <2> HIDE DEF C, T, f
  <2> QED
    BY <1>3, <1>4, FS_Injection
<1>6. Cardinality(C) \in Nat
  <2> HIDE DEF C
  <2> QED
    BY <1>5, FS_CardinalityType
<1> QED
  BY <1>1, <1>5, <1>6

(***************************************************************************)
(* The rows of a fitting candidate are rows of the table, one for every    *)
(* slot of the session, and no two of them collide.                        *)
(***************************************************************************)
LEMMA CandidateRows ==
  ASSUME NEW ask \in Asks, NEW first \in LessonSlots, NEW blocked,
         fits(first, ask.duration, blocked)
  PROVE  /\ Occupancies(ask, first) \subseteq Occupancy
         /\ \A row \in Occupancies(ask, first) :
              /\ row.session = ask.session
              /\ row.teacher = ask.teacher
              /\ row.subject = ask.subject
         /\ \A a \in Occupancies(ask, first), b \in Occupancies(ask, first) :
              a # b => ~Collide(a, b)
         /\ \A k \in 0..(ask.duration - 1) :
              [session |-> ask.session, teacher |-> ask.teacher,
               subject |-> ask.subject,
               slot |-> <<first[1], first[2] + k>>] \in Occupancies(ask, first)
<1>1. /\ ask.session \in Sessions /\ ask.teacher \in Teachers
      /\ ask.subject \in Subjects /\ ask.duration \in Durations
  BY DEF Asks
<1>2. Cardinality(Consecutive(first, ask.duration)) >= ask.duration
  BY DEF fits
<1>3. \A k \in 0..(ask.duration - 1) :
        <<first[1], first[2] + k>> \in Consecutive(first, ask.duration)
  BY <1>1, <1>2, ConsecutiveIsFull
<1>4. Consecutive(first, ask.duration) \subseteq LessonSlots
  BY DEF Consecutive
<1>5. Occupancies(ask, first) \subseteq Occupancy
  BY <1>1, <1>4 DEF Occupancies, Occupancy
<1>6. \A a \in Occupancies(ask, first), b \in Occupancies(ask, first) :
        a.slot = b.slot => a = b
  BY DEF Occupancies
<1> QED
  BY <1>3, <1>5, <1>6 DEF Occupancies, Collide

-----------------------------------------------------------------------------
(***************************************************************************)
(* What the steps do to the requests.                                      *)
(***************************************************************************)
\* The shapes of requests depend on constants only.
LEMMA SameShapes == Searching' = Searching /\ Removing' = Removing
BY DEF Searching, Removing, fits, Consecutive, Asks, Occupancy, Durations

LEMMA SearchGoesOn ==
  ASSUME RequestsHold, NEW q \in Requests, NEW slot, NEW b \in BOOLEAN,
         NEW next \in {"schedule", "fetch"}, req[q] \in Searching,
         req' = [req EXCEPT ![q].pc = next, ![q].left = @ \ {slot}, ![q].placed = b]
  PROVE  RequestsHold'
<1> DEFINE r == [req[q] EXCEPT !.pc = next, !.left = @ \ {slot}, !.placed = b]
<1>1. req[q] \in Searching
  OBVIOUS
<1>2. r \in Searching
  BY <1>1 DEF Searching
<1>3. req' = [req EXCEPT ![q] = r]
  BY <1>1 DEF RequestsHold, Searching
<1> QED
  BY <1>2, <1>3, SameShapes DEF RequestsHold

LEMMA AnswerHolds ==
  ASSUME RequestsHold, NEW q \in Requests, Answer(q)
  PROVE  RequestsHold'
BY SameShapes DEF RequestsHold, Answer, Idle

LEMMA SearchBegins ==
  ASSUME Tables, RequestsHold, NEW q \in Requests, NEW ask \in Asks,
         Schedule(q, ask)
  PROVE  RequestsHold'
<1> DEFINE r == [pc |-> "schedule", ask |-> ask, placed |-> FALSE,
                 blocked |-> unavailable[ask.teacher],
                 left |-> {slot \in LessonSlots :
                             fits(slot, ask.duration, unavailable[ask.teacher])}]
<1>1. unavailable[ask.teacher] \subseteq LessonSlots
  BY DEF Tables, Asks
<1>2. r \in Searching
  BY <1>1 DEF Searching
<1>3. req' = [req EXCEPT ![q] = r]
  BY DEF Schedule
<1> QED
  BY <1>2, <1>3, SameShapes DEF RequestsHold

LEMMA RemovalBegins ==
  ASSUME Tables, RequestsHold, NEW q \in Requests, NEW s \in Sessions,
         Unschedule(q, s)
  PROVE  RequestsHold'
<1> DEFINE r == [pc |-> "unschedule", session |-> s, rows |-> RowsOf(s)]
<1>1. r \in Removing
  BY DEF Removing, RowsOf, Tables
<1>2. req' = [req EXCEPT ![q] = r]
  BY DEF Unschedule
<1> QED
  BY <1>1, <1>2, SameShapes DEF RequestsHold

-----------------------------------------------------------------------------
(***************************************************************************)
(* The two transactions that write the tables.                             *)
(***************************************************************************)
LEMMA ScheduleSessionStep ==
  ASSUME IndInv, NEW q \in Requests, NEW slot \in LessonSlots,
         ScheduleSession(q, slot)
  PROVE  IndInv'
<1> DEFINE ask == req[q].ask
           new == Occupancies(ask, slot)
<1>1. /\ req[q] \in Searching
      /\ slot \in req[q].left
      /\ req[q].pc = "schedule"
  BY DEF IndInv, RequestsHold, ScheduleSession, AtCandidate, Idle, Removing
<1>2. ask \in Asks /\ fits(slot, ask.duration, req[q].blocked)
  BY <1>1 DEF Searching
<1>3. /\ new \subseteq Occupancy
      /\ \A a \in new, b \in new : a # b => ~Collide(a, b)
      /\ \A k \in 0..(ask.duration - 1) :
           [session |-> ask.session, teacher |-> ask.teacher,
            subject |-> ask.subject, slot |-> <<slot[1], slot[2] + k>>] \in new
  BY <1>2, CandidateRows
<1>4. /\ ask.session \in Sessions /\ ask.teacher \in Teachers
      /\ ask.subject \in Subjects /\ ask.duration \in Durations
  BY <1>2 DEF Asks
<1>5. /\ occupancy' = occupancy \cup new
      /\ scheduled' = [scheduled EXCEPT ![ask.session] =
           [teacher |-> ask.teacher, subject |-> ask.subject,
            first |-> slot, duration |-> ask.duration]]
      /\ UNCHANGED <<unavailable, open>>
      /\ Free(new)
      /\ errors' \in 0..MaxErrors
  BY SlotsAssumption DEF IndInv, Tables, ScheduleSession, Ask
<1>6. Tables'
  BY <1>3, <1>4, <1>5 DEF IndInv, Tables, Booking, Occupancy, Durations
<1>7. RequestsHold'
  <2>1. req' = [req EXCEPT ![q].pc = "fetch", ![q].left = @ \ {slot}, ![q].placed = TRUE]
    BY DEF ScheduleSession
  <2> QED
    BY <1>1, <2>1, SearchGoesOn DEF IndInv
<1>8. SessionHoldsItsSlots'
  <2> SUFFICES ASSUME NEW s \in Sessions, scheduled'[s] # None,
                      NEW k \in 0..(scheduled'[s].duration - 1)
               PROVE  [session |-> s, teacher |-> scheduled'[s].teacher,
                       subject |-> scheduled'[s].subject,
                       slot |-> <<scheduled'[s].first[1],
                                  scheduled'[s].first[2] + k>>] \in occupancy'
    BY DEF SessionHoldsItsSlots, SlotsOf
  <2>1. CASE s = ask.session
    <3>1. scheduled'[s] = [teacher |-> ask.teacher, subject |-> ask.subject,
                           first |-> slot, duration |-> ask.duration]
      BY <1>4, <1>5, <2>1 DEF IndInv, Tables
    <3> QED
      BY <1>3, <1>5, <2>1, <3>1
  <2>2. CASE s # ask.session
    <3>1. scheduled'[s] = scheduled[s]
      BY <1>5, <2>2 DEF IndInv, Tables
    <3> QED
      BY <1>5, <3>1 DEF IndInv, SessionHoldsItsSlots, SlotsOf
  <2> QED
    BY <2>1, <2>2
<1>9. RowsApart'
  <2>1. \A a \in new, b \in occupancy : ~Collide(a, b) /\ ~Collide(b, a)
    BY <1>5 DEF Free, Collide
  <2> QED
    BY <1>3, <1>5, <2>1 DEF IndInv, RowsApart, Collide
<1> QED
  BY <1>6, <1>7, <1>8, <1>9 DEF IndInv

LEMMA UnscheduleSessionStep ==
  ASSUME IndInv, NEW q \in Requests, UnscheduleSession(q)
  PROVE  IndInv'
<1> DEFINE s0 == req[q].session
<1>1. req[q] \in Removing
  BY DEF IndInv, RequestsHold, UnscheduleSession, Idle, Searching
<1>2. s0 \in Sessions /\ \A row \in req[q].rows : row.session = s0
  BY <1>1 DEF Removing
<1>3. /\ scheduled' = [scheduled EXCEPT ![s0] = None]
      /\ occupancy' = occupancy \ req[q].rows
      /\ UNCHANGED <<unavailable, open, errors>>
  BY DEF UnscheduleSession
<1>4. Tables'
  BY <1>2, <1>3 DEF IndInv, Tables, Booking, Occupancy
<1>5. RequestsHold'
  BY AnswerHolds DEF IndInv, UnscheduleSession
<1>6. SessionHoldsItsSlots'
  <2> SUFFICES ASSUME NEW s \in Sessions, scheduled'[s] # None,
                      NEW k \in 0..(scheduled'[s].duration - 1)
               PROVE  [session |-> s, teacher |-> scheduled'[s].teacher,
                       subject |-> scheduled'[s].subject,
                       slot |-> <<scheduled'[s].first[1],
                                  scheduled'[s].first[2] + k>>] \in occupancy'
    BY DEF SessionHoldsItsSlots, SlotsOf
  <2>1. s # s0 /\ scheduled'[s] = scheduled[s]
    BY <1>2, <1>3 DEF IndInv, Tables
  <2>2. [session |-> s, teacher |-> scheduled[s].teacher,
         subject |-> scheduled[s].subject,
         slot |-> <<scheduled[s].first[1],
                    scheduled[s].first[2] + k>>] \in occupancy
    BY <2>1 DEF IndInv, SessionHoldsItsSlots, SlotsOf
  <2> QED
    BY <1>2, <1>3, <2>1, <2>2
<1>7. RowsApart'
  BY <1>3 DEF IndInv, RowsApart, Collide
<1> QED
  BY <1>4, <1>5, <1>6, <1>7 DEF IndInv

\* A step that leaves the bookings and the rows alone.
LEMMA OtherStep ==
  ASSUME IndInv, Tables', RequestsHold', UNCHANGED <<scheduled, occupancy>>
  PROVE  IndInv'
BY DEF IndInv, SessionHoldsItsSlots, SlotsOf, RowsApart, Collide

-----------------------------------------------------------------------------
LEMMA InitialStates == Init => IndInv
<1> SUFFICES ASSUME Init
             PROVE  IndInv
  OBVIOUS
<1>1. Tables
  BY SlotsAssumption DEF Init, Tables
<1>2. RequestsHold
  BY DEF Init, RequestsHold
<1>3. SessionHoldsItsSlots /\ RowsApart
  BY DEF Init, SessionHoldsItsSlots, RowsApart
<1> QED
  BY <1>1, <1>2, <1>3 DEF IndInv

LEMMA Step == IndInv /\ [Next]_vars => IndInv'
<1> SUFFICES ASSUME IndInv, [Next]_vars
             PROVE  IndInv'
  OBVIOUS
<1> USE SlotsAssumption
<1>1. ASSUME NEW q \in Requests, NEW ask \in Asked, Schedule(q, ask)
      PROVE  IndInv'
  <2>1. RequestsHold'
    BY <1>1, SearchBegins, AskedAssumption DEF IndInv
  <2> QED
    BY <1>1, <2>1, OtherStep DEF IndInv, Tables, Schedule
<1>2. ASSUME NEW q \in Requests, NEW slot \in LessonSlots, ScheduleSession(q, slot)
      PROVE  IndInv'
  BY <1>2, ScheduleSessionStep
<1>3. ASSUME NEW q \in Requests, NEW slot \in LessonSlots, ScheduleFails(q, slot)
      PROVE  IndInv'
  <2>1. req[q].pc = "schedule" /\ req[q] \in Searching
    BY <1>3 DEF ScheduleFails, AtCandidate, IndInv, RequestsHold, Idle, Removing
  <2>2. PICK b \in BOOLEAN : b = req[q].placed
    BY <2>1 DEF Searching
  <2>3. req' = [req EXCEPT ![q].pc = "schedule", ![q].left = @ \ {slot}, ![q].placed = b]
    BY <1>3, <2>1, <2>2 DEF ScheduleFails, NextCandidate, Searching, IndInv, RequestsHold
  <2>4. RequestsHold'
    BY <2>1, <2>3, SearchGoesOn DEF IndInv
  <2>5. Tables'
    BY <1>3 DEF IndInv, Tables, ScheduleFails
  <2> QED
    BY <1>3, <2>4, <2>5, OtherStep DEF ScheduleFails
<1>4. ASSUME NEW q \in Requests, NoValidSlot(q)
      PROVE  IndInv'
  <2>1. req[q] \in Searching
    BY <1>4 DEF NoValidSlot, IndInv, RequestsHold, Idle, Removing
  <2>2. Ask(q).session \in Sessions
    BY <2>1 DEF Searching, Asks, Ask
  <2>3. Tables'
    BY <1>4, <2>2 DEF IndInv, Tables, NoValidSlot, Log
  <2>4. RequestsHold'
    BY <1>4, AnswerHolds DEF IndInv, NoValidSlot
  <2> QED
    BY <1>4, <2>3, <2>4, OtherStep DEF NoValidSlot
<1>5. ASSUME NEW q \in Requests, NEW s \in Sessions, Unschedule(q, s)
      PROVE  IndInv'
  <2>1. RequestsHold'
    BY <1>5, RemovalBegins DEF IndInv
  <2> QED
    BY <1>5, <2>1, OtherStep DEF IndInv, Tables, Unschedule
<1>6. ASSUME NEW q \in Requests, UnscheduleSession(q)
      PROVE  IndInv'
  BY <1>6, UnscheduleSessionStep
<1>7. ASSUME NEW q \in Requests, Fail(q)
      PROVE  IndInv'
  <2>1. RequestsHold'
    BY <1>7, AnswerHolds DEF IndInv, Fail
  <2>2. Tables'
    BY <1>7 DEF IndInv, Tables, Fail
  <2> QED
    BY <1>7, <2>1, <2>2, OtherStep DEF Fail
<1>8. ASSUME NEW t \in Teachers, SetAvailability(t)
      PROVE  IndInv'
  <2>1. Tables' /\ RequestsHold'
    BY <1>8 DEF IndInv, Tables, RequestsHold, SetAvailability, Searching, Removing,
                fits, Consecutive
  <2> QED
    BY <1>8, <2>1, OtherStep DEF SetAvailability
<1>9. CASE MarkResolved
  BY <1>9, OtherStep DEF IndInv, Tables, RequestsHold, MarkResolved, Searching,
                         Removing, fits, Consecutive
<1>10. CASE UNCHANGED vars
  BY <1>10, OtherStep DEF IndInv, Tables, RequestsHold, vars, Searching, Removing,
                          fits, Consecutive
<1>11. ASSUME NEW q \in Requests, FetchSession(q)
       PROVE  IndInv'
  <2>1. req[q] \in Searching
    BY <1>11 DEF FetchSession, IndInv, RequestsHold, Idle, Removing
  <2>2. PICK r : r = [req[q] EXCEPT !.pc = "schedule"]
    OBVIOUS
  <2>3. r \in Searching
    BY <2>1, <2>2 DEF Searching
  <2>4. Answer(q) \/ req' = [req EXCEPT ![q] = r]
    BY <1>11, <2>1, <2>2 DEF FetchSession, IndInv, RequestsHold
  <2>5. RequestsHold'
    BY <2>3, <2>4, AnswerHolds, SameShapes DEF IndInv, RequestsHold
  <2>6. Tables'
    BY <1>11 DEF IndInv, Tables, FetchSession
  <2> QED
    BY <1>11, <2>5, <2>6, OtherStep DEF FetchSession
<1> QED
  BY <1>1, <1>2, <1>3, <1>4, <1>5, <1>6, <1>7, <1>8, <1>9, <1>10, <1>11 DEF Next

LEMMA Invariance == Spec => []IndInv
<1> QED
  BY InitialStates, Step, PTL DEF Spec

-----------------------------------------------------------------------------
(***************************************************************************)
(* Every row and every request is typed, whatever requests race and        *)
(* whatever statements fail.                                               *)
(***************************************************************************)
THEOREM TypeCorrect == Spec => []TypeOK
<1>1. IndInv => TypeOK
  BY DEF IndInv, Tables, RequestsHold, TypeOK, Searching, Removing
<1> QED
  BY <1>1, Invariance, PTL

(***************************************************************************)
(* A scheduled session holds a row for each of its slots, whatever is      *)
(* scheduled and unscheduled at the same time (ScheduleSession,            *)
(* UnscheduleSession): no break lies in it and no slot of it is free.      *)
(***************************************************************************)
THEOREM SessionsKeepTheirSlots == Spec => []SessionHoldsItsSlots
<1>1. IndInv => SessionHoldsItsSlots
  BY DEF IndInv
<1> QED
  BY <1>1, Invariance, PTL

(***************************************************************************)
(* Two sessions that share a slot have different teachers and different    *)
(* cohort subjects, although the indexes know occupancy rows only.         *)
(***************************************************************************)
THEOREM NobodyBookedTwice == Spec => []NoDoubleBooking
<1>1. IndInv => NoDoubleBooking
  <2> SUFFICES ASSUME IndInv, NEW s1 \in Sessions, NEW s2 \in Sessions, s1 # s2,
                      scheduled[s1] # None, scheduled[s2] # None,
                      NEW slot \in SlotsOf(s1) \cap SlotsOf(s2)
               PROVE  /\ scheduled[s1].teacher # scheduled[s2].teacher
                      /\ scheduled[s1].subject # scheduled[s2].subject
    BY DEF NoDoubleBooking
  <2> DEFINE row(s) == [session |-> s, teacher |-> scheduled[s].teacher,
                        subject |-> scheduled[s].subject, slot |-> slot]
  <2>1. row(s1) \in occupancy /\ row(s2) \in occupancy
    BY DEF IndInv, SessionHoldsItsSlots
  <2>2. row(s1) # row(s2)
    OBVIOUS
  <2> QED
    BY <2>1, <2>2 DEF IndInv, RowsApart, Collide
<1> QED
  BY <1>1, Invariance, PTL

-----------------------------------------------------------------------------
(***************************************************************************)
(* One request at a time.                                                  *)
(*                                                                         *)
(* What a request has read is then what the tables say: the rows it has    *)
(* deleted are all rows of the session, and a candidate it has passed over *)
(* collides with a row, unless a statement has failed.                     *)
(***************************************************************************)
OneAtATime == \A p, q \in Requests : p = q

Informed(q) ==
  /\ req[q].pc = "unschedule" => req[q].rows = RowsOf(req[q].session)
  /\ req[q].pc = "fetch" => scheduled[req[q].ask.session] # None
  /\ req[q].pc = "schedule" /\ errors = 0 =>
       /\ ~req[q].placed
       /\ scheduled[req[q].ask.session] = None =>
            \A slot \in LessonSlots \ req[q].left :
              fits(slot, req[q].ask.duration, req[q].blocked)
                => ~Free(Occupancies(req[q].ask, slot))

AloneInv ==
  /\ OneAtATime
  /\ IndInv
  /\ OccupancyOwned
  /\ \A q \in Requests : Informed(q)

\* The slots of a session's rows are the slots the session takes.
LEMMA RowsInSlots ==
  ASSUME NEW first \in LessonSlots, NEW duration \in Durations,
         NEW slot \in Consecutive(first, duration)
  PROVE  \E k \in 0..(duration - 1) : slot = <<first[1], first[2] + k>>
<1>1. /\ slot[1] = first[1] /\ slot[2] >= first[2] /\ slot[2] < first[2] + duration
      /\ slot = <<slot[1], slot[2]>> /\ slot[2] \in Nat /\ first[2] \in Nat
      /\ duration \in Nat
  BY SlotsAssumption DEF Consecutive, Durations
<1>2. slot[2] - first[2] \in 0..(duration - 1) /\ first[2] + (slot[2] - first[2]) = slot[2]
  BY <1>1
<1> QED
  BY <1>1, <1>2

\* A request that is not busy knows nothing that could be wrong.
LEMMA IdleIsInformed ==
  ASSUME NEW q \in Requests, req'[q] = Idle
  PROVE  Informed(q)'
BY DEF Informed, Idle

\* What the request knows stays true while the tables stay as they are.
LEMMA SameTablesInformed ==
  ASSUME UNCHANGED <<scheduled, occupancy, errors>>, NEW q \in Requests, Informed(q),
         req'[q] = req[q]
  PROVE  Informed(q)'
<1>1. /\ \A s : RowsOf(s)' = RowsOf(s)
      /\ \A rows : Free(rows)' <=> Free(rows)
  BY DEF RowsOf, Free, Collide
<1> QED
  BY <1>1 DEF Informed, fits, Consecutive, Occupancies

LEMMA ScheduleAlone ==
  ASSUME AloneInv, NEW q \in Requests, NEW slot \in LessonSlots, ScheduleSession(q, slot)
  PROVE  OccupancyOwned' /\ Informed(q)'
<1> DEFINE ask == req[q].ask
           new == Occupancies(ask, slot)
           booking == [teacher |-> ask.teacher, subject |-> ask.subject,
                       first |-> slot, duration |-> ask.duration]
<1>1. req[q] \in Searching
  BY DEF AloneInv, IndInv, RequestsHold, ScheduleSession, AtCandidate, Idle, Removing
<1>2. ask \in Asks /\ ask.session \in Sessions /\ ask.duration \in Durations
  BY <1>1 DEF Searching, Asks
<1>3. /\ occupancy' = occupancy \cup new
      /\ scheduled' = [scheduled EXCEPT ![ask.session] = booking]
      /\ scheduled[ask.session] = None
      /\ scheduled \in [Sessions -> Booking \cup {None}]
      /\ occupancy \subseteq Occupancy
  BY DEF AloneInv, IndInv, Tables, ScheduleSession, Ask
<1>4. ASSUME NEW row \in occupancy
      PROVE  scheduled'[row.session] # None /\ row.slot \in SlotsOf(row.session)'
  <2>1. /\ scheduled[row.session] # None /\ row.slot \in SlotsOf(row.session)
        /\ row.session \in Sessions
    BY <1>3 DEF AloneInv, OccupancyOwned, Occupancy
  <2>2. scheduled'[row.session] = scheduled[row.session]
    BY <1>3, <2>1
  <2> QED
    BY <2>1, <2>2 DEF SlotsOf
<1>5. ASSUME NEW row \in new
      PROVE  scheduled'[row.session] # None /\ row.slot \in SlotsOf(row.session)'
  <2>1. row.session = ask.session /\ row.slot \in Consecutive(slot, ask.duration)
    BY DEF Occupancies
  <2>2. PICK k \in 0..(ask.duration - 1) : row.slot = <<slot[1], slot[2] + k>>
    BY <1>2, <2>1, RowsInSlots
  <2>3. scheduled'[row.session] = booking
    BY <1>2, <1>3, <2>1
  <2>4. booking # None
    BY <1>2, NoneAssumption DEF Booking, Asks
  <2> QED
    BY <2>2, <2>3, <2>4 DEF SlotsOf
<1>6. OccupancyOwned'
  BY <1>3, <1>4, <1>5 DEF OccupancyOwned
<1>7. req'[q].pc = "fetch" /\ req'[q].ask = ask
  BY <1>1 DEF ScheduleSession, AloneInv, IndInv, RequestsHold, Searching
<1>8. scheduled'[ask.session] = booking /\ booking # None
  BY <1>2, <1>3, NoneAssumption DEF Booking, Asks
<1> QED
  BY <1>6, <1>7, <1>8 DEF Informed

\* The row that a request has committed is there when it is read again: only a
\* failing statement sends the request on to the next candidate.
LEMMA FetchAlone ==
  ASSUME AloneInv, NEW q \in Requests, FetchSession(q)
  PROVE  Informed(q)'
<1>1. /\ req[q] \in Searching /\ req[q].pc = "fetch"
      /\ scheduled[req[q].ask.session] # None
  BY DEF AloneInv, IndInv, RequestsHold, FetchSession, Idle, Removing, Informed
<1>2. CASE Answer(q)
  <2>1. req'[q] = Idle
    BY <1>2 DEF Answer, AloneInv, IndInv, RequestsHold
  <2> QED
    BY <2>1, IdleIsInformed
<1>3. CASE errors' = errors + 1 /\ req' = [req EXCEPT ![q].pc = "schedule"]
  <2>1. req'[q].pc = "schedule"
    BY <1>1, <1>3 DEF AloneInv, IndInv, RequestsHold, Searching
  <2>2. errors' # 0
    BY <1>3, SlotsAssumption DEF AloneInv, IndInv, Tables
  <2> QED
    BY <2>1, <2>2 DEF Informed
<1> QED
  BY <1>1, <1>2, <1>3 DEF FetchSession, Ask

LEMMA ScheduleFailsAlone ==
  ASSUME AloneInv, NEW q \in Requests, NEW slot \in LessonSlots, ScheduleFails(q, slot)
  PROVE  Informed(q)'
<1> DEFINE ask == req[q].ask
<1>1. req[q] \in Searching /\ req[q].pc = "schedule" /\ Informed(q)
  BY DEF AloneInv, IndInv, RequestsHold, ScheduleFails, AtCandidate, Idle, Removing
<1>2. /\ req'[q].pc = "schedule" /\ req'[q].ask = ask
      /\ req'[q].blocked = req[q].blocked /\ req'[q].placed = req[q].placed
      /\ req'[q].left = req[q].left \ {slot}
  BY <1>1 DEF ScheduleFails, NextCandidate, AloneInv, IndInv, RequestsHold, Searching
<1>3. UNCHANGED <<scheduled, occupancy>>
  BY DEF ScheduleFails
<1>4. CASE errors' # 0
  BY <1>2, <1>4 DEF Informed
<1>5. CASE errors' = errors /\ (scheduled[Ask(q).session] # None \/ Refused(Occupancies(Ask(q), slot)))
  <2>1. scheduled[ask.session] = None => ~Free(Occupancies(ask, slot))
    BY <1>5 DEF Ask, Refused, Free
  <2>2. \A rows : Free(rows)' <=> Free(rows)
    BY <1>3 DEF Free, Collide
  <2>4. errors = 0 /\ scheduled[ask.session] = None =>
          \A c \in LessonSlots \ (req[q].left \ {slot}) :
            fits(c, ask.duration, req[q].blocked) => ~Free(Occupancies(ask, c))
    BY <1>1, <2>1 DEF Informed
  <2> QED
    BY <1>1, <1>2, <1>3, <1>5, <2>2, <2>4
    DEF Informed, fits, Consecutive, Occupancies
<1>6. errors < MaxErrors /\ errors' = errors + 1 => errors' # 0
  BY SlotsAssumption DEF AloneInv, IndInv, Tables
<1> QED
  BY <1>4, <1>5, <1>6 DEF ScheduleFails

LEMMA UnscheduleAlone ==
  ASSUME AloneInv, NEW q \in Requests, UnscheduleSession(q)
  PROVE  OccupancyOwned' /\ Informed(q)'
<1>1. /\ req[q] \in Removing /\ req[q].pc = "unschedule" /\ Informed(q)
  BY DEF AloneInv, IndInv, RequestsHold, UnscheduleSession, Idle, Searching
<1>2. /\ req[q].session \in Sessions /\ req[q].rows = RowsOf(req[q].session)
      /\ scheduled \in [Sessions -> Booking \cup {None}] /\ occupancy \subseteq Occupancy
  BY <1>1 DEF Removing, Informed, AloneInv, IndInv, Tables
<1>3. /\ scheduled' = [scheduled EXCEPT ![req[q].session] = None]
      /\ occupancy' = occupancy \ RowsOf(req[q].session)
      /\ req'[q] = Idle
  BY <1>2 DEF UnscheduleSession, Answer, AloneInv, IndInv, RequestsHold
<1>4. ASSUME NEW row \in occupancy'
      PROVE  scheduled'[row.session] # None /\ row.slot \in SlotsOf(row.session)'
  <2>1. row \in occupancy /\ row.session # req[q].session
    BY <1>3 DEF RowsOf
  <2>2. scheduled'[row.session] = scheduled[row.session]
    BY <1>2, <1>3, <2>1 DEF Occupancy
  <2> QED
    BY <2>1, <2>2 DEF AloneInv, OccupancyOwned, SlotsOf
<1> QED
  BY <1>3, <1>4, IdleIsInformed DEF OccupancyOwned

\* A step that leaves the bookings and the rows alone.
LEMMA OwnedStays ==
  ASSUME AloneInv, UNCHANGED <<scheduled, occupancy>>
  PROVE  OccupancyOwned'
BY DEF AloneInv, OccupancyOwned, SlotsOf

LEMMA AloneStep == AloneInv /\ [Next]_vars => AloneInv'
<1> SUFFICES ASSUME AloneInv, [Next]_vars
             PROVE  AloneInv'
  OBVIOUS
<1>1. IndInv' /\ OneAtATime'
  BY Step DEF AloneInv, OneAtATime
<1>2. \A p \in Requests, q \in Requests : p = q
  BY DEF AloneInv, OneAtATime
<1>3. req \in [Requests -> {Idle} \cup Searching \cup Removing]
  BY DEF AloneInv, IndInv, RequestsHold
<1>4. ASSUME NEW q \in Requests, NEW ask \in Asked, Schedule(q, ask)
      PROVE  OccupancyOwned' /\ Informed(q)'
  <2> DEFINE r == [pc |-> "schedule", ask |-> ask, placed |-> FALSE,
                   blocked |-> unavailable[ask.teacher],
                   left |-> {slot \in LessonSlots :
                               fits(slot, ask.duration, unavailable[ask.teacher])}]
  <2>1. req'[q] = r /\ UNCHANGED <<scheduled, occupancy>>
    BY <1>3, <1>4 DEF Schedule
  <2>2. \A slot \in LessonSlots \ r.left : ~fits(slot, r.ask.duration, r.blocked)
    OBVIOUS
  <2>3. r.pc = "schedule" /\ ~r.placed
    OBVIOUS
  <2> HIDE DEF r
  <2> QED
    BY <1>4, <2>1, <2>2, <2>3, OwnedStays DEF Informed, fits, Consecutive
<1>5. ASSUME NEW q \in Requests, NEW slot \in LessonSlots,
             ScheduleSession(q, slot) \/ ScheduleFails(q, slot)
      PROVE  OccupancyOwned' /\ Informed(q)'
  BY <1>5, ScheduleAlone, ScheduleFailsAlone, OwnedStays DEF ScheduleFails
<1>6. ASSUME NEW q \in Requests, NoValidSlot(q) \/ Fail(q)
      PROVE  OccupancyOwned' /\ Informed(q)'
  <2>1. req'[q] = Idle /\ UNCHANGED <<scheduled, occupancy>>
    BY <1>3, <1>6 DEF NoValidSlot, Fail, Answer
  <2> QED
    BY <2>1, OwnedStays, IdleIsInformed
<1>7. ASSUME NEW q \in Requests, NEW s \in Sessions, Unschedule(q, s)
      PROVE  OccupancyOwned' /\ Informed(q)'
  <2>1. /\ req'[q] = [pc |-> "unschedule", session |-> s, rows |-> RowsOf(s)]
        /\ UNCHANGED <<scheduled, occupancy>>
    BY <1>3, <1>7 DEF Unschedule
  <2>2. RowsOf(s)' = RowsOf(s)
    BY <2>1 DEF RowsOf
  <2> QED
    BY <2>1, <2>2, OwnedStays DEF Informed
<1>8. ASSUME NEW q \in Requests, UnscheduleSession(q)
      PROVE  OccupancyOwned' /\ Informed(q)'
  BY <1>8, UnscheduleAlone
<1>9. ASSUME NEW q \in Requests, FetchSession(q)
      PROVE  OccupancyOwned' /\ Informed(q)'
  BY <1>9, FetchAlone, OwnedStays DEF FetchSession
<1>10. ASSUME \/ \E t \in Teachers : SetAvailability(t)
              \/ MarkResolved
              \/ UNCHANGED vars
       PROVE  OccupancyOwned' /\ \A q \in Requests : Informed(q)'
  <2>1. UNCHANGED <<scheduled, occupancy, errors, req>>
    BY <1>10 DEF SetAvailability, MarkResolved, vars
  <2> QED
    BY <2>1, OwnedStays, SameTablesInformed DEF AloneInv
<1>11. OccupancyOwned' /\ \A q \in Requests : Informed(q)'
  BY <1>2, <1>4, <1>5, <1>6, <1>7, <1>8, <1>9, <1>10 DEF Next
<1> QED
  BY <1>1, <1>11 DEF AloneInv

LEMMA InvarianceAlone == OneAtATime /\ Spec => []AloneInv
<1>1. OneAtATime /\ Init => AloneInv
  BY InitialStates DEF AloneInv, OccupancyOwned, Informed, Idle, Init
<1> QED
  BY <1>1, AloneStep, PTL DEF Spec

(***************************************************************************)
(* When requests come one at a time, every occupancy row belongs to a      *)
(* session that uses its slot, also after statements that failed: nothing  *)
(* stays blocked (ScheduleSession, UnscheduleSession).                     *)
(***************************************************************************)
THEOREM NothingStaysBlocked == OneAtATime /\ Spec => []OccupancyOwned
<1>1. AloneInv => OccupancyOwned
  BY DEF AloneInv
<1> QED
  BY <1>1, InvarianceAlone, PTL

(***************************************************************************)
(* When requests come one at a time and no statement has failed, "no valid *)
(* slot" is answered only when there is none (Schedule).                   *)
(***************************************************************************)
THEOREM NoValidSlotAnswered == OneAtATime /\ Spec => NoValidSlotIsTrue
<1> DEFINE Justified == \A q \in Requests : NoValidSlot(q) /\ errors = 0 =>
       /\ ~req[q].placed
       /\ scheduled[Ask(q).session] = None =>
            \A slot \in LessonSlots :
              fits(slot, Ask(q).duration, req[q].blocked)
                => ~Free(Occupancies(Ask(q), slot))
<1>1. AloneInv => Justified
  BY DEF AloneInv, Informed, NoValidSlot, Ask
<1> QED
  BY <1>1, InvarianceAlone, PTL DEF NoValidSlotIsTrue
=============================================================================
