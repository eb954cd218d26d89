---------------------------- MODULE BellPeriods -----------------------------
(***************************************************************************)
(* How the school day of a calendar version is cut into time slots: the    *)
(* checks of the input, and the loops over learning days, breaks and       *)
(* lessons that generate the slots.  Times are minutes of the day.         *)
(*                                                                         *)
(* The slots are kept per day of the week, in the order they are appended. *)
(* A set of positions with "the next one is the one that starts first"     *)
(* stands for the sorted list of breaks: starts of accepted breaks differ. *)
(***************************************************************************)
EXTENDS Integers, Sequences

CONSTANTS
  DayOfWeekFromString,  \* the day number of every known name of a day
  Inputs                \* the requests to build a calendar

DayNumbers == 0..6

Window == [start : Nat, end : Nat, kind : STRING]

ASSUME DaysAssumption ==
  \A name \in DOMAIN DayOfWeekFromString : DayOfWeekFromString[name] \in DayNumbers

ASSUME InputsAssumption ==
  \A in \in Inputs :
    /\ in.days \in Seq(STRING)
    /\ in.start \in Nat /\ in.end \in Nat /\ in.duration \in Int
    /\ in.breaks \in Seq([start : Nat, end : Nat, kind : STRING])

VARIABLES
  input,      \* the request
  pc,         \* "build", "day", "break", "segment", "built" or "rejected"
  todo,       \* positions of the learning days that are left
  day,        \* the day at hand
  breaks,     \* positions of the breaks that are left on this day
  current,    \* everything before is cut into slots
  segEnd,     \* the end of the teaching segment at hand
  slotIndex,
  slots       \* the time slots of every day

vars == <<input, pc, todo, day, breaks, current, segEnd, slotIndex, slots>>

SlotTypes == {"LESSON", "TRANSITION", "BREAK", "LUNCH", "ASSEMBLY", "NON_TEACHING"}

Slot == [start : Nat, end : Nat, index : Nat, type : SlotTypes]

Init ==
  /\ input \in Inputs
  /\ pc = "build"
  /\ todo = {} /\ day = 0 /\ breaks = {}
  /\ current = 0 /\ segEnd = 0 /\ slotIndex = 0
  /\ slots = [d \in DayNumbers |-> <<>>]

-----------------------------------------------------------------------------
(* The checks of the input.                                                *)

Break(b) == input.breaks[b]

\* Names that are no day of the week are dropped.
normalizeLearningDays ==
  {p \in 1..Len(input.days) : input.days[p] \in DOMAIN DayOfWeekFromString}

DayOf(p) == DayOfWeekFromString[input.days[p]]

\* MON and MONDAY are the same day.
hasDuplicateDays ==
  \E p \in normalizeLearningDays, q \in normalizeLearningDays :
    p # q /\ DayOf(p) = DayOf(q)

\* Every break is a range inside the day, and no two overlap.
validateBreakStructure ==
  \A b \in 1..Len(input.breaks) :
    /\ Break(b).start < Break(b).end
    /\ input.start <= Break(b).start /\ Break(b).end <= input.end
    /\ \A c \in 1..Len(input.breaks) \ {b} :
         Break(b).end <= Break(c).start \/ Break(c).end <= Break(b).start

acceptable ==
  /\ input.duration > 0
  /\ input.start < input.end
  /\ validateBreakStructure
  /\ normalizeLearningDays # {}
  /\ ~hasDuplicateDays

buildCalendarVersion ==
  /\ pc = "build"
  /\ \/ acceptable /\ pc' = "day" /\ todo' = normalizeLearningDays
     \/ ~acceptable /\ pc' = "rejected" /\ UNCHANGED todo
  /\ UNCHANGED <<input, day, breaks, current, segEnd, slotIndex, slots>>

-----------------------------------------------------------------------------
(* The loops of generateTimeSlots.                                         *)

NextDay ==
  /\ pc = "day"
  /\ \E p \in todo :
       /\ \A q \in todo : p <= q
       /\ todo' = todo \ {p}
       /\ day' = DayOf(p)
  /\ breaks' = 1..Len(input.breaks)
  /\ current' = input.start
  /\ slotIndex' = 0
  /\ pc' = "break"
  /\ UNCHANGED <<input, segEnd, slots>>

\* The break that the loop has come to.
AtBreak(b) ==
  /\ pc = "break"
  /\ b \in breaks
  /\ \A c \in breaks : Break(b).start <= Break(c).start

BeginSegment(end) ==
  /\ current < end
  /\ segEnd' = end
  /\ pc' = "segment"
  /\ UNCHANGED <<input, todo, day, breaks, current, slotIndex, slots>>

\* Teaching up to the next break, or to the end of the day.
TeachingSegment ==
  \/ \E b \in breaks : AtBreak(b) /\ BeginSegment(Break(b).start)
  \/ pc = "break" /\ breaks = {} /\ BeginSegment(input.end)

resolveBreakSlotType(b) ==
  IF Break(b).kind \in {"LUNCH", "ASSEMBLY", "NON_TEACHING"}
  THEN Break(b).kind
  ELSE "BREAK"

newSlot(start, end, type) ==
  [start |-> start, end |-> end, index |-> slotIndex, type |-> type]

appendSlot(slot) == slots' = [slots EXCEPT ![day] = Append(@, slot)]

\* A break that ends before the current time would be skipped.
Interruption(b) ==
  /\ AtBreak(b)
  /\ Break(b).start <= current
  /\ breaks' = breaks \ {b}
  /\ IF Break(b).end <= current
     THEN UNCHANGED <<slots, slotIndex, current>>
     ELSE /\ appendSlot(newSlot(Break(b).start, Break(b).end, resolveBreakSlotType(b)))
          /\ slotIndex' = slotIndex + 1
          /\ current' = Break(b).end
  /\ UNCHANGED <<input, pc, todo, day, segEnd>>

fullLesson == current + input.duration <= segEnd

LessonSlot ==
  /\ pc = "segment"
  /\ fullLesson
  /\ appendSlot(newSlot(current, current + input.duration, "LESSON"))
  /\ slotIndex' = slotIndex + 1
  /\ current' = current + input.duration
  /\ UNCHANGED <<input, pc, todo, day, breaks, segEnd>>

Mut_recount == slotIndex

\* The slots of the day, counted again: a transition did not advance slotIndex.
recount == Len(slots'[day])

\* What is left of the segment is a transition.
EndSegment ==
  /\ pc = "segment"
  /\ ~fullLesson
  /\ \/ current < segEnd /\ appendSlot(newSlot(current, segEnd, "TRANSITION"))
     \/ current >= segEnd /\ UNCHANGED slots
  /\ slotIndex' = recount
  /\ current' = segEnd
  /\ pc' = "break"
  /\ UNCHANGED <<input, todo, day, breaks, segEnd>>

Mut_EndDay ==
  /\ pc = "break"
  /\ breaks = {}
  /\ pc' = "day"
  /\ UNCHANGED <<input, todo, day, breaks, current, segEnd, slotIndex, slots>>

EndDay ==
  /\ pc = "break"
  /\ breaks = {}
  /\ current >= input.end
  /\ pc' = "day"
  /\ UNCHANGED <<input, todo, day, breaks, current, segEnd, slotIndex, slots>>

\* Is there a lesson, and is every lesson a whole one?
lessonsValid ==
  /\ \E d \in DayNumbers : \E k \in DOMAIN slots[d] : slots[d][k].type = "LESSON"
  /\ \A d \in DayNumbers : \A k \in DOMAIN slots[d] :
       slots[d][k].type = "LESSON"
         => slots[d][k].end - slots[d][k].start = input.duration

validateGeneratedLessonSlots ==
  /\ pc = "day"
  /\ todo = {}
  /\ pc' = IF lessonsValid THEN "built" ELSE "rejected"
  /\ UNCHANGED <<input, todo, day, breaks, current, segEnd, slotIndex, slots>>

Next ==
  \/ buildCalendarVersion
  \/ NextDay
  \/ TeachingSegment
  \/ \E b \in breaks : Interruption(b)
  \/ LessonSlot
  \/ EndSegment
  \/ EndDay
  \/ validateGeneratedLessonSlots

Spec == Init /\ [][Next]_vars

-----------------------------------------------------------------------------
\* The days that the request names.
LearningDays == {DayOf(p) : p \in normalizeLearningDays}

\* The state of the loops is well typed.
TypeOK ==
  /\ input \in Inputs
  /\ pc \in {"build", "day", "break", "segment", "built", "rejected"}
  /\ todo \subseteq normalizeLearningDays
  /\ day \in DayNumbers
  /\ breaks \subseteq 1..Len(input.breaks)
  /\ current \in Nat /\ segEnd \in Nat /\ slotIndex \in Nat
  /\ slots \in [DayNumbers -> Seq(Slot)]

\* The slots of a day follow each other from the start of the day, without gap
\* or overlap, and are numbered from zero: time_slot_no_overlap and
\* time_slot_unique_index never refuse a generated calendar (generateTimeSlots).
SlotsTile ==
  \A d \in DayNumbers : \A k \in 1..Len(slots[d]) :
    /\ slots[d][k].index = k - 1
    /\ slots[d][k].start = (IF k = 1 THEN input.start ELSE slots[d][k-1].end)
    /\ slots[d][k].start < slots[d][k].end
    /\ slots[d][k].end <= input.end

\* A lesson has the full duration and a transition is shorter than a lesson:
\* no lesson is shortened and no room for one is given away
\* (appendTeachingSegment; PARTIAL_TEACHING_PERIOD is never answered).
LessonsAreWhole ==
  \A d \in DayNumbers : \A k \in 1..Len(slots[d]) :
    LET length == slots[d][k].end - slots[d][k].start
    IN  /\ slots[d][k].type = "LESSON" => length = input.duration
        /\ slots[d][k].type = "TRANSITION" => length < input.duration

\* A calendar that is accepted covers every learning day to its end and keeps
\* every break of the request on every learning day (generateTimeSlots).
BreaksKept ==
  pc = "built" =>
    \A d \in LearningDays :
      /\ slots[d] # <<>>
      /\ slots[d][Len(slots[d])].end = input.end
      /\ \A b \in 1..Len(input.breaks) : \E k \in 1..Len(slots[d]) :
           /\ slots[d][k].start = Break(b).start
           /\ slots[d][k].end = Break(b).end
           /\ slots[d][k].type = resolveBreakSlotType(b)
=============================================================================
