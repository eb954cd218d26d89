------------------------- MODULE BellPeriodsProofs --------------------------
(***************************************************************************)
(* Proofs about BellPeriods, for every request: any day, any duration, any *)
(* number of breaks and any names of learning days.                        *)
(*                                                                         *)
(* The loops keep three facts.  The slots of the day at hand end at        *)
(* current and slotIndex counts them (AtDay); the breaks that are left     *)
(* start at current or later, the others are slots (AtDay); and a day is   *)
(* untouched while it is to do and complete once it is done (Progress).    *)
(***************************************************************************)
EXTENDS BellPeriods, TLAPS

EndOf(d) == IF slots[d] = <<>> THEN input.start ELSE slots[d][Len(slots[d])].end

Kept(d, b) ==
  \E k \in 1..Len(slots[d]) :
    /\ slots[d][k].start = Break(b).start
    /\ slots[d][k].end = Break(b).end
    /\ slots[d][k].type = resolveBreakSlotType(b)

Complete(d) ==
  /\ slots[d] # <<>>
  /\ slots[d][Len(slots[d])].end = input.end
  /\ \A b \in 1..Len(input.breaks) : Kept(d, b)

Working == pc \in {"break", "segment"}

AtDay ==
  Working =>
    /\ input.start <= current /\ current <= input.end
    /\ EndOf(day) = current
    /\ slotIndex = Len(slots[day])
    /\ \A b \in breaks : current <= Break(b).start
    /\ \A b \in (1..Len(input.breaks)) \ breaks : Kept(day, b)

AtSegment ==
  pc = "segment" =>
    /\ current <= segEnd /\ segEnd <= input.end
    /\ \A b \in breaks : segEnd <= Break(b).start

Progress ==
  /\ pc \notin {"build", "rejected"} => acceptable
  /\ pc = "build" => slots = [d \in DayNumbers |-> <<>>]
  /\ pc = "built" => todo = {}
  /\ \A p \in todo : slots[DayOf(p)] = <<>> /\ (Working => DayOf(p) # day)
  /\ pc \in {"day", "break", "segment", "built"} =>
       \A p \in normalizeLearningDays \ todo :
         (Working /\ DayOf(p) = day) \/ Complete(DayOf(p))

IndInv == TypeOK /\ SlotsTile /\ LessonsAreWhole /\ AtDay /\ AtSegment /\ Progress

-----------------------------------------------------------------------------
\* The parts of an accepted request.
LEMMA InputTypes ==
  ASSUME TypeOK
  PROVE  /\ input.start \in Nat /\ input.end \in Nat /\ input.duration \in Int
         /\ Len(input.breaks) \in Nat
         /\ \A b \in 1..Len(input.breaks) :
              Break(b).start \in Nat /\ Break(b).end \in Nat
         /\ \A p \in normalizeLearningDays : DayOf(p) \in DayNumbers
<1>1. /\ input.start \in Nat /\ input.end \in Nat /\ input.duration \in Int
      /\ input.breaks \in Seq([start : Nat, end : Nat, kind : STRING])
  BY InputsAssumption DEF TypeOK
<1>2. /\ Len(input.breaks) \in Nat
      /\ \A b \in 1..Len(input.breaks) :
           input.breaks[b].start \in Nat /\ input.breaks[b].end \in Nat
  <2>1. PICK W : W = [start : Nat, end : Nat, kind : STRING]
    OBVIOUS
  <2>2. input.breaks \in Seq(W)
    BY <1>1, <2>1
  <2>3. PICK bs \in Seq(W) : bs = input.breaks
    BY <2>2
  <2>4. Len(bs) \in Nat /\ \A b \in 1..Len(bs) : bs[b] \in W
    BY <2>3
  <2> QED
    BY <2>1, <2>3, <2>4
<1>3. \A p \in normalizeLearningDays : DayOf(p) \in DayNumbers
  BY DaysAssumption DEF normalizeLearningDays, DayOf
<1> QED
  BY <1>1, <1>2, <1>3 DEF Break

\* No two learning days of an accepted request are the same day.
LEMMA DaysDiffer ==
  ASSUME acceptable, NEW p \in normalizeLearningDays, NEW q \in normalizeLearningDays,
         p # q
  PROVE  DayOf(p) # DayOf(q)
BY DEF acceptable, hasDuplicateDays

(***************************************************************************)
(* Appending a slot that starts where the day at hand ends.                *)
(***************************************************************************)
LEMMA AppendKeepsTiles ==
  ASSUME TypeOK, SlotsTile, LessonsAreWhole, NEW slot \in Slot, appendSlot(slot),
         UNCHANGED input, input.start \in Nat, input.end \in Nat, input.duration \in Int,
         slot.index = Len(slots[day]), slot.start = EndOf(day),
         slot.start < slot.end, slot.end <= input.end,
         slot.type = "LESSON" => slot.end - slot.start = input.duration,
         slot.type = "TRANSITION" => slot.end - slot.start < input.duration
  PROVE  /\ slots' \in [DayNumbers -> Seq(Slot)]
         /\ SlotsTile'
         /\ LessonsAreWhole'
         /\ slots'[day] # <<>>
         /\ Len(slots'[day]) = Len(slots[day]) + 1
         /\ slots'[day][Len(slots'[day])] = slot
         /\ \A k \in 1..Len(slots[day]) : slots'[day][k] = slots[day][k]
         /\ \A d \in DayNumbers \ {day} : slots'[d] = slots[d]
<1> DEFINE old == slots[day]
<1>1. day \in DayNumbers /\ old \in Seq(Slot) /\ slots \in [DayNumbers -> Seq(Slot)]
  BY DEF TypeOK
<1>2. /\ slots'[day] = Append(old, slot)
      /\ slots' \in [DayNumbers -> Seq(Slot)]
      /\ \A d \in DayNumbers \ {day} : slots'[d] = slots[d]
  BY <1>1 DEF appendSlot
<1>3. /\ Len(slots'[day]) = Len(old) + 1
      /\ slots'[day][Len(old) + 1] = slot
      /\ \A k \in 1..Len(old) : slots'[day][k] = old[k]
      /\ Len(old) \in Nat
  BY <1>1, <1>2
<1>4. slots'[day] # <<>>
  BY <1>2, <1>3
<1>5. old = <<>> <=> Len(old) = 0
  BY <1>1
<1>6. SlotsTile'
  <2> SUFFICES ASSUME NEW d \in DayNumbers, NEW k \in 1..Len(slots'[d])
               PROVE  /\ slots'[d][k].index = k - 1
                      /\ slots'[d][k].start =
                           (IF k = 1 THEN input.start ELSE slots'[d][k-1].end)
                      /\ slots'[d][k].start < slots'[d][k].end
                      /\ slots'[d][k].end <= input.end
    BY DEF SlotsTile
  <2>1. CASE d # day
    BY <1>2, <2>1 DEF SlotsTile
  <2>2. CASE d = day /\ k \in 1..Len(old)
    <3>1. slots'[d][k] = old[k] /\ (k # 1 => slots'[d][k-1] = old[k-1])
      BY SMTT(30), <1>3, <2>2
    <3> QED
      BY <1>1, <2>2, <3>1 DEF SlotsTile
  <2>3. CASE d = day /\ k = Len(old) + 1
    <3>1. slots'[d][k] = slot
      BY <1>3, <2>3
    <3>2. k # 1 => slots'[d][k-1] = old[Len(old)] /\ old # <<>>
      BY <1>3, <1>5, <2>3
    <3>3. k = 1 => old = <<>>
      BY <1>3, <1>5, <2>3
    <3> QED
      BY <1>3, <2>3, <3>1, <3>2, <3>3 DEF EndOf
  <2> QED
    BY <1>3, <2>1, <2>2, <2>3
<1>7. LessonsAreWhole'
  <2> SUFFICES ASSUME NEW d \in DayNumbers, NEW k \in 1..Len(slots'[d])
               PROVE  /\ slots'[d][k].type = "LESSON"
                           => slots'[d][k].end - slots'[d][k].start = input.duration
                      /\ slots'[d][k].type = "TRANSITION"
                           => slots'[d][k].end - slots'[d][k].start < input.duration
    BY DEF LessonsAreWhole
  <2>1. CASE d # day
    BY <1>2, <2>1 DEF LessonsAreWhole
  <2>2. CASE d = day /\ k \in 1..Len(old)
    BY <1>1, <1>3, <2>2 DEF LessonsAreWhole
  <2>3. CASE d = day /\ k = Len(old) + 1
    BY <1>3, <2>3
  <2> QED
    BY <1>3, <2>1, <2>2, <2>3
<1> QED
  BY <1>2, <1>3, <1>4, <1>6, <1>7

\* Appending a slot takes nothing away from any day.
LEMMA KeptIsKept ==
  ASSUME TypeOK, UNCHANGED input, NEW d \in DayNumbers,
         Len(slots[d]) <= Len(slots'[d]), Len(slots'[d]) \in Nat,
         \A k \in 1..Len(slots[d]) : slots'[d][k] = slots[d][k],
         NEW b, Kept(d, b)
  PROVE  Kept(d, b)'
<1>1. Len(slots[d]) \in Nat
  BY DEF TypeOK
<1>2. PICK k \in 1..Len(slots[d]) :
        /\ slots[d][k].start = Break(b).start
        /\ slots[d][k].end = Break(b).end
        /\ slots[d][k].type = resolveBreakSlotType(b)
  BY DEF Kept
<1>3. k \in 1..Len(slots'[d])
  BY <1>1
<1>4. Break(b)' = Break(b) /\ resolveBreakSlotType(b)' = resolveBreakSlotType(b)
  BY DEF Break, resolveBreakSlotType
<1> QED
  BY <1>2, <1>3, <1>4 DEF Kept, Break, resolveBreakSlotType

LEMMA CompleteStays ==
  ASSUME UNCHANGED input, NEW d, slots'[d] = slots[d], Complete(d)
  PROVE  Complete(d)'
BY DEF Complete, Kept, Break, resolveBreakSlotType

\* A step that leaves the slots and the request alone.
LEMMA SameSlots ==
  ASSUME UNCHANGED <<input, slots>>
  PROVE  /\ SlotsTile' = SlotsTile
         /\ LessonsAreWhole' = LessonsAreWhole
         /\ acceptable' = acceptable
         /\ normalizeLearningDays' = normalizeLearningDays
         /\ \A p : DayOf(p)' = DayOf(p)
         /\ \A d : Complete(d)' = Complete(d)
         /\ \A d : EndOf(d)' = EndOf(d)
         /\ \A d, b : Kept(d, b)' = Kept(d, b)
         /\ \A b : Break(b)' = Break(b)
BY DEF SlotsTile, LessonsAreWhole, acceptable, normalizeLearningDays, DayOf, Complete,
       EndOf, Kept, Break, resolveBreakSlotType, validateBreakStructure, hasDuplicateDays

-----------------------------------------------------------------------------
(***************************************************************************)
(* The steps that append a slot to the day at hand: what they have in      *)
(* common.                                                                 *)
(***************************************************************************)
LEMMA AppendStep ==
  ASSUME IndInv, NEW slot \in Slot, Working, appendSlot(slot),
         UNCHANGED <<input, todo, day>>, TypeOK', Working',
         slot.index = Len(slots[day]), slot.start = current,
         slot.start < slot.end, slot.end <= input.end,
         slot.type = "LESSON" => slot.end - slot.start = input.duration,
         slot.type = "TRANSITION" => slot.end - slot.start < input.duration
  PROVE  /\ SlotsTile' /\ LessonsAreWhole' /\ Progress'
         /\ EndOf(day)' = slot.end
         /\ Len(slots'[day]) = Len(slots[day]) + 1
         /\ slots'[day][Len(slots'[day])] = slot
         /\ \A b : Kept(day, b) => Kept(day, b)'
<1> USE DEF IndInv
<1>1. /\ input.start \in Nat /\ input.end \in Nat /\ input.duration \in Int
      /\ \A p \in normalizeLearningDays : DayOf(p) \in DayNumbers
  BY InputTypes
<1>2. slot.start = EndOf(day)
  BY DEF AtDay
<1>3. /\ SlotsTile' /\ LessonsAreWhole'
      /\ slots'[day] # <<>>
      /\ Len(slots'[day]) = Len(slots[day]) + 1
      /\ slots'[day][Len(slots'[day])] = slot
      /\ \A k \in 1..Len(slots[day]) : slots'[day][k] = slots[day][k]
      /\ \A d \in DayNumbers \ {day} : slots'[d] = slots[d]
  BY <1>1, <1>2, AppendKeepsTiles
<1>4. EndOf(day)' = slot.end
  BY <1>3 DEF EndOf
<1>5. day \in DayNumbers /\ Len(slots[day]) \in Nat /\ Len(slots'[day]) \in Nat
      /\ Len(slots[day]) <= Len(slots'[day])
  BY <1>3 DEF TypeOK
<1>6. \A b : Kept(day, b) => Kept(day, b)'
  BY <1>3, <1>5, KeptIsKept
<1>7. Progress'
  <2>1. /\ normalizeLearningDays' = normalizeLearningDays
        /\ acceptable' = acceptable
        /\ \A p : DayOf(p)' = DayOf(p)
    BY DEF normalizeLearningDays, acceptable, DayOf, validateBreakStructure, Break,
           hasDuplicateDays
  <2>2. acceptable /\ acceptable'
    BY <2>1 DEF Progress, Working
  <2>3. todo \subseteq normalizeLearningDays
    BY DEF TypeOK
  <2>4. \A p \in todo : slots'[DayOf(p)] = <<>> /\ DayOf(p) # day
    BY <1>1, <1>3, <2>3 DEF Progress
  <2>5. ASSUME NEW p \in normalizeLearningDays \ todo, DayOf(p) # day
        PROVE  Complete(DayOf(p))'
    <3>1. DayOf(p) \in DayNumbers \ {day} /\ Complete(DayOf(p))
      BY <1>1, <2>5 DEF Progress, Working
    <3>2. PICK d \in DayNumbers \ {day} : d = DayOf(p)
      BY <3>1
    <3>3. Complete(d)'
      BY <1>3, <3>1, <3>2, CompleteStays
    <3> QED
      BY <2>1, <3>2, <3>3 DEF Complete, Kept
  <2> QED
    BY <2>1, <2>2, <2>4, <2>5 DEF Progress, Working
<1> QED
  BY <1>3, <1>4, <1>6, <1>7
-----------------------------------------------------------------------------
LEMMA InterruptionStep ==
  ASSUME IndInv, NEW b \in breaks, Interruption(b)
  PROVE  IndInv'
<1> USE DEF IndInv
<1> DEFINE slot == newSlot(Break(b).start, Break(b).end, resolveBreakSlotType(b))
<1>1. /\ b \in 1..Len(input.breaks)
      /\ Break(b).start \in Nat /\ Break(b).end \in Nat
      /\ input.start \in Nat /\ input.end \in Nat
      /\ \A c \in 1..Len(input.breaks) : Break(c).start \in Nat /\ Break(c).end \in Nat
  BY InputTypes DEF TypeOK
<1>2. pc = "break" /\ Working /\ acceptable
  BY DEF Interruption, AtBreak, Working, Progress
<1>3. /\ Break(b).start = current
      /\ Break(b).start < Break(b).end
      /\ Break(b).end <= input.end
  <2>1. current \in Nat /\ current <= Break(b).start /\ Break(b).start <= current
    BY <1>2 DEF TypeOK, AtDay, Interruption
  <2> QED
    BY <1>1, <1>2, <2>1 DEF acceptable, validateBreakStructure
<1>4. /\ appendSlot(slot)
      /\ slotIndex' = slotIndex + 1
      /\ current' = Break(b).end
      /\ breaks' = breaks \ {b}
      /\ UNCHANGED <<input, pc, todo, day, segEnd>>
  BY <1>1, <1>3 DEF Interruption, TypeOK
<1>5. /\ slot \in Slot
      /\ slot.index = Len(slots[day])
      /\ slot.start = Break(b).start
      /\ slot.end = Break(b).end
      /\ slot.type = resolveBreakSlotType(b)
      /\ slot.type \notin {"LESSON", "TRANSITION"}
  <2>1. slotIndex \in Nat /\ slotIndex = Len(slots[day])
    BY <1>2 DEF TypeOK, AtDay
  <2>2. resolveBreakSlotType(b) \in SlotTypes \ {"LESSON", "TRANSITION"}
    BY DEF resolveBreakSlotType, SlotTypes
  <2> QED
    BY <1>1, <2>1, <2>2 DEF newSlot, Slot
<1>6. TypeOK'
  <2>1. slots' \in [DayNumbers -> Seq(Slot)]
    BY <1>4, <1>5 DEF TypeOK, appendSlot
  <2> QED
    BY <1>1, <1>4, <2>1 DEF TypeOK, normalizeLearningDays
<1>7. /\ SlotsTile' /\ LessonsAreWhole' /\ Progress'
      /\ EndOf(day)' = slot.end
      /\ Len(slots'[day]) = Len(slots[day]) + 1
      /\ slots'[day][Len(slots'[day])] = slot
      /\ \A c : Kept(day, c) => Kept(day, c)'
  <2>1. Working'
    BY <1>2, <1>4 DEF Working
  <2> HIDE DEF slot
  <2> QED
    BY <1>2, <1>3, <1>4, <1>5, <1>6, <2>1, AppendStep
<1>8. AtDay'
  <2>1. \A c : Break(c)' = Break(c) /\ resolveBreakSlotType(c)' = resolveBreakSlotType(c)
    BY <1>4 DEF Break, resolveBreakSlotType
  <2>2. Kept(day, b)'
    <3>1. Len(slots'[day]) \in 1..Len(slots'[day])
      BY <1>7 DEF TypeOK
    <3> QED
      BY <1>4, <1>5, <1>7, <2>1, <3>1 DEF Kept
  <2>3. \A c \in breaks' : current' <= Break(c)'.start
    <3> SUFFICES ASSUME NEW c \in breaks \ {b}
                 PROVE  Break(b).end <= Break(c).start
      BY <1>4, <2>1
    <3>1. c \in 1..Len(input.breaks) /\ Break(b).start <= Break(c).start
      BY DEF TypeOK, Interruption, AtBreak
    <3>2. Break(b).end <= Break(c).start \/ Break(c).end <= Break(b).start
      BY <1>1, <1>2, <3>1 DEF acceptable, validateBreakStructure
    <3>3. Break(c).start < Break(c).end
      BY <1>2, <3>1 DEF acceptable, validateBreakStructure
    <3> QED
      BY <1>1, <3>1, <3>2, <3>3
  <2>4. \A c \in (1..Len(input.breaks)) \ breaks' : Kept(day, c)'
    BY <1>2, <1>4, <1>7, <2>2 DEF AtDay
  <2>5. slotIndex' = Len(slots'[day])
    BY <1>2, <1>4, <1>7 DEF AtDay
  <2>6. input.start <= current' /\ current' <= input.end
    BY <1>1, <1>2, <1>3, <1>4 DEF AtDay
  <2>7. EndOf(day)' = current'
    BY <1>4, <1>5, <1>7
  <2>8. day' = day /\ input' = input
    BY <1>4
  <2> QED
    BY <2>1, <2>3, <2>4, <2>5, <2>6, <2>7, <2>8 DEF AtDay, Kept, EndOf
<1>9. AtSegment'
  BY <1>2, <1>4 DEF AtSegment
<1> QED
  BY <1>6, <1>7, <1>8, <1>9

LEMMA LessonSlotStep ==
  ASSUME IndInv, LessonSlot
  PROVE  IndInv'
<1> USE DEF IndInv
<1> DEFINE slot == newSlot(current, current + input.duration, "LESSON")
<1>1. /\ input.start \in Nat /\ input.end \in Nat /\ input.duration \in Int
      /\ \A c \in 1..Len(input.breaks) : Break(c).start \in Nat
  BY InputTypes
<1>2. pc = "segment" /\ Working /\ acceptable /\ input.duration > 0
  BY DEF LessonSlot, Working, Progress, acceptable
<1>3. /\ appendSlot(slot)
      /\ slotIndex' = slotIndex + 1
      /\ current' = current + input.duration
      /\ UNCHANGED <<input, pc, todo, day, breaks, segEnd>>
      /\ current + input.duration <= segEnd
  BY DEF LessonSlot, fullLesson
<1>4. /\ current \in Nat /\ segEnd \in Nat /\ slotIndex \in Nat
      /\ slotIndex = Len(slots[day])
      /\ segEnd <= input.end
      /\ input.start <= current
  BY <1>2 DEF TypeOK, AtDay, AtSegment
<1>5. /\ slot \in Slot
      /\ slot.index = Len(slots[day])
      /\ slot.start = current
      /\ slot.end = current + input.duration
      /\ slot.type = "LESSON"
      /\ slot.end - slot.start = input.duration
      /\ slot.start < slot.end
      /\ slot.end <= input.end
  BY <1>1, <1>2, <1>3, <1>4 DEF newSlot, Slot, SlotTypes
<1>6. TypeOK'
  <2>1. slots' \in [DayNumbers -> Seq(Slot)]
    BY <1>3, <1>5 DEF TypeOK, appendSlot
  <2> QED
    BY <1>1, <1>2, <1>3, <1>4, <2>1 DEF TypeOK, normalizeLearningDays
<1>7. /\ SlotsTile' /\ LessonsAreWhole' /\ Progress'
      /\ EndOf(day)' = slot.end
      /\ Len(slots'[day]) = Len(slots[day]) + 1
      /\ \A c : Kept(day, c) => Kept(day, c)'
  <2>1. Working'
    BY <1>2, <1>3 DEF Working
  <2> HIDE DEF slot
  <2> QED
    BY <1>2, <1>3, <1>5, <1>6, <2>1, AppendStep
<1>8. /\ \A b \in breaks : current' <= Break(b).start
      /\ current' <= segEnd
  <2>1. \A b \in breaks : b \in 1..Len(input.breaks) /\ segEnd <= Break(b).start
    BY <1>2 DEF AtSegment, TypeOK
  <2> QED
    BY <1>1, <1>3, <1>4, <2>1
<1>9. AtDay'
  <2>1. \A c : Break(c)' = Break(c) /\ resolveBreakSlotType(c)' = resolveBreakSlotType(c)
    BY <1>3 DEF Break, resolveBreakSlotType
  <2>2. \A c \in (1..Len(input.breaks)) \ breaks : Kept(day, c)'
    BY <1>2, <1>7 DEF AtDay
  <2>3. slotIndex' = Len(slots'[day]) /\ EndOf(day)' = current'
    BY <1>3, <1>4, <1>5, <1>7
  <2>4. input.start <= current' /\ current' <= input.end
    BY <1>1, <1>2, <1>3, <1>4
  <2> QED
    BY <1>3, <1>8, <2>1, <2>2, <2>3, <2>4 DEF AtDay, Kept, EndOf
<1>10. AtSegment'
  BY <1>2, <1>3, <1>4, <1>8 DEF AtSegment, Break
<1> QED
  BY <1>6, <1>7, <1>9, <1>10
LEMMA EndSegmentStep ==
  ASSUME IndInv, EndSegment
  PROVE  IndInv'
<1> USE DEF IndInv
<1> DEFINE slot == newSlot(current, segEnd, "TRANSITION")
<1>1. /\ input.start \in Nat /\ input.end \in Nat /\ input.duration \in Int
      /\ \A c \in 1..Len(input.breaks) : Break(c).start \in Nat
  BY InputTypes
<1>2. pc = "segment" /\ Working /\ Working'
  BY DEF EndSegment, Working
<1>3. /\ slotIndex' = Len(slots'[day])
      /\ current' = segEnd
      /\ pc' = "break"
      /\ UNCHANGED <<input, todo, day, breaks, segEnd>>
      /\ ~(current + input.duration <= segEnd)
  BY DEF EndSegment, recount, fullLesson
<1>4. /\ current \in Nat /\ segEnd \in Nat /\ slotIndex \in Nat
      /\ slotIndex = Len(slots[day])
      /\ current <= segEnd /\ segEnd <= input.end
      /\ input.start <= current
      /\ EndOf(day) = current
      /\ slots \in [DayNumbers -> Seq(Slot)] /\ day \in DayNumbers
  BY <1>2 DEF TypeOK, AtDay, AtSegment
<1>5. /\ TypeOK' /\ SlotsTile' /\ LessonsAreWhole' /\ Progress'
      /\ EndOf(day)' = segEnd
      /\ \A c : Kept(day, c) => Kept(day, c)'
  <2>1. CASE current < segEnd /\ appendSlot(slot)
    <3>1. /\ slot \in Slot
          /\ slot.index = Len(slots[day])
          /\ slot.start = current
          /\ slot.end = segEnd
          /\ slot.type = "TRANSITION"
          /\ slot.end - slot.start < input.duration
          /\ slot.start < slot.end
          /\ slot.end <= input.end
      BY <1>1, <1>3, <1>4, <2>1 DEF newSlot, Slot, SlotTypes
    <3>2. slots' \in [DayNumbers -> Seq(Slot)]
      BY <1>4, <2>1, <3>1 DEF appendSlot
    <3>3. TypeOK'
      BY <1>3, <1>4, <3>2 DEF TypeOK, normalizeLearningDays
    <3> HIDE DEF slot
    <3> QED
      BY <1>2, <1>3, <2>1, <3>1, <3>3, AppendStep
  <2>2. CASE current >= segEnd /\ UNCHANGED slots
    <3>1. current = segEnd
      BY <1>4, <2>2
    <3>2. TypeOK'
      BY <1>3, <1>4, <2>2 DEF TypeOK, normalizeLearningDays
    <3>3. /\ SlotsTile' = SlotsTile
          /\ LessonsAreWhole' = LessonsAreWhole
          /\ acceptable' = acceptable
          /\ normalizeLearningDays' = normalizeLearningDays
          /\ \A p : DayOf(p)' = DayOf(p)
          /\ \A d : Complete(d)' = Complete(d)
          /\ \A d : EndOf(d)' = EndOf(d)
          /\ \A d, b : Kept(d, b)' = Kept(d, b)
      BY <1>3, <2>2, SameSlots
    <3>4. Progress'
      <4>1. \A q : Complete(DayOf(q))' = Complete(DayOf(q))
        BY <1>3, <2>2 DEF Complete, Kept, Break, resolveBreakSlotType, DayOf
      <4> QED
        BY <1>2, <1>3, <2>2, <3>3, <4>1 DEF Progress
    <3> QED
      BY <1>3, <1>4, <3>1, <3>2, <3>3, <3>4
  <2> QED
    BY <2>1, <2>2 DEF EndSegment
<1>6. AtDay'
  <2>1. \A c : Break(c)' = Break(c) /\ resolveBreakSlotType(c)' = resolveBreakSlotType(c)
    BY <1>3 DEF Break, resolveBreakSlotType
  <2>2. \A c \in (1..Len(input.breaks)) \ breaks : Kept(day, c)'
    BY <1>2, <1>5 DEF AtDay
  <2>3. \A c \in breaks : segEnd <= Break(c).start
    BY <1>2 DEF AtSegment
  <2>4. input.start <= segEnd
    BY <1>1, <1>4
  <2> QED
    BY <1>3, <1>4, <1>5, <2>1, <2>2, <2>3, <2>4 DEF AtDay, Kept, EndOf
<1>7. AtSegment'
  BY <1>3 DEF AtSegment
<1> QED
  BY <1>5, <1>6, <1>7

(***************************************************************************)
(* The steps that append nothing.                                          *)
(***************************************************************************)
LEMMA BuildStep ==
  ASSUME IndInv, buildCalendarVersion
  PROVE  IndInv'
<1> USE DEF IndInv
<1>1. pc = "build" /\ UNCHANGED <<input, day, breaks, current, segEnd, slotIndex, slots>>
  BY DEF buildCalendarVersion
<1>2. /\ SlotsTile' = SlotsTile
      /\ LessonsAreWhole' = LessonsAreWhole
      /\ acceptable' = acceptable
      /\ normalizeLearningDays' = normalizeLearningDays
      /\ \A p : DayOf(p)' = DayOf(p)
  BY <1>1, SameSlots
<1>3. \/ acceptable /\ pc' = "day" /\ todo' = normalizeLearningDays
      \/ pc' = "rejected" /\ todo' = todo
  BY DEF buildCalendarVersion
<1>4. TypeOK'
  BY <1>1, <1>2, <1>3 DEF TypeOK
<1>5. \A p \in normalizeLearningDays : slots[DayOf(p)] = <<>>
  BY <1>1, InputTypes DEF Progress
<1>6. Progress'
  <2>1. todo' \subseteq normalizeLearningDays
    BY <1>2, <1>4 DEF TypeOK
  <2>2. pc' \in {"day", "rejected"} /\ ~Working'
    BY <1>3 DEF Working
  <2>3. pc' = "day" => acceptable /\ todo' = normalizeLearningDays
    BY <1>3
  <2>4. \A p \in todo' : slots'[DayOf(p)'] = <<>>
    BY <1>1, <1>2, <1>5, <2>1
  <2> QED
    BY <1>2, <2>2, <2>3, <2>4 DEF Progress
<1>7. AtDay' /\ AtSegment'
  BY <1>3 DEF AtDay, AtSegment, Working
<1> QED
  BY <1>2, <1>4, <1>6, <1>7

LEMMA NextDayStep ==
  ASSUME IndInv, NextDay
  PROVE  IndInv'
<1> USE DEF IndInv
<1>1. PICK p \in todo : todo' = todo \ {p} /\ day' = DayOf(p)
  BY DEF NextDay
<1>2. /\ pc = "day" /\ pc' = "break"
      /\ breaks' = 1..Len(input.breaks)
      /\ current' = input.start
      /\ slotIndex' = 0
      /\ UNCHANGED <<input, segEnd, slots>>
  BY DEF NextDay
<1>3. /\ SlotsTile' = SlotsTile
      /\ LessonsAreWhole' = LessonsAreWhole
      /\ acceptable' = acceptable
      /\ normalizeLearningDays' = normalizeLearningDays
      /\ \A q : DayOf(q)' = DayOf(q)
      /\ \A d : Complete(d)' = Complete(d)
      /\ \A d : EndOf(d)' = EndOf(d)
      /\ \A b : Break(b)' = Break(b)
  BY <1>2, SameSlots
<1>4. /\ input.start \in Nat /\ input.end \in Nat
      /\ \A q \in normalizeLearningDays : DayOf(q) \in DayNumbers
  BY InputTypes
<1>5. p \in normalizeLearningDays /\ todo \subseteq normalizeLearningDays
  BY DEF TypeOK
<1>6. TypeOK'
  BY <1>1, <1>2, <1>3, <1>4, <1>5 DEF TypeOK
<1>7. acceptable /\ slots[DayOf(p)] = <<>>
  BY <1>2 DEF Progress
<1>8. Progress'
  <2>1. \A q \in todo' : slots'[DayOf(q)'] = <<>> /\ DayOf(q)' # day'
    <3> SUFFICES ASSUME NEW q \in todo \ {p}
                 PROVE  slots[DayOf(q)] = <<>> /\ DayOf(q) # DayOf(p)
      BY <1>1, <1>2, <1>3
    <3>1. slots[DayOf(q)] = <<>>
      BY DEF Progress
    <3>2. DayOf(q) # DayOf(p)
      BY <1>5, <1>7, DaysDiffer
    <3> QED
      BY <3>1, <3>2
  <2>2. \A q \in normalizeLearningDays' \ todo' :
          DayOf(q)' = day' \/ Complete(DayOf(q))
    <3> SUFFICES ASSUME NEW q \in normalizeLearningDays \ todo
                 PROVE  Complete(DayOf(q))
      BY <1>1, <1>3
    <3> QED
      BY <1>2 DEF Progress, Working
  <2>3. \A q : Complete(DayOf(q))' = Complete(DayOf(q))
    BY SMTT(30), <1>2, <1>3 DEF Complete, Kept, Break, resolveBreakSlotType
  <2> QED
    BY <1>2, <1>3, <1>7, <2>1, <2>2, <2>3 DEF Progress, Working
<1>9. AtDay'
  <2>1. \A b \in 1..Len(input.breaks) : input.start <= Break(b).start
    BY <1>7 DEF acceptable, validateBreakStructure
  <2>2. input.start <= input.end
    BY <1>4, <1>7 DEF acceptable
  <2>3. EndOf(day)' = input.start /\ Len(slots'[day']) = 0
    BY <1>1, <1>2, <1>7 DEF EndOf
  <2> QED
    BY <1>2, <1>3, <1>4, <2>1, <2>2, <2>3 DEF AtDay
<1>10. AtSegment'
  BY <1>2 DEF AtSegment
<1> QED
  BY <1>3, <1>6, <1>8, <1>9, <1>10

LEMMA TeachingSegmentStep ==
  ASSUME IndInv, TeachingSegment
  PROVE  IndInv'
<1> USE DEF IndInv
<1>1. /\ input.start \in Nat /\ input.end \in Nat
      /\ \A b \in 1..Len(input.breaks) : Break(b).start \in Nat /\ Break(b).end \in Nat
  BY InputTypes
<1>2. pc = "break" /\ pc' = "segment" /\ Working /\ Working'
  BY DEF TeachingSegment, AtBreak, BeginSegment, Working
<1>3. UNCHANGED <<input, todo, day, breaks, current, slotIndex, slots>>
  BY DEF TeachingSegment, BeginSegment
<1>4. PICK end : BeginSegment(end) /\ end \in Nat /\ end <= input.end
                 /\ \A b \in breaks : end <= Break(b).start
  <2>1. ASSUME NEW b \in breaks, AtBreak(b), BeginSegment(Break(b).start)
        PROVE  /\ Break(b).start \in Nat /\ Break(b).start <= input.end
               /\ \A c \in breaks : Break(b).start <= Break(c).start
    <3>1. b \in 1..Len(input.breaks) /\ acceptable
      BY <1>2 DEF TypeOK, Progress
    <3>2. Break(b).start < Break(b).end /\ Break(b).end <= input.end
      BY <3>1 DEF acceptable, validateBreakStructure
    <3> QED
      BY <1>1, <2>1, <3>1, <3>2 DEF AtBreak
  <2>2. CASE breaks = {} /\ BeginSegment(input.end)
    BY <1>1, <2>2
  <2> QED
    BY <2>1, <2>2 DEF TeachingSegment
<1>5. segEnd' = end /\ current < end
  BY <1>4 DEF BeginSegment
<1>6. /\ SlotsTile' = SlotsTile
      /\ LessonsAreWhole' = LessonsAreWhole
      /\ acceptable' = acceptable
      /\ normalizeLearningDays' = normalizeLearningDays
      /\ \A q : DayOf(q)' = DayOf(q)
      /\ \A b : Break(b)' = Break(b)
  BY <1>3, SameSlots
<1>7. TypeOK'
  BY <1>2, <1>3, <1>4, <1>5, <1>6 DEF TypeOK
<1>8. Progress'
  <2>1. \A q : Complete(DayOf(q))' = Complete(DayOf(q))
    BY <1>3 DEF Complete, Kept, Break, resolveBreakSlotType, DayOf
  <2> QED
    BY <1>2, <1>3, <1>6, <2>1 DEF Progress
<1>9. AtDay'
  BY <1>2, <1>3, <1>6 DEF AtDay, Kept, Break, resolveBreakSlotType, EndOf
<1>10. AtSegment'
  BY <1>3, <1>4, <1>5, <1>6 DEF AtSegment, TypeOK
<1> QED
  BY <1>6, <1>7, <1>8, <1>9, <1>10

LEMMA EndDayStep ==
  ASSUME IndInv, EndDay
  PROVE  IndInv'
<1> USE DEF IndInv
<1>1. /\ pc = "break" /\ pc' = "day" /\ breaks = {} /\ Working /\ ~Working'
      /\ UNCHANGED <<input, todo, day, breaks, current, segEnd, slotIndex, slots>>
  BY DEF EndDay, Working
<1>2. /\ SlotsTile' = SlotsTile
      /\ LessonsAreWhole' = LessonsAreWhole
      /\ acceptable' = acceptable
      /\ normalizeLearningDays' = normalizeLearningDays
      /\ \A q : DayOf(q)' = DayOf(q)
  BY <1>1, SameSlots
<1>3. Complete(day)
  <2>1. /\ current = input.end /\ input.start < input.end
        /\ input.start \in Nat /\ input.end \in Nat
    BY <1>1, InputTypes DEF AtDay, EndDay, TypeOK, Progress, acceptable
  <2>2. EndOf(day) = input.end
    BY <1>1, <2>1 DEF AtDay
  <2>3. slots[day] # <<>> /\ slots[day][Len(slots[day])].end = input.end
    BY <2>1, <2>2 DEF EndOf
  <2>4. \A b \in 1..Len(input.breaks) : Kept(day, b)
    BY <1>1 DEF AtDay
  <2> QED
    BY <2>3, <2>4 DEF Complete
<1>4. TypeOK'
  BY <1>1, <1>2 DEF TypeOK
<1>5. Progress'
  <2>1. \A q \in normalizeLearningDays \ todo : Complete(DayOf(q))
    BY <1>1, <1>3 DEF Progress
  <2>2. \A q : Complete(DayOf(q))' = Complete(DayOf(q))
    BY <1>1 DEF Complete, Kept, Break, resolveBreakSlotType, DayOf
  <2> QED
    BY <1>1, <1>2, <2>1, <2>2 DEF Progress
<1>6. AtDay' /\ AtSegment'
  BY <1>1 DEF AtDay, AtSegment
<1> QED
  BY <1>2, <1>4, <1>5, <1>6

LEMMA ValidateStep ==
  ASSUME IndInv, validateGeneratedLessonSlots
  PROVE  IndInv'
<1> USE DEF IndInv
<1>1. /\ pc = "day" /\ pc' \in {"built", "rejected"} /\ todo = {}
      /\ ~Working /\ ~Working'
      /\ UNCHANGED <<input, todo, day, breaks, current, segEnd, slotIndex, slots>>
  BY DEF validateGeneratedLessonSlots, Working
<1>2. /\ SlotsTile' = SlotsTile
      /\ LessonsAreWhole' = LessonsAreWhole
      /\ acceptable' = acceptable
      /\ normalizeLearningDays' = normalizeLearningDays
  BY <1>1, SameSlots
<1>3. TypeOK'
  BY <1>1, <1>2 DEF TypeOK
<1>4. Progress'
  <2>1. \A q : Complete(DayOf(q))' = Complete(DayOf(q))
    BY <1>1 DEF Complete, Kept, Break, resolveBreakSlotType, DayOf
  <2> QED
    BY <1>1, <1>2, <2>1 DEF Progress
<1>5. AtDay' /\ AtSegment'
  BY <1>1 DEF AtDay, AtSegment, Working
<1> QED
  BY <1>2, <1>3, <1>4, <1>5

-----------------------------------------------------------------------------
LEMMA InitialStates == Init => IndInv
<1> SUFFICES ASSUME Init
             PROVE  IndInv
  OBVIOUS
<1>1. TypeOK
  BY DEF Init, TypeOK, DayNumbers
<1>2. \A d \in DayNumbers : slots[d] = <<>> /\ Len(slots[d]) = 0
  BY DEF Init
<1>3. SlotsTile /\ LessonsAreWhole
  BY <1>2 DEF SlotsTile, LessonsAreWhole
<1>4. AtDay /\ AtSegment /\ Progress
  BY DEF Init, AtDay, AtSegment, Progress, Working
<1> QED
  BY <1>1, <1>3, <1>4 DEF IndInv

LEMMA Step == IndInv /\ [Next]_vars => IndInv'
<1> SUFFICES ASSUME IndInv, [Next]_vars
             PROVE  IndInv'
  OBVIOUS
<1>1. CASE UNCHANGED vars
  BY <1>1 DEF vars, IndInv, TypeOK, SlotsTile, LessonsAreWhole, AtDay, AtSegment,
              Progress, Working, EndOf, Kept, Complete, Break, resolveBreakSlotType,
              acceptable, validateBreakStructure, hasDuplicateDays,
              normalizeLearningDays, DayOf
<1> QED
  BY <1>1, BuildStep, NextDayStep, TeachingSegmentStep, InterruptionStep, LessonSlotStep,
     EndSegmentStep, EndDayStep, ValidateStep DEF Next

LEMMA Invariance == Spec => []IndInv
<1> QED
  BY InitialStates, Step, PTL DEF Spec

-----------------------------------------------------------------------------
(***************************************************************************)
(* The loops keep their types, whatever is requested.                      *)
(***************************************************************************)
THEOREM TypeCorrect == Spec => []TypeOK
<1>1. IndInv => TypeOK
  BY DEF IndInv
<1> QED
  BY <1>1, Invariance, PTL

(***************************************************************************)
(* Generated slots follow each other without gap or overlap and are        *)
(* numbered from zero (generateTimeSlots): the constraints of time_slot    *)
(* accept every generated calendar.                                        *)
(***************************************************************************)
THEOREM SlotsTileTheDay == Spec => []SlotsTile
<1>1. IndInv => SlotsTile
  BY DEF IndInv
<1> QED
  BY <1>1, Invariance, PTL

(***************************************************************************)
(* Every lesson has the full duration and what is left of a segment is     *)
(* shorter than a lesson (appendTeachingSegment).                          *)
(***************************************************************************)
THEOREM NoLessonShortened == Spec => []LessonsAreWhole
<1>1. IndInv => LessonsAreWhole
  BY DEF IndInv
<1> QED
  BY <1>1, Invariance, PTL

(***************************************************************************)
(* An accepted calendar covers every learning day to its end and keeps     *)
(* every break of the request (generateTimeSlots).                         *)
(***************************************************************************)
THEOREM EveryBreakIsKept == Spec => []BreaksKept
<1>1. IndInv => BreaksKept
  <2> SUFFICES ASSUME IndInv, pc = "built", NEW p \in normalizeLearningDays
               PROVE  Complete(DayOf(p))
    BY DEF BreaksKept, LearningDays, Complete, Kept
  <2> QED
    BY DEF IndInv, Progress, Working
<1> QED
  BY <1>1, Invariance, PTL
=============================================================================
