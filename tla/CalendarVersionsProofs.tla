----------------------- MODULE CalendarVersionsProofs -----------------------
(***************************************************************************)
(* Proofs about CalendarVersions, for any number of requests and versions  *)
(* and any number of failing statements.                                   *)
(*                                                                         *)
(* Numbering needs to know what a request may still store: the number it   *)
(* has read is at most the next one, one that waits in an open transaction *)
(* is not taken, and no two of those are equal.  So all of them are the    *)
(* next number, and only one transaction can be about to store it.         *)
(***************************************************************************)
EXTENDS CalendarVersions, FiniteSetTheorems, TLAPS

\* The number after the last one that is stored.
NumberAfter == Cardinality(Stored) + 1

Built == [pc : {"built"}, number : 1..NumberAfter, activated : BOOLEAN]

Inserted == [pc : {"inserted"}, id : Stored]

Saving ==
  {r \in [pc : {"saving"}, id : Ids \ Stored, number : 1..NumberAfter,
          seen : SUBSET Stored] : ~numberTaken(r.number)}

Activating ==
  [pc : {"activating"}, id : Stored \cup UnknownIds, seen : SUBSET Stored]

RequestsHold ==
  req \in [Requests -> {Idle} \cup Built \cup Inserted \cup Saving \cup Activating]

Tables ==
  /\ versions \in [Ids -> Row \cup {None}]
  /\ IsFiniteSet(Stored)
  /\ errors \in 0..MaxErrors

TypeOK == Tables /\ RequestsHold

\* The unique index makes an insert wait for the transaction that holds its
\* number.
OneSaverPerNumber ==
  \A p \in Requests, q \in Requests :
    /\ req[p].pc = "saving" /\ req[q].pc = "saving"
    /\ req[p].number = req[q].number
    => p = q

\* A version waits for its slots as long as its request is under way.
SlotsComing ==
  \A v \in Stored :
    \/ versions[v].slots
    \/ errors > 0
    \/ \E q \in Requests : req[q].pc = "inserted" /\ req[q].id = v

ActiveIsUnique == \A v \in Active, w \in Active : v = w

IndInv ==
  TypeOK /\ NumbersWithoutGap /\ OneSaverPerNumber /\ ActiveIsUnique /\ SlotsComing

-----------------------------------------------------------------------------
(***************************************************************************)
(* How versions are numbered.                                              *)
(***************************************************************************)
LEMMA NextIsNatural ==
  ASSUME IndInv
  PROVE  Cardinality(Stored) \in Nat /\ NumberAfter \in Nat \ {0}
BY FS_CardinalityType DEF IndInv, TypeOK, Tables, NumberAfter

\* The statement that reads the next number reads the number after the last.
LEMMA NextNumberRead ==
  ASSUME IndInv
  PROVE  NextVersionNumber = NumberAfter
<1> DEFINE Follows(n) ==
      /\ \A v \in Stored : versions[v].number < n
      /\ n = 1 \/ \E v \in Stored : versions[v].number = n - 1
<1>1. NumberAfter = Cardinality(Stored) + 1 /\ Cardinality(Stored) \in Nat
  BY NextIsNatural DEF NumberAfter
<1>2. {versions[v].number : v \in Stored} = 1..Cardinality(Stored)
  BY DEF IndInv, NumbersWithoutGap
<1>3. Follows(NumberAfter)
  <2>1. \A v \in Stored : versions[v].number \in 1..Cardinality(Stored)
    BY <1>2
  <2>2. ASSUME Cardinality(Stored) # 0
        PROVE  \E v \in Stored : versions[v].number = Cardinality(Stored)
    <3>1. Cardinality(Stored) \in 1..Cardinality(Stored)
      BY <1>1, <2>2
    <3> QED
      BY <3>1, <1>2
  <2> QED
    BY <1>1, <2>1, <2>2
<1>4. ASSUME NEW n \in 1..(Cardinality(Stored) + 1), Follows(n)
      PROVE  n = NumberAfter
  <2>1. CASE Cardinality(Stored) = 0
    BY <1>1, <2>1
  <2>2. CASE Cardinality(Stored) # 0
    <3>1. Cardinality(Stored) \in 1..Cardinality(Stored)
      BY <1>1, <2>2
    <3>2. PICK v \in Stored : versions[v].number = Cardinality(Stored)
      BY <3>1, <1>2
    <3> QED
      BY <1>1, <1>4, <3>2
  <2> QED
    BY <2>1, <2>2
<1>5. NumberAfter \in 1..(Cardinality(Stored) + 1)
  BY <1>1
<1> QED
  BY <1>3, <1>4, <1>5 DEF NextVersionNumber

\* A number that a request may use and that is not taken is the next one.
LEMMA FreeIsNext ==
  ASSUME IndInv, NEW n \in 1..NumberAfter, ~numberTaken(n)
  PROVE  n = NumberAfter
<1>1. NumberAfter = Cardinality(Stored) + 1 /\ Cardinality(Stored) \in Nat
  BY NextIsNatural DEF NumberAfter
<1>2. {versions[v].number : v \in Stored} = 1..Cardinality(Stored)
  BY DEF IndInv, NumbersWithoutGap
<1>3. n \notin 1..Cardinality(Stored)
  BY <1>2 DEF numberTaken
<1> QED
  BY <1>1, <1>3

\* One transaction at most is about to store a version.
LEMMA OneSaver ==
  ASSUME IndInv, NEW p \in Requests, NEW q \in Requests,
         req[p].pc = "saving", req[q].pc = "saving"
  PROVE  p = q
<1>1. req[p] \in Saving /\ req[q] \in Saving
  BY DEF IndInv, TypeOK, RequestsHold, Idle, Built, Inserted, Activating
<1>2. req[p].number = NumberAfter /\ req[q].number = NumberAfter
  BY <1>1, FreeIsNext DEF Saving
<1> QED
  BY <1>2 DEF IndInv, OneSaverPerNumber

-----------------------------------------------------------------------------
(***************************************************************************)
(* The two ways in which the table changes: rows are rewritten under the   *)
(* same numbers, or one row with the next number is added.                 *)
(***************************************************************************)
\* Rows that existed still exist, and keep their numbers.
NumbersKept ==
  /\ versions' \in [Ids -> Row \cup {None}]
  /\ \A w \in Stored : versions'[w] \in Row /\ versions'[w].number = versions[w].number

LEMMA Rewritten ==
  ASSUME IndInv, NumbersKept, \A w \in Ids \ Stored : versions'[w] = None
  PROVE  /\ Stored' = Stored
         /\ NumberAfter' = NumberAfter
         /\ NumbersWithoutGap'
         /\ Built' = Built /\ Inserted' = Inserted
         /\ Saving' = Saving /\ Activating' = Activating
<1>1. Stored' = Stored
  BY NoneAssumption DEF NumbersKept, Stored
<1>2. \A w \in Stored : versions'[w].number = versions[w].number
  BY DEF NumbersKept
<1>3. {versions'[v].number : v \in Stored} = {versions[v].number : v \in Stored}
  BY <1>2
<1>4. NumberAfter' = NumberAfter
  BY <1>1 DEF NumberAfter
<1>5. NumbersWithoutGap'
  BY <1>1, <1>2, <1>3 DEF IndInv, NumbersWithoutGap
<1>6. Saving' = Saving
  BY <1>1, <1>2, <1>4 DEF Saving, numberTaken
<1> QED
  BY <1>1, <1>4, <1>5, <1>6 DEF Built, Inserted, Activating

LEMMA OneMore ==
  ASSUME IndInv, NumbersKept, NEW v \in Ids \ Stored,
         versions'[v] \in Row, versions'[v].number = NumberAfter,
         \A w \in Ids \ (Stored \cup {v}) : versions'[w] = None
  PROVE  /\ Stored' = Stored \cup {v}
         /\ IsFiniteSet(Stored')
         /\ NumberAfter' = NumberAfter + 1
         /\ NumbersWithoutGap'
         /\ Built \subseteq Built' /\ Inserted \subseteq Inserted'
         /\ Activating \subseteq Activating'
<1>1. Stored' = Stored \cup {v}
  BY NoneAssumption DEF NumbersKept, Stored
<1>2. /\ IsFiniteSet(Stored')
      /\ Cardinality(Stored') = Cardinality(Stored) + 1
  BY <1>1, FS_AddElement DEF IndInv, TypeOK, Tables
<1>3. NumberAfter' = NumberAfter + 1 /\ Cardinality(Stored') = NumberAfter
  BY <1>2 DEF NumberAfter
<1>4. \A w \in Stored : versions'[w].number = versions[w].number
  BY DEF NumbersKept
<1>5. /\ {versions[w].number : w \in Stored} = 1..Cardinality(Stored)
      /\ NumberAfter = Cardinality(Stored) + 1 /\ Cardinality(Stored) \in Nat
  BY NextIsNatural DEF IndInv, NumbersWithoutGap, NumberAfter
<1>6. \A w \in Stored : versions'[w].number \in 1..Cardinality(Stored)
  BY <1>4, <1>5
<1>7. {versions'[w].number : w \in Stored'} = 1..Cardinality(Stored')
  <2>1. {versions'[w].number : w \in Stored'}
          = {versions[w].number : w \in Stored} \cup {NumberAfter}
    BY <1>1, <1>4
  <2>2. (1..Cardinality(Stored)) \cup {NumberAfter} = 1..NumberAfter
    BY <1>5
  <2> QED
    BY <1>3, <1>5, <2>1, <2>2
<1>8. \A a \in Stored', b \in Stored' :
        versions'[a].number = versions'[b].number => a = b
  BY <1>1, <1>4, <1>5, <1>6 DEF IndInv, NumbersWithoutGap
<1>9. NumbersWithoutGap'
  BY <1>7, <1>8 DEF NumbersWithoutGap
<1>10. 1..NumberAfter \subseteq (1..NumberAfter)'
  BY <1>3, <1>5
<1>11. Built \subseteq Built'
  BY <1>10 DEF Built
<1> QED
  BY <1>1, <1>2, <1>3, <1>9, <1>11 DEF Inserted, Activating

-----------------------------------------------------------------------------
(***************************************************************************)
(* Every step keeps the invariant.                                         *)
(***************************************************************************)
\* Requests other than q keep what they hold when the rows stay the same up to
\* their slots and their active flags, and q gets a new record or its answer.
LEMMA OthersKeep ==
  ASSUME IndInv, NumbersKept, \A w \in Ids \ Stored : versions'[w] = None,
         NEW q \in Requests,
         NEW r \in {Idle} \cup Built \cup Inserted \cup Saving \cup Activating,
         req' = [req EXCEPT ![q] = r],
         errors' \in 0..MaxErrors
  PROVE  TypeOK' /\ NumbersWithoutGap'
<1>1. /\ Stored' = Stored /\ NumbersWithoutGap'
      /\ Built' = Built /\ Inserted' = Inserted
      /\ Saving' = Saving /\ Activating' = Activating
  BY Rewritten
<1>2. RequestsHold'
  BY <1>1 DEF IndInv, TypeOK, RequestsHold, Idle
<1>3. Tables'
  BY <1>1 DEF IndInv, TypeOK, Tables, NumbersKept, Row
<1> QED
  BY <1>1, <1>2, <1>3 DEF TypeOK

LEMMA UnchangedKept ==
  ASSUME IndInv, UNCHANGED versions
  PROVE  /\ NumbersKept
         /\ \A w \in Ids \ Stored : versions'[w] = None
         /\ Stored' = Stored /\ Active' = Active
BY DEF IndInv, TypeOK, Tables, NumbersKept, Stored, Active

\* A request is answered, with or without a failure, and nothing is stored.
LEMMA AnswerStep ==
  ASSUME IndInv, NEW q \in Requests, Answer(q), UNCHANGED versions,
         \/ errors' = errors /\ req[q].pc # "inserted"
         \/ errors < MaxErrors /\ errors' = errors + 1
  PROVE  IndInv'
<1>1. /\ NumbersKept
      /\ \A w \in Ids \ Stored : versions'[w] = None
      /\ Stored' = Stored /\ Active' = Active
  BY UnchangedKept
<1>2. errors \in 0..MaxErrors /\ errors' \in 0..MaxErrors
  BY CalendarAssumption DEF IndInv, TypeOK, Tables
<1>3. TypeOK' /\ NumbersWithoutGap'
  BY <1>1, <1>2, OthersKeep DEF Answer
<1>4. \A p \in Requests : req'[p] = IF p = q THEN Idle ELSE req[p]
  BY DEF Answer, IndInv, TypeOK, RequestsHold
<1>5. OneSaverPerNumber'
  BY <1>4 DEF OneSaverPerNumber, IndInv, Idle
<1>6. SlotsComing'
  BY <1>1, <1>2, <1>4 DEF SlotsComing, IndInv
<1>7. ActiveIsUnique'
  BY <1>1 DEF ActiveIsUnique, IndInv
<1> QED
  BY <1>3, <1>5, <1>6, <1>7 DEF IndInv

LEMMA BuildStep ==
  ASSUME IndInv, NEW q \in Requests, NEW activated \in BOOLEAN,
         buildCalendarVersion(q, activated)
  PROVE  IndInv'
<1> DEFINE r == [pc |-> "built", number |-> NextVersionNumber, activated |-> activated]
<1>1. /\ NumbersKept
      /\ \A w \in Ids \ Stored : versions'[w] = None
      /\ Stored' = Stored /\ Active' = Active
  BY UnchangedKept DEF buildCalendarVersion
<1>2. r \in Built
  BY NextNumberRead, NextIsNatural DEF Built
<1>3. errors' = errors /\ errors \in 0..MaxErrors
  BY DEF IndInv, TypeOK, Tables, buildCalendarVersion
<1>4. TypeOK' /\ NumbersWithoutGap'
  BY <1>1, <1>2, <1>3, OthersKeep DEF buildCalendarVersion
<1>5. \A p \in Requests : req'[p] = IF p = q THEN r ELSE req[p]
  BY DEF buildCalendarVersion, IndInv, TypeOK, RequestsHold
<1>6. OneSaverPerNumber'
  BY <1>5 DEF OneSaverPerNumber, IndInv
<1>7. SlotsComing'
  <2>1. req[q].pc # "inserted"
    BY DEF buildCalendarVersion, Idle
  <2> QED
    BY <1>1, <1>3, <1>5, <2>1 DEF SlotsComing, IndInv, buildCalendarVersion
<1>8. ActiveIsUnique'
  BY <1>1 DEF ActiveIsUnique, IndInv, buildCalendarVersion
<1> QED
  BY <1>4, <1>6, <1>7, <1>8 DEF IndInv

\* Nobody is in a transaction with the next number, so nobody is in any.
LEMMA NoSaver ==
  ASSUME IndInv, NEW q \in Requests, req[q].pc = "built",
         ~numberTaken(req[q].number), ~numberHeld(req[q].number)
  PROVE  /\ req[q] \in Built /\ req[q].number = NumberAfter
         /\ \A p \in Requests : req[p].pc # "saving"
<1>1. req[q] \in Built
  BY DEF IndInv, TypeOK, RequestsHold, Idle, Saving, Inserted, Activating
<1>2. req[q].number = NumberAfter
  BY <1>1, FreeIsNext DEF Built
<1>3. ASSUME NEW p \in Requests, req[p].pc = "saving"
      PROVE  req[p].number = NumberAfter
  <2>1. req[p] \in Saving
    BY <1>3 DEF IndInv, TypeOK, RequestsHold, Idle, Built, Inserted, Activating
  <2> QED
    BY <2>1, FreeIsNext DEF Saving
<1> QED
  BY <1>1, <1>2, <1>3 DEF numberHeld

LEMMA InsertStep ==
  ASSUME IndInv, NEW q \in Requests, NEW v \in FreshIds, insertCalendarVersion(q, v)
  PROVE  IndInv'
<1> DEFINE r == [pc |-> "inserted", id |-> v]
           row == [number |-> req[q].number, slots |-> FALSE, active |-> FALSE]
<1>1. /\ req[q] \in Built /\ req[q].number = NumberAfter
      /\ \A p \in Requests : req[p].pc # "saving"
  BY NoSaver DEF insertCalendarVersion
<1>2. v \in Ids \ Stored
  BY DEF FreshIds
<1>3. NumberAfter \in Nat \ {0} /\ row \in Row /\ row.number = NumberAfter
  BY <1>1, NextIsNatural DEF Row
<1>4. versions \in [Ids -> Row \cup {None}] /\ errors' = errors
      /\ versions' = [versions EXCEPT ![v] = row]
  BY DEF IndInv, TypeOK, Tables, insertCalendarVersion
<1>5. /\ versions' \in [Ids -> Row \cup {None}]
      /\ versions'[v] = row
      /\ \A w \in Ids \ {v} : versions'[w] = versions[w]
  BY <1>2, <1>3, <1>4
<1>6. NumbersKept /\ \A w \in Ids \ (Stored \cup {v}) : versions'[w] = None
  BY <1>2, <1>4, <1>5 DEF NumbersKept, Stored
<1>7. /\ Stored' = Stored \cup {v} /\ IsFiniteSet(Stored') /\ NumbersWithoutGap'
      /\ Built \subseteq Built' /\ Inserted \subseteq Inserted'
      /\ Activating \subseteq Activating'
  BY <1>2, <1>3, <1>5, <1>6, OneMore
<1>8. \A p \in Requests : req'[p] = IF p = q THEN r ELSE req[p]
  BY DEF insertCalendarVersion, IndInv, TypeOK, RequestsHold
<1>9. RequestsHold'
  <2>1. r \in Inserted'
    BY <1>7 DEF Inserted
  <2>2. ASSUME NEW p \in Requests
        PROVE  req[p] \in {Idle} \cup Built' \cup Inserted' \cup Activating'
    BY <1>1, <1>7 DEF IndInv, TypeOK, RequestsHold, Saving
  <2>3. req' = [req EXCEPT ![q] = r] /\ DOMAIN req = Requests
    BY DEF insertCalendarVersion, IndInv, TypeOK, RequestsHold
  <2>4. Idle' = Idle
    BY DEF Idle
  <2> QED
    BY <2>1, <2>2, <2>3, <2>4 DEF RequestsHold
<1>10. TypeOK'
  BY <1>4, <1>5, <1>7, <1>9 DEF IndInv, TypeOK, Tables, Row
<1>11. OneSaverPerNumber'
  BY <1>1, <1>8 DEF OneSaverPerNumber
<1>12. SlotsComing'
  <2>1. req[q].pc # "inserted"
    BY DEF insertCalendarVersion
  <2> QED
    BY <1>2, <1>4, <1>5, <1>7, <1>8, <2>1 DEF SlotsComing, IndInv
<1>13. Active' = Active
  <2>1. ~versions'[v].active /\ Stored \subseteq Ids
    BY <1>5 DEF Stored
  <2>2. \A w \in Stored : versions'[w] = versions[w]
    BY <1>2, <1>5, <2>1
  <2> QED
    BY <1>7, <2>1, <2>2 DEF Active
<1>14. ActiveIsUnique'
  BY <1>2, <1>5, <1>13 DEF ActiveIsUnique, Active, IndInv
<1> QED
  BY <1>7, <1>10, <1>11, <1>12, <1>14 DEF IndInv

LEMMA BulkInsertStep ==
  ASSUME IndInv, NEW q \in Requests, BulkInsertTimeSlots(q)
  PROVE  IndInv'
<1>1. req[q] \in Inserted /\ req[q].id \in Stored
  BY DEF BulkInsertTimeSlots, Idle, IndInv, TypeOK, RequestsHold, Built, Inserted,
         Saving, Activating
<1>2. /\ versions \in [Ids -> Row \cup {None}]
      /\ versions' = [versions EXCEPT ![req[q].id].slots = TRUE]
      /\ errors' = errors /\ errors \in 0..MaxErrors
  BY DEF IndInv, TypeOK, Tables, BulkInsertTimeSlots
<1>3. versions[req[q].id] \in Row
  BY <1>1, <1>2 DEF Stored
<1>4. /\ versions' \in [Ids -> Row \cup {None}]
      /\ \A w \in Ids : w # req[q].id => versions'[w] = versions[w]
      /\ versions'[req[q].id] = [versions[req[q].id] EXCEPT !.slots = TRUE]
      /\ versions'[req[q].id] \in Row
  BY <1>1, <1>2, <1>3 DEF Row, Stored
<1>5. NumbersKept /\ \A w \in Ids \ Stored : versions'[w] = None
  BY <1>1, <1>2, <1>3, <1>4 DEF NumbersKept, Stored, Row
<1>6. TypeOK' /\ NumbersWithoutGap'
  BY <1>2, <1>5, OthersKeep DEF BulkInsertTimeSlots, Answer
<1>7. Stored' = Stored
  BY <1>5, Rewritten
<1>8. \A p \in Requests : req'[p] = IF p = q THEN Idle ELSE req[p]
  BY DEF BulkInsertTimeSlots, Answer, IndInv, TypeOK, RequestsHold
<1>9. OneSaverPerNumber'
  BY <1>8 DEF OneSaverPerNumber, IndInv, Idle
<1>10. SlotsComing'
  <2>1. versions'[req[q].id].slots = TRUE
    BY <1>3, <1>4 DEF Row
  <2> QED
    BY <1>1, <1>2, <1>4, <1>7, <1>8, <2>1 DEF SlotsComing, IndInv, Stored
<1>11. Active' = Active
  BY <1>1, <1>3, <1>4, <1>7 DEF Active, Row, Stored
<1>12. ActiveIsUnique'
  BY <1>11 DEF ActiveIsUnique, IndInv
<1> QED
  BY <1>6, <1>9, <1>10, <1>12 DEF IndInv

LEMMA BeginSavingStep ==
  ASSUME IndInv, NEW q \in Requests, NEW v \in FreshIds,
         CreateCalendarVersionWithSlotsActivated(q, v)
  PROVE  IndInv'
<1> DEFINE r == [pc |-> "saving", id |-> v, number |-> req[q].number, seen |-> Stored]
<1>1. /\ req[q] \in Built /\ req[q].number = NumberAfter
      /\ \A p \in Requests : req[p].pc # "saving"
  BY NoSaver DEF CreateCalendarVersionWithSlotsActivated
<1>2. /\ NumbersKept
      /\ \A w \in Ids \ Stored : versions'[w] = None
      /\ Stored' = Stored /\ Active' = Active
  BY UnchangedKept DEF CreateCalendarVersionWithSlotsActivated
<1>3. r \in Saving
  BY <1>1 DEF Saving, Built, FreshIds, CreateCalendarVersionWithSlotsActivated
<1>4. errors' = errors /\ errors \in 0..MaxErrors
  BY DEF IndInv, TypeOK, Tables, CreateCalendarVersionWithSlotsActivated
<1>5. TypeOK' /\ NumbersWithoutGap'
  BY <1>2, <1>3, <1>4, OthersKeep DEF CreateCalendarVersionWithSlotsActivated
<1>6. \A p \in Requests : req'[p] = IF p = q THEN r ELSE req[p]
  BY DEF CreateCalendarVersionWithSlotsActivated, IndInv, TypeOK, RequestsHold
<1>7. OneSaverPerNumber'
  BY <1>1, <1>6 DEF OneSaverPerNumber
<1>8. SlotsComing'
  <2>1. req[q].pc # "inserted"
    BY DEF CreateCalendarVersionWithSlotsActivated
  <2> QED
    BY <1>2, <1>4, <1>6, <2>1
    DEF SlotsComing, IndInv, CreateCalendarVersionWithSlotsActivated
<1>9. ActiveIsUnique'
  BY <1>2 DEF ActiveIsUnique, IndInv, CreateCalendarVersionWithSlotsActivated
<1> QED
  BY <1>5, <1>7, <1>8, <1>9 DEF IndInv

\* What a transaction that deactivates the versions it has seen does to the
\* rows.
LEMMA Deactivation ==
  ASSUME IndInv, NEW seen \in SUBSET Stored
  PROVE  /\ Deactivated(seen) \in [Ids -> Row \cup {None}]
         /\ \A w \in Ids \ seen : Deactivated(seen)[w] = versions[w]
         /\ \A w \in Stored :
              /\ Deactivated(seen)[w] \in Row
              /\ Deactivated(seen)[w].number = versions[w].number
              /\ Deactivated(seen)[w].slots = versions[w].slots
              /\ Deactivated(seen)[w].active <=> w \notin seen /\ versions[w].active
<1>1. versions \in [Ids -> Row \cup {None}]
  BY DEF IndInv, TypeOK, Tables
<1>2. \A w \in Stored : w \in Ids /\ versions[w] \in Row
  BY <1>1 DEF Stored
<1>3. \A w \in Stored : /\ [versions[w] EXCEPT !.active = FALSE] \in Row
                        /\ [versions[w] EXCEPT !.active = FALSE].number = versions[w].number
                        /\ [versions[w] EXCEPT !.active = FALSE].slots = versions[w].slots
                        /\ [versions[w] EXCEPT !.active = FALSE].active = FALSE
  BY <1>2 DEF Row
<1>4. \A w \in Ids : Deactivated(seen)[w] =
        IF w \in seen THEN [versions[w] EXCEPT !.active = FALSE] ELSE versions[w]
  BY DEF Deactivated
<1>5. \A w \in Ids : Deactivated(seen)[w] \in Row \cup {None}
  BY <1>1, <1>3, <1>4
<1> QED
  BY <1>2, <1>3, <1>4, <1>5 DEF Deactivated

\* The request that was inserting the slots of a version is still there when
\* another one commits.
LEMMA CommitStep ==
  ASSUME IndInv, NEW q \in Requests, req[q].pc \in {"saving", "activating"},
         Answer(q), UNCHANGED errors, TypeOK', NumbersWithoutGap', ActiveIsUnique',
         \A v \in Stored' : versions'[v].slots \/ (v \in Stored /\ ~versions[v].slots)
  PROVE  IndInv'
<1>1. \A p \in Requests : req'[p] = IF p = q THEN Idle ELSE req[p]
  BY DEF Answer, IndInv, TypeOK, RequestsHold
<1>2. OneSaverPerNumber'
  BY <1>1 DEF OneSaverPerNumber, IndInv, Idle
<1>3. SlotsComing'
  BY <1>1 DEF SlotsComing, IndInv
<1> QED
  BY <1>2, <1>3 DEF IndInv

LEMMA CommitActivatedStep ==
  ASSUME IndInv, NEW q \in Requests, CommitActivated(q)
  PROVE  IndInv' /\ (Active # {} => Active' # {})
<1> DEFINE v == req[q].id
           seen == req[q].seen
           row == [number |-> req[q].number, slots |-> TRUE, active |-> TRUE]
<1>1. req[q] \in Saving
  BY DEF CommitActivated, Idle, IndInv, TypeOK, RequestsHold, Built, Inserted,
         Activating
<1>2. /\ v \in Ids \ Stored /\ seen \in SUBSET Stored /\ Stored \subseteq Ids
      /\ req[q].number = NumberAfter /\ NumberAfter \in Nat \ {0}
  BY <1>1, FreeIsNext, NextIsNatural DEF Saving, Stored
<1>3. /\ versions \in [Ids -> Row \cup {None}]
      /\ errors' = errors /\ errors \in 0..MaxErrors
      /\ req[q].pc = "saving" /\ Answer(q)
  BY DEF IndInv, TypeOK, Tables, CommitActivated
<1>4. CASE UNCHANGED versions
  BY <1>3, <1>4, AnswerStep, UnchangedKept
<1>5. CASE /\ ~secondActive(seen, v)
           /\ versions' = [Deactivated(seen) EXCEPT ![v] = row]
  <2>1. row \in Row /\ row.number = NumberAfter /\ row.slots /\ row.active
    BY <1>2 DEF Row
  <2>2. /\ versions' \in [Ids -> Row \cup {None}]
        /\ versions'[v] = row
        /\ \A w \in Ids \ {v} : versions'[w] = Deactivated(seen)[w]
    BY <1>2, <1>5, <2>1, Deactivation
  <2>3. NumbersKept /\ \A w \in Ids \ (Stored \cup {v}) : versions'[w] = None
    BY <1>2, <2>2, Deactivation DEF NumbersKept, Stored
  <2>4. /\ Stored' = Stored \cup {v} /\ IsFiniteSet(Stored') /\ NumbersWithoutGap'
        /\ Built \subseteq Built' /\ Inserted \subseteq Inserted'
        /\ Activating \subseteq Activating'
    BY <1>2, <2>1, <2>2, <2>3, OneMore
  <2>5. \A p \in Requests \ {q} : req[p].pc # "saving"
    BY <1>3, OneSaver
  <2>6. RequestsHold'
    <3>1. ASSUME NEW p \in Requests \ {q}
          PROVE  req[p] \in {Idle} \cup Built' \cup Inserted' \cup Activating'
      BY <2>4, <2>5 DEF IndInv, TypeOK, RequestsHold, Saving
    <3>2. req' = [req EXCEPT ![q] = Idle] /\ DOMAIN req = Requests /\ Idle' = Idle
      BY <1>3 DEF Answer, IndInv, TypeOK, RequestsHold, Idle
    <3> QED
      BY <3>1, <3>2 DEF RequestsHold
  <2>7. TypeOK'
    BY <1>3, <2>2, <2>4, <2>6 DEF TypeOK, Tables, Row
  <2>8. \A w \in Stored : ~versions'[w].active
    <3>1. ASSUME NEW w \in Stored
          PROVE  w \in seen \/ ~versions[w].active
      BY <1>2, <1>5 DEF secondActive, Active
    <3> QED
      BY <1>2, <2>2, <3>1, Deactivation
  <2>9. Active' = {v}
    BY <2>1, <2>2, <2>4, <2>8 DEF Active
  <2>10. ActiveIsUnique'
    BY <2>9 DEF ActiveIsUnique
  <2>11. \A w \in Stored' : versions'[w].slots \/ (w \in Stored /\ ~versions[w].slots)
    BY <1>2, <2>1, <2>2, <2>4, Deactivation
  <2> QED
    BY <1>3, <2>4, <2>7, <2>9, <2>10, <2>11, CommitStep
<1> QED
  BY <1>4, <1>5 DEF CommitActivated

LEMMA CommitActivationStep ==
  ASSUME IndInv, NEW q \in Requests, CommitActivation(q)
  PROVE  IndInv' /\ (Active # {} /\ Active' = {} => req[q].id \in UnknownIds)
<1> DEFINE v == req[q].id
           seen == req[q].seen
<1>1. req[q] \in Activating
  BY DEF CommitActivation, Idle, IndInv, TypeOK, RequestsHold, Built, Inserted,
         Saving
<1>2. v \in Stored \cup UnknownIds /\ seen \in SUBSET Stored /\ Stored \subseteq Ids
  BY <1>1 DEF Activating, Stored
<1>3. /\ versions \in [Ids -> Row \cup {None}]
      /\ errors' = errors /\ errors \in 0..MaxErrors
      /\ req[q].pc = "activating" /\ Answer(q)
  BY DEF IndInv, TypeOK, Tables, CommitActivation
<1>4. CASE UNCHANGED versions
  BY <1>3, <1>4, AnswerStep, UnchangedKept
<1>5. ASSUME NumbersKept, \A w \in Ids \ Stored : versions'[w] = None,
             ActiveIsUnique',
             \A w \in Stored : versions'[w].slots = versions[w].slots
      PROVE  IndInv'
  <2>1. TypeOK' /\ NumbersWithoutGap'
    BY <1>3, <1>5, OthersKeep DEF Answer
  <2>2. Stored' = Stored
    BY <1>5, Rewritten
  <2>3. \A w \in Stored' : versions'[w].slots \/ (w \in Stored /\ ~versions[w].slots)
    BY <1>5, <2>2
  <2> QED
    BY <1>3, <1>5, <2>1, <2>3, CommitStep
<1>6. CASE /\ v \in Stored
           /\ ~secondActive(seen, v)
           /\ versions' = [Deactivated(seen) EXCEPT ![v].active = TRUE]
  <2>1. PICK D : D = Deactivated(seen)
    OBVIOUS
  <2> DEFINE d == [D[v] EXCEPT !.active = TRUE]
  <2>2. /\ D \in [Ids -> Row \cup {None}] /\ D[v] \in Row
        /\ d \in Row /\ d.number = D[v].number /\ d.slots = D[v].slots /\ d.active
    <3>1. D \in [Ids -> Row \cup {None}] /\ D[v] \in Row
      BY <1>2, <1>6, <2>1, Deactivation
    <3> QED
      BY <3>1 DEF Row
  <2>3. /\ versions'[v] = d
        /\ versions' \in [Ids -> Row \cup {None}]
        /\ \A w \in Ids \ {v} : versions'[w] = Deactivated(seen)[w]
    BY <1>2, <1>6, <2>1, <2>2
  <2> HIDE DEF d
  <2>4. NumbersKept /\ \A w \in Ids \ Stored : versions'[w] = None
    <3>1. \A w \in Ids \ Stored : w # v /\ w \in Ids \ seen /\ versions[w] = None
      BY <1>2, <1>6 DEF Stored
    <3>2. \A w \in Ids \ Stored : versions'[w] = None
      BY <1>2, <2>3, <3>1, Deactivation
    <3>3. \A w \in Stored : versions'[w] \in Row /\ versions'[w].number = versions[w].number
      BY <1>2, <2>1, <2>2, <2>3, Deactivation
    <3> QED
      BY <2>3, <3>2, <3>3 DEF NumbersKept
  <2>5. \A w \in Stored : versions'[w].slots = versions[w].slots
    BY <1>2, <2>1, <2>2, <2>3, Deactivation
  <2>6. Stored' = Stored
    BY <2>4, Rewritten
  <2>7. \A w \in Stored \ {v} : ~versions'[w].active
    <3>1. ASSUME NEW w \in Stored \ {v}
          PROVE  w \in seen \/ ~versions[w].active
      BY <1>2, <1>6 DEF secondActive, Active
    <3> QED
      BY <1>2, <2>3, <3>1, Deactivation
  <2>8. Active' = {v}
    BY <1>6, <2>2, <2>3, <2>6, <2>7 DEF Active
  <2> QED
    BY <1>5, <2>4, <2>5, <2>8 DEF ActiveIsUnique
<1>7. CASE v \notin Stored /\ versions' = Deactivated(seen)
  <2>1. NumbersKept /\ \A w \in Ids \ Stored : versions'[w] = None
    BY <1>2, <1>7, Deactivation DEF NumbersKept, Stored
  <2>2. Stored' = Stored
    BY <2>1, Rewritten
  <2>3. Active' \subseteq Active
    BY <1>2, <1>7, <2>2, Deactivation DEF Active
  <2>4. ActiveIsUnique'
    BY <2>3 DEF ActiveIsUnique, IndInv
  <2>5. \A w \in Stored : versions'[w].slots = versions[w].slots
    BY <1>7, <1>2, Deactivation
  <2> QED
    BY <1>2, <1>5, <1>7, <2>1, <2>4, <2>5
<1> QED
  BY <1>4, <1>6, <1>7 DEF CommitActivation

LEMMA BeginActivationStep ==
  ASSUME IndInv, NEW q \in Requests, NEW v \in Stored \cup UnknownIds,
         ActivateCalendarVersion(q, v)
  PROVE  IndInv'
<1> DEFINE r == [pc |-> "activating", id |-> v, seen |-> Stored]
<1>1. /\ NumbersKept
      /\ \A w \in Ids \ Stored : versions'[w] = None
      /\ Stored' = Stored /\ Active' = Active
  BY UnchangedKept DEF ActivateCalendarVersion
<1>2. r \in Activating
  BY DEF Activating
<1>3. errors' = errors /\ errors \in 0..MaxErrors
  BY DEF IndInv, TypeOK, Tables, ActivateCalendarVersion
<1>4. TypeOK' /\ NumbersWithoutGap'
  BY <1>1, <1>2, <1>3, OthersKeep DEF ActivateCalendarVersion
<1>5. \A p \in Requests : req'[p] = IF p = q THEN r ELSE req[p]
  BY DEF ActivateCalendarVersion, IndInv, TypeOK, RequestsHold
<1>6. OneSaverPerNumber'
  BY <1>5 DEF OneSaverPerNumber, IndInv
<1>7. SlotsComing'
  <2>1. req[q].pc # "inserted"
    BY DEF ActivateCalendarVersion, Idle
  <2> QED
    BY <1>1, <1>3, <1>5, <2>1 DEF SlotsComing, IndInv, ActivateCalendarVersion
<1>8. ActiveIsUnique'
  BY <1>1 DEF ActiveIsUnique, IndInv, ActivateCalendarVersion
<1> QED
  BY <1>4, <1>6, <1>7, <1>8 DEF IndInv

-----------------------------------------------------------------------------
LEMMA InvInit == Init => IndInv
<1> SUFFICES ASSUME Init PROVE IndInv
  OBVIOUS
<1>1. Stored = {} /\ Active = {} /\ errors = 0
  BY DEF Init, Stored, Active
<1>2. IsFiniteSet(Stored) /\ Cardinality(Stored) = 0
  BY <1>1, FS_EmptySet
<1>3. TypeOK
  BY <1>1, <1>2, CalendarAssumption DEF Init, TypeOK, Tables, RequestsHold
<1>4. 1..Cardinality(Stored) = {}
  BY <1>2
<1>5. NumbersWithoutGap
  BY <1>1, <1>4 DEF NumbersWithoutGap
<1>6. OneSaverPerNumber
  BY DEF OneSaverPerNumber, Init, Idle
<1> QED
  BY <1>1, <1>3, <1>5, <1>6 DEF IndInv, ActiveIsUnique, SlotsComing

\* A step takes the only active calendar away by activating an id that is no
\* version of the workspace, or not at all.
NotTakenAway ==
  Active # {} /\ Active' = {} =>
    \E q \in Requests : req[q].pc = "activating" /\ req[q].id \in UnknownIds

LEMMA InvNext == IndInv /\ [Next]_vars => IndInv' /\ NotTakenAway
<1> SUFFICES ASSUME IndInv, [Next]_vars
             PROVE  IndInv' /\ NotTakenAway
  OBVIOUS
<1>1. UNCHANGED versions => Active' = Active
  BY DEF Active, Stored
<1>2. ASSUME NEW q \in Requests, PutCalendar(q) \/ CreateCalendar(q)
      PROVE  IndInv' /\ NotTakenAway
  BY <1>1, <1>2, BuildStep DEF PutCalendar, CreateCalendar, buildCalendarVersion,
     NotTakenAway
<1>3. ASSUME NEW q \in Requests, NEW v \in FreshIds, insertCalendarVersion(q, v)
      PROVE  IndInv' /\ NotTakenAway
  <2>1. Active \subseteq Active'
    <3>1. versions \in [Ids -> Row \cup {None}]
      BY DEF IndInv, TypeOK, Tables
    <3>2. \A w \in Stored : versions'[w] = versions[w]
      BY <1>3, <3>1 DEF insertCalendarVersion, FreshIds, Stored
    <3> QED
      BY <3>2 DEF Active, Stored
  <2> QED
    BY <1>3, <2>1, InsertStep DEF NotTakenAway
<1>4. ASSUME NEW q \in Requests, NEW v \in FreshIds,
             CreateCalendarVersionWithSlotsActivated(q, v)
      PROVE  IndInv' /\ NotTakenAway
  BY <1>1, <1>4, BeginSavingStep DEF CreateCalendarVersionWithSlotsActivated,
     NotTakenAway
<1>5. ASSUME NEW q \in Requests, NumberRefused(q)
      PROVE  IndInv' /\ NotTakenAway
  BY <1>1, <1>5, AnswerStep DEF NumberRefused, NotTakenAway
<1>6. ASSUME NEW q \in Requests, BulkInsertTimeSlots(q)
      PROVE  IndInv' /\ NotTakenAway
  <2>1. Active \subseteq Active'
    <3>1. versions \in [Ids -> Row \cup {None}]
      BY DEF IndInv, TypeOK, Tables
    <3>2. \A w \in Stored : versions[w] \in Row
      BY <3>1 DEF Stored
    <3>3. \A w \in Stored : w \in Ids /\ [versions[w] EXCEPT !.slots = TRUE] \in Row
             /\ [versions[w] EXCEPT !.slots = TRUE].active = versions[w].active
      BY <3>2 DEF Row, Stored
    <3>4. \A w \in Stored : versions'[w] \in Row
             /\ versions'[w].active = versions[w].active
      BY <1>6, <3>1, <3>2, <3>3 DEF BulkInsertTimeSlots
    <3> QED
      BY <3>4, NoneAssumption DEF Active, Stored
  <2> QED
    BY <1>6, <2>1, BulkInsertStep DEF NotTakenAway
<1>7. ASSUME NEW q \in Requests, CommitActivated(q)
      PROVE  IndInv' /\ NotTakenAway
  BY <1>7, CommitActivatedStep DEF NotTakenAway
<1>8. ASSUME NEW q \in Requests, ActivateCalendar(q)
      PROVE  IndInv' /\ NotTakenAway
  <2>1. PICK v \in Stored \cup UnknownIds : ActivateCalendarVersion(q, v)
    BY <1>8 DEF ActivateCalendar
  <2> QED
    BY <1>1, <2>1, BeginActivationStep DEF ActivateCalendarVersion, NotTakenAway
<1>9. ASSUME NEW q \in Requests, CommitActivation(q)
      PROVE  IndInv' /\ NotTakenAway
  BY <1>9, CommitActivationStep DEF NotTakenAway, CommitActivation
<1>10. ASSUME NEW q \in Requests, Fail(q)
       PROVE  IndInv' /\ NotTakenAway
  BY <1>1, <1>10, AnswerStep DEF Fail, NotTakenAway
<1>11. CASE UNCHANGED vars
  <2>1. /\ NumbersKept
        /\ \A w \in Ids \ Stored : versions'[w] = None
        /\ Stored' = Stored /\ Active' = Active
    BY <1>11, UnchangedKept DEF vars
  <2>2. /\ NumbersWithoutGap' /\ Built' = Built /\ Inserted' = Inserted
        /\ Saving' = Saving /\ Activating' = Activating
    BY <2>1, Rewritten
  <2>3. TypeOK'
    BY <1>11, <2>1, <2>2 DEF vars, IndInv, TypeOK, Tables, RequestsHold, Idle, Row
  <2>4. OneSaverPerNumber' /\ SlotsComing' /\ ActiveIsUnique'
    BY <1>11, <2>1
    DEF vars, IndInv, OneSaverPerNumber, SlotsComing, ActiveIsUnique
  <2> QED
    BY <2>1, <2>2, <2>3, <2>4 DEF IndInv, NotTakenAway
<1> QED
  BY <1>2, <1>3, <1>4, <1>5, <1>6, <1>7, <1>8, <1>9, <1>10, <1>11 DEF Next

LEMMA Invariant == Spec => []IndInv
<1>1. IndInv /\ [Next]_vars => IndInv'
  BY InvNext
<1> QED
  BY InvInit, <1>1, PTL DEF Spec

-----------------------------------------------------------------------------
\* Rows and requests keep their shapes, and no request holds the id of a
\* version that is not stored, except to store it or by the path it came with.
THEOREM TypeCorrect == Spec => []TypeOK
<1>1. IndInv => TypeOK
  BY DEF IndInv
<1> QED
  BY Invariant, <1>1, PTL

\* Versions are numbered 1, 2, 3 without gap or repetition, although the next
\* number is read in one statement and used in another, and requests fail in
\* between (NextVersionNumber, insertCalendarVersion).
THEOREM NumberedWithoutGap == Spec => []NumbersWithoutGap
<1>1. IndInv => NumbersWithoutGap
  BY DEF IndInv
<1> QED
  BY Invariant, <1>1, PTL

\* There is at most one active calendar, whatever activations race
\* (ActivateCalendarVersion, CreateCalendarVersionWithSlotsActivated).
THEOREM OneActive == Spec => []AtMostOneActive
<1>1. IndInv => AtMostOneActive
  <2> SUFFICES ASSUME IndInv PROVE AtMostOneActive
    OBVIOUS
  <2>1. CASE Active = {}
    BY <2>1, FS_EmptySet DEF AtMostOneActive
  <2>2. CASE Active # {}
    <3>1. PICK v \in Active : TRUE
      BY <2>2
    <3>2. Active = {v}
      BY <3>1 DEF IndInv, ActiveIsUnique
    <3> QED
      BY <3>2, FS_Singleton DEF AtMostOneActive
  <2> QED
    BY <2>1, <2>2
<1> QED
  BY Invariant, <1>1, PTL

\* The active calendar has its time slots, unless it was activated before its
\* request has inserted them or a statement has failed
\* (CreateCalendarWithSlots, CreateCalendarVersionWithSlotsActivated).
THEOREM ActiveIsComplete == Spec => []ActiveHasSlots
<1>1. IndInv => ActiveHasSlots
  BY DEF IndInv, SlotsComing, ActiveHasSlots, Active
<1> QED
  BY Invariant, <1>1, PTL

\* A workspace that has an active calendar keeps having one, whatever requests
\* race and fail, except when an id that is no version of this workspace is
\* activated (ActivateCalendarVersion).
THEOREM ActivationsReplace == Spec => ActiveStays
<1>1. IndInv /\ [Next]_vars =>
        [Active # {} /\ Active' = {} =>
           \E q \in Requests : req[q].pc = "activating" /\ req[q].id \in UnknownIds]_vars
  BY InvNext DEF NotTakenAway
<1> QED
  BY Invariant, <1>1, PTL DEF Spec, ActiveStays
=============================================================================
