---------------------------- MODULE OutboxProofs ----------------------------
(***************************************************************************)
(* Proofs about Outbox, for any number of workers, events, attempts,       *)
(* replays and losses.                                                     *)
(*                                                                         *)
(* Why the unguarded UPDATEs are harmless is SingleOwner; that attempts    *)
(* stay bounded needs to know how far each status leaves the counter from  *)
(* its limit, and what a worker holds between a post and its record.       *)
(***************************************************************************)
EXTENDS Outbox, TLAPS

\* How each status bounds the counter.
StatusBounds ==
  \A e \in Events :
    /\ rows[e].status = "ABSENT" => rows[e].attempts = 0
    /\ rows[e].status = "PENDING" => rows[e].attempts < MaxAttempts + replays[e]
    /\ rows[e].waiting => rows[e].status = "PENDING"

\* An event whose post is still to come has an attempt left to be received;
\* an event whose acceptance is still to be recorded has been received.
PostsCounted ==
  \A w \in Workers : \A e \in claimed[w] :
    /\ answer[w] = NoAnswer \/ ~IsNext(w, e) => received[e] < rows[e].attempts
    /\ answer[w] = "accepted" /\ IsNext(w, e) => received[e] > 0

IdleSilent == \A w \in Workers : claimed[w] = {} => answer[w] = NoAnswer

IndInv ==
  /\ TypeOK
  /\ SingleOwner
  /\ AttemptsAgree
  /\ DeliveredWasReceived
  /\ BoundedAttempts
  /\ StatusBounds
  /\ PostsCounted
  /\ IdleSilent

-----------------------------------------------------------------------------
(***************************************************************************)
(* What the helpers on rows return.                                        *)
(***************************************************************************)
LEMMA ClaimedRowFacts ==
  ASSUME NEW row \in Row
  PROVE  /\ ClaimedRow(row) \in Row
         /\ ClaimedRow(row).status = "DELIVERING"
         /\ ClaimedRow(row).attempts = row.attempts + 1
         /\ ClaimedRow(row).waiting = row.waiting
<1>1. row.attempts + 1 \in Nat
  BY DEF Row
<1>2. \A n \in Nat :
        [row EXCEPT !.status = "DELIVERING", !.attempts = n] \in Row
  BY DEF Row, Statuses
<1>3. ClaimedRow(row) =
        [row EXCEPT !.status = "DELIVERING", !.attempts = row.attempts + 1]
  BY DEF ClaimedRow, Row
<1>4. ClaimedRow(row) \in Row
  BY <1>1, <1>2, <1>3
<1>5. /\ ClaimedRow(row).status = "DELIVERING"
      /\ ClaimedRow(row).attempts = row.attempts + 1
  BY DEF ClaimedRow, Row
<1>6. ClaimedRow(row).waiting = row.waiting
  BY DEF ClaimedRow, Row
<1> QED
  BY <1>4, <1>5, <1>6

LEMMA RecordedRowFacts ==
  ASSUME NEW row \in Row, NEW outcome \in Outcome, NEW attempts \in Nat
  PROVE  LET r == RecordedRow(outcome, row, attempts) IN
         /\ r \in Row
         /\ r.attempts = row.attempts
         /\ r.status \in {"DELIVERED", "DEAD_LETTER", "PENDING"}
         /\ r.status = "DELIVERED" => outcome = "accepted"
         /\ r.status = "PENDING" => attempts + 1 < MaxAttempts
         /\ r.waiting => r.status = "PENDING"
<1>1. CASE outcome = "accepted"
  BY <1>1 DEF RecordedRow, Row, Statuses
<1>2. CASE outcome = "refused"
  BY <1>2 DEF RecordedRow, DeadLettered, Row, Statuses
<1>3. CASE outcome = "failed"
  <2>1. RecordedRow(outcome, row, attempts) = retry(row, attempts)
    BY <1>3 DEF RecordedRow
  <2>2. CASE attempts + 1 >= MaxAttempts
    BY <2>1, <2>2 DEF retry, DeadLettered, Row, Statuses
  <2>3. CASE attempts + 1 < MaxAttempts
    <3>1. retry(row, attempts) =
            [row EXCEPT !.status = "PENDING", !.waiting = TRUE]
      BY <2>3, OutboxAssumption DEF retry
    <3> QED
      BY <2>1, <2>3, <3>1 DEF Row, Statuses
  <2> QED
    BY <2>2, <2>3, OutboxAssumption
<1> QED
  BY <1>1, <1>2, <1>3 DEF Outcome

-----------------------------------------------------------------------------
(***************************************************************************)
(* One lemma per action.                                                   *)
(***************************************************************************)
LEMMA EnqueueStep ==
  ASSUME IndInv, NEW e \in Events, Enqueue(e)
  PROVE  IndInv'
<1> USE OutboxAssumption
<1>1. /\ rows' \in [Events -> Row]
      /\ rows'[e].status = "PENDING" /\ rows[e].status = "ABSENT"
      /\ rows[e].attempts = 0 /\ rows'[e].attempts = 0
      /\ \A f \in Events \ {e} : rows'[f] = rows[f]
  BY DEF Enqueue, IndInv, TypeOK, Row, Statuses, StatusBounds
<1>2. ~rows'[e].waiting
  <2>1. rows'[e].waiting = rows[e].waiting
    BY DEF Enqueue, IndInv, TypeOK, Row
  <2> QED
    BY <1>1, <2>1 DEF IndInv, StatusBounds
<1>3. \A w \in Workers : e \notin claimed[w]
  BY <1>1 DEF IndInv, SingleOwner
<1>4. TypeOK'
  BY <1>1 DEF Enqueue, IndInv, TypeOK
<1>5. SingleOwner' /\ AttemptsAgree'
  BY <1>1, <1>3 DEF Enqueue, IndInv, TypeOK, SingleOwner, AttemptsAgree
<1>6. PostsCounted'
  BY <1>1, <1>3 DEF Enqueue, IndInv, TypeOK, PostsCounted, IsNext
<1>7. DeliveredWasReceived'
  BY <1>1 DEF Enqueue, IndInv, DeliveredWasReceived
<1>8. BoundedAttempts'
  BY <1>1, <1>2 DEF Enqueue, IndInv, TypeOK, BoundedAttempts
<1>9. StatusBounds'
  <2>0. replays' = replays /\ replays[e] \in Nat
    BY DEF Enqueue, IndInv, TypeOK
  <2>1. 0 < MaxAttempts + replays[e] /\ replays' = replays
    BY <2>0
  <2>2. ASSUME NEW f \in Events \ {e}
        PROVE  rows'[f] = rows[f] /\ replays'[f] = replays[f]
    BY <1>1, <2>1
  <2>3. /\ rows'[e].status = "PENDING" /\ ~rows'[e].waiting
        /\ rows'[e].attempts < MaxAttempts + replays'[e]
    BY <1>1, <1>2, <2>1
  <2> QED
    BY <2>2, <2>3 DEF IndInv, StatusBounds
<1>10. IdleSilent'
  BY DEF Enqueue, IndInv, IdleSilent
<1> QED
  BY <1>4, <1>5, <1>6, <1>7, <1>8, <1>9, <1>10 DEF IndInv

LEMMA ClaimStep ==
  ASSUME IndInv, NEW w \in Workers, claim(w)
  PROVE  IndInv'
<1> USE OutboxAssumption
<1>1. PICK batch \in Batches :
        /\ rows' = [e \in Events |->
                      IF e \in batch THEN ClaimedRow(rows[e]) ELSE rows[e]]
        /\ claimed' = [claimed EXCEPT ![w] = batch]
        /\ held' = [held EXCEPT ![w] = [e \in Events |->
                      IF e \in batch THEN rows[e].attempts ELSE 0]]
  BY DEF claim
<1>2. batch \subseteq Events /\ \A e \in batch :
        rows[e].status = "PENDING" /\ ~rows[e].waiting
  BY DEF Batches, claimable
<1>3. \A e \in Events : rows[e] \in Row
  BY DEF IndInv, TypeOK
<1>4. \A e \in batch : /\ rows'[e] \in Row
                       /\ rows'[e].status = "DELIVERING"
                       /\ rows'[e].attempts = rows[e].attempts + 1
                       /\ ~rows'[e].waiting
  BY <1>1, <1>2, <1>3, ClaimedRowFacts
<1>5. \A e \in Events \ batch : rows'[e] = rows[e]
  BY <1>1
<1>6. \A e \in batch : \A x \in Workers : e \notin claimed[x]
  BY <1>2 DEF IndInv, SingleOwner
<1>7. /\ claimed'[w] = batch /\ \A x \in Workers \ {w} : claimed'[x] = claimed[x]
      /\ \A e \in batch : held'[w][e] = rows[e].attempts
      /\ \A x \in Workers \ {w} : held'[x] = held[x]
      /\ UNCHANGED <<answer, received, replays>>
      /\ claimed[w] = {}
  BY <1>1, <1>2 DEF claim, IndInv, TypeOK
<1>8. \A e \in batch : rows[e].attempts \in Nat /\ replays[e] \in Nat
                       /\ received[e] \in Nat
  BY <1>2, <1>3 DEF Row, IndInv, TypeOK
<1>10. TypeOK'
  <2>1. rows' \in [Events -> Row]
    BY <1>1, <1>3, <1>4, <1>5
  <2>2. held' \in [Workers -> [Events -> Nat]]
    BY <1>1, <1>2, <1>8 DEF IndInv, TypeOK
  <2> QED
    BY <1>1, <1>2, <2>1, <2>2 DEF claim, IndInv, TypeOK
<1>11. SingleOwner'
  <2>1. ASSUME NEW e \in batch
        PROVE  /\ rows'[e].status = "DELIVERING"
               /\ \A x \in Workers \ {w} : e \notin claimed'[x]
    BY <1>4, <1>6, <1>7
  <2>2. ASSUME NEW x \in Workers \ {w}, NEW e \in claimed[x]
        PROVE  /\ rows'[e].status = "DELIVERING"
               /\ \A y \in Workers \ {x} : e \notin claimed'[y]
    <3>1. e \in Events \ batch
      BY <1>6 DEF IndInv, TypeOK
    <3>2. rows[e].status = "DELIVERING"
          /\ \A y \in Workers \ {x} : e \notin claimed[y]
      BY DEF IndInv, SingleOwner
    <3> QED
      BY <1>5, <1>7, <3>1, <3>2
  <2> QED
    BY <1>7, <2>1, <2>2 DEF SingleOwner
<1>12. AttemptsAgree'
  BY <1>2, <1>4, <1>5, <1>6, <1>7 DEF IndInv, TypeOK, AttemptsAgree
<1>13. DeliveredWasReceived'
  BY <1>4, <1>5, <1>7 DEF IndInv, DeliveredWasReceived
<1>14. BoundedAttempts'
  BY <1>2, <1>4, <1>5, <1>7, <1>8 DEF IndInv, BoundedAttempts, StatusBounds
<1>15. StatusBounds'
  BY <1>4, <1>5, <1>7 DEF IndInv, StatusBounds
<1>16. answer[w] = NoAnswer
  BY <1>7 DEF IndInv, IdleSilent
<1>17. PostsCounted'
  BY <1>2, <1>4, <1>5, <1>6, <1>7, <1>8, <1>16
  DEF IndInv, TypeOK, PostsCounted, BoundedAttempts, IsNext, NoAnswer
<1>18. IdleSilent'
  BY <1>7, <1>16 DEF IndInv, IdleSilent
<1> QED
  BY <1>10, <1>11, <1>12, <1>13, <1>14, <1>15, <1>17, <1>18 DEF IndInv

LEMMA PostStep ==
  ASSUME IndInv, NEW w \in Workers, NEW e \in Events, Post(w, e)
  PROVE  IndInv'
<1> USE OutboxAssumption
<1>1. PICK outcome \in Outcome, accepted \in BOOLEAN :
        /\ outcome = "accepted" => accepted
        /\ answer' = [answer EXCEPT ![w] = outcome]
        /\ received' = [received EXCEPT ![e] = IF accepted THEN @ + 1 ELSE @]
  BY DEF Post
<1>2. /\ IsNext(w, e) /\ answer[w] = NoAnswer /\ e \in claimed[w]
      /\ UNCHANGED <<rows, installation, claimed, held, replays, losses>>
  BY DEF Post, IsNext
<1>3. /\ received[e] \in Nat /\ rows[e].attempts \in Nat
      /\ received[e] < rows[e].attempts
  BY <1>2 DEF IndInv, TypeOK, Row, PostsCounted
<1>4. /\ received' \in [Events -> Nat]
      /\ received'[e] \in Nat /\ received'[e] >= received[e]
      /\ received'[e] <= rows[e].attempts
      /\ outcome = "accepted" => received'[e] > 0
      /\ \A f \in Events \ {e} : received'[f] = received[f]
  BY <1>1, <1>3 DEF IndInv, TypeOK
<1>5. /\ answer'[w] = outcome /\ answer'[w] # NoAnswer
      /\ \A x \in Workers \ {w} : answer'[x] = answer[x]
  BY <1>1 DEF IndInv, TypeOK, Outcome, NoAnswer
<1>6. TypeOK'
  BY <1>1, <1>2, <1>4 DEF IndInv, TypeOK
<1>7. SingleOwner' /\ AttemptsAgree' /\ StatusBounds'
  BY <1>2 DEF IndInv, SingleOwner, AttemptsAgree, StatusBounds
<1>8. DeliveredWasReceived'
  BY <1>2, <1>3, <1>4 DEF IndInv, TypeOK, DeliveredWasReceived
<1>9. BoundedAttempts'
  BY <1>2, <1>4 DEF IndInv, BoundedAttempts
<1>10. ASSUME NEW x \in Workers, NEW f \in claimed[x]
       PROVE  IsNext(x, f)' = IsNext(x, f)
  BY <1>2 DEF IsNext
<1>11. \A x \in Workers \ {w} : e \notin claimed[x]
  BY <1>2 DEF IndInv, SingleOwner
<1>12. \A f \in claimed[w] \ {e} : ~IsNext(w, f)
  BY <1>2 DEF IsNext, IndInv, TypeOK, Events
<1>13. PostsCounted'
  BY <1>2, <1>4, <1>5, <1>10, <1>11, <1>12 DEF IndInv, TypeOK, PostsCounted
<1>14. IdleSilent'
  BY <1>2, <1>5 DEF IndInv, IdleSilent
<1> QED
  BY <1>6, <1>7, <1>8, <1>9, <1>13, <1>14 DEF IndInv

\* A worker that has dropped or recorded e keeps its other events, which are
\* not posted yet.
LEMMA DoneFacts ==
  ASSUME IndInv, NEW w \in Workers, NEW e \in Events, IsNext(w, e), Done(w, e)
  PROVE  /\ claimed'[w] = claimed[w] \ {e}
         /\ \A x \in Workers \ {w} : /\ claimed'[x] = claimed[x]
                                     /\ held'[x] = held[x]
                                     /\ answer'[x] = answer[x]
         /\ \A f \in claimed'[w] : /\ held'[w][f] = held[w][f]
                                  /\ ~IsNext(w, f)
         /\ answer'[w] = NoAnswer
         /\ claimed' \in [Workers -> SUBSET Events]
         /\ held' \in [Workers -> [Events -> Nat]]
         /\ answer' \in [Workers -> Outcome \cup {NoAnswer}]
         /\ \A x \in Workers : e \notin claimed'[x]
         /\ IdleSilent'
<1>1. claimed'[w] = claimed[w] \ {e}
  BY DEF Done, IndInv, TypeOK
<1>2. \A x \in Workers \ {w} :
        claimed'[x] = claimed[x] /\ held'[x] = held[x] /\ answer'[x] = answer[x]
  BY DEF Done, IndInv, TypeOK
<1>3. ASSUME NEW f \in claimed'[w]
      PROVE  held'[w][f] = held[w][f] /\ ~IsNext(w, f)
  <2>1. f \in claimed[w] /\ f # e /\ f \in Events
    BY <1>1 DEF IndInv, TypeOK
  <2> QED
    BY <2>1 DEF Done, IsNext, IndInv, TypeOK, Events
<1>4. answer'[w] = NoAnswer
  BY DEF Done, IndInv, TypeOK
<1>5. /\ claimed' \in [Workers -> SUBSET Events]
      /\ held' \in [Workers -> [Events -> Nat]]
      /\ answer' \in [Workers -> Outcome \cup {NoAnswer}]
  BY DEF Done, IndInv, TypeOK
<1>6. \A x \in Workers : e \notin claimed'[x]
  BY <1>1, <1>2 DEF IndInv, SingleOwner, IsNext
<1>7. IdleSilent'
  BY <1>2, <1>4 DEF IndInv, IdleSilent
<1> QED
  BY <1>1, <1>2, <1>3, <1>4, <1>5, <1>6, <1>7

\* What a step leaves of the owners' invariants when one worker is done with
\* an event and no other row changes.
LEMMA DoneOwners ==
  ASSUME IndInv, NEW w \in Workers, NEW e \in Events, IsNext(w, e), Done(w, e),
         \A f \in Events \ {e} : rows'[f] = rows[f], received' = received
  PROVE  SingleOwner' /\ AttemptsAgree' /\ PostsCounted'
<1>1. ASSUME NEW x \in Workers, NEW f \in claimed'[x]
      PROVE  /\ f \in claimed[x] /\ rows'[f] = rows[f] /\ held'[x][f] = held[x][f]
             /\ \A y \in Workers : f \in claimed'[y] => f \in claimed[y]
  <2>1. f \in claimed[x] /\ f # e /\ f \in Events
    BY DoneFacts DEF IndInv, TypeOK
  <2> QED
    BY <2>1, DoneFacts
<1>2. SingleOwner' /\ AttemptsAgree'
  BY <1>1 DEF IndInv, SingleOwner, AttemptsAgree
<1>3. ASSUME NEW x \in Workers \ {w}, NEW f \in claimed'[x]
      PROVE  IsNext(x, f)' = IsNext(x, f) /\ answer'[x] = answer[x]
  BY DoneFacts DEF IsNext
<1>4. PostsCounted'
  <2>1. ASSUME NEW x \in Workers \ {w}, NEW f \in claimed'[x]
        PROVE  /\ answer'[x] = NoAnswer \/ ~IsNext(x, f)' =>
                    received'[f] < rows'[f].attempts
               /\ answer'[x] = "accepted" /\ IsNext(x, f)' => received'[f] > 0
    BY <1>1, <1>3 DEF IndInv, PostsCounted
  <2>2. ASSUME NEW f \in claimed'[w]
        PROVE  received'[f] < rows'[f].attempts /\ answer'[w] = NoAnswer
    BY <1>1, DoneFacts DEF IndInv, PostsCounted
  <2> QED
    BY <2>1, <2>2 DEF PostsCounted, NoAnswer
<1> QED
  BY <1>2, <1>4

LEMMA RecordStep ==
  ASSUME IndInv, NEW w \in Workers, NEW e \in Events, Record(w, e)
  PROVE  IndInv'
<1> USE OutboxAssumption
<1> DEFINE r == RecordedRow(answer[w], rows[e], held[w][e])
<1>1. /\ IsNext(w, e) /\ Done(w, e) /\ answer[w] \in Outcome
      /\ e \in claimed[w]
      /\ UNCHANGED <<installation, received, replays, losses>>
  BY DEF Record, IsNext, IndInv, TypeOK
<1>2. rows[e] \in Row /\ held[w][e] \in Nat
  BY DEF IndInv, TypeOK
<1>3. /\ r \in Row /\ r.attempts = rows[e].attempts
      /\ r.status \in {"DELIVERED", "DEAD_LETTER", "PENDING"}
      /\ r.status = "DELIVERED" => answer[w] = "accepted"
      /\ r.status = "PENDING" => held[w][e] + 1 < MaxAttempts
      /\ r.waiting => r.status = "PENDING"
  BY <1>1, <1>2, RecordedRowFacts
<1>4. /\ rows' \in [Events -> Row] /\ rows'[e] = r
      /\ \A f \in Events \ {e} : rows'[f] = rows[f]
  BY <1>3 DEF Record, IndInv, TypeOK
<1> HIDE DEF r
<1>5. /\ rows[e].attempts = held[w][e] + 1
      /\ rows[e].attempts \in Nat /\ replays[e] \in Nat
      /\ answer[w] = "accepted" => received[e] > 0
  BY <1>1 DEF IndInv, AttemptsAgree, PostsCounted, TypeOK, Row
<1>6. TypeOK' /\ IdleSilent'
  BY <1>1, <1>4, DoneFacts DEF IndInv, TypeOK
<1>7. SingleOwner' /\ AttemptsAgree' /\ PostsCounted'
  BY <1>1, <1>4, DoneOwners
<1>8. DeliveredWasReceived'
  BY <1>1, <1>3, <1>4, <1>5 DEF IndInv, DeliveredWasReceived
<1>9. BoundedAttempts'
  BY <1>1, <1>3, <1>4, <1>5 DEF IndInv, BoundedAttempts
<1>10. StatusBounds'
  BY <1>1, <1>3, <1>4, <1>5 DEF IndInv, StatusBounds
<1> QED
  BY <1>6, <1>7, <1>8, <1>9, <1>10 DEF IndInv

LEMMA RecordLostStep ==
  ASSUME IndInv, NEW w \in Workers, NEW e \in Events, RecordLost(w, e)
  PROVE  IndInv'
<1>1. /\ IsNext(w, e) /\ Done(w, e) /\ losses' \in Nat
      /\ UNCHANGED <<rows, installation, received, replays>>
  BY DEF RecordLost, IndInv, TypeOK
<1>2. TypeOK' /\ IdleSilent'
  BY <1>1, DoneFacts DEF IndInv, TypeOK
<1>3. SingleOwner' /\ AttemptsAgree' /\ PostsCounted'
  BY <1>1, DoneOwners
<1>4. DeliveredWasReceived' /\ BoundedAttempts' /\ StatusBounds'
  BY <1>1 DEF IndInv, DeliveredWasReceived, BoundedAttempts, StatusBounds
<1> QED
  BY <1>2, <1>3, <1>4 DEF IndInv

LEMMA StopStep ==
  ASSUME IndInv, NEW w \in Workers, Stop(w)
  PROVE  IndInv'
<1>1. /\ claimed'[w] = {} /\ answer'[w] = NoAnswer /\ losses' \in Nat
      /\ \A x \in Workers \ {w} : /\ claimed'[x] = claimed[x]
                                  /\ held'[x] = held[x]
                                  /\ answer'[x] = answer[x]
      /\ UNCHANGED <<rows, installation, received, replays>>
  BY DEF Stop, IndInv, TypeOK
<1>2. TypeOK'
  BY DEF Stop, IndInv, TypeOK
<1>3. SingleOwner' /\ AttemptsAgree' /\ IdleSilent'
  BY <1>1 DEF IndInv, SingleOwner, AttemptsAgree, IdleSilent
<1>4. ASSUME NEW x \in Workers \ {w}, NEW f \in claimed'[x]
      PROVE  IsNext(x, f)' = IsNext(x, f) /\ answer'[x] = answer[x]
  BY <1>1 DEF IsNext
<1>5. PostsCounted'
  BY <1>1, <1>4 DEF IndInv, PostsCounted
<1>6. DeliveredWasReceived' /\ BoundedAttempts' /\ StatusBounds'
  BY <1>1 DEF IndInv, DeliveredWasReceived, BoundedAttempts, StatusBounds
<1> QED
  BY <1>2, <1>3, <1>5, <1>6 DEF IndInv

\* Only rows nobody holds change, and their attempts stay.
LEMMA FreeRowOwners ==
  ASSUME IndInv, NEW e \in Events, rows[e].status # "DELIVERING",
         \A f \in Events \ {e} : rows'[f] = rows[f],
         UNCHANGED <<claimed, held, answer, received>>
  PROVE  SingleOwner' /\ AttemptsAgree' /\ PostsCounted' /\ IdleSilent'
<1>1. \A w \in Workers : \A f \in claimed[w] : f \in Events \ {e}
  BY DEF IndInv, TypeOK, SingleOwner
<1>2. SingleOwner' /\ AttemptsAgree' /\ IdleSilent'
  BY <1>1 DEF IndInv, SingleOwner, AttemptsAgree, IdleSilent
<1>3. ASSUME NEW x \in Workers, NEW f \in claimed[x]
      PROVE  IsNext(x, f)' = IsNext(x, f)
  BY DEF IsNext
<1>4. PostsCounted'
  BY <1>1, <1>3 DEF IndInv, PostsCounted
<1> QED
  BY <1>2, <1>4

LEMMA TickStep ==
  ASSUME IndInv, NEW e \in Events, Tick(e)
  PROVE  IndInv'
<1>1. /\ rows' \in [Events -> Row]
      /\ rows'[e].status = rows[e].status
      /\ rows'[e].attempts = rows[e].attempts
      /\ \A f \in Events \ {e} : rows'[f] = rows[f]
      /\ UNCHANGED <<installation, claimed, held, answer, received, replays,
                     losses>>
  BY DEF Tick, IndInv, TypeOK, Row
<1>2. ~rows'[e].waiting
  BY DEF Tick, IndInv, TypeOK, Row
<1>3. rows[e].status = "PENDING"
  BY DEF Tick, IndInv, StatusBounds
<1>4. TypeOK'
  BY <1>1 DEF IndInv, TypeOK
<1>5. SingleOwner' /\ AttemptsAgree' /\ PostsCounted' /\ IdleSilent'
  BY <1>1, <1>3, FreeRowOwners
<1>6. DeliveredWasReceived'
  BY <1>1 DEF IndInv, DeliveredWasReceived
<1>7. BoundedAttempts' /\ StatusBounds'
  BY <1>1, <1>2 DEF IndInv, BoundedAttempts, StatusBounds
<1> QED
  BY <1>4, <1>5, <1>6, <1>7 DEF IndInv

LEMMA ReplayStep ==
  ASSUME IndInv, NEW e \in Events, Replay(e)
  PROVE  IndInv'
<1> USE OutboxAssumption
<1>1. /\ rows' \in [Events -> Row] /\ rows[e].status = "DEAD_LETTER"
      /\ rows'[e].status = "PENDING"
      /\ rows'[e].attempts = rows[e].attempts
      /\ \A f \in Events \ {e} : rows'[f] = rows[f]
      /\ UNCHANGED <<installation, claimed, held, answer, received, losses>>
  BY DEF Replay, replayable, IndInv, TypeOK, Row, Statuses
<1>2. ~rows'[e].waiting
  BY DEF Replay, IndInv, TypeOK, Row
<1>3. /\ replays' \in [Events -> Nat] /\ replays'[e] = replays[e] + 1
      /\ \A f \in Events \ {e} : replays'[f] = replays[f]
      /\ replays[e] \in Nat /\ rows[e].attempts \in Nat
  BY DEF Replay, IndInv, TypeOK, Row
<1>4. TypeOK'
  BY <1>1, <1>3 DEF IndInv, TypeOK
<1>5. SingleOwner' /\ AttemptsAgree' /\ PostsCounted' /\ IdleSilent'
  BY <1>1, FreeRowOwners
<1>6. DeliveredWasReceived'
  BY <1>1 DEF IndInv, DeliveredWasReceived
<1>7. rows[e].attempts <= MaxAttempts + replays[e] /\ received[e] <= rows[e].attempts
  BY DEF IndInv, BoundedAttempts
<1>8. BoundedAttempts'
  <2>1. /\ rows'[e].attempts <= MaxAttempts + replays'[e]
        /\ received'[e] <= rows'[e].attempts
    BY <1>1, <1>3, <1>7
  <2> QED
    BY <1>1, <1>2, <1>3, <2>1 DEF IndInv, BoundedAttempts
<1>9. StatusBounds'
  <2>1. rows'[e].attempts < MaxAttempts + replays'[e]
    BY <1>1, <1>3, <1>7
  <2> QED
    BY <1>1, <1>2, <1>3, <2>1 DEF IndInv, StatusBounds
<1> QED
  BY <1>4, <1>5, <1>6, <1>8, <1>9 DEF IndInv

\* A step that changes the installation, or nothing at all.
LEMMA SetInstallationStep ==
  ASSUME IndInv, SetInstallation \/ UNCHANGED vars
  PROVE  IndInv'
<1>1. /\ UNCHANGED <<rows, claimed, held, answer, received, replays, losses>>
      /\ installation' \in {"ACTIVE", "DISABLED"}
  BY DEF SetInstallation, vars, IndInv, TypeOK
<1>2. TypeOK'
  BY <1>1 DEF IndInv, TypeOK
<1>3. SingleOwner' /\ AttemptsAgree' /\ IdleSilent'
  BY <1>1 DEF IndInv, SingleOwner, AttemptsAgree, IdleSilent
<1>4. PostsCounted'
  BY <1>1 DEF IndInv, PostsCounted, IsNext
<1>5. DeliveredWasReceived' /\ BoundedAttempts' /\ StatusBounds'
  BY <1>1 DEF IndInv, DeliveredWasReceived, BoundedAttempts, StatusBounds
<1> QED
  BY <1>2, <1>3, <1>4, <1>5 DEF IndInv

-----------------------------------------------------------------------------
(***************************************************************************)
(* The theorems.                                                           *)
(***************************************************************************)

\* The inductive invariant holds in every reachable state.
THEOREM Invariance == Spec => []IndInv
<1>1. Init => IndInv
  <2> SUFFICES ASSUME Init PROVE IndInv
    OBVIOUS
  <2>1. TypeOK
    BY DEF Init, TypeOK, Row, Statuses
  <2>2. SingleOwner /\ AttemptsAgree /\ PostsCounted /\ IdleSilent
    BY DEF Init, SingleOwner, AttemptsAgree, PostsCounted, IdleSilent
  <2>3. DeliveredWasReceived /\ BoundedAttempts /\ StatusBounds
    BY OutboxAssumption
    DEF Init, DeliveredWasReceived, BoundedAttempts, StatusBounds
  <2> QED
    BY <2>1, <2>2, <2>3 DEF IndInv
<1>2. IndInv /\ [Next]_vars => IndInv'
  BY EnqueueStep, ClaimStep, PostStep, RecordStep, RecordLostStep, StopStep,
     TickStep, ReplayStep, SetInstallationStep DEF Next
<1> QED
  BY <1>1, <1>2, PTL DEF Spec

\* Every reachable state is typed.
THEOREM TypeCorrect == Spec => []TypeOK
<1>1. IndInv => TypeOK
  BY DEF IndInv
<1> QED
  BY Invariance, <1>1, PTL

\* No two workers ever hold one event, and a held event is DELIVERING.
THEOREM OwnersAreUnique == Spec => []SingleOwner
<1>1. IndInv => SingleOwner
  BY DEF IndInv
<1> QED
  BY Invariance, <1>1, PTL

\* What is marked DELIVERED has been accepted by Scholaroscope.
THEOREM NoFalseDelivery == Spec => []DeliveredWasReceived
<1>1. IndInv => DeliveredWasReceived
  BY DEF IndInv
<1> QED
  BY Invariance, <1>1, PTL

\* Attempts are bounded by maxAttempts and one more for every replay.
THEOREM AttemptsAreBounded == Spec => []BoundedAttempts
<1>1. IndInv => BoundedAttempts
  BY DEF IndInv
<1> QED
  BY Invariance, <1>1, PTL

\* A delivered event is left alone for ever.
THEOREM DeliveryIsFinal == Spec => DeliveredFinal
<1> DEFINE Left == \A e \in Events : rows[e].status = "DELIVERED" =>
                     rows'[e] = rows[e] /\ received'[e] = received[e]
<1>1. IndInv /\ [Next]_vars => [Left]_vars
  <2> SUFFICES ASSUME IndInv, [Next]_vars, NEW f \in Events,
                      rows[f].status = "DELIVERED"
               PROVE  rows'[f] = rows[f] /\ received'[f] = received[f]
    OBVIOUS
  <2>0. /\ \A w \in Workers : f \notin claimed[w]
        /\ ~rows[f].waiting
    BY DEF IndInv, SingleOwner, StatusBounds
  <2>1. CASE UNCHANGED vars
    BY <2>1 DEF vars
  <2>2. ASSUME NEW w \in Workers, claim(w)
        PROVE  rows'[f] = rows[f] /\ received' = received
    BY <2>2 DEF claim, Batches, claimable
  <2>3. ASSUME NEW w \in Workers, NEW e \in Events,
               Post(w, e) \/ Record(w, e) \/ RecordLost(w, e)
        PROVE  rows'[f] = rows[f] /\ received'[f] = received[f]
    <3>1. e # f
      BY <2>0, <2>3 DEF Post, Record, RecordLost, IsNext
    <3> QED
      BY <2>3, <3>1 DEF Post, Record, RecordLost, IndInv, TypeOK
  <2>4. ASSUME NEW e \in Events, Enqueue(e) \/ Tick(e) \/ Replay(e)
        PROVE  rows'[f] = rows[f] /\ received' = received
    <3>1. e # f
      BY <2>0, <2>4 DEF Enqueue, Tick, Replay, replayable
    <3> QED
      BY <2>4, <3>1 DEF Enqueue, Tick, Replay, IndInv, TypeOK
  <2>5. CASE SetInstallation \/ \E w \in Workers : Stop(w)
    BY <2>5 DEF SetInstallation, Stop
  <2> QED
    BY <2>1, <2>2, <2>3, <2>4, <2>5 DEF Next
<1> QED
  BY Invariance, <1>1, PTL DEF Spec, DeliveredFinal
=============================================================================
