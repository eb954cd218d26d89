------------------------------- MODULE Outbox -------------------------------
(***************************************************************************)
(* The outbox of one installation and the workers that deliver it to       *)
(* Scholaroscope: claim a batch, post its events one after the other, and  *)
(* record each answer.  Events are numbered in the order of created_at.    *)
(*                                                                         *)
(* The UPDATEs that record an answer look at no status, and their errors   *)
(* are dropped; a worker that stops forgets what it has claimed.           *)
(***************************************************************************)
EXTENDS Naturals, FiniteSets

CONSTANTS
  Workers,       \* outbox-worker processes
  MaxEvents,     \* bound: events ever written to the outbox
  BatchSize,     \* batchSize
  MaxAttempts,   \* maxAttempts
  MaxReplays,    \* bound: replays of an event
  MaxLosses      \* bound: worker stops and UPDATEs that fail

ASSUME OutboxAssumption ==
  /\ MaxEvents \in Nat
  /\ BatchSize \in Nat \ {0}
  /\ MaxAttempts \in Nat \ {0}
  /\ MaxReplays \in Nat
  /\ MaxLosses \in Nat

VARIABLES
  rows,          \* outbox_event: status, attempts, next_retry_at in the future
  installation,  \* status of integration_installation
  claimed,       \* events of each worker's batch that are not yet recorded
  held,          \* Attempts of each claimed event in the worker's memory
  answer,        \* outcome of the worker's post that is not yet recorded
  received,      \* how often Scholaroscope accepted each event
  replays,       \* how often each event was replayed
  losses         \* stops and failed UPDATEs so far

vars == <<rows, installation, claimed, held, answer, received, replays, losses>>

Events == 1..MaxEvents
Statuses == {"ABSENT", "PENDING", "DELIVERING", "DELIVERED", "DEAD_LETTER"}
Row == [status : Statuses, attempts : Nat, waiting : BOOLEAN]

\* "accepted" is a 2xx status, "refused" one of the six statuses that are not
\* retried or a missing callback URL, "failed" everything else.
Outcome == {"accepted", "refused", "failed"}
NoAnswer == "none"

Init ==
  /\ rows = [e \in Events |->
               [status |-> "ABSENT", attempts |-> 0, waiting |-> FALSE]]
  /\ installation = "ACTIVE"
  /\ claimed = [w \in Workers |-> {}]
  /\ held = [w \in Workers |-> [e \in Events |-> 0]]
  /\ answer = [w \in Workers |-> NoAnswer]
  /\ received = [e \in Events |-> 0]
  /\ replays = [e \in Events |-> 0]
  /\ losses = 0

-----------------------------------------------------------------------------
\* publishVersion commits its event; numbers follow created_at.
Enqueue(e) ==
  /\ rows[e].status = "ABSENT"
  /\ \A d \in Events : d < e => rows[d].status # "ABSENT"
  /\ rows' = [rows EXCEPT ![e].status = "PENDING"]
  /\ UNCHANGED <<installation, claimed, held, answer, received, replays, losses>>

Mut_claimable(e) ==
  /\ rows[e].status \in {"PENDING", "DELIVERING"}
  /\ ~rows[e].waiting
  /\ installation = "ACTIVE"

claimable(e) ==
  /\ rows[e].status = "PENDING"
  /\ ~rows[e].waiting
  /\ installation = "ACTIVE"

\* The first BatchSize claimable events in the order of created_at.
Batches ==
  LET due == {e \in Events : claimable(e)} IN
  {b \in SUBSET due :
     /\ b # {}
     /\ Cardinality(b) <= BatchSize
     /\ b # due => Cardinality(b) = BatchSize
     /\ \A e \in b, f \in due \ b : e < f}

ClaimedRow(row) ==
  [row EXCEPT !.status = "DELIVERING", !.attempts = @ + 1]

claim(w) ==
  /\ claimed[w] = {}
  /\ \E batch \in Batches :
       /\ rows' = [e \in Events |->
                     IF e \in batch THEN ClaimedRow(rows[e]) ELSE rows[e]]
       /\ claimed' = [claimed EXCEPT ![w] = batch]
       /\ held' = [held EXCEPT ![w] = [e \in Events |->
                     IF e \in batch THEN rows[e].attempts ELSE 0]]
  /\ UNCHANGED <<installation, answer, received, replays, losses>>

\* DispatchOnce works through its batch in the order it was read.
IsNext(w, e) == e \in claimed[w] /\ \A f \in claimed[w] : e <= f

\* The POST: Scholaroscope may accept the event although the answer is lost.
Post(w, e) ==
  /\ IsNext(w, e)
  /\ answer[w] = NoAnswer
  /\ \E outcome \in Outcome, accepted \in BOOLEAN :
       /\ outcome = "accepted" => accepted
       /\ outcome = "refused" => ~accepted
       /\ answer' = [answer EXCEPT ![w] = outcome]
       /\ received' = [received EXCEPT ![e] = IF accepted THEN @ + 1 ELSE @]
  /\ UNCHANGED <<rows, installation, claimed, held, replays, losses>>

\* The worker turns to the next event of its batch.
Done(w, e) ==
  /\ claimed' = [claimed EXCEPT ![w] = @ \ {e}]
  /\ held' = [held EXCEPT ![w][e] = 0]
  /\ answer' = [answer EXCEPT ![w] = NoAnswer]

DeadLettered(row) == [row EXCEPT !.status = "DEAD_LETTER", !.waiting = FALSE]

Mut_retry(row, attempts) ==
  IF attempts >= MaxAttempts
  THEN DeadLettered(row)
  ELSE [row EXCEPT !.status = "PENDING", !.waiting = TRUE]

Mut_retryKeepsStatus(row, attempts) ==
  IF attempts + 1 >= MaxAttempts
  THEN DeadLettered(row)
  ELSE [row EXCEPT !.waiting = TRUE]

\* attempts is event.Attempts, read before the claim counted this attempt.
retry(row, attempts) ==
  IF attempts + 1 >= MaxAttempts
  THEN DeadLettered(row)
  ELSE [row EXCEPT !.status = "PENDING", !.waiting = TRUE]

Mut_RecordedRow(outcome, row, attempts) ==
  IF outcome = "refused" THEN retry(row, attempts)
  ELSE [row EXCEPT !.status = "DELIVERED", !.waiting = FALSE]

RecordedRow(outcome, row, attempts) ==
  CASE outcome = "accepted" ->
         [row EXCEPT !.status = "DELIVERED", !.waiting = FALSE]
    [] outcome = "refused" -> DeadLettered(row)
    [] outcome = "failed" -> retry(row, attempts)

\* The UPDATE after the answer: by id alone, whatever the row's status is.
Record(w, e) ==
  /\ IsNext(w, e)
  /\ answer[w] # NoAnswer
  /\ rows' = [rows EXCEPT ![e] = RecordedRow(answer[w], @, held[w][e])]
  /\ Done(w, e)
  /\ UNCHANGED <<installation, received, replays, losses>>

\* The UPDATE fails, its error is dropped, and the batch goes on.
RecordLost(w, e) ==
  /\ losses < MaxLosses
  /\ IsNext(w, e)
  /\ answer[w] # NoAnswer
  /\ losses' = losses + 1
  /\ Done(w, e)
  /\ UNCHANGED <<rows, installation, received, replays>>

\* SIGTERM or a crash: the process restarts with an empty batch.
Stop(w) ==
  /\ losses < MaxLosses
  /\ claimed[w] # {}
  /\ losses' = losses + 1
  /\ claimed' = [claimed EXCEPT ![w] = {}]
  /\ held' = [held EXCEPT ![w] = [e \in Events |-> 0]]
  /\ answer' = [answer EXCEPT ![w] = NoAnswer]
  /\ UNCHANGED <<rows, installation, received, replays>>

\* next_retry_at passes.
Tick(e) ==
  /\ rows[e].waiting
  /\ rows' = [rows EXCEPT ![e].waiting = FALSE]
  /\ UNCHANGED <<installation, claimed, held, answer, received, replays, losses>>

replayable(status) == status = "DEAD_LETTER"

Replay(e) ==
  /\ replays[e] < MaxReplays
  /\ replayable(rows[e].status)
  /\ rows' = [rows EXCEPT ![e].status = "PENDING", ![e].waiting = FALSE]
  /\ replays' = [replays EXCEPT ![e] = @ + 1]
  /\ UNCHANGED <<installation, claimed, held, answer, received, losses>>

\* DisableWorkspace, and a bootstrap that makes the installation ACTIVE again.
SetInstallation ==
  /\ installation' \in {"ACTIVE", "DISABLED"} \ {installation}
  /\ UNCHANGED <<rows, claimed, held, answer, received, replays, losses>>

-----------------------------------------------------------------------------
Next ==
  \/ \E w \in Workers : claim(w) \/ Stop(w)
  \/ \E w \in Workers, e \in Events :
       Post(w, e) \/ Record(w, e) \/ RecordLost(w, e)
  \/ \E e \in Events : Enqueue(e) \/ Tick(e) \/ Replay(e)
  \/ SetInstallation

Spec == Init /\ [][Next]_vars

\* A worker polls for ever and posts with a timeout; time passes.
Fairness ==
  /\ \A w \in Workers :
       /\ WF_vars(claim(w))
       /\ WF_vars(\E e \in Events : Post(w, e))
       /\ WF_vars(\E e \in Events : Record(w, e))
  /\ \A e \in Events : WF_vars(Tick(e))

FairSpec == Spec /\ Fairness

-----------------------------------------------------------------------------
\* Every row and every worker's memory has its shape.
TypeOK ==
  /\ rows \in [Events -> Row]
  /\ installation \in {"ACTIVE", "DISABLED"}
  /\ claimed \in [Workers -> SUBSET Events]
  /\ held \in [Workers -> [Events -> Nat]]
  /\ answer \in [Workers -> Outcome \cup {NoAnswer}]
  /\ received \in [Events -> Nat]
  /\ replays \in [Events -> Nat]
  /\ losses \in Nat

\* claim hands every event to at most one worker, and the event stays
\* DELIVERING until that worker records it: this is what makes the unguarded
\* UPDATEs of deliver, retry and deadLetter harmless.
SingleOwner ==
  \A w \in Workers : \A e \in claimed[w] :
    /\ rows[e].status = "DELIVERING"
    /\ \A x \in Workers \ {w} : e \notin claimed[x]

\* The attempt retry decides about is the one the row has counted, although
\* Attempts was read before the claim added one to the row.
AttemptsAgree ==
  \A w \in Workers : \A e \in claimed[w] : held[w][e] + 1 = rows[e].attempts

\* deliver marks DELIVERED only what Scholaroscope has accepted.
DeliveredWasReceived ==
  \A e \in Events : rows[e].status = "DELIVERED" => received[e] > 0

\* maxAttempts bounds the attempts, and each Replay grants exactly one more:
\* the counter is not reset.  An event waiting for a retry is below it.
BoundedAttempts ==
  \A e \in Events :
    /\ rows[e].attempts <= MaxAttempts + replays[e]
    /\ received[e] <= rows[e].attempts
    /\ rows[e].waiting => rows[e].attempts < MaxAttempts

\* A delivered event is never posted or reopened again, by no worker and no
\* Replay.
DeliveredFinal ==
  [][\A e \in Events : rows[e].status = "DELIVERED" =>
       rows'[e] = rows[e] /\ received'[e] = received[e]]_vars

\* No worker will ever record the outcome of the event, and none claims it.
Stranded(e) ==
  /\ losses > 0
  /\ rows[e].status = "DELIVERING"
  /\ \A w \in Workers : e \notin claimed[w]

\* While the installation stays active every event reaches the end of its
\* delivery: accepted, or given up as a dead letter that tooling can replay.
\* Only an event that was in the hands of a worker that stopped, or whose
\* UPDATE failed, is left behind; it takes no other event with it (Run,
\* claim, retry).
EventuallySettled ==
  <>[](installation = "ACTIVE") =>
    \A e \in Events :
      (rows[e].status \in {"PENDING", "DELIVERING"}) ~>
        (rows[e].status \in {"DELIVERED", "DEAD_LETTER"} \/ Stranded(e))
=============================================================================
