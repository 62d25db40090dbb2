----------------------------- MODULE OutboxPayout -----------------------------
(***************************************************************************)
(* Payouts through the transactional outbox.  OutboxWorkers claim payout   *)
(* events of transaction_outbox, debit the user's ledger, call SQRIL       *)
(* outside any transaction, then finalise or refund, each in a transaction *)
(* of its own.  SQRIL reports the final outcome by webhook; a pruner       *)
(* deletes processed rows; payload-worker drains the same table.           *)
(*                                                                         *)
(* An event carries one transaction, so e names both rows.  The rows of    *)
(* ledger_entries appear as the number of debits and refunds of e and as   *)
(* balance[u], the SUM(amount) the code computes under the profile lock.   *)
(***************************************************************************)
EXTENDS Integers, FiniteSets

CONSTANTS
  Events,         \* payout events, each with its transaction
  Users,
  Workers,        \* OutboxWorker processes
  NoEvent,        \* an idle worker's event
  Owner,          \* Owner[e]: the user who pays
  Amount,         \* Amount[e]: satangs
  Opening,        \* Opening[u]: the ledger balance before any payout
  RetryLimit,     \* retries before an event is FAILED (5 in the code)
  PayloadRetries, \* payload-worker's MaxRetries (3 in the code)
  ErrorTexts,     \* kinds of error text a failed payout call may carry
  MaxFaults       \* bound: crashes, lost database calls and lost replies

ASSUME EventAssumption == NoEvent \notin Events /\ Owner \in [Events -> Users]
ASSUME MoneyAssumption == Amount \in [Events -> Nat \ {0}] /\ Opening \in [Users -> Nat]
ASSUME LimitAssumption ==
  /\ RetryLimit \in Nat /\ PayloadRetries \in Nat /\ MaxFaults \in Nat
  /\ PayloadRetries <= RetryLimit + 1
ASSUME TextAssumption == ErrorTexts \subseteq {"plain", "mangled"}

VARIABLES
  ostatus,    \* transaction_outbox.status, "deleted" once pruned
  retries,    \* transaction_outbox.retry_count
  tstatus,    \* transactions.status
  external,   \* events whose transaction has an external_id
  balance,    \* SUM(ledger_entries.amount) of each user
  debits,     \* debits[e]: debit entries of the transaction of e
  refunds,    \* refunds[e]: refund entries of the transaction of e
  sqril,      \* SQRIL's own record of the payout, keyed by the event id
  pc,         \* pc[w]: where worker w stands in its event
  held,       \* held[w]: events of its batch not recorded yet
  seen,       \* seen[w][e]: the retry_count w read when it claimed e
  event,      \* event[w]: the event it is handling
  outcome,    \* outcome[w]: what the step before left in its local variables
  faults

vars == <<ostatus, retries, tstatus, external, balance, debits, refunds, sqril,
          pc, held, seen, event, outcome, faults>>

outbox == <<ostatus, retries>>
ledger == <<balance, debits, refunds>>
txn == <<tstatus, external>>
batch == <<held, seen>>

\* What ExecutePayout may leave a worker with: a status, or an error.  The text
\* of a "mangled" error is no JSON string when put between quotes: that of every
\* net/http error (Post "https://...") and non-2xx reply with a JSON body.
Replies == {"PROCESSING", "SUCCESS", "FAILED"}

Init ==
  /\ ostatus = [e \in Events |-> "PENDING"]
  /\ retries = [e \in Events |-> 0]
  /\ tstatus = [e \in Events |-> "PENDING"]
  /\ external = {}
  /\ balance = Opening
  /\ debits = [e \in Events |-> 0]
  /\ refunds = [e \in Events |-> 0]
  /\ sqril = [e \in Events |-> "none"]
  /\ pc = [w \in Workers |-> "next"]
  /\ held = [w \in Workers |-> {}]
  /\ seen = [w \in Workers |-> [e \in Events |-> 0]]
  /\ event = [w \in Workers |-> NoEvent]
  /\ outcome = [w \in Workers |-> "none"]
  /\ faults = 0

Fault == faults < MaxFaults /\ faults' = faults + 1

-----------------------------------------------------------------------------
(* Ledger entries.                                                         *)

Debit(e) ==
  /\ debits' = [debits EXCEPT ![e] = @ + 1]
  /\ balance' = [balance EXCEPT ![Owner[e]] = @ - Amount[e]]
  /\ UNCHANGED refunds

Refund(e) ==
  /\ refunds' = [refunds EXCEPT ![e] = @ + 1]
  /\ balance' = [balance EXCEPT ![Owner[e]] = @ + Amount[e]]
  /\ UNCHANGED debits

-----------------------------------------------------------------------------
(* OutboxWorker.processBatch.                                              *)

ClaimableAndTaken == {"PENDING", "RETRY_PENDING", "PROCESSING"}   \* mutant
ClaimableOnce == {"PENDING"}   \* mutant
Claimable == {"PENDING", "RETRY_PENDING"}

\* Rows past their backoff and not locked by another worker, at most 10: some
\* of the claimable rows, marked PROCESSING in the same transaction.
Claim(w) ==
  /\ pc[w] = "next" /\ held[w] = {}
  /\ \E claimed \in SUBSET {e \in Events : ostatus[e] \in Claimable} :
       /\ claimed # {}
       /\ held' = [held EXCEPT ![w] = claimed]
       /\ seen' = [seen EXCEPT ![w] = [e \in Events |-> IF e \in claimed THEN retries[e] ELSE 0]]
       /\ ostatus' = [e \in Events |-> IF e \in claimed THEN "PROCESSING" ELSE ostatus[e]]
       /\ retries' = [e \in Events |-> retries[e] + (IF e \in claimed THEN 1 ELSE 0)]
  /\ UNCHANGED <<ledger, txn, sqril, pc, event, outcome, faults>>

Goto(w, label, result) ==
  /\ pc' = [pc EXCEPT ![w] = label]
  /\ outcome' = [outcome EXCEPT ![w] = result]

\* The status check of processPromptPayPayout; a lookup that fails goes on.
AlreadyPaid(e) == tstatus[e] = "SUCCESS"

ReserveOnce(e) == IF debits[e] > 0 THEN "call" ELSE "deduct"   \* mutant
AfterCheck(e) == "deduct"

Check(w, e) ==
  /\ pc[w] = "next" /\ e \in held[w]
  /\ event' = [event EXCEPT ![w] = e]
  /\ \/ AlreadyPaid(e) /\ Goto(w, "record", "done") /\ UNCHANGED faults
     \/ ~AlreadyPaid(e) /\ Goto(w, AfterCheck(e), "none") /\ UNCHANGED faults
     \/ AlreadyPaid(e) /\ Fault /\ Goto(w, AfterCheck(e), "none")
  /\ UNCHANGED <<outbox, ledger, txn, sqril, batch>>

CoveredByOpening(e) == Opening[Owner[e]] >= Amount[e]   \* mutant
Covered(e) == balance[Owner[e]] >= Amount[e]

\* The serializable transaction behind the profile lock: one step.
Deduct(w) ==
  /\ pc[w] = "deduct"
  /\ Covered(event[w])
  /\ Debit(event[w])
  /\ \/ Goto(w, "call", "none") /\ UNCHANGED faults
     \/ Fault /\ Goto(w, "record", "error")    \* committed, reply lost
  /\ UNCHANGED <<outbox, txn, sqril, batch, event>>

\* Insufficient balance: the transaction fails, and the event with an error.
Insufficient(w) ==
  /\ pc[w] = "deduct"
  /\ ~Covered(event[w])
  /\ \/ tstatus' = [tstatus EXCEPT ![event[w]] = "FAILED"] /\ UNCHANGED faults
     \/ Fault /\ UNCHANGED tstatus
  /\ Goto(w, "record", "error")
  /\ UNCHANGED <<outbox, ledger, external, sqril, batch, event>>

\* Malformed payload, no profile, serialization failure: nothing was written.
DeductFails(w) ==
  /\ pc[w] = "deduct"
  /\ Goto(w, "record", "error")
  /\ UNCHANGED <<outbox, ledger, txn, sqril, batch, event, faults>>

-----------------------------------------------------------------------------
(* ExecutePayout: SQRIL executes an idempotency key once and answers later *)
(* calls with what became of it.                                           *)

Call(w) ==
  /\ pc[w] = "call"
  /\ \E reply \in Replies :
       /\ sqril[event[w]] \in {"none", reply}
       /\ sqril' = [sqril EXCEPT ![event[w]] = reply]
       /\ Goto(w, "finalize", reply)
  /\ UNCHANGED <<outbox, ledger, txn, batch, event, faults>>

\* Breaker open, pool wallet short, no SQRIL tx id, or a refusal by SQRIL: the
\* payout was not executed by this call.
CallRefused(w) ==
  /\ pc[w] = "call"
  /\ \E error \in ErrorTexts : Goto(w, "refund", error)
  /\ UNCHANGED <<outbox, ledger, txn, sqril, batch, event, faults>>

\* SQRIL took the call and the answer was lost: a timeout of the HTTP client
\* ("mangled"), a body cut short ("plain").
CallUnanswered(w) ==
  /\ pc[w] = "call"
  /\ Fault
  /\ \E reply \in Replies, error \in ErrorTexts :
       /\ sqril[event[w]] \in {"none", reply}
       /\ sqril' = [sqril EXCEPT ![event[w]] = reply]
       /\ Goto(w, "refund", error)
  /\ UNCHANGED <<outbox, ledger, txn, batch, event>>

-----------------------------------------------------------------------------
\* The refund transaction writes the error text into provider_metadata with
\* jsonb_set: a mangled text aborts it, entry and all.
RefundAfterError(w) ==
  /\ pc[w] = "refund"
  /\ IF outcome[w] = "plain"
     THEN Refund(event[w]) /\ tstatus' = [tstatus EXCEPT ![event[w]] = "FAILED"]
     ELSE UNCHANGED <<ledger, tstatus>>
  /\ Goto(w, "record", "error")
  /\ UNCHANGED <<outbox, external, sqril, batch, event, faults>>

\* It is serializable too: its snapshot predates its wait for the profile lock,
\* so PostgreSQL aborts it (40001) when a deduct or refund of another worker
\* commits meanwhile on the same user's ledger, or near it, predicate locks
\* being of pages.  Nothing repeats it.
RefundConflicts(w) ==
  /\ pc[w] = "refund"
  /\ \E v \in Workers \ {w} : event[v] # NoEvent
  /\ Goto(w, "record", "error")
  /\ UNCHANGED <<outbox, ledger, txn, sqril, batch, event, faults>>

\* The connection is lost before the commit.
RefundLost(w) ==
  /\ pc[w] = "refund"
  /\ Fault
  /\ Goto(w, "record", "error")
  /\ UNCHANGED <<outbox, ledger, txn, sqril, batch, event>>

FinalizeKeepsMoney(e, reply) ==   \* mutant
  /\ tstatus' = [tstatus EXCEPT ![e] = reply]
  /\ external' = external \union {e}
  /\ UNCHANGED ledger

FinalizeSettled(e, reply) ==   \* mutant
  /\ tstatus' = [tstatus EXCEPT ![e] = IF reply = "SUCCESS" THEN "SETTLED" ELSE reply]
  /\ external' = external \union {e}
  /\ IF reply = "FAILED" THEN Refund(e) ELSE UNCHANGED ledger

\* The finalize transaction: status, external_id and, if SQRIL says FAILED,
\* the refund.  It does not look at the status it overwrites.
FinalizeTx(e, reply) ==
  /\ tstatus' = [tstatus EXCEPT ![e] = reply]
  /\ external' = external \union {e}
  /\ IF reply = "FAILED" THEN Refund(e) ELSE UNCHANGED ledger

Finalize(w) ==
  /\ pc[w] = "finalize"
  /\ FinalizeTx(event[w], outcome[w])
  /\ \/ Goto(w, "record", "done") /\ UNCHANGED faults
     \/ Fault /\ Goto(w, "record", "error")    \* committed, reply lost
  /\ UNCHANGED <<outbox, sqril, batch, event>>

FinalizeLost(w) ==
  /\ pc[w] = "finalize"
  /\ Fault
  /\ Goto(w, "record", "error")
  /\ UNCHANGED <<outbox, ledger, txn, sqril, batch, event>>

-----------------------------------------------------------------------------
AfterFailureNeverStops(n) == "RETRY_PENDING"   \* mutant
\* handleFailureInTx, given the retry_count read at the claim.
AfterFailure(n) == IF n >= RetryLimit THEN "FAILED" ELSE "RETRY_PENDING"

\* The event leaves the batch; a lost update leaves the row PROCESSING.
Record(w) ==
  /\ pc[w] = "record"
  /\ LET e == event[w] IN
       /\ \/ /\ ostatus' = [ostatus EXCEPT ![e] =
                              IF outcome[w] = "done" THEN "PROCESSED"
                              ELSE AfterFailure(seen[w][e])]
             /\ UNCHANGED faults
          \/ Fault /\ UNCHANGED ostatus
       /\ held' = [held EXCEPT ![w] = @ \ {e}]
  /\ event' = [event EXCEPT ![w] = NoEvent]
  /\ Goto(w, "next", "none")
  /\ UNCHANGED <<retries, ledger, txn, sqril, seen>>

Crash(w) ==
  /\ held[w] # {}
  /\ Fault
  /\ held' = [held EXCEPT ![w] = {}]
  /\ event' = [event EXCEPT ![w] = NoEvent]
  /\ Goto(w, "next", "none")
  /\ UNCHANGED <<outbox, ledger, txn, sqril, seen>>

Handle(w) ==
  \/ \E e \in Events : Check(w, e)
  \/ Deduct(w) \/ Insufficient(w) \/ DeductFails(w)
  \/ Call(w) \/ CallRefused(w) \/ CallUnanswered(w)
  \/ RefundAfterError(w) \/ RefundConflicts(w) \/ RefundLost(w)
  \/ Finalize(w) \/ FinalizeLost(w)
  \/ Record(w)

-----------------------------------------------------------------------------
\* runPruner: rows processed more than a minute ago.
Prune ==
  /\ \E old \in SUBSET {e \in Events : ostatus[e] = "PROCESSED"} :
       /\ old # {}
       /\ ostatus' = [e \in Events |-> IF e \in old THEN "deleted" ELSE ostatus[e]]
  /\ UNCHANGED <<retries, ledger, txn, sqril, pc, batch, event, outcome, faults>>

\* payload-worker: one transaction over PENDING rows.  For a payout event it
\* publishes the payload to Redis, which may fail, and does nothing else.
PayloadBatch ==
  /\ \E taken \in SUBSET {e \in Events : ostatus[e] = "PENDING" /\ retries[e] < PayloadRetries} :
       \E published \in SUBSET taken :
         /\ taken # {}
         /\ retries' = [e \in Events |-> retries[e] + (IF e \in taken \ published THEN 1 ELSE 0)]
         /\ ostatus' = [e \in Events |->
              IF e \in published THEN "PROCESSED"
              ELSE IF e \in taken /\ retries[e] + 1 >= PayloadRetries THEN "FAILED"
              ELSE ostatus[e]]
  /\ UNCHANGED <<ledger, txn, sqril, pc, batch, event, outcome, faults>>

-----------------------------------------------------------------------------
\* SQRIL decides a payout it is still processing.
SqrilDecides(e) ==
  /\ sqril[e] = "PROCESSING"
  /\ \E verdict \in {"SUCCESS", "FAILED"} : sqril' = [sqril EXCEPT ![e] = verdict]
  /\ UNCHANGED <<outbox, ledger, txn, pc, batch, event, outcome, faults>>

FinalForgetsFailed == {"SUCCESS"}   \* mutant
FinalTooEarly == {"PROCESSING", "SUCCESS", "FAILED"}   \* mutant
\* What HandleSqrilWebhook answers with "Already processed".
Final == {"SUCCESS", "FAILED"}

\* HandleSqrilWebhook: SQRIL reports its verdict, any number of times.  Until
\* finalize has stored the external_id the row is not found.
SqrilWebhook(e) ==
  /\ sqril[e] \in {"SUCCESS", "FAILED"}
  /\ e \in external
  /\ tstatus[e] \notin Final
  /\ tstatus' = [tstatus EXCEPT ![e] = sqril[e]]
  /\ IF sqril[e] = "FAILED" THEN Refund(e) ELSE UNCHANGED ledger
  /\ UNCHANGED <<outbox, external, sqril, pc, batch, event, outcome, faults>>

-----------------------------------------------------------------------------
Next ==
  \/ \E w \in Workers : Claim(w) \/ Handle(w) \/ Crash(w)
  \/ \E e \in Events : SqrilDecides(e) \/ SqrilWebhook(e)
  \/ Prune
  \/ PayloadBatch

Spec == Init /\ [][Next]_vars

\* Workers poll every 500 ms and run their batch to its end; SQRIL decides, and
\* repeats its webhook until the transaction takes it.
Fairness ==
  /\ \A w \in Workers : WF_vars(Claim(w) \/ Handle(w))
  /\ \A e \in Events : WF_vars(SqrilDecides(e)) /\ WF_vars(SqrilWebhook(e))

FairSpec == Spec /\ Fairness

-----------------------------------------------------------------------------
(* What is checked.                                                        *)

TypeOK ==
  /\ ostatus \in [Events -> {"PENDING", "RETRY_PENDING", "PROCESSING", "PROCESSED",
                             "FAILED", "deleted"}]
  /\ retries \in [Events -> Nat]
  /\ tstatus \in [Events -> Replies \union {"PENDING"}]
  /\ external \subseteq Events
  /\ balance \in [Users -> Int]
  /\ debits \in [Events -> Nat]
  /\ refunds \in [Events -> Nat]
  /\ sqril \in [Events -> Replies \union {"none"}]
  /\ pc \in [Workers -> {"next", "deduct", "call", "refund", "finalize", "record"}]
  /\ held \in [Workers -> SUBSET Events]
  /\ seen \in [Workers -> [Events -> Nat]]
  /\ event \in [Workers -> Events \union {NoEvent}]
  /\ outcome \in [Workers -> Replies \union ErrorTexts \union {"none", "done", "error"}]
  /\ faults \in Nat

\* No user is ever overdrawn, however many workers pay out of one balance: the
\* balance is summed and debited behind the same profile lock.
NeverOverdrawn == \A u \in Users : balance[u] >= 0

\* No transaction gives back more than it took, whatever finalize, the refund
\* after an error and redelivered FAILED webhooks each decide to refund.
NoExtraRefund == \A e \in Events : refunds[e] <= debits[e]

\* SKIP LOCKED and the PROCESSING mark give an event to one worker at a time,
\* and payload-worker and pruner leave it alone meanwhile.
HeldByOne ==
  \A v, w \in Workers : \A e \in held[v] :
    ostatus[e] = "PROCESSING" /\ (e \in held[w] => v = w)

\* An event is tried RetryLimit + 1 times at the most, each try debiting once
\* at the most: the damage of a failing provider is bounded.
TriesBounded ==
  \A e \in Events : debits[e] <= retries[e] /\ retries[e] <= RetryLimit + 1

\* SQRIL executes a payout only while a debit of it stands in the ledger.
PaidFromReserve ==
  [][\A e \in Events : sqril[e] = "none" /\ sqril'[e] # "none" => debits[e] > refunds[e]]_vars

InHand(e) == \E w \in Workers : e \in held[w]

\* Once no worker has it in hand, an event has taken its amount from the user
\* exactly if SQRIL has the payout and the transaction does not say FAILED:
\* what the refund branches of worker and webhook are for.
LedgerMatchesSqril ==
  \A e \in Events : ~InHand(e) =>
    debits[e] - refunds[e] = IF sqril[e] = "none" \/ tstatus[e] = "FAILED" THEN 0 ELSE 1

\* While nothing is lost every event comes to an end, whatever SQRIL refuses.
EventEnds ==
  \A e \in Events :
    ostatus[e] = "PENDING" ~> ostatus[e] \in {"PROCESSED", "FAILED", "deleted"} \/ faults > 0

\* A payout SQRIL took but had not decided ends as SUCCESS or FAILED even when
\* the verdict came before the external_id was stored and was answered 404, or
\* the worker died meanwhile.
VerdictArrives ==
  \A e \in Events : tstatus[e] = "PROCESSING" ~> tstatus[e] \in {"SUCCESS", "FAILED"}

=============================================================================
