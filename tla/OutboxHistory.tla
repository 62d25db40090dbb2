---------------------------- MODULE OutboxHistory ----------------------------
(***************************************************************************)
(* OutboxPayout with one more history variable: how many refunds of each   *)
(* event were rolled back.  Nothing in the code repeats such a refund, so  *)
(* the user is out of the amount once for each, and the variable says by   *)
(* how much the ledger and SQRIL disagree.                                 *)
(***************************************************************************)
EXTENDS OutboxPayout

VARIABLE
  unreturned   \* unreturned[e]: refunds of e rolled back, and never made

\* A refund transaction leaves no entry: its error text or a concurrent
\* transaction of the ledger aborts it, or it is lost.
RollsBack(w) == pc[w] = "refund" /\ pc'[w] = "record" /\ refunds' = refunds

HistoryInit == Init /\ unreturned = [e \in Events |-> 0]

HistoryNext ==
  /\ Next
  /\ unreturned' = [e \in Events |->
       unreturned[e] + (IF \E w \in Workers : event[w] = e /\ RollsBack(w) THEN 1 ELSE 0)]

HistorySpec ==
  /\ HistoryInit
  /\ [][HistoryNext]_<<vars, unreturned>>
  /\ Fairness

-----------------------------------------------------------------------------
(* What is checked.                                                        *)

Taken(e) == debits[e] - refunds[e]

\* Without crashes and lost messages, once no worker has it in hand, an event
\* has taken its amount from the user once if SQRIL has the payout and the
\* transaction does not say FAILED, and once more for every refund that was
\* rolled back by its error text or by another worker's transaction.
LedgerAgrees ==
  faults = 0 =>
    \A e \in Events : ~InHand(e) =>
      Taken(e) = unreturned[e] + (IF sqril[e] = "none" \/ tstatus[e] = "FAILED" THEN 0 ELSE 1)

Saga == INSTANCE PayoutSaga WITH
  Payouts <- Events,
  reserved <- [e \in Events |-> Taken(e) - unreturned[e]],
  provider <- sqril,
  told <- tstatus,
  broken <- faults > 0

\* Without crashes and lost messages, workers, webhook, payload-worker and
\* pruner together make of each event the saga of PayoutSaga: step by step, also
\* while a worker has it in hand, over refused calls, serialization conflicts,
\* retries and verdicts that overtake them.
KeepsSaga == Saga!Spec

=============================================================================
