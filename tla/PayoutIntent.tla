----------------------------- MODULE PayoutIntent -----------------------------
(***************************************************************************)
(* The life of a payout intent: a row of payout_intents that the API       *)
(* creates when the user starts a payment (HandleCreateIntent), that the   *)
(* Alchemy Pay (ACH) webhook settles when the on-ramp order is FINISHED    *)
(* (HandleWebhook), and that a reconciler in every API pod tries to settle *)
(* when no webhook did (runReconciliationCycle).                           *)
(*                                                                         *)
(* Handlers and pods share nothing but two tables: payout_intents, whose   *)
(* status column both sides write, and transactions, whose unique          *)
(* reference_id is the only guard against crediting a payment twice.  A    *)
(* webhook credits under ACH's order number, a reconciler under            *)
(* "rec_" + intent id.                                                     *)
(***************************************************************************)
EXTENDS Integers, FiniteSets

CONSTANTS
  Intents,     \* payout intents (the ids a client may submit)
  Orders,      \* ACH order numbers
  Handlers,    \* webhook requests being served at the same time
  Pods,        \* API pods, each with one reconciliation worker
  NoOrder,     \* an idle handler's order
  NoIntent,    \* an order not opened yet
  Amount,      \* amount of each intent, as the client sends it (satangs)
  MaxFaults    \* bound: crashes, lost writes and lost replies in a behaviour

ASSUME AmountAssumption == Amount \in [Intents -> Int]
ASSUME FaultsAssumption == MaxFaults \in Nat
ASSUME SentinelAssumption == NoOrder \notin Orders /\ NoIntent \notin Intents

VARIABLES
  status,      \* status[i]: payout_intents.status, "none" when there is no row
  checkouts,   \* intents with a create request past its status check
  order,       \* order[o]: the intent ACH order o was opened for
  orderRefs,   \* reference_ids of transactions written by webhooks
  recRefs,     \* intents i whose "rec_i" is a reference_id of transactions
  wpc,         \* wpc[h]: where webhook handler h stands
  worder,      \* worder[h]: the order it is serving
  rpc,         \* rpc[p]: where the reconciler of pod p stands
  claim,       \* claim[p][i]: status i had when p claimed it, "none" if not in its batch
  current,     \* current[p]: the intent of the batch p is settling
  payouts,     \* payouts[i]: PayoutToPromptPay calls that reported success
  faults       \* faults so far

vars == <<status, checkouts, order, orderRefs, recRefs, wpc, worder, rpc,
          claim, current, payouts, faults>>

tables == <<status, checkouts, order, orderRefs, recRefs, payouts>>
webhooks == <<wpc, worder>>
reconcilers == <<rpc, claim, current>>

Statuses == {"none", "PENDING", "PROCESSING", "RECONCILING",
             "PAYMENT_SUCCESS_PAYOUT_PENDING", "COMPLETED"}

\* The column is VARCHAR(20): an UPDATE with a longer value is an error.
Storable(s) == s # "PAYMENT_SUCCESS_PAYOUT_PENDING"

Claimable == {"PENDING", "PAYMENT_SUCCESS_PAYOUT_PENDING"}

\* What the webhook answers without touching the intent.
ServedForgetsProcessing == {"COMPLETED"}    \* mutant
ServedForgetsCompleted == {"PROCESSING"}    \* mutant
Served == {"COMPLETED", "PROCESSING"}

\* UNIQUE (reference_id) of transactions.
AnyReference(o) == TRUE   \* mutant
NewReference(o) == o \notin orderRefs

Credited(i) == i \in recRefs \/ \E o \in orderRefs : order[o] = i

Init ==
  /\ status = [i \in Intents |-> "none"]
  /\ checkouts = {}
  /\ order = [o \in Orders |-> NoIntent]
  /\ orderRefs = {}
  /\ recRefs = {}
  /\ wpc = [h \in Handlers |-> "idle"]
  /\ worder = [h \in Handlers |-> NoOrder]
  /\ rpc = [p \in Pods |-> "batch"]
  /\ claim = [p \in Pods |-> [i \in Intents |-> "none"]]
  /\ current = [p \in Pods |-> NoIntent]
  /\ payouts = [i \in Intents |-> 0]
  /\ faults = 0

-----------------------------------------------------------------------------
(* Faults and status writes.                                               *)

Fault == faults < MaxFaults /\ faults' = faults + 1

\* UpdatePayoutIntentStatus: an unconditional UPDATE whose error every caller
\* here drops.  It is lost when the value does not fit the column, or by a
\* fault (the client's or the cycle's context is gone, the database is away).
WriteStatus(i, s) ==
  \/ Storable(s) /\ status' = [status EXCEPT ![i] = s] /\ UNCHANGED faults
  \/ ~Storable(s) /\ UNCHANGED <<status, faults>>
  \/ Storable(s) /\ Fault /\ UNCHANGED status

-----------------------------------------------------------------------------
(* HandleCreateIntent.  The quotes it asks for first change nothing.       *)

SubmitIntent(i) ==
  /\ Amount[i] > 0
  /\ status[i] = "none"
  /\ status' = [status EXCEPT ![i] = "PENDING"]
  /\ checkouts' = checkouts \union {i}
  /\ UNCHANGED <<order, orderRefs, recRefs, payouts, faults, webhooks, reconcilers>>

\* The same idempotency key again: the row is there, and anything but
\* COMPLETED or PROCESSING goes on to open another order.
ResubmitIntent(i) ==
  /\ Amount[i] > 0
  /\ status[i] \notin {"none", "COMPLETED", "PROCESSING"}
  /\ checkouts' = checkouts \union {i}
  /\ UNCHANGED <<status, order, orderRefs, recRefs, payouts, faults, webhooks, reconcilers>>

OpenOrder(i, o) ==
  /\ i \in checkouts
  /\ order[o] = NoIntent
  /\ checkouts' = checkouts \ {i}
  /\ order' = [order EXCEPT ![o] = i]
  /\ UNCHANGED <<status, orderRefs, recRefs, payouts, faults, webhooks, reconcilers>>

\* ACH refuses the order and the client gets a MoonPay link, for which there
\* is no webhook; or the request dies.
NoCheckout(i) ==
  /\ i \in checkouts
  /\ checkouts' = checkouts \ {i}
  /\ UNCHANGED <<status, order, orderRefs, recRefs, payouts, faults, webhooks, reconcilers>>

Create ==
  \E i \in Intents :
    \/ SubmitIntent(i)
    \/ ResubmitIntent(i)
    \/ \E o \in Orders : OpenOrder(i, o)
    \/ NoCheckout(i)

-----------------------------------------------------------------------------
(* PayoutToPromptPay: today it only refuses amounts that are not positive. *)

PayoutAccepted(i) == Amount[i] > 0

-----------------------------------------------------------------------------
(* HandleWebhook.  ACH delivers FINISHED for an open order any number of   *)
(* times, and several deliveries may be served at once.                    *)

\* SELECT ... FOR UPDATE, the status check, UPDATE and COMMIT: one step.
WebhookLock(h, o) ==
  /\ wpc[h] = "idle"
  /\ order[o] # NoIntent
  /\ status[order[o]] \notin Served
  /\ status' = [status EXCEPT ![order[o]] = "PROCESSING"]
  /\ wpc' = [wpc EXCEPT ![h] = "credit"]
  /\ worder' = [worder EXCEPT ![h] = o]
  /\ UNCHANGED <<checkouts, order, orderRefs, recRefs, payouts, faults, reconcilers>>

\* ProcessPayment returns nil: KYC approved, breaker closed, reference new.
WebhookCredit(h) ==
  /\ wpc[h] = "credit"
  /\ NewReference(worder[h])
  /\ orderRefs' = orderRefs \union {worder[h]}
  /\ wpc' = [wpc EXCEPT ![h] = "payout"]
  /\ UNCHANGED <<status, checkouts, order, recRefs, payouts, faults, worder, reconcilers>>

\* ProcessPayment returns an error: KYC, breaker, database or duplicate
\* reference; or, by a fault, the row was committed and the reply lost.
WebhookCreditFails(h) ==
  /\ wpc[h] = "credit"
  /\ \/ WriteStatus(order[worder[h]], "PENDING") /\ UNCHANGED orderRefs
     \/ /\ NewReference(worder[h])
        /\ Fault
        /\ orderRefs' = orderRefs \union {worder[h]}
        /\ status' = [status EXCEPT ![order[worder[h]]] = "PENDING"]
  /\ wpc' = [wpc EXCEPT ![h] = "idle"]
  /\ worder' = [worder EXCEPT ![h] = NoOrder]
  /\ UNCHANGED <<checkouts, order, recRefs, payouts, reconcilers>>

WebhookPayout(h) ==
  /\ wpc[h] = "payout"
  /\ LET i == order[worder[h]] IN
       IF PayoutAccepted(i)
       THEN /\ payouts' = [payouts EXCEPT ![i] = @ + 1]
            /\ wpc' = [wpc EXCEPT ![h] = "complete"]
            /\ UNCHANGED <<status, faults, worder>>
       ELSE /\ WriteStatus(i, "PAYMENT_SUCCESS_PAYOUT_PENDING")
            /\ wpc' = [wpc EXCEPT ![h] = "idle"]
            /\ worder' = [worder EXCEPT ![h] = NoOrder]
            /\ UNCHANGED payouts
  /\ UNCHANGED <<checkouts, order, orderRefs, recRefs, reconcilers>>

WebhookComplete(h) ==
  /\ wpc[h] = "complete"
  /\ WriteStatus(order[worder[h]], "COMPLETED")
  /\ wpc' = [wpc EXCEPT ![h] = "idle"]
  /\ worder' = [worder EXCEPT ![h] = NoOrder]
  /\ UNCHANGED <<checkouts, order, orderRefs, recRefs, payouts, reconcilers>>

\* The pod dies with the request.
WebhookCrash(h) ==
  /\ wpc[h] # "idle"
  /\ Fault
  /\ wpc' = [wpc EXCEPT ![h] = "idle"]
  /\ worder' = [worder EXCEPT ![h] = NoOrder]
  /\ UNCHANGED <<tables, reconcilers>>

WebhookStep(h) ==
  WebhookCredit(h) \/ WebhookCreditFails(h) \/ WebhookPayout(h) \/ WebhookComplete(h)

Webhook ==
  \E h \in Handlers :
    (\E o \in Orders : WebhookLock(h, o)) \/ WebhookStep(h) \/ WebhookCrash(h)

-----------------------------------------------------------------------------
(* runReconciliationCycle.                                                 *)

Batch(p) == {i \in Intents : claim[p][i] # "none"}

\* The statuses a claim remembers, and the rows it leaves behind.
OriginalsReadBack(batch) ==   \* mutant
  [i \in Intents |-> IF i \in batch THEN "RECONCILING" ELSE "none"]
Originals(batch) == [i \in Intents |-> IF i \in batch THEN status[i] ELSE "none"]

Unmarked(batch) == status   \* mutant
Marked(batch) == [i \in Intents |-> IF i \in batch THEN "RECONCILING" ELSE status[i]]

\* One transaction claims rows older than a minute that no one has locked
\* (SKIP LOCKED), at most 50: some of the claimable rows.
ReconcilerClaim(p) ==
  /\ rpc[p] = "batch" /\ Batch(p) = {}
  /\ \E batch \in SUBSET {i \in Intents : status[i] \in Claimable} :
       /\ batch # {}
       /\ claim' = [claim EXCEPT ![p] = Originals(batch)]
       /\ status' = Marked(batch)
  /\ UNCHANGED <<checkouts, order, orderRefs, recRefs, payouts, faults, webhooks, rpc, current>>

\* SQRIL says the transaction is finished: credit it, unless it was credited
\* before it was claimed.
AfterVerifySkipsCredit(original) == "payout"   \* mutant
AfterVerify(original) == IF original = "PENDING" THEN "credit" ELSE "payout"

ReconcilerVerified(p, i) ==
  /\ rpc[p] = "batch" /\ i \in Batch(p)
  /\ current' = [current EXCEPT ![p] = i]
  /\ rpc' = [rpc EXCEPT ![p] = AfterVerify(claim[p][i])]
  /\ UNCHANGED <<tables, faults, webhooks, claim>>

\* i leaves p's batch, with status s written back.
Release(p, i, s) ==
  /\ WriteStatus(i, s)
  /\ claim' = [claim EXCEPT ![p][i] = "none"]
  /\ current' = [current EXCEPT ![p] = NoIntent]
  /\ rpc' = [rpc EXCEPT ![p] = "batch"]
  /\ UNCHANGED <<checkouts, order, orderRefs, webhooks>>

ReconcilerSkip(p, i) ==   \* mutant
  /\ rpc[p] = "batch" /\ i \in Batch(p)
  /\ claim' = [claim EXCEPT ![p][i] = "none"]
  /\ UNCHANGED <<tables, faults, webhooks, rpc, current>>

\* No provider, lookup error, or a transaction SQRIL has not finished.
ReconcilerReset(p, i) ==
  /\ rpc[p] = "batch" /\ i \in Batch(p)
  /\ Release(p, i, claim[p][i])
  /\ UNCHANGED <<recRefs, payouts>>

ReconcilerCredit(p) ==
  /\ rpc[p] = "credit"
  /\ current[p] \notin recRefs
  /\ recRefs' = recRefs \union {current[p]}
  /\ rpc' = [rpc EXCEPT ![p] = "payout"]
  /\ UNCHANGED <<status, checkouts, order, orderRefs, payouts, faults, webhooks, claim, current>>

ReconcilerCreditFails(p) ==
  /\ rpc[p] = "credit"
  /\ \/ Release(p, current[p], "PENDING") /\ UNCHANGED recRefs
     \/ /\ current[p] \notin recRefs
        /\ Fault
        /\ recRefs' = recRefs \union {current[p]}
        /\ status' = [status EXCEPT ![current[p]] = "PENDING"]
        /\ claim' = [claim EXCEPT ![p][current[p]] = "none"]
        /\ current' = [current EXCEPT ![p] = NoIntent]
        /\ rpc' = [rpc EXCEPT ![p] = "batch"]
        /\ UNCHANGED <<checkouts, order, orderRefs, webhooks>>
  /\ UNCHANGED payouts

ReconcilerPayout(p) ==
  /\ rpc[p] = "payout"
  /\ IF PayoutAccepted(current[p])
     THEN /\ payouts' = [payouts EXCEPT ![current[p]] = @ + 1]
          /\ rpc' = [rpc EXCEPT ![p] = "complete"]
          /\ UNCHANGED <<status, checkouts, order, orderRefs, faults, webhooks, claim, current>>
     ELSE /\ Release(p, current[p], "PAYMENT_SUCCESS_PAYOUT_PENDING")
          /\ UNCHANGED payouts
  /\ UNCHANGED recRefs

ReconcilerReopens(p) ==   \* mutant
  /\ rpc[p] = "complete"
  /\ Release(p, current[p], claim[p][current[p]])
  /\ UNCHANGED <<recRefs, payouts>>

ReconcilerComplete(p) ==
  /\ rpc[p] = "complete"
  /\ Release(p, current[p], "COMPLETED")
  /\ UNCHANGED <<recRefs, payouts>>

ReconcilerCrash(p) ==
  /\ Batch(p) # {}
  /\ Fault
  /\ claim' = [claim EXCEPT ![p] = [i \in Intents |-> "none"]]
  /\ current' = [current EXCEPT ![p] = NoIntent]
  /\ rpc' = [rpc EXCEPT ![p] = "batch"]
  /\ UNCHANGED <<tables, webhooks>>

ReconcilerStep(p) ==
  \/ \E i \in Intents : ReconcilerVerified(p, i) \/ ReconcilerReset(p, i)
  \/ ReconcilerCredit(p)
  \/ ReconcilerCreditFails(p)
  \/ ReconcilerPayout(p)
  \/ ReconcilerComplete(p)

Reconciler == \E p \in Pods : ReconcilerClaim(p) \/ ReconcilerStep(p) \/ ReconcilerCrash(p)

-----------------------------------------------------------------------------
Next == Create \/ Webhook \/ Reconciler

\* The system, and the two halves of it that settle an intent on their own.
Spec == Init /\ [][Next]_vars
WebhookSpec == Init /\ [][Create \/ Webhook]_vars
ReconcilerSpec == Init /\ [][Create \/ Reconciler]_vars

\* A request runs to its end unless its pod dies, and so does a cycle.
FairSpec ==
  /\ Spec
  /\ \A h \in Handlers : WF_vars(WebhookStep(h))
  /\ \A p \in Pods : WF_vars(ReconcilerStep(p))

-----------------------------------------------------------------------------
(* What is checked.                                                        *)

TypeOK ==
  /\ status \in [Intents -> Statuses]
  /\ checkouts \subseteq Intents
  /\ order \in [Orders -> Intents \union {NoIntent}]
  /\ orderRefs \subseteq Orders
  /\ recRefs \subseteq Intents
  /\ wpc \in [Handlers -> {"idle", "credit", "payout", "complete"}]
  /\ worder \in [Handlers -> Orders \union {NoOrder}]
  /\ rpc \in [Pods -> {"batch", "credit", "payout", "complete"}]
  /\ claim \in [Pods -> [Intents -> Claimable \union {"none"}]]
  /\ current \in [Pods -> Intents \union {NoIntent}]
  /\ payouts \in [Intents -> Nat]
  /\ faults \in Nat

\* An intent reads COMPLETED only if its payment is recorded in transactions:
\* the status the user polls and the table the money is accounted in agree,
\* whichever handler wrote the status and however stale it was by then.
CompletedIsCredited ==
  \A i \in Intents : status[i] = "COMPLETED" => Credited(i)

\* Every payout has a credit of its own behind it, even when webhooks and
\* reconcilers settle the same intent several times over: what the unique
\* reference_id of transactions still guarantees.
PayoutsCovered ==
  \A i \in Intents :
    payouts[i] <= Cardinality({o \in orderRefs : order[o] = i})
                  + (IF i \in recRefs THEN 1 ELSE 0)

\* The webhook's row lock serves one delivery of an intent at a time, from
\* the status check to the last status write, and nobody reopens the intent
\* under it.  (Webhooks alone: a reconciler's reset does reopen it.)
WebhookHoldsIntent ==
  /\ \A h \in Handlers :
       wpc[h] # "idle" => status[order[worder[h]]] = "PROCESSING"
  /\ \A g, h \in Handlers :
       g # h /\ wpc[g] # "idle" /\ wpc[h] # "idle"
         => order[worder[g]] # order[worder[h]]

\* A claimed intent is in the batch of one pod only, and stays RECONCILING
\* until that pod releases it.  (Reconcilers alone.)
PodHoldsBatch ==
  \A p, q \in Pods : \A i \in Batch(p) :
    status[i] = "RECONCILING" /\ (i \in Batch(q) => p = q)

Phase(i) ==
  CASE payouts[i] = 0 /\ status[i] = "none" -> "absent"
    [] payouts[i] = 0 /\ status[i] = "PENDING" -> "open"
    [] payouts[i] = 0 /\ status[i] \in {"PROCESSING", "RECONCILING"} -> "held"
    [] payouts[i] = 1 /\ status[i] \in {"PROCESSING", "RECONCILING", "COMPLETED"} -> "paid"
    [] OTHER -> "broken"

Promise == INSTANCE PayoutPromise WITH phase <- [i \in Intents |-> Phase(i)]

\* Webhooks alone, and reconcilers alone, keep the promise of PayoutPromise
\* through crashes, lost writes and redelivered webhooks: one settler at a
\* time, one payout, never reopened after it.
KeepsPromise == Promise!Spec

\* The comment on the webhook's row lock ("serialize concurrent webhooks and
\* avoid double processing") and the one on the reconciler's claim ("prevent
\* multi-pod double-processing"), for the system they are part of.
NotProcessedTwice == \A i \in Intents : payouts[i] <= 1

Taken(i) == status[i] \in {"PROCESSING", "RECONCILING"}
Settled(i) == status[i] \in {"PENDING", "COMPLETED"}

\* While nothing fails, the reconciler's resets and the webhook's fallbacks
\* see to it that an intent someone has taken is completed or handed back.
SettledUnlessFault == \A i \in Intents : Taken(i) ~> Settled(i) \/ faults > 0

\* "Reconciles stuck payment intents": an intent someone has taken is settled
\* even if the one who took it dies.
TakenIsSettled == \A i \in Intents : Taken(i) ~> Settled(i)

=============================================================================
