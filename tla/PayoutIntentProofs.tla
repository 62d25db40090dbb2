-------------------------- MODULE PayoutIntentProofs --------------------------
(***************************************************************************)
(* Theorems about PayoutIntent, for any number of intents, orders,         *)
(* concurrent webhooks, pods and faults.                                   *)
(***************************************************************************)
EXTENDS PayoutIntent, TLAPS, FiniteSetTheorems

-----------------------------------------------------------------------------
(* Types.  TypeOK is not inductive: that references and payouts go to real *)
(* orders and intents depends on what handlers and cycles hold meanwhile.  *)

\* A webhook being served has its order, and the order its intent.
Serving ==
  \A h \in Handlers : wpc[h] # "idle" => worder[h] \in Orders /\ order[worder[h]] \in Intents

\* A cycle past its lookup has its intent.
Settling == \A p \in Pods : rpc[p] # "batch" => current[p] \in Intents

TypeInv == TypeOK /\ Serving /\ Settling

LEMMA InitType == Init => TypeInv
BY DEF Init, TypeInv, TypeOK, Statuses, Serving, Settling

LEMMA CreateType ==
  ASSUME TypeInv, Create
  PROVE  TypeInv'
<1> USE SentinelAssumption DEF TypeInv, TypeOK, Serving, Settling, webhooks, reconcilers
<1>1. ASSUME NEW i \in Intents, SubmitIntent(i) PROVE TypeInv'
  BY <1>1 DEF SubmitIntent, Statuses
<1>2. ASSUME NEW i \in Intents, ResubmitIntent(i) PROVE TypeInv'
  BY <1>2 DEF ResubmitIntent
<1>3. ASSUME NEW i \in Intents, NEW o \in Orders, OpenOrder(i, o) PROVE TypeInv'
  BY <1>3 DEF OpenOrder
<1>4. ASSUME NEW i \in Intents, NoCheckout(i) PROVE TypeInv'
  BY <1>4 DEF NoCheckout
<1> QED
  BY <1>1, <1>2, <1>3, <1>4 DEF Create

\* A status write leaves a status behind, whoever makes it and for whatever row.
LEMMA WriteStatusType ==
  ASSUME TypeOK, NEW i, NEW s \in Statuses, WriteStatus(i, s)
  PROVE  status' \in [Intents -> Statuses] /\ faults' \in Nat
BY DEF TypeOK, WriteStatus, Fault

LEMMA WebhookType ==
  ASSUME TypeInv, Webhook
  PROVE  TypeInv'
<1> USE SentinelAssumption DEF TypeInv, Serving, Settling
<1>1. ASSUME NEW h \in Handlers, NEW o \in Orders, WebhookLock(h, o) PROVE TypeInv'
  BY <1>1 DEF TypeOK, WebhookLock, reconcilers, Statuses
<1>2. ASSUME NEW h \in Handlers, WebhookCredit(h) PROVE TypeInv'
  BY <1>2 DEF TypeOK, WebhookCredit, NewReference, reconcilers
<1>3. ASSUME NEW h \in Handlers, WebhookCreditFails(h) PROVE TypeInv'
  <2>1. status' \in [Intents -> Statuses] /\ faults' \in Nat
    BY <1>3, WriteStatusType DEF TypeOK, WebhookCreditFails, Statuses, Fault
  <2> QED
    BY <1>3, <2>1 DEF TypeOK, WebhookCreditFails, reconcilers
<1>4. ASSUME NEW h \in Handlers, WebhookPayout(h) PROVE TypeInv'
  <2>1. status' \in [Intents -> Statuses] /\ faults' \in Nat
    BY <1>4, WriteStatusType DEF TypeOK, WebhookPayout, Statuses
  <2>2. payouts' \in [Intents -> Nat]
    <3>1. order[worder[h]] \in Intents
      BY <1>4 DEF WebhookPayout
    <3> QED
      BY <1>4, <3>1 DEF TypeOK, WebhookPayout
  <2>3. /\ wpc' = [wpc EXCEPT ![h] = wpc'[h]]
        /\ wpc'[h] \in {"idle", "complete"}
        /\ worder' \in [Handlers -> Orders \union {NoOrder}]
        /\ wpc'[h] = "complete" => worder' = worder
        /\ \A g \in Handlers : g # h => worder'[g] = worder[g]
    BY <1>4 DEF TypeOK, WebhookPayout
  <2>4. UNCHANGED <<checkouts, order, orderRefs, recRefs, rpc, claim, current>>
    BY <1>4 DEF WebhookPayout, reconcilers
  <2>5. wpc[h] # "idle"
    BY <1>4 DEF WebhookPayout
  <2> QED
    BY <2>1, <2>2, <2>3, <2>4, <2>5 DEF TypeOK
<1>5. ASSUME NEW h \in Handlers, WebhookComplete(h) PROVE TypeInv'
  <2>1. status' \in [Intents -> Statuses] /\ faults' \in Nat
    BY <1>5, WriteStatusType DEF TypeOK, WebhookComplete, Statuses
  <2> QED
    BY <1>5, <2>1 DEF TypeOK, WebhookComplete, reconcilers
<1>6. ASSUME NEW h \in Handlers, WebhookCrash(h) PROVE TypeInv'
  BY <1>6 DEF TypeOK, WebhookCrash, tables, reconcilers, Fault
<1> QED
  BY <1>1, <1>2, <1>3, <1>4, <1>5, <1>6 DEF Webhook, WebhookStep

\* Releasing an intent of the batch keeps every type but those of the two
\* variables it leaves to its callers.
LEMMA ReleaseType ==
  ASSUME TypeInv, NEW p \in Pods, NEW i \in Intents, NEW s \in Statuses, Release(p, i, s),
         recRefs' \subseteq Intents, payouts' \in [Intents -> Nat]
  PROVE  TypeInv'
<1>1. status' \in [Intents -> Statuses] /\ faults' \in Nat
  BY WriteStatusType DEF TypeInv, Release
<1>2. claim' \in [Pods -> [Intents -> Claimable \union {"none"}]]
  BY DEF TypeInv, TypeOK, Release
<1> QED
  BY <1>1, <1>2 DEF TypeInv, TypeOK, Serving, Settling, Release, webhooks

LEMMA ReconcilerType ==
  ASSUME TypeInv, Reconciler
  PROVE  TypeInv'
<1> USE SentinelAssumption
<1>1. ASSUME NEW p \in Pods, ReconcilerClaim(p) PROVE TypeInv'
  <2>1. PICK batch \in SUBSET {i \in Intents : status[i] \in Claimable} :
          /\ claim' = [claim EXCEPT ![p] = Originals(batch)]
          /\ status' = Marked(batch)
    BY <1>1 DEF ReconcilerClaim
  <2>2. Originals(batch) \in [Intents -> Claimable \union {"none"}]
    BY DEF Originals
  <2>3. Marked(batch) \in [Intents -> Statuses]
    BY DEF Marked, Statuses, TypeInv, TypeOK
  <2> QED
    BY <1>1, <2>1, <2>2, <2>3 DEF ReconcilerClaim, TypeInv, TypeOK, Serving, Settling, webhooks
<1>2. ASSUME NEW p \in Pods, NEW i \in Intents, ReconcilerVerified(p, i) PROVE TypeInv'
  BY <1>2 DEF ReconcilerVerified, AfterVerify, TypeInv, TypeOK, Serving, Settling, tables, webhooks
<1>3. ASSUME NEW p \in Pods, NEW i \in Intents, ReconcilerReset(p, i) PROVE TypeInv'
  <2>1. claim[p][i] \in Statuses
    BY DEF TypeInv, TypeOK, Claimable, Statuses
  <2> QED
    BY <1>3, <2>1, ReleaseType DEF ReconcilerReset, TypeInv, TypeOK
<1>4. ASSUME NEW p \in Pods, ReconcilerCredit(p) PROVE TypeInv'
  BY <1>4 DEF ReconcilerCredit, TypeInv, TypeOK, Serving, Settling, webhooks
<1>5. ASSUME NEW p \in Pods, ReconcilerCreditFails(p) PROVE TypeInv'
  <2>1. current[p] \in Intents
    BY <1>5 DEF ReconcilerCreditFails, TypeInv, Settling
  <2>2. CASE Release(p, current[p], "PENDING") /\ UNCHANGED recRefs
    BY <1>5, <2>1, <2>2, ReleaseType DEF ReconcilerCreditFails, TypeInv, TypeOK, Statuses
  <2>3. CASE ~(Release(p, current[p], "PENDING") /\ UNCHANGED recRefs)
    <3>1. /\ status' = [status EXCEPT ![current[p]] = "PENDING"]
          /\ claim' = [claim EXCEPT ![p][current[p]] = "none"]
          /\ faults' = faults + 1
          /\ current' = [current EXCEPT ![p] = NoIntent]
          /\ rpc' = [rpc EXCEPT ![p] = "batch"]
          /\ recRefs' = recRefs \union {current[p]}
          /\ UNCHANGED <<checkouts, order, orderRefs, wpc, worder, payouts>>
      BY <1>5, <2>3 DEF ReconcilerCreditFails, Fault, webhooks
    <3>2. claim' \in [Pods -> [Intents -> Claimable \union {"none"}]]
      BY <3>1 DEF TypeInv, TypeOK
    <3> QED
      BY <2>1, <3>1, <3>2 DEF TypeInv, TypeOK, Statuses, Serving, Settling
  <2> QED
    BY <2>2, <2>3
<1>6. ASSUME NEW p \in Pods, ReconcilerPayout(p) PROVE TypeInv'
  <2>1. current[p] \in Intents
    BY <1>6 DEF ReconcilerPayout, TypeInv, Settling
  <2>2. CASE PayoutAccepted(current[p])
    <3>1. /\ payouts' = [payouts EXCEPT ![current[p]] = @ + 1]
          /\ rpc' = [rpc EXCEPT ![p] = "complete"]
          /\ UNCHANGED <<status, checkouts, order, orderRefs, recRefs, faults, wpc, worder, claim, current>>
      BY <1>6, <2>2 DEF ReconcilerPayout, webhooks
    <3>2. payouts' \in [Intents -> Nat]
      BY <2>1, <3>1 DEF TypeInv, TypeOK
    <3> QED
      BY <2>1, <3>1, <3>2 DEF TypeInv, TypeOK, Serving, Settling
  <2>3. CASE ~PayoutAccepted(current[p])
    BY <1>6, <2>1, <2>3, ReleaseType DEF ReconcilerPayout, TypeInv, TypeOK, Statuses
  <2> QED
    BY <2>2, <2>3
<1>7. ASSUME NEW p \in Pods, ReconcilerComplete(p) PROVE TypeInv'
  BY <1>7, ReleaseType DEF ReconcilerComplete, TypeInv, TypeOK, Statuses, Settling
<1>8. ASSUME NEW p \in Pods, ReconcilerCrash(p) PROVE TypeInv'
  BY <1>8 DEF ReconcilerCrash, Fault, TypeInv, TypeOK, Serving, Settling, tables, webhooks
<1> QED
  BY <1>1, <1>2, <1>3, <1>4, <1>5, <1>6, <1>7, <1>8 DEF Reconciler, ReconcilerStep

LEMMA TypeInvHolds == Spec => []TypeInv
<1>1. TypeInv /\ [Next]_vars => TypeInv'
  <2> SUFFICES ASSUME TypeInv, [Next]_vars PROVE TypeInv'
    OBVIOUS
  <2>1. CASE Next
    BY <2>1, CreateType, WebhookType, ReconcilerType DEF Next
  <2>2. CASE UNCHANGED vars
    BY <2>2 DEF vars, TypeInv, TypeOK, Serving, Settling
  <2> QED
    BY <2>1, <2>2
<1> QED
  BY <1>1, InitType, PTL DEF Spec

\* Each variable keeps its type, however webhooks, cycles, creates and faults
\* interleave; in particular a claim remembers only what a claim may read.
THEOREM TypeCorrect == Spec => []TypeOK
<1>1. TypeInv => TypeOK
  BY DEF TypeInv
<1> QED
  BY <1>1, TypeInvHolds, PTL

-----------------------------------------------------------------------------
(* Completed intents are credited.  Writers of COMPLETED do not look at     *)
(* transactions: that a credit exists is remembered in where they stand,    *)
(* and in the fact that no intent ever reads PAYMENT_SUCCESS_PAYOUT_PENDING *)
(* (the one status from which the reconciler skips the credit).             *)

Past(i) == status[i] # "PAYMENT_SUCCESS_PAYOUT_PENDING"

RefsHaveIntents == \A o \in orderRefs : order[o] \in Intents

WebhookCredited ==
  \A h \in Handlers : wpc[h] \in {"payout", "complete"} => worder[h] \in orderRefs

CycleCredited ==
  \A p \in Pods : rpc[p] \in {"payout", "complete"} => Credited(current[p])

NeverPayoutPending ==
  /\ \A i \in Intents : Past(i)
  /\ \A p \in Pods : \A i \in Intents : claim[p][i] \in {"none", "PENDING"}

CreditInv ==
  /\ RefsHaveIntents
  /\ WebhookCredited
  /\ CycleCredited
  /\ NeverPayoutPending
  /\ CompletedIsCredited

\* Credits are never taken back: references are only added, and an order that
\* has one keeps its intent.
LEMMA CreditedStays ==
  ASSUME RefsHaveIntents, orderRefs \subseteq orderRefs', recRefs \subseteq recRefs',
         \A o \in orderRefs : order'[o] = order[o]
  PROVE  \A i : Credited(i) => Credited(i)'
BY DEF RefsHaveIntents, Credited

\* A status write of anything but COMPLETED completes nothing, and none leaves
\* PAYMENT_SUCCESS_PAYOUT_PENDING behind.
LEMMA WriteKeeps ==
  ASSUME TypeOK, NeverPayoutPending, NEW k \in Intents, NEW s \in Statuses, WriteStatus(k, s)
  PROVE  \A i \in Intents :
           /\ Past(i)'
           /\ status'[i] = "COMPLETED" => status[i] = "COMPLETED" \/ (i = k /\ s = "COMPLETED")
BY DEF TypeOK, NeverPayoutPending, Past, WriteStatus, Storable

LEMMA CreateCredit ==
  ASSUME TypeInv, CreditInv, Create
  PROVE  CreditInv'
<1>1. UNCHANGED <<orderRefs, recRefs, wpc, worder, rpc, claim, current>>
  BY DEF Create, SubmitIntent, ResubmitIntent, OpenOrder, NoCheckout, webhooks, reconcilers
<1>2. \A o \in orderRefs : order'[o] = order[o] /\ order[o] \in Intents
  BY SentinelAssumption
  DEF TypeInv, TypeOK, CreditInv, RefsHaveIntents, Create, SubmitIntent, ResubmitIntent,
      OpenOrder, NoCheckout
<1>3. \A i \in Intents : status'[i] = status[i] \/ status'[i] = "PENDING"
  BY DEF TypeInv, TypeOK, Create, SubmitIntent, ResubmitIntent, OpenOrder, NoCheckout
<1>4. \A i : Credited(i) => Credited(i)'
  BY <1>1, <1>2, CreditedStays DEF CreditInv
<1> QED
  BY <1>1, <1>2, <1>3, <1>4
  DEF CreditInv, RefsHaveIntents, WebhookCredited, CycleCredited, NeverPayoutPending, Past,
      CompletedIsCredited

\* What every step of a webhook keeps; what is left is its own writes.
LEMMA WebhookKeeps ==
  ASSUME TypeInv, CreditInv, Webhook
  PROVE  /\ UNCHANGED <<order, recRefs, rpc, claim, current>>
         /\ orderRefs \subseteq orderRefs'
         /\ RefsHaveIntents'
         /\ CycleCredited'
         /\ \A i : Credited(i) => Credited(i)'
<1>1. UNCHANGED <<order, recRefs, rpc, claim, current>>
  BY DEF Webhook, WebhookStep, WebhookLock, WebhookCredit, WebhookCreditFails, WebhookPayout,
         WebhookComplete, WebhookCrash, tables, reconcilers
<1>2. /\ orderRefs \subseteq orderRefs'
      /\ \A o \in orderRefs' \ orderRefs :
           \E h \in Handlers : wpc[h] # "idle" /\ o = worder[h]
  BY DEF Webhook, WebhookStep, WebhookLock, WebhookCredit, WebhookCreditFails, WebhookPayout,
         WebhookComplete, WebhookCrash, tables
<1>3. RefsHaveIntents'
  BY <1>1, <1>2 DEF TypeInv, Serving, CreditInv, RefsHaveIntents
<1>4. \A i : Credited(i) => Credited(i)'
  BY <1>1, <1>2, CreditedStays DEF CreditInv
<1>5. CycleCredited'
  BY <1>1, <1>4 DEF CreditInv, CycleCredited
<1> QED
  BY <1>1, <1>2, <1>3, <1>4, <1>5

LEMMA WebhookCreditStep ==
  ASSUME TypeInv, CreditInv, Webhook
  PROVE  CreditInv'
<1> DEFINE Rest == WebhookCredited' /\ NeverPayoutPending' /\ CompletedIsCredited'
<1> USE WebhookKeeps DEF TypeInv, CreditInv, NeverPayoutPending, CompletedIsCredited
<1>1. ASSUME NEW h \in Handlers, NEW o \in Orders, WebhookLock(h, o) PROVE Rest
  BY <1>1 DEF WebhookLock, WebhookCredited, TypeOK, Past
<1>2. ASSUME NEW h \in Handlers, WebhookCredit(h) PROVE Rest
  BY <1>2 DEF WebhookCredit, WebhookCredited, TypeOK, Past
<1>3. ASSUME NEW h \in Handlers, WebhookCreditFails(h) PROVE Rest
  <2>1. order[worder[h]] \in Intents
    BY <1>3 DEF WebhookCreditFails, Serving
  <2>2. \A i \in Intents : Past(i)' /\ (status'[i] = "COMPLETED" => status[i] = "COMPLETED")
    BY <1>3, <2>1, WriteKeeps DEF WebhookCreditFails, TypeOK, Past, Statuses
  <2> QED
    BY <1>3, <2>2 DEF WebhookCreditFails, WebhookCredited, TypeOK
<1>4. ASSUME NEW h \in Handlers, WebhookPayout(h) PROVE Rest
  <2>1. order[worder[h]] \in Intents
    BY <1>4 DEF WebhookPayout, Serving
  <2>2. \A i \in Intents : Past(i)' /\ (status'[i] = "COMPLETED" => status[i] = "COMPLETED")
    BY <1>4, <2>1, WriteKeeps DEF WebhookPayout, TypeOK, Past, Statuses
  <2> QED
    BY <1>4, <2>2 DEF WebhookPayout, WebhookCredited, TypeOK
<1>5. ASSUME NEW h \in Handlers, WebhookComplete(h) PROVE Rest
  <2> DEFINE k == order[worder[h]]
  <2>1. k \in Intents /\ worder[h] \in orderRefs
    BY <1>5 DEF WebhookComplete, Serving, WebhookCredited
  <2>2. Credited(k)
    BY <2>1 DEF Credited
  <2>3. \A i \in Intents :
          Past(i)' /\ (status'[i] = "COMPLETED" => status[i] = "COMPLETED" \/ i = k)
    BY <1>5, <2>1, WriteKeeps DEF WebhookComplete, Statuses
  <2>4. WebhookCredited'
    BY <1>5 DEF WebhookComplete, WebhookCredited, TypeOK
  <2> QED
    BY <1>5, <2>2, <2>3, <2>4 DEF WebhookComplete
<1>6. ASSUME NEW h \in Handlers, WebhookCrash(h) PROVE Rest
  BY <1>6 DEF WebhookCrash, tables, WebhookCredited, TypeOK, Past
<1> QED
  BY <1>1, <1>2, <1>3, <1>4, <1>5, <1>6 DEF Webhook, WebhookStep

\* What every step of a cycle keeps.
LEMMA ReconcilerKeeps ==
  ASSUME TypeInv, CreditInv, Reconciler
  PROVE  /\ UNCHANGED <<order, orderRefs, wpc, worder>>
         /\ RefsHaveIntents'
         /\ WebhookCredited'
         /\ \A i : Credited(i) => Credited(i)'
<1>1. UNCHANGED <<order, orderRefs, wpc, worder>> /\ recRefs \subseteq recRefs'
  BY DEF Reconciler, ReconcilerStep, ReconcilerClaim, ReconcilerVerified, ReconcilerReset,
         ReconcilerCredit, ReconcilerCreditFails, ReconcilerPayout, ReconcilerComplete,
         ReconcilerCrash, Release, tables, webhooks
<1>2. RefsHaveIntents' /\ WebhookCredited'
  BY <1>1 DEF CreditInv, RefsHaveIntents, WebhookCredited
<1>3. \A i : Credited(i) => Credited(i)'
  BY <1>1, CreditedStays DEF CreditInv
<1> QED
  BY <1>1, <1>2, <1>3

\* A release that does not complete its intent, or one of a credited intent.
LEMMA ReleaseCredit ==
  ASSUME TypeInv, CreditInv, NEW p \in Pods, NEW k \in Intents, NEW s \in Statuses,
         Release(p, k, s), s = "COMPLETED" => Credited(k),
         \A i : Credited(i) => Credited(i)'
  PROVE  CycleCredited' /\ NeverPayoutPending' /\ CompletedIsCredited'
<1>1. \A i \in Intents :
        /\ Past(i)'
        /\ status'[i] = "COMPLETED" => status[i] = "COMPLETED" \/ (i = k /\ s = "COMPLETED")
  BY WriteKeeps DEF Release, TypeInv, CreditInv
<1>2. CompletedIsCredited'
  BY <1>1 DEF CreditInv, CompletedIsCredited
<1>3. CycleCredited'
  BY DEF Release, TypeInv, TypeOK, CreditInv, CycleCredited
<1>4. NeverPayoutPending'
  <2>1. \A q \in Pods : \A i \in Intents : claim'[q][i] \in {claim[q][i], "none"}
    BY DEF Release, TypeInv, TypeOK
  <2> QED
    BY <1>1, <2>1 DEF CreditInv, NeverPayoutPending
<1> QED
  BY <1>2, <1>3, <1>4

LEMMA ReconcilerCreditStep ==
  ASSUME TypeInv, CreditInv, Reconciler
  PROVE  CreditInv'
<1> DEFINE Rest == CycleCredited' /\ NeverPayoutPending' /\ CompletedIsCredited'
<1>0. \A i : Credited(i) => Credited(i)'
  BY ReconcilerKeeps
<1>1. ASSUME NEW p \in Pods, ReconcilerClaim(p) PROVE Rest
  <2>1. PICK batch \in SUBSET {i \in Intents : status[i] \in Claimable} :
          /\ claim' = [claim EXCEPT ![p] = Originals(batch)]
          /\ status' = Marked(batch)
    BY <1>1 DEF ReconcilerClaim
  <2>2. \A i \in Intents : status[i] \in Claimable => status[i] = "PENDING"
    BY DEF Claimable, CreditInv, NeverPayoutPending, Past
  <2>3. \A i \in Intents : Originals(batch)[i] \in {"none", "PENDING"}
    BY <2>2 DEF Originals
  <2>4. \A q \in Pods : \A i \in Intents :
          claim'[q][i] = IF q = p THEN Originals(batch)[i] ELSE claim[q][i]
    BY <2>1 DEF TypeInv, TypeOK
  <2>5. \A i \in Intents : status'[i] \in {"RECONCILING", status[i]}
    BY <2>1 DEF Marked
  <2>6. NeverPayoutPending'
    BY <2>3, <2>4, <2>5 DEF CreditInv, NeverPayoutPending, Past
  <2>7. CompletedIsCredited'
    BY <1>0, <2>5 DEF CreditInv, CompletedIsCredited
  <2>8. CycleCredited'
    BY <1>0, <1>1 DEF ReconcilerClaim, CreditInv, CycleCredited
  <2> QED
    BY <2>6, <2>7, <2>8
<1>2. ASSUME NEW p \in Pods, NEW i \in Intents, ReconcilerVerified(p, i) PROVE Rest
  <2>1. claim[p][i] = "PENDING"
    BY <1>2 DEF ReconcilerVerified, Batch, CreditInv, NeverPayoutPending
  <2>2. /\ rpc' = [rpc EXCEPT ![p] = "credit"]
        /\ current' = [current EXCEPT ![p] = i]
        /\ UNCHANGED <<status, claim>>
    BY <1>2, <2>1 DEF ReconcilerVerified, AfterVerify, tables
  <2> QED
    BY <1>0, <2>2 DEF TypeInv, TypeOK, CreditInv, CycleCredited, NeverPayoutPending, Past,
                      CompletedIsCredited
<1>3. ASSUME NEW p \in Pods, NEW i \in Intents, ReconcilerReset(p, i) PROVE Rest
  <2>1. claim[p][i] = "PENDING"
    BY <1>3 DEF ReconcilerReset, Batch, CreditInv, NeverPayoutPending
  <2> QED
    BY <1>0, <1>3, <2>1, ReleaseCredit DEF ReconcilerReset, Statuses
<1>4. ASSUME NEW p \in Pods, ReconcilerCredit(p) PROVE Rest
  <2>1. Credited(current[p])'
    BY <1>4 DEF ReconcilerCredit, Credited
  <2> QED
    BY <1>0, <1>4, <2>1 DEF ReconcilerCredit, TypeInv, TypeOK, CreditInv, CycleCredited,
                            NeverPayoutPending, Past, CompletedIsCredited
<1>5. ASSUME NEW p \in Pods, ReconcilerCreditFails(p) PROVE Rest
  <2>1. current[p] \in Intents
    BY <1>5 DEF ReconcilerCreditFails, TypeInv, Settling
  <2>2. CASE Release(p, current[p], "PENDING")
    BY <1>0, <2>1, <2>2, ReleaseCredit DEF Statuses
  <2>3. CASE ~Release(p, current[p], "PENDING")
    <3>1. /\ status' = [status EXCEPT ![current[p]] = "PENDING"]
          /\ claim' = [claim EXCEPT ![p][current[p]] = "none"]
          /\ current' = [current EXCEPT ![p] = NoIntent]
          /\ rpc' = [rpc EXCEPT ![p] = "batch"]
      BY <1>5, <2>3 DEF ReconcilerCreditFails
    <3>2. \A q \in Pods : \A i \in Intents : claim'[q][i] \in {claim[q][i], "none"}
      BY <3>1 DEF TypeInv, TypeOK
    <3> QED
      BY <1>0, <2>1, <3>1, <3>2 DEF TypeInv, TypeOK, CreditInv, CycleCredited,
                                    NeverPayoutPending, Past, CompletedIsCredited
  <2> QED
    BY <2>2, <2>3
<1>6. ASSUME NEW p \in Pods, ReconcilerPayout(p) PROVE Rest
  <2>1. current[p] \in Intents /\ Credited(current[p])
    BY <1>6 DEF ReconcilerPayout, TypeInv, Settling, CreditInv, CycleCredited
  <2>2. CASE PayoutAccepted(current[p])
    BY <1>0, <1>6, <2>1, <2>2 DEF ReconcilerPayout, TypeInv, TypeOK, CreditInv, CycleCredited,
                                  NeverPayoutPending, Past, CompletedIsCredited
  <2>3. CASE ~PayoutAccepted(current[p])
    BY <1>0, <1>6, <2>1, <2>3, ReleaseCredit DEF ReconcilerPayout, Statuses
  <2> QED
    BY <2>2, <2>3
<1>7. ASSUME NEW p \in Pods, ReconcilerComplete(p) PROVE Rest
  <2>1. current[p] \in Intents /\ Credited(current[p])
    BY <1>7 DEF ReconcilerComplete, TypeInv, Settling, CreditInv, CycleCredited
  <2> QED
    BY <1>0, <1>7, <2>1, ReleaseCredit DEF ReconcilerComplete, Statuses
<1>8. ASSUME NEW p \in Pods, ReconcilerCrash(p) PROVE Rest
  <2>1. \A q \in Pods : \A i \in Intents : claim'[q][i] \in {claim[q][i], "none"}
    BY <1>8 DEF ReconcilerCrash, TypeInv, TypeOK
  <2> QED
    BY <1>0, <1>8, <2>1 DEF ReconcilerCrash, tables, TypeInv, TypeOK, CreditInv, CycleCredited,
                            NeverPayoutPending, Past, CompletedIsCredited
<1>9. Rest
  BY <1>1, <1>2, <1>3, <1>4, <1>5, <1>6, <1>7, <1>8 DEF Reconciler, ReconcilerStep
<1> QED
  BY <1>9, ReconcilerKeeps DEF CreditInv

LEMMA CreditInvHolds == Spec => []CreditInv
<1>1. Init => CreditInv
  BY DEF Init, CreditInv, RefsHaveIntents, WebhookCredited, CycleCredited, NeverPayoutPending,
         Past, CompletedIsCredited
<1>2. TypeInv /\ CreditInv /\ [Next]_vars => CreditInv'
  <2> SUFFICES ASSUME TypeInv, CreditInv, [Next]_vars PROVE CreditInv'
    OBVIOUS
  <2>1. CASE Next
    BY <2>1, CreateCredit, WebhookCreditStep, ReconcilerCreditStep DEF Next
  <2>2. CASE UNCHANGED vars
    BY <2>2 DEF vars, CreditInv, RefsHaveIntents, WebhookCredited, CycleCredited,
                NeverPayoutPending, Past, CompletedIsCredited, Credited
  <2> QED
    BY <2>1, <2>2
<1> QED
  BY <1>1, <1>2, TypeInvHolds, PTL DEF Spec

\* The user never sees COMPLETED on an intent whose payment is not recorded in
\* transactions, in any interleaving of webhooks, cycles, creates and faults.
THEOREM CompletedIsAlwaysCredited == Spec => []CompletedIsCredited
<1>1. CreditInv => CompletedIsCredited
  BY DEF CreditInv
<1> QED
  BY <1>1, CreditInvHolds, PTL

-----------------------------------------------------------------------------
(* Payouts are covered.  A reference is spent once nobody who wrote it is   *)
(* still about to pay for it; unique references make that one settler each. *)

Unpaid(o) == \E h \in Handlers : wpc[h] = "payout" /\ worder[h] = o
Refs(i) == {o \in orderRefs : order[o] = i}
Spent(i) == {o \in orderRefs : order[o] = i /\ ~Unpaid(o)}
UnpaidRec(i) == \E p \in Pods : rpc[p] = "payout" /\ current[p] = i
SpentRec(i) == IF i \in recRefs /\ ~UnpaidRec(i) THEN 1 ELSE 0

OnePayerPerReference ==
  /\ \A g, h \in Handlers :
       wpc[g] = "payout" /\ wpc[h] = "payout" /\ worder[g] = worder[h] => g = h
  /\ \A p \in Pods : rpc[p] = "payout" => current[p] \in recRefs
  /\ \A p, q \in Pods :
       rpc[p] = "payout" /\ rpc[q] = "payout" /\ current[p] = current[q] => p = q

Covered == \A i \in Intents : payouts[i] <= Cardinality(Spent(i)) + SpentRec(i)

CoverInv == IsFiniteSet(orderRefs) /\ OnePayerPerReference /\ Covered

LEMMA SpentFinite ==
  ASSUME IsFiniteSet(orderRefs), NEW i
  PROVE  IsFiniteSet(Spent(i)) /\ Cardinality(Spent(i)) \in Nat
<1>1. Spent(i) \in SUBSET orderRefs
  BY DEF Spent
<1> QED
  BY <1>1, FS_Subset, FS_CardinalityType

\* A step that pays nothing and takes nothing back out of what is spent.
LEMMA NothingPaid ==
  ASSUME TypeInv, CoverInv, IsFiniteSet(orderRefs'), UNCHANGED payouts,
         \A i \in Intents : Spent(i) \subseteq Spent(i)' /\ SpentRec(i) <= SpentRec(i)'
  PROVE  Covered'
<1> SUFFICES ASSUME NEW i \in Intents
             PROVE  payouts'[i] <= Cardinality(Spent(i)') + SpentRec(i)'
  BY DEF Covered
<1>1. IsFiniteSet(Spent(i)') /\ Cardinality(Spent(i)') \in Nat
  <2>1. Spent(i)' \in SUBSET orderRefs'
    BY DEF Spent
  <2> QED
    BY <2>1, FS_Subset, FS_CardinalityType
<1>2. Cardinality(Spent(i)) <= Cardinality(Spent(i)') /\ Cardinality(Spent(i)) \in Nat
  BY <1>1, FS_Subset, SpentFinite DEF CoverInv
<1>3. SpentRec(i) \in Nat /\ SpentRec(i)' \in Nat
  BY DEF SpentRec
<1>4. payouts[i] \in Nat /\ payouts[i] <= Cardinality(Spent(i)) + SpentRec(i)
  BY DEF TypeInv, TypeOK, CoverInv, Covered
<1> QED
  BY <1>1, <1>2, <1>3, <1>4

LEMMA CreateCover ==
  ASSUME TypeInv, CreditInv, CoverInv, Create
  PROVE  CoverInv'
<1>1. UNCHANGED <<orderRefs, recRefs, payouts, wpc, worder, rpc, current>>
  BY DEF Create, SubmitIntent, ResubmitIntent, OpenOrder, NoCheckout, webhooks, reconcilers
<1>2. \A o \in orderRefs : order'[o] = order[o]
  BY SentinelAssumption
  DEF TypeInv, TypeOK, CreditInv, RefsHaveIntents, Create, SubmitIntent, ResubmitIntent,
      OpenOrder, NoCheckout
<1>3. OnePayerPerReference'
  BY <1>1 DEF CoverInv, OnePayerPerReference
<1>4. ASSUME NEW i \in Intents PROVE Spent(i)' = Spent(i) /\ SpentRec(i)' = SpentRec(i)
  BY <1>1, <1>2 DEF Spent, Unpaid, SpentRec, UnpaidRec
<1>5. Covered'
  BY <1>1, <1>4 DEF CoverInv, Covered
<1> QED
  BY <1>1, <1>3, <1>5 DEF CoverInv

\* A handler leaves for another state than "payout".
LEMMA WebhookCover ==
  ASSUME TypeInv, CreditInv, CoverInv, Webhook
  PROVE  CoverInv'
<1>0. /\ UNCHANGED <<order, recRefs, rpc, current>>
      /\ orderRefs \in SUBSET Orders /\ IsFiniteSet(orderRefs)
      /\ \A g \in Handlers : wpc[g] = "payout" => worder[g] \in orderRefs
      /\ \A i : UnpaidRec(i)' = UnpaidRec(i)
      /\ \A i : SpentRec(i)' = SpentRec(i)
  <2>1. UNCHANGED <<order, recRefs, rpc, current>>
    BY WebhookKeeps
  <2> QED
    BY <2>1 DEF TypeInv, TypeOK, CreditInv, WebhookCredited, CoverInv, UnpaidRec, SpentRec
<1>1. /\ wpc \in [Handlers -> {"idle", "credit", "payout", "complete"}]
      /\ worder \in [Handlers -> Orders \union {NoOrder}]
      /\ payouts \in [Intents -> Nat]
  BY DEF TypeInv, TypeOK
<1>2. ASSUME IsFiniteSet(orderRefs'), UNCHANGED payouts,
             orderRefs \subseteq orderRefs',
             \A o \in orderRefs : Unpaid(o)' => Unpaid(o)
      PROVE  Covered'
  <2>1. ASSUME NEW i \in Intents
        PROVE  Spent(i) \subseteq Spent(i)' /\ SpentRec(i) <= SpentRec(i)'
    BY <1>0, <1>2 DEF Spent, SpentRec
  <2> QED
    BY <1>2, <2>1, NothingPaid
<1>3. ASSUME NEW h \in Handlers, wpc'[h] # "payout",
             \A g \in Handlers : g # h => wpc'[g] = wpc[g] /\ worder'[g] = worder[g]
      PROVE  OnePayerPerReference' /\ \A o : Unpaid(o)' => Unpaid(o)
  BY <1>0, <1>3 DEF CoverInv, OnePayerPerReference, Unpaid
<1>4. ASSUME NEW h \in Handlers, NEW o \in Orders, WebhookLock(h, o) PROVE CoverInv'
  <2>1. /\ wpc'[h] # "payout" /\ UNCHANGED <<payouts, orderRefs>>
        /\ \A g \in Handlers : g # h => wpc'[g] = wpc[g] /\ worder'[g] = worder[g]
    BY <1>1, <1>4 DEF WebhookLock
  <2> QED
    BY <1>0, <1>2, <1>3, <2>1 DEF CoverInv
<1>5. ASSUME NEW h \in Handlers, WebhookCredit(h) PROVE CoverInv'
  <2>1. /\ worder[h] \notin orderRefs /\ orderRefs' = orderRefs \union {worder[h]}
        /\ UNCHANGED <<payouts, worder>>
        /\ wpc' = [wpc EXCEPT ![h] = "payout"]
    BY <1>5 DEF WebhookCredit, NewReference
  <2>2. IsFiniteSet(orderRefs')
    BY <1>0, <2>1, FS_AddElement
  <2>3. \A o \in orderRefs : Unpaid(o)' => Unpaid(o)
    BY <1>1, <2>1 DEF Unpaid
  <2>4. OnePayerPerReference'
    <3>1. \A g \in Handlers : g # h => wpc'[g] = wpc[g]
      BY <1>1, <2>1
    <3> QED
      BY <1>0, <2>1, <3>1 DEF CoverInv, OnePayerPerReference
  <2> QED
    BY <1>2, <2>1, <2>2, <2>3, <2>4 DEF CoverInv
<1>6. ASSUME NEW h \in Handlers, WebhookCreditFails(h) PROVE CoverInv'
  <2>1. /\ wpc'[h] # "payout" /\ UNCHANGED payouts
        /\ \A g \in Handlers : g # h => wpc'[g] = wpc[g] /\ worder'[g] = worder[g]
        /\ orderRefs' = orderRefs \/ orderRefs' = orderRefs \union {worder[h]}
    BY <1>1, <1>6 DEF WebhookCreditFails
  <2>2. IsFiniteSet(orderRefs')
    BY <1>0, <2>1, FS_AddElement
  <2> QED
    BY <1>2, <1>3, <2>1, <2>2 DEF CoverInv
<1>7. ASSUME NEW h \in Handlers, WebhookPayout(h) PROVE CoverInv'
  <2>0. wpc[h] = "payout" /\ worder[h] \in orderRefs /\ order[worder[h]] \in Intents
    BY <1>0, <1>7 DEF WebhookPayout, TypeInv, Serving
  <2> PICK o \in orderRefs : o = worder[h]
    BY <2>0
  <2> PICK k \in Intents : k = order[o]
    BY <2>0
  <2>1. /\ wpc'[h] # "payout" /\ UNCHANGED orderRefs
        /\ \A g \in Handlers : g # h => wpc'[g] = wpc[g] /\ worder'[g] = worder[g]
        /\ payouts' = payouts \/ payouts' = [payouts EXCEPT ![k] = @ + 1]
    BY <1>1, <1>7 DEF WebhookPayout
  <2>2. Unpaid(o)
    BY <2>0 DEF Unpaid
  <2>3. ~Unpaid(o)'
    <3>1. ASSUME NEW g \in Handlers, wpc'[g] = "payout", worder'[g] = o PROVE FALSE
      <4>1. g # h /\ wpc[g] = "payout" /\ worder[g] = o
        BY <2>1, <3>1
      <4> QED
        BY <2>0, <4>1 DEF CoverInv, OnePayerPerReference
    <3> QED
      BY <3>1 DEF Unpaid
  <2>4. OnePayerPerReference' /\ \A u : Unpaid(u)' => Unpaid(u)
    BY <1>3, <2>1
  <2>5. IsFiniteSet(orderRefs')
    BY <1>0, <2>1
  <2>6. CASE payouts' = payouts
    BY <1>2, <2>1, <2>4, <2>5, <2>6 DEF CoverInv
  <2>7. CASE payouts' = [payouts EXCEPT ![k] = @ + 1]
    <3>1. ASSUME NEW i \in Intents, i # k
          PROVE  payouts'[i] <= Cardinality(Spent(i)') + SpentRec(i)'
      <4>1. Spent(i)' = Spent(i)
        <5>1. \A u \in orderRefs : order[u] = i => u # o
          BY <3>1
        <5>2. \A u \in orderRefs : u # o => Unpaid(u)' = Unpaid(u)
          BY <2>0, <2>1 DEF Unpaid
        <5> QED
          BY <1>0, <2>1, <5>1, <5>2 DEF Spent
      <4> QED
        BY <1>0, <1>1, <2>7, <3>1, <4>1 DEF CoverInv, Covered
    <3>2. payouts'[k] <= Cardinality(Spent(k)') + SpentRec(k)'
      <4>1. o \notin Spent(k)
        BY <2>2 DEF Spent
      <4>2. o \in Spent(k)'
        BY <1>0, <2>1, <2>3 DEF Spent
      <4>3. Spent(k) \subseteq Spent(k)'
        BY <1>0, <2>1, <2>4 DEF Spent
      <4>4. IsFiniteSet(Spent(k)) /\ Cardinality(Spent(k)) \in Nat
        BY <1>0, SpentFinite
      <4>5. /\ IsFiniteSet(Spent(k) \union {o})
            /\ Cardinality(Spent(k) \union {o}) = Cardinality(Spent(k)) + 1
        BY <4>1, <4>4, FS_AddElement
      <4>6. IsFiniteSet(Spent(k)')
        <5>1. Spent(k)' \in SUBSET orderRefs'
          BY DEF Spent
        <5> QED
          BY <2>5, <5>1, FS_Subset
      <4>7. Spent(k) \union {o} \in SUBSET Spent(k)'
        BY <4>2, <4>3
      <4>8. Cardinality(Spent(k)) + 1 <= Cardinality(Spent(k)') /\ Cardinality(Spent(k)') \in Nat
        BY <4>5, <4>6, <4>7, FS_Subset, FS_CardinalityType
      <4>9. payouts'[k] = payouts[k] + 1 /\ payouts[k] \in Nat
        BY <1>1, <2>7
      <4>10. SpentRec(k)' = SpentRec(k)
        BY <1>0
      <4>11. SpentRec(k) \in Nat
        BY DEF SpentRec
      <4>12. payouts[k] <= Cardinality(Spent(k)) + SpentRec(k)
        BY DEF CoverInv, Covered
      <4> QED
        BY <4>4, <4>8, <4>9, <4>10, <4>11, <4>12
    <3>3. ASSUME NEW i \in Intents
          PROVE  payouts'[i] <= Cardinality(Spent(i)') + SpentRec(i)'
      BY <3>1, <3>2
    <3>4. Covered'
      BY <3>3 DEF Covered
    <3> QED
      BY <2>4, <2>5, <3>4 DEF CoverInv
  <2> QED
    BY <2>1, <2>6, <2>7
<1>8. ASSUME NEW h \in Handlers, WebhookComplete(h) \/ WebhookCrash(h) PROVE CoverInv'
  <2>1. /\ wpc'[h] # "payout" /\ UNCHANGED <<payouts, orderRefs>>
        /\ \A g \in Handlers : g # h => wpc'[g] = wpc[g] /\ worder'[g] = worder[g]
    BY <1>1, <1>8 DEF WebhookComplete, WebhookCrash, tables
  <2> QED
    BY <1>0, <1>2, <1>3, <2>1 DEF CoverInv
<1> QED
  BY <1>4, <1>5, <1>6, <1>7, <1>8 DEF Webhook, WebhookStep

LEMMA ReconcilerCover ==
  ASSUME TypeInv, CreditInv, CoverInv, Reconciler
  PROVE  CoverInv'
<1>0. /\ UNCHANGED <<order, orderRefs, wpc, worder>>
      /\ IsFiniteSet(orderRefs')
      /\ \A i : Spent(i)' = Spent(i)
  <2>1. UNCHANGED <<order, orderRefs, wpc, worder>>
    BY ReconcilerKeeps
  <2> QED
    BY <2>1 DEF CoverInv, Spent, Unpaid
<1>1. /\ rpc \in [Pods -> {"batch", "credit", "payout", "complete"}]
      /\ current \in [Pods -> Intents \union {NoIntent}]
      /\ payouts \in [Intents -> Nat]
  BY DEF TypeInv, TypeOK
<1>2. ASSUME NEW p \in Pods, UNCHANGED payouts, recRefs \subseteq recRefs', rpc'[p] # "payout",
             \A q \in Pods : q # p => rpc'[q] = rpc[q] /\ current'[q] = current[q]
      PROVE  CoverInv'
  <2>1. OnePayerPerReference'
    BY <1>0, <1>2 DEF CoverInv, OnePayerPerReference
  <2>2. ASSUME NEW i \in Intents
        PROVE  Spent(i) \subseteq Spent(i)' /\ SpentRec(i) <= SpentRec(i)'
    <3>1. UnpaidRec(i)' => UnpaidRec(i)
      BY <1>2 DEF UnpaidRec
    <3> QED
      BY <1>0, <1>2, <3>1 DEF SpentRec
  <2> QED
    BY <1>0, <1>2, <2>1, <2>2, NothingPaid DEF CoverInv
<1>3. ASSUME NEW p \in Pods, ReconcilerClaim(p) PROVE CoverInv'
  <2>1. UNCHANGED <<payouts, recRefs, rpc, current>> /\ rpc[p] # "payout"
    BY <1>3 DEF ReconcilerClaim
  <2> QED
    BY <1>2, <2>1
<1>4. ASSUME NEW p \in Pods, NEW i \in Intents, ReconcilerVerified(p, i) PROVE CoverInv'
  <2>1. claim[p][i] = "PENDING"
    BY <1>4 DEF ReconcilerVerified, Batch, CreditInv, NeverPayoutPending
  <2>2. /\ rpc' = [rpc EXCEPT ![p] = "credit"] /\ current' = [current EXCEPT ![p] = i]
        /\ UNCHANGED <<payouts, recRefs>>
    BY <1>4, <2>1 DEF ReconcilerVerified, AfterVerify, tables
  <2> QED
    BY <1>1, <1>2, <2>2
<1>5. ASSUME NEW p \in Pods, NEW i \in Intents, ReconcilerReset(p, i) PROVE CoverInv'
  BY <1>1, <1>2, <1>5 DEF ReconcilerReset, Release
<1>6. ASSUME NEW p \in Pods, ReconcilerCredit(p) PROVE CoverInv'
  <2>1. /\ current[p] \notin recRefs /\ recRefs' = recRefs \union {current[p]}
        /\ UNCHANGED <<payouts, current>>
        /\ rpc' = [rpc EXCEPT ![p] = "payout"]
    BY <1>6 DEF ReconcilerCredit
  <2>2. \A q \in Pods : q # p => rpc'[q] = rpc[q]
    BY <1>1, <2>1
  <2>3. \A q \in Pods : rpc[q] = "payout" => current[q] \in recRefs
    BY DEF CoverInv, OnePayerPerReference
  <2>4. OnePayerPerReference'
    BY <1>0, <2>1, <2>2, <2>3 DEF CoverInv, OnePayerPerReference
  <2>5. ASSUME NEW i \in Intents
        PROVE  Spent(i) \subseteq Spent(i)' /\ SpentRec(i) <= SpentRec(i)'
    <3>1. i \in recRefs /\ UnpaidRec(i)' => UnpaidRec(i)
      BY <2>1, <2>2 DEF UnpaidRec
    <3> QED
      BY <1>0, <2>1, <3>1 DEF SpentRec
  <2> QED
    BY <1>0, <2>1, <2>4, <2>5, NothingPaid DEF CoverInv
<1>7. ASSUME NEW p \in Pods, ReconcilerCreditFails(p) PROVE CoverInv'
  BY <1>1, <1>2, <1>7 DEF ReconcilerCreditFails, Release
<1>8. ASSUME NEW p \in Pods, ReconcilerPayout(p) PROVE CoverInv'
  <2>0. rpc[p] = "payout" /\ current[p] \in recRefs /\ current[p] \in Intents
    BY <1>8 DEF ReconcilerPayout, CoverInv, OnePayerPerReference, TypeInv, Settling
  <2> PICK k \in Intents : k = current[p]
    BY <2>0
  <2>1. rpc[p] = "payout" /\ k \in recRefs
    BY <2>0
  <2>2. CASE PayoutAccepted(k)
    <3>1. /\ payouts' = [payouts EXCEPT ![k] = @ + 1]
          /\ rpc' = [rpc EXCEPT ![p] = "complete"]
          /\ UNCHANGED <<recRefs, current>>
      BY <1>8, <2>2 DEF ReconcilerPayout
    <3>2. \A q \in Pods : q # p => rpc'[q] = rpc[q]
      BY <1>1, <3>1
    <3>3. OnePayerPerReference'
      BY <1>0, <1>1, <3>1, <3>2 DEF CoverInv, OnePayerPerReference
    <3>4. UnpaidRec(k) /\ ~UnpaidRec(k)'
      <4>1. ASSUME NEW q \in Pods, rpc'[q] = "payout", current'[q] = k PROVE FALSE
        BY <1>1, <2>1, <3>1, <3>2, <4>1 DEF CoverInv, OnePayerPerReference
      <4> QED
        BY <2>1, <4>1 DEF UnpaidRec
    <3>5. SpentRec(k) = 0 /\ SpentRec(k)' = 1
      BY <2>1, <3>1, <3>4 DEF SpentRec
    <3>6. ASSUME NEW i \in Intents PROVE payouts'[i] <= Cardinality(Spent(i)') + SpentRec(i)'
      <4>1. payouts[i] \in Nat /\ payouts[i] <= Cardinality(Spent(i)) + SpentRec(i)
        BY <1>1 DEF CoverInv, Covered
      <4>2. Spent(i)' = Spent(i) /\ Cardinality(Spent(i)) \in Nat
        BY <1>0, SpentFinite DEF CoverInv
      <4>3. CASE i = k
        BY <1>1, <2>1, <3>1, <3>5, <4>1, <4>2, <4>3
      <4>4. CASE i # k
        <5>1. UnpaidRec(i)' = UnpaidRec(i)
          BY <1>1, <3>1, <3>2, <4>4 DEF UnpaidRec
        <5>2. SpentRec(i)' = SpentRec(i)
          BY <3>1, <5>1 DEF SpentRec
        <5>3. payouts'[i] = payouts[i]
          BY <1>1, <3>1, <4>4
        <5> QED
          BY <4>1, <4>2, <5>2, <5>3
      <4> QED
        BY <4>3, <4>4
    <3>7. Covered'
      BY <3>6 DEF Covered
    <3> QED
      BY <1>0, <3>3, <3>7 DEF CoverInv
  <2>3. CASE ~PayoutAccepted(k)
    BY <1>1, <1>2, <1>8, <2>3 DEF ReconcilerPayout, Release
  <2> QED
    BY <2>2, <2>3
<1>9. ASSUME NEW p \in Pods, ReconcilerComplete(p) PROVE CoverInv'
  BY <1>1, <1>2, <1>9 DEF ReconcilerComplete, Release
<1>10. ASSUME NEW p \in Pods, ReconcilerCrash(p) PROVE CoverInv'
  BY <1>1, <1>2, <1>10 DEF ReconcilerCrash, tables
<1> QED
  BY <1>3, <1>4, <1>5, <1>6, <1>7, <1>8, <1>9, <1>10 DEF Reconciler, ReconcilerStep

\* However often webhooks and cycles settle an intent, no more is paid out for
\* it than was credited under references of its own.
THEOREM PayoutsAreCovered == Spec => []PayoutsCovered
<1>1. Init => CoverInv
  <2> SUFFICES ASSUME Init PROVE CoverInv
    OBVIOUS
  <2>1. IsFiniteSet(orderRefs)
    BY FS_EmptySet DEF Init
  <2>2. OnePayerPerReference
    BY DEF Init, OnePayerPerReference
  <2>3. ASSUME NEW i \in Intents PROVE payouts[i] <= Cardinality(Spent(i)) + SpentRec(i)
    BY <2>1, SpentFinite DEF Init, SpentRec
  <2> QED
    BY <2>1, <2>2, <2>3 DEF CoverInv, Covered
<1>2. TypeInv /\ CreditInv /\ CoverInv /\ [Next]_vars => CoverInv'
  <2> SUFFICES ASSUME TypeInv, CreditInv, CoverInv, [Next]_vars PROVE CoverInv'
    OBVIOUS
  <2>1. CASE Next
    BY <2>1, CreateCover, WebhookCover, ReconcilerCover DEF Next
  <2>2. CASE UNCHANGED vars
    BY <2>2 DEF vars, CoverInv, OnePayerPerReference, Covered, Spent, Unpaid, SpentRec, UnpaidRec
  <2> QED
    BY <2>1, <2>2
<1>3. TypeInv /\ CoverInv => PayoutsCovered
  <2> SUFFICES ASSUME TypeInv, CoverInv, NEW i \in Intents
               PROVE  payouts[i] <= Cardinality(Refs(i)) + (IF i \in recRefs THEN 1 ELSE 0)
    BY DEF PayoutsCovered, Refs
  <2>1. IsFiniteSet(Refs(i))
    <3>1. Refs(i) \in SUBSET orderRefs
      BY DEF Refs
    <3> QED
      BY <3>1, FS_Subset DEF CoverInv
  <2>2. /\ Cardinality(Spent(i)) <= Cardinality(Refs(i))
        /\ Cardinality(Spent(i)) \in Nat /\ Cardinality(Refs(i)) \in Nat
    <3>1. Spent(i) \in SUBSET Refs(i)
      BY DEF Spent, Refs
    <3> QED
      BY <2>1, <3>1, FS_Subset, FS_CardinalityType
  <2>3. payouts[i] \in Nat /\ payouts[i] <= Cardinality(Spent(i)) + SpentRec(i)
    BY DEF CoverInv, Covered, TypeInv, TypeOK
  <2>4. CASE i \in recRefs
    <3>1. SpentRec(i) \in Nat /\ SpentRec(i) <= 1
      BY DEF SpentRec
    <3> QED
      BY <2>2, <2>3, <2>4, <3>1
  <2>5. CASE i \notin recRefs
    <3>1. SpentRec(i) = 0
      BY <2>5 DEF SpentRec
    <3> QED
      BY <2>2, <2>3, <2>5, <3>1
  <2> QED
    BY <2>4, <2>5
<1> QED
  BY <1>1, <1>2, <1>3, TypeInvHolds, CreditInvHolds, PTL DEF Spec

===============================================================================
