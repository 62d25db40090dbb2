------------------------- MODULE PayoutPromiseProofs -------------------------
(***************************************************************************)
(* Webhooks alone, and reconcilers alone, implement PayoutPromise: proofs  *)
(* for any number of intents, orders, concurrent requests, pods and        *)
(* faults.  Together they do not (run PayoutIntent_double).                *)
(***************************************************************************)
EXTENDS PayoutIntentProofs

-----------------------------------------------------------------------------
(* What both halves share.                                                 *)

\* An intent is paid out at most once, and a paid one is held or completed.
PhasesMeet(held) ==
  \A i \in Intents :
    \/ payouts[i] = 0 /\ status[i] \in {"none", "PENDING", held}
    \/ payouts[i] = 1 /\ status[i] \in {held, "COMPLETED"}

\* Nothing is opened, and no order exists, for an intent without a row.
RowsExist ==
  /\ \A i \in checkouts : status[i] # "none"
  /\ \A o \in Orders : order[o] \in Intents => status[order[o]] # "none"

PhaseMap == [i \in Intents |-> Phase(i)]

\* What a status write leaves behind.
LEMMA WriteStatusCases ==
  ASSUME NEW k \in Intents, NEW s, WriteStatus(k, s)
  PROVE  status' = status \/ (Storable(s) /\ status' = [status EXCEPT ![k] = s])
BY DEF WriteStatus

Elsewhere(k) == \A i \in Intents \ {k} : status'[i] = status[i] /\ payouts'[i] = payouts[i]

\* A step that touches one intent is the step of PayoutPromise its phases say.
LEMMA OnePhase ==
  ASSUME NEW k \in Intents, Elsewhere(k)
  PROVE  PhaseMap' = [PhaseMap EXCEPT ![k] = Phase(k)']
<1>1. \A i \in Intents \ {k} : Phase(i)' = Phase(i)
  BY DEF Elsewhere, Phase
<1> QED
  BY <1>1 DEF PhaseMap

LEMMA SamePhase ==
  ASSUME NEW k \in Intents, Elsewhere(k), Phase(k)' = Phase(k)
  PROVE  UNCHANGED PhaseMap
BY OnePhase DEF PhaseMap

LEMMA PhaseStep ==
  ASSUME NEW k \in Intents, Elsewhere(k),
         <<Phase(k), Phase(k)'>> \in {<<"absent", "open">>, <<"open", "held">>, <<"held", "open">>,
                                      <<"held", "paid">>}
  PROVE  Promise!Next
<1>1. PhaseMap' = [PhaseMap EXCEPT ![k] = Phase(k)'] /\ PhaseMap[k] = Phase(k)
  BY OnePhase DEF PhaseMap
<1>2. CASE Phase(k) = "absent" /\ Phase(k)' = "open"
  BY <1>1, <1>2 DEF PhaseMap, Promise!Next, Promise!Open
<1>3. CASE Phase(k) = "open" /\ Phase(k)' = "held"
  <2>1. PhaseMap' = [i \in Intents |-> IF i \in {k} THEN "held" ELSE PhaseMap[i]]
    BY <1>1, <1>3 DEF PhaseMap
  <2>2. Promise!Hold({k})
    BY <1>1, <1>3, <2>1 DEF PhaseMap, Promise!Hold
  <2>3. {k} \in SUBSET Intents
    OBVIOUS
  <2> QED
    BY <2>2, <2>3 DEF Promise!Next
<1>4. CASE Phase(k) = "held" /\ Phase(k)' = "open"
  BY <1>1, <1>4 DEF PhaseMap, Promise!Next, Promise!Drop
<1>5. CASE Phase(k) = "held" /\ Phase(k)' = "paid"
  BY <1>1, <1>5 DEF PhaseMap, Promise!Next, Promise!Pay
<1> QED
  BY <1>2, <1>3, <1>4, <1>5

\* Creation opens an intent that has no row, and nothing else.
LEMMA CreateKeeps ==
  ASSUME TypeInv, NEW held \in {"PROCESSING", "RECONCILING"}, PhasesMeet(held), Create
  PROVE  /\ UNCHANGED <<payouts, wpc, worder, rpc, claim, current>>
         /\ \A i \in Intents : status'[i] = status[i] \/ (status[i] = "none" /\ status'[i] = "PENDING")
         /\ PhasesMeet(held)'
         /\ Promise!Next \/ UNCHANGED PhaseMap
<1>1. UNCHANGED <<payouts, wpc, worder, rpc, claim, current>>
  BY DEF Create, SubmitIntent, ResubmitIntent, OpenOrder, NoCheckout, webhooks, reconcilers
<1>2. \/ status' = status
      \/ \E i \in Intents : status[i] = "none" /\ status' = [status EXCEPT ![i] = "PENDING"]
  BY DEF Create, SubmitIntent, ResubmitIntent, OpenOrder, NoCheckout
<1>3. CASE status' = status
  <2>1. UNCHANGED PhaseMap /\ PhasesMeet(held)'
    BY <1>1, <1>3 DEF PhaseMap, Phase, PhasesMeet
  <2> QED
    BY <1>1, <1>3, <2>1
<1>4. CASE \E i \in Intents : status[i] = "none" /\ status' = [status EXCEPT ![i] = "PENDING"]
  <2>1. PICK k \in Intents : status[k] = "none" /\ status' = [status EXCEPT ![k] = "PENDING"]
    BY <1>4
  <2>2. Elsewhere(k) /\ status'[k] = "PENDING" /\ payouts'[k] = payouts[k] /\ payouts[k] = 0
    BY <1>1, <2>1 DEF Elsewhere, PhasesMeet, TypeInv, TypeOK
  <2>3. Phase(k) = "absent" /\ Phase(k)' = "open"
    BY <2>1, <2>2 DEF Phase
  <2>4. Promise!Next
    BY <2>2, <2>3, PhaseStep
  <2>5. PhasesMeet(held)'
    BY <2>2 DEF PhasesMeet, Elsewhere
  <2> QED
    BY <1>1, <2>1, <2>2, <2>4, <2>5 DEF Elsewhere
<1> QED
  BY <1>2, <1>3, <1>4

-----------------------------------------------------------------------------
(* Webhooks.  The row lock holds an intent from PROCESSING on; a request   *)
(* that has not called PayoutToPromptPay yet finds the intent unpaid.      *)

HandlerPaid ==
  \A h \in Handlers :
    /\ wpc[h] \in {"credit", "payout"} => payouts[order[worder[h]]] = 0
    /\ wpc[h] = "complete" => payouts[order[worder[h]]] = 1

WebhookInv ==
  /\ PhasesMeet("PROCESSING")
  /\ RowsExist
  /\ WebhookHoldsIntent
  /\ HandlerPaid

\* What follows from the invariant of a webhook being served.
LEMMA ServedFacts ==
  ASSUME TypeInv, WebhookInv, NEW h \in Handlers, wpc[h] # "idle"
  PROVE  /\ order[worder[h]] \in Intents /\ worder[h] \in Orders
         /\ status[order[worder[h]]] = "PROCESSING"
         /\ \A g \in Handlers : g # h /\ wpc[g] # "idle" => order[worder[g]] # order[worder[h]]
BY DEF TypeInv, Serving, WebhookInv, WebhookHoldsIntent

\* A request ends: its intent stays PROCESSING (a lost write, a crash), is
\* handed back unpaid, or is completed paid.
LEMMA WebhookLeaves ==
  ASSUME TypeInv, WebhookInv, NEW h \in Handlers, wpc[h] # "idle",
         NEW k \in Intents, k = order[worder[h]],
         wpc' = [wpc EXCEPT ![h] = "idle"], worder' = [worder EXCEPT ![h] = NoOrder],
         UNCHANGED <<checkouts, order, payouts>>,
         \/ status' = status
         \/ payouts[k] = 0 /\ status' = [status EXCEPT ![k] = "PENDING"]
         \/ payouts[k] = 1 /\ status' = [status EXCEPT ![k] = "COMPLETED"]
  PROVE  WebhookInv' /\ (Promise!Next \/ UNCHANGED PhaseMap)
<1>1. k \in Intents /\ status[k] = "PROCESSING" /\ worder[h] \in Orders
  BY ServedFacts
<1>2. \A g \in Handlers : g # h /\ wpc[g] # "idle" => order[worder[g]] \in Intents \ {k}
  BY ServedFacts
<1>3. /\ \A g \in Handlers : wpc'[g] # "idle" => g # h /\ wpc'[g] = wpc[g] /\ worder'[g] = worder[g]
      /\ \A i \in Intents : i # k => status'[i] = status[i]
      /\ status'[k] \in {"PROCESSING", "PENDING", "COMPLETED"}
  BY <1>1 DEF TypeInv, TypeOK
<1>4. PhasesMeet("PROCESSING")'
  BY <1>1, <1>3 DEF WebhookInv, PhasesMeet, TypeInv, TypeOK
<1>5. RowsExist'
  BY <1>1, <1>3 DEF WebhookInv, RowsExist, TypeInv, TypeOK
<1>6. WebhookHoldsIntent'
  BY <1>2, <1>3 DEF WebhookInv, WebhookHoldsIntent
<1>7. HandlerPaid'
  BY <1>3 DEF WebhookInv, HandlerPaid
<1>8. Promise!Next \/ UNCHANGED PhaseMap
  <2>1. CASE status' = status
    BY <2>1 DEF PhaseMap, Phase
  <2>2. CASE payouts[k] = 0 /\ status' = [status EXCEPT ![k] = "PENDING"]
    <3>1. Phase(k) = "held" /\ Phase(k)' = "open"
      BY <1>1, <2>2 DEF Phase, TypeInv, TypeOK
    <3> QED
      BY <1>1, <1>3, <3>1, PhaseStep DEF Elsewhere
  <2>3. CASE payouts[k] = 1 /\ status' = [status EXCEPT ![k] = "COMPLETED"]
    <3>1. Phase(k) = "paid" /\ Phase(k)' = "paid"
      BY <1>1, <2>3 DEF Phase, TypeInv, TypeOK
    <3> QED
      BY <1>1, <1>3, <3>1, SamePhase DEF Elsewhere
  <2> QED
    BY <2>1, <2>2, <2>3
<1> QED
  BY <1>4, <1>5, <1>6, <1>7, <1>8 DEF WebhookInv

LEMMA CreateWebhookInv ==
  ASSUME TypeInv, WebhookInv, Create
  PROVE  WebhookInv' /\ (Promise!Next \/ UNCHANGED PhaseMap)
<1>1. /\ UNCHANGED <<payouts, wpc, worder>>
      /\ \A i \in Intents : status'[i] = status[i] \/ (status[i] = "none" /\ status'[i] = "PENDING")
      /\ PhasesMeet("PROCESSING")'
      /\ Promise!Next \/ UNCHANGED PhaseMap
  BY CreateKeeps DEF WebhookInv
<1>2. \A o \in Orders : order[o] \in Intents => order'[o] = order[o]
  BY SentinelAssumption DEF TypeInv, TypeOK, Create, SubmitIntent, ResubmitIntent, OpenOrder, NoCheckout
<1>3. RowsExist'
  <2>1. \A i \in checkouts' : i \in Intents /\ status'[i] # "none"
    BY <1>1 DEF Create, SubmitIntent, ResubmitIntent, OpenOrder, NoCheckout, WebhookInv, RowsExist,
                TypeInv, TypeOK
  <2>2. \A o \in Orders : order'[o] \in Intents => order'[o] = order[o] \/ order'[o] \in checkouts
    BY DEF TypeInv, TypeOK, Create, SubmitIntent, ResubmitIntent, OpenOrder, NoCheckout
  <2>3. \A i \in Intents : status[i] # "none" => status'[i] # "none"
    BY <1>1
  <2> QED
    BY <2>1, <2>2, <2>3 DEF WebhookInv, RowsExist
<1>4. WebhookHoldsIntent' /\ HandlerPaid'
  <2>1. \A h \in Handlers : wpc[h] # "idle" =>
          /\ order'[worder'[h]] = order[worder[h]] /\ order[worder[h]] \in Intents
          /\ status'[order[worder[h]]] = status[order[worder[h]]]
    BY <1>1, <1>2 DEF TypeInv, Serving, WebhookInv, WebhookHoldsIntent
  <2> QED
    BY <1>1, <2>1 DEF WebhookInv, WebhookHoldsIntent, HandlerPaid
<1> QED
  BY <1>1, <1>3, <1>4 DEF WebhookInv

\* The lock is granted for a PENDING intent only, and holds it.
LEMMA LockWebhookInv ==
  ASSUME TypeInv, WebhookInv, NEW h \in Handlers, NEW o \in Orders, WebhookLock(h, o)
  PROVE  WebhookInv' /\ (Promise!Next \/ UNCHANGED PhaseMap)
<1>1. PICK k \in Intents : k = order[o]
  BY DEF WebhookLock, TypeInv, TypeOK
<1>2. status[k] = "PENDING" /\ payouts[k] = 0
  BY <1>1 DEF WebhookLock, Served, WebhookInv, PhasesMeet, RowsExist
<1>3. /\ status' = [status EXCEPT ![k] = "PROCESSING"]
      /\ wpc' = [wpc EXCEPT ![h] = "credit"] /\ worder' = [worder EXCEPT ![h] = o]
      /\ UNCHANGED <<checkouts, order, payouts>>
  BY <1>1 DEF WebhookLock
<1>4. Elsewhere(k) /\ status'[k] = "PROCESSING" /\ payouts'[k] = 0
  BY <1>2, <1>3 DEF Elsewhere, TypeInv, TypeOK
<1>5. Promise!Next
  <2>1. Phase(k) = "open" /\ Phase(k)' = "held"
    BY <1>2, <1>4 DEF Phase
  <2> QED
    BY <1>4, <2>1, PhaseStep
<1>6. PhasesMeet("PROCESSING")' /\ RowsExist'
  BY <1>3, <1>4 DEF WebhookInv, PhasesMeet, RowsExist, Elsewhere, TypeInv, TypeOK
<1>7. \A g \in Handlers : g # h /\ wpc'[g] # "idle" =>
        /\ wpc'[g] = wpc[g] /\ worder'[g] = worder[g]
        /\ order[worder[g]] \in Intents \ {k}
  BY <1>2, <1>3 DEF TypeInv, TypeOK, Serving, WebhookInv, WebhookHoldsIntent
<1>8. wpc'[h] = "credit" /\ order'[worder'[h]] = k
  BY <1>1, <1>3 DEF TypeInv, TypeOK
<1>9. WebhookHoldsIntent'
  BY <1>3, <1>4, <1>7, <1>8 DEF WebhookInv, WebhookHoldsIntent, Elsewhere
<1>10. HandlerPaid'
  BY <1>3, <1>4, <1>7, <1>8 DEF WebhookInv, HandlerPaid, Elsewhere
<1> QED
  BY <1>5, <1>6, <1>9, <1>10 DEF WebhookInv

LEMMA StepWebhookInv ==
  ASSUME TypeInv, WebhookInv, NEW h \in Handlers, WebhookStep(h) \/ WebhookCrash(h)
  PROVE  WebhookInv' /\ (Promise!Next \/ UNCHANGED PhaseMap)
<1>1. wpc[h] # "idle"
  BY DEF WebhookStep, WebhookCredit, WebhookCreditFails, WebhookPayout, WebhookComplete, WebhookCrash
<1>2. PICK k \in Intents : k = order[worder[h]]
  BY <1>1, ServedFacts
<1>3. /\ status[k] = "PROCESSING" /\ worder[h] \in Orders
      /\ \A g \in Handlers : g # h /\ wpc[g] # "idle" => order[worder[g]] # k
  BY <1>1, <1>2, ServedFacts
<1>4. CASE WebhookCredit(h)
  <2>1. /\ wpc[h] = "credit" /\ wpc' = [wpc EXCEPT ![h] = "payout"]
        /\ UNCHANGED <<status, checkouts, order, payouts, worder>>
    BY <1>4 DEF WebhookCredit
  <2>2. UNCHANGED PhaseMap /\ PhasesMeet("PROCESSING")' /\ RowsExist'
    BY <2>1 DEF PhaseMap, Phase, WebhookInv, PhasesMeet, RowsExist
  <2>3. WebhookHoldsIntent' /\ HandlerPaid'
    BY <2>1 DEF WebhookInv, WebhookHoldsIntent, HandlerPaid, TypeInv, TypeOK
  <2> QED
    BY <2>2, <2>3 DEF WebhookInv
<1>5. CASE WebhookCreditFails(h)
  <2>1. payouts[k] = 0
    BY <1>2, <1>5 DEF WebhookCreditFails, WebhookInv, HandlerPaid
  <2>2. status' = status \/ status' = [status EXCEPT ![k] = "PENDING"]
    BY <1>2, <1>5, WriteStatusCases DEF WebhookCreditFails
  <2>3. /\ wpc' = [wpc EXCEPT ![h] = "idle"] /\ worder' = [worder EXCEPT ![h] = NoOrder]
        /\ UNCHANGED <<checkouts, order, payouts>>
    BY <1>5 DEF WebhookCreditFails
  <2> QED
    BY <1>1, <1>2, <2>1, <2>2, <2>3, WebhookLeaves
<1>6. CASE WebhookPayout(h) /\ PayoutAccepted(k)
  <2>1. /\ wpc[h] = "payout" /\ wpc' = [wpc EXCEPT ![h] = "complete"]
        /\ payouts' = [payouts EXCEPT ![k] = @ + 1]
        /\ UNCHANGED <<status, checkouts, order, worder>>
    BY <1>2, <1>6 DEF WebhookPayout
  <2>2. payouts[k] = 0
    BY <1>2, <2>1 DEF WebhookInv, HandlerPaid
  <2>3. Elsewhere(k) /\ payouts'[k] = 1 /\ status'[k] = "PROCESSING"
    BY <1>3, <2>1, <2>2 DEF Elsewhere, TypeInv, TypeOK
  <2>4. Promise!Next
    <3>1. Phase(k) = "held" /\ Phase(k)' = "paid"
      BY <1>3, <2>2, <2>3 DEF Phase
    <3> QED
      BY <2>3, <3>1, PhaseStep
  <2>5. PhasesMeet("PROCESSING")' /\ RowsExist'
    BY <2>1, <2>3 DEF WebhookInv, PhasesMeet, RowsExist, Elsewhere
  <2>6. WebhookHoldsIntent'
    BY <1>1, <2>1 DEF WebhookInv, WebhookHoldsIntent, TypeInv, TypeOK
  <2>7. \A g \in Handlers : g # h /\ wpc'[g] # "idle" =>
          wpc'[g] = wpc[g] /\ order[worder[g]] \in Intents \ {k}
    BY <1>3, <2>1 DEF TypeInv, TypeOK, Serving
  <2>8. HandlerPaid'
    BY <1>2, <2>1, <2>3, <2>7 DEF WebhookInv, HandlerPaid, Elsewhere, TypeInv, TypeOK
  <2> QED
    BY <2>4, <2>5, <2>6, <2>8 DEF WebhookInv
<1>7. CASE WebhookPayout(h) /\ ~PayoutAccepted(k)
  <2>1. /\ wpc' = [wpc EXCEPT ![h] = "idle"] /\ worder' = [worder EXCEPT ![h] = NoOrder]
        /\ UNCHANGED <<checkouts, order, payouts>>
        /\ WriteStatus(k, "PAYMENT_SUCCESS_PAYOUT_PENDING")
    BY <1>2, <1>7 DEF WebhookPayout
  <2>2. status' = status
    BY <2>1, WriteStatusCases DEF Storable
  <2> QED
    BY <1>1, <1>2, <2>1, <2>2, WebhookLeaves
<1>8. CASE WebhookComplete(h)
  <2>1. payouts[k] = 1
    BY <1>2, <1>8 DEF WebhookComplete, WebhookInv, HandlerPaid
  <2>2. status' = status \/ status' = [status EXCEPT ![k] = "COMPLETED"]
    BY <1>2, <1>8, WriteStatusCases DEF WebhookComplete
  <2>3. /\ wpc' = [wpc EXCEPT ![h] = "idle"] /\ worder' = [worder EXCEPT ![h] = NoOrder]
        /\ UNCHANGED <<checkouts, order, payouts>>
    BY <1>8 DEF WebhookComplete
  <2> QED
    BY <1>1, <1>2, <2>1, <2>2, <2>3, WebhookLeaves
<1>9. CASE WebhookCrash(h)
  <2>1. /\ wpc' = [wpc EXCEPT ![h] = "idle"] /\ worder' = [worder EXCEPT ![h] = NoOrder]
        /\ UNCHANGED <<status, checkouts, order, payouts>>
    BY <1>9 DEF WebhookCrash, tables
  <2> QED
    BY <1>1, <1>2, <2>1, WebhookLeaves
<1> QED
  BY <1>4, <1>5, <1>6, <1>7, <1>8, <1>9 DEF WebhookStep

LEMMA WebhookInvStep ==
  ASSUME TypeInv, WebhookInv, [Create \/ Webhook]_vars
  PROVE  TypeInv' /\ WebhookInv' /\ (Promise!Next \/ UNCHANGED PhaseMap)
<1>1. CASE Create
  BY <1>1, CreateType, CreateWebhookInv
<1>2. CASE Webhook
  BY <1>2, WebhookType, LockWebhookInv, StepWebhookInv DEF Webhook
<1>3. CASE UNCHANGED vars
  BY <1>3 DEF vars, TypeInv, TypeOK, Serving, Settling, WebhookInv, PhasesMeet, RowsExist,
              WebhookHoldsIntent, HandlerPaid, PhaseMap, Phase
<1> QED
  BY <1>1, <1>2, <1>3

LEMMA WebhookInvInit == Init => WebhookInv /\ Promise!Init
<1> SUFFICES ASSUME Init PROVE WebhookInv /\ Promise!Init
  OBVIOUS
<1>1. WebhookInv
  BY SentinelAssumption
  DEF Init, WebhookInv, PhasesMeet, RowsExist, WebhookHoldsIntent, HandlerPaid
<1>2. \A i \in Intents : Phase(i) = "absent"
  BY DEF Init, Phase
<1> QED
  BY <1>1, <1>2 DEF Promise!Init

\* The webhook's row lock serves one delivery of an intent at a time, whatever
\* requests are redelivered, crash, or lose their writes.
THEOREM WebhookLockHolds == WebhookSpec => []WebhookHoldsIntent
<1>1. WebhookInv => WebhookHoldsIntent
  BY DEF WebhookInv
<1> QED
  BY <1>1, InitType, WebhookInvInit, WebhookInvStep, PTL DEF WebhookSpec

\* Webhooks without reconcilers pay each intent out once and never reopen it:
\* they implement the promise.
THEOREM WebhooksKeepPromise == WebhookSpec => KeepsPromise
<1>1. TypeInv /\ WebhookInv /\ [Create \/ Webhook]_vars
        => [Promise!Next]_([i \in Intents |-> Phase(i)])
  BY WebhookInvStep DEF PhaseMap
<1> QED
  BY <1>1, InitType, WebhookInvInit, WebhookInvStep, PTL DEF WebhookSpec, KeepsPromise, Promise!Spec

-----------------------------------------------------------------------------
(* Reconcilers.  The claim holds an intent from RECONCILING on; only the   *)
(* intent a pod is completing has been paid out.                           *)

PodPaid ==
  \A p \in Pods :
    /\ rpc[p] # "batch" => current[p] \in Batch(p)
    /\ \A i \in Batch(p) : payouts[i] = IF rpc[p] = "complete" /\ current[p] = i THEN 1 ELSE 0

ClaimsPending == \A p \in Pods : \A i \in Intents : claim[p][i] \in {"none", "PENDING"}

CycleInv ==
  /\ PhasesMeet("RECONCILING")
  /\ PodHoldsBatch
  /\ PodPaid
  /\ ClaimsPending

\* An intent of a batch: RECONCILING, in no other batch, and unpaid unless its
\* pod is completing it.
LEMMA InBatch ==
  ASSUME TypeInv, CycleInv, NEW p \in Pods, NEW k \in Batch(p)
  PROVE  /\ k \in Intents /\ status[k] = "RECONCILING" /\ claim[p][k] = "PENDING"
         /\ payouts[k] = IF rpc[p] = "complete" /\ current[p] = k THEN 1 ELSE 0
         /\ \A q \in Pods : k \in Batch(q) => q = p
BY DEF CycleInv, PodHoldsBatch, PodPaid, ClaimsPending, Batch

\* A cycle lets an intent go: it stays RECONCILING (a lost write), is handed
\* back unpaid, or is completed paid.
LEMMA CycleLeaves ==
  ASSUME TypeInv, CycleInv, NEW p \in Pods, NEW k \in Batch(p), rpc[p] = "batch" \/ current[p] = k,
         claim' = [claim EXCEPT ![p][k] = "none"], current' = [current EXCEPT ![p] = NoIntent],
         rpc' = [rpc EXCEPT ![p] = "batch"], UNCHANGED payouts,
         \/ status' = status
         \/ payouts[k] = 0 /\ status' = [status EXCEPT ![k] = "PENDING"]
         \/ payouts[k] = 1 /\ status' = [status EXCEPT ![k] = "COMPLETED"]
  PROVE  CycleInv' /\ (Promise!Next \/ UNCHANGED PhaseMap)
<1>1. k \in Intents /\ status[k] = "RECONCILING" /\ \A q \in Pods : k \in Batch(q) => q = p
  BY InBatch
<1>2. /\ Elsewhere(k)
      /\ status'[k] \in {"RECONCILING", "PENDING", "COMPLETED"}
      /\ status'[k] = "PENDING" => payouts[k] = 0
      /\ status'[k] = "COMPLETED" => payouts[k] = 1
  BY <1>1 DEF Elsewhere, TypeInv, TypeOK
<1>3. \A q \in Pods : \A i \in Intents :
        claim'[q][i] = IF q = p /\ i = k THEN "none" ELSE claim[q][i]
  BY <1>1 DEF TypeInv, TypeOK
<1>4. \A q \in Pods : Batch(q)' = Batch(q) \ {k}
  BY <1>1, <1>3 DEF Batch
<1>5. PhasesMeet("RECONCILING")'
  BY <1>1, <1>2 DEF CycleInv, PhasesMeet, Elsewhere
<1>6. PodHoldsBatch'
  BY <1>2, <1>4 DEF CycleInv, PodHoldsBatch, Elsewhere, Batch
<1>7. ClaimsPending'
  BY <1>3 DEF CycleInv, ClaimsPending
<1>8. PodPaid'
  <2> SUFFICES ASSUME NEW q \in Pods
               PROVE  /\ rpc'[q] # "batch" => current'[q] \in Batch(q)'
                      /\ \A i \in Batch(q)' :
                           payouts'[i] = IF rpc'[q] = "complete" /\ current'[q] = i THEN 1 ELSE 0
    BY DEF PodPaid
  <2>1. CASE q = p
    <3>1. rpc'[q] = "batch"
      BY <2>1 DEF TypeInv, TypeOK
    <3>2. \A i \in Batch(p) : i # k => payouts[i] = 0
      BY DEF CycleInv, PodPaid
    <3> QED
      BY <1>4, <2>1, <3>1, <3>2
  <2>2. CASE q # p
    <3>1. rpc'[q] = rpc[q] /\ current'[q] = current[q]
      BY <2>2 DEF TypeInv, TypeOK
    <3>2. k \notin Batch(q)
      BY <1>1, <2>2
    <3>3. Batch(q)' = Batch(q)
      BY <1>4, <3>2
    <3> QED
      BY <3>1, <3>3 DEF CycleInv, PodPaid
  <2> QED
    BY <2>1, <2>2
<1>9. Promise!Next \/ UNCHANGED PhaseMap
  <2>1. CASE status' = status
    BY <2>1 DEF PhaseMap, Phase
  <2>2. CASE payouts[k] = 0 /\ status' = [status EXCEPT ![k] = "PENDING"]
    <3>1. Phase(k) = "held" /\ Phase(k)' = "open"
      BY <1>1, <2>2 DEF Phase, TypeInv, TypeOK
    <3> QED
      BY <1>1, <1>2, <3>1, PhaseStep
  <2>3. CASE payouts[k] = 1 /\ status' = [status EXCEPT ![k] = "COMPLETED"]
    <3>1. Phase(k) = "paid" /\ Phase(k)' = "paid"
      BY <1>1, <2>3 DEF Phase, TypeInv, TypeOK
    <3> QED
      BY <1>1, <1>2, <3>1, SamePhase
  <2> QED
    BY <2>1, <2>2, <2>3
<1> QED
  BY <1>5, <1>6, <1>7, <1>8, <1>9 DEF CycleInv

LEMMA CreateCycleInv ==
  ASSUME TypeInv, CycleInv, Create
  PROVE  CycleInv' /\ (Promise!Next \/ UNCHANGED PhaseMap)
<1>1. /\ UNCHANGED <<payouts, rpc, claim, current>>
      /\ \A i \in Intents : status'[i] = status[i] \/ (status[i] = "none" /\ status'[i] = "PENDING")
      /\ PhasesMeet("RECONCILING")'
      /\ Promise!Next \/ UNCHANGED PhaseMap
  BY CreateKeeps DEF CycleInv
<1>2. PodHoldsBatch' /\ PodPaid' /\ ClaimsPending'
  BY <1>1 DEF CycleInv, PodHoldsBatch, PodPaid, ClaimsPending, Batch
<1> QED
  BY <1>1, <1>2 DEF CycleInv

\* The claim takes PENDING intents only, and holds all of them at once.
LEMMA ClaimCycleInv ==
  ASSUME TypeInv, CycleInv, NEW p \in Pods, ReconcilerClaim(p)
  PROVE  CycleInv' /\ (Promise!Next \/ UNCHANGED PhaseMap)
<1>1. PICK batch \in SUBSET {i \in Intents : status[i] \in Claimable} :
        /\ claim' = [claim EXCEPT ![p] = Originals(batch)]
        /\ status' = Marked(batch)
  BY DEF ReconcilerClaim
<1>2. rpc[p] = "batch" /\ UNCHANGED <<payouts, rpc, current>>
  BY DEF ReconcilerClaim
<1>3. \A i \in batch : i \in Intents /\ status[i] = "PENDING" /\ payouts[i] = 0
  BY DEF Claimable, CycleInv, PhasesMeet
<1>4. \A i \in Intents : status'[i] = IF i \in batch THEN "RECONCILING" ELSE status[i]
  BY <1>1 DEF Marked
<1>5. \A q \in Pods : \A i \in Intents :
        claim'[q][i] = IF q = p THEN (IF i \in batch THEN "PENDING" ELSE "none") ELSE claim[q][i]
  BY <1>1, <1>3 DEF Originals, TypeInv, TypeOK
<1>6. \A q \in Pods : Batch(q)' = IF q = p THEN batch ELSE Batch(q)
  BY <1>3, <1>5 DEF Batch
<1>7. PhasesMeet("RECONCILING")'
  BY <1>2, <1>3, <1>4 DEF CycleInv, PhasesMeet
<1>8. PodHoldsBatch'
  BY <1>3, <1>4, <1>6 DEF CycleInv, PodHoldsBatch, Batch
<1>9. ClaimsPending'
  BY <1>5 DEF CycleInv, ClaimsPending
<1>10. PodPaid'
  BY <1>2, <1>3, <1>6 DEF CycleInv, PodPaid
<1>11. Promise!Next
  <2>1. \A i \in Intents : /\ i \in batch => Phase(i) = "open" /\ Phase(i)' = "held"
                           /\ i \notin batch => Phase(i)' = Phase(i)
    BY <1>2, <1>3, <1>4 DEF Phase
  <2>2. PhaseMap' = [i \in Intents |-> IF i \in batch THEN "held" ELSE PhaseMap[i]]
    BY <2>1 DEF PhaseMap
  <2>3. Promise!Hold(batch)
    BY <2>1, <2>2 DEF PhaseMap, Promise!Hold
  <2> QED
    BY <2>3 DEF Promise!Next
<1> QED
  BY <1>7, <1>8, <1>9, <1>10, <1>11 DEF CycleInv

\* Steps of a pod between its status writes, which pay nothing out.
LEMMA CycleMoves ==
  ASSUME TypeInv, CycleInv, NEW p \in Pods, UNCHANGED <<status, claim, payouts>>,
         NEW k \in Batch(p), current' = [current EXCEPT ![p] = k],
         rpc[p] # "complete", NEW label \in {"credit", "payout"}, rpc' = [rpc EXCEPT ![p] = label]
  PROVE  CycleInv' /\ UNCHANGED PhaseMap
<1>1. UNCHANGED PhaseMap /\ PhasesMeet("RECONCILING")' /\ PodHoldsBatch' /\ ClaimsPending'
  BY DEF PhaseMap, Phase, CycleInv, PhasesMeet, PodHoldsBatch, ClaimsPending, Batch
<1>2. \A q \in Pods : Batch(q)' = Batch(q)
  BY DEF Batch
<1>3. PodPaid'
  BY <1>2 DEF CycleInv, PodPaid, TypeInv, TypeOK
<1> QED
  BY <1>1, <1>3 DEF CycleInv

LEMMA StepCycleInv ==
  ASSUME TypeInv, CycleInv, NEW p \in Pods, ReconcilerStep(p)
  PROVE  CycleInv' /\ (Promise!Next \/ UNCHANGED PhaseMap)
<1>1. ASSUME NEW k \in Intents, ReconcilerVerified(p, k)
      PROVE  CycleInv' /\ (Promise!Next \/ UNCHANGED PhaseMap)
  <2>1. /\ k \in Batch(p) /\ rpc[p] = "batch" /\ current' = [current EXCEPT ![p] = k]
        /\ UNCHANGED <<status, claim, payouts>>
    BY <1>1 DEF ReconcilerVerified, tables
  <2>2. rpc' = [rpc EXCEPT ![p] = "credit"]
    BY <1>1, <2>1, InBatch DEF ReconcilerVerified, AfterVerify
  <2> QED
    BY <2>1, <2>2, CycleMoves
<1>2. ASSUME NEW k \in Intents, ReconcilerReset(p, k)
      PROVE  CycleInv' /\ (Promise!Next \/ UNCHANGED PhaseMap)
  <2>1. /\ k \in Batch(p) /\ rpc[p] = "batch" /\ UNCHANGED payouts
        /\ Release(p, k, claim[p][k])
    BY <1>2 DEF ReconcilerReset
  <2>2. claim[p][k] = "PENDING" /\ payouts[k] = 0
    BY <2>1, InBatch
  <2>3. status' = status \/ status' = [status EXCEPT ![k] = "PENDING"]
    BY <2>1, <2>2, WriteStatusCases DEF Release
  <2>4. /\ claim' = [claim EXCEPT ![p][k] = "none"] /\ current' = [current EXCEPT ![p] = NoIntent]
        /\ rpc' = [rpc EXCEPT ![p] = "batch"]
    BY <2>1 DEF Release
  <2> QED
    BY <2>1, <2>2, <2>3, <2>4, CycleLeaves
<1>3. ASSUME rpc[p] # "batch" PROVE current[p] \in Batch(p) /\ current[p] \in Intents
  BY <1>3 DEF CycleInv, PodPaid, Batch
<1>4. CASE ReconcilerCredit(p)
  <2>1. /\ rpc[p] = "credit" /\ rpc' = [rpc EXCEPT ![p] = "payout"]
        /\ UNCHANGED <<status, claim, payouts, current>>
    BY <1>4 DEF ReconcilerCredit
  <2>2. current[p] \in Batch(p) /\ current' = [current EXCEPT ![p] = current[p]]
    BY <1>3, <2>1 DEF TypeInv, TypeOK
  <2>3. PICK k \in Batch(p) : current' = [current EXCEPT ![p] = k]
    BY <2>2
  <2> QED
    BY <2>1, <2>3, CycleMoves
<1>5. CASE ReconcilerCreditFails(p)
  <2>1. rpc[p] = "credit" /\ UNCHANGED payouts
    BY <1>5 DEF ReconcilerCreditFails
  <2>2. PICK k \in Batch(p) : k = current[p] /\ k \in Intents
    BY <1>3, <2>1
  <2>3. payouts[k] = 0
    BY <2>1, <2>2, InBatch
  <2>4. status' = status \/ status' = [status EXCEPT ![k] = "PENDING"]
    BY <1>5, <2>2, WriteStatusCases DEF ReconcilerCreditFails, Release
  <2>5. /\ claim' = [claim EXCEPT ![p][k] = "none"] /\ current' = [current EXCEPT ![p] = NoIntent]
        /\ rpc' = [rpc EXCEPT ![p] = "batch"]
    BY <1>5, <2>2 DEF ReconcilerCreditFails, Release
  <2> QED
    BY <2>1, <2>2, <2>3, <2>4, <2>5, CycleLeaves
<1>6. CASE ReconcilerPayout(p)
  <2>1. rpc[p] = "payout"
    BY <1>6 DEF ReconcilerPayout
  <2>2. PICK k \in Batch(p) : k = current[p] /\ k \in Intents
    BY <1>3, <2>1
  <2>3. payouts[k] = 0 /\ status[k] = "RECONCILING" /\ \A q \in Pods : k \in Batch(q) => q = p
    BY <2>1, <2>2, InBatch
  <2>4. CASE PayoutAccepted(k)
    <3>1. /\ payouts' = [payouts EXCEPT ![k] = @ + 1] /\ rpc' = [rpc EXCEPT ![p] = "complete"]
          /\ UNCHANGED <<status, claim, current>>
      BY <1>6, <2>2, <2>4 DEF ReconcilerPayout
    <3>2. Elsewhere(k) /\ payouts'[k] = 1 /\ status'[k] = "RECONCILING"
      BY <2>2, <2>3, <3>1 DEF Elsewhere, TypeInv, TypeOK
    <3>3. Promise!Next
      <4>1. Phase(k) = "held" /\ Phase(k)' = "paid"
        BY <2>3, <3>2 DEF Phase
      <4> QED
        BY <2>2, <3>2, <4>1, PhaseStep
    <3>4. PhasesMeet("RECONCILING")' /\ PodHoldsBatch' /\ ClaimsPending'
      BY <3>1, <3>2 DEF CycleInv, PhasesMeet, PodHoldsBatch, ClaimsPending, Batch, Elsewhere
    <3>5. \A q \in Pods : Batch(q)' = Batch(q) /\ Batch(q) \subseteq Intents
      BY <3>1 DEF Batch
    <3>6. PodPaid'
      <4> SUFFICES ASSUME NEW q \in Pods
                   PROVE  /\ rpc'[q] # "batch" => current'[q] \in Batch(q)
                          /\ \A i \in Batch(q) :
                               payouts'[i] = IF rpc'[q] = "complete" /\ current'[q] = i THEN 1 ELSE 0
        BY <3>5 DEF PodPaid
      <4>1. CASE q = p
        <5>1. rpc'[p] = "complete" /\ current'[p] = k
          BY <2>2, <3>1 DEF TypeInv, TypeOK
        <5>2. \A i \in Batch(p) : i # k => payouts'[i] = 0
          BY <2>1, <3>2, <3>5 DEF CycleInv, PodPaid, Elsewhere
        <5> QED
          BY <2>2, <3>2, <4>1, <5>1, <5>2
      <4>2. CASE q # p
        <5>1. rpc'[q] = rpc[q] /\ current'[q] = current[q] /\ k \notin Batch(q)
          BY <2>3, <3>1, <4>2 DEF TypeInv, TypeOK
        <5>2. \A i \in Batch(q) : payouts'[i] = payouts[i]
          BY <3>2, <3>5, <5>1 DEF Elsewhere
        <5> QED
          BY <5>1, <5>2 DEF CycleInv, PodPaid
      <4> QED
        BY <4>1, <4>2
    <3> QED
      BY <3>3, <3>4, <3>6 DEF CycleInv
  <2>5. CASE ~PayoutAccepted(k)
    <3>1. Release(p, k, "PAYMENT_SUCCESS_PAYOUT_PENDING") /\ UNCHANGED payouts
      BY <1>6, <2>2, <2>5 DEF ReconcilerPayout
    <3>2. status' = status
      BY <2>2, <3>1, WriteStatusCases DEF Release, Storable
    <3>3. /\ claim' = [claim EXCEPT ![p][k] = "none"] /\ current' = [current EXCEPT ![p] = NoIntent]
          /\ rpc' = [rpc EXCEPT ![p] = "batch"]
      BY <3>1 DEF Release
    <3> QED
      BY <2>2, <3>1, <3>2, <3>3, CycleLeaves
  <2> QED
    BY <2>4, <2>5
<1>7. CASE ReconcilerComplete(p)
  <2>1. rpc[p] = "complete" /\ UNCHANGED payouts
    BY <1>7 DEF ReconcilerComplete
  <2>2. PICK k \in Batch(p) : k = current[p] /\ k \in Intents
    BY <1>3, <2>1
  <2>3. payouts[k] = 1
    BY <2>1, <2>2, InBatch
  <2>4. status' = status \/ status' = [status EXCEPT ![k] = "COMPLETED"]
    BY <1>7, <2>2, WriteStatusCases DEF ReconcilerComplete, Release
  <2>5. /\ claim' = [claim EXCEPT ![p][k] = "none"] /\ current' = [current EXCEPT ![p] = NoIntent]
        /\ rpc' = [rpc EXCEPT ![p] = "batch"]
    BY <1>7, <2>2 DEF ReconcilerComplete, Release
  <2> QED
    BY <2>1, <2>2, <2>3, <2>4, <2>5, CycleLeaves
<1> QED
  BY <1>1, <1>2, <1>4, <1>5, <1>6, <1>7 DEF ReconcilerStep

LEMMA CrashCycleInv ==
  ASSUME TypeInv, CycleInv, NEW p \in Pods, ReconcilerCrash(p)
  PROVE  CycleInv' /\ UNCHANGED PhaseMap
<1>1. /\ claim' = [claim EXCEPT ![p] = [i \in Intents |-> "none"]]
      /\ rpc' = [rpc EXCEPT ![p] = "batch"] /\ current' = [current EXCEPT ![p] = NoIntent]
      /\ UNCHANGED <<status, payouts>>
  BY DEF ReconcilerCrash, tables
<1>2. UNCHANGED PhaseMap /\ PhasesMeet("RECONCILING")'
  BY <1>1 DEF PhaseMap, Phase, CycleInv, PhasesMeet
<1>3. \A q \in Pods : \A i \in Intents : claim'[q][i] = IF q = p THEN "none" ELSE claim[q][i]
  BY <1>1 DEF TypeInv, TypeOK
<1>4. \A q \in Pods : Batch(q)' = IF q = p THEN {} ELSE Batch(q)
  BY <1>3 DEF Batch
<1>5. PodHoldsBatch' /\ PodPaid' /\ ClaimsPending'
  BY <1>1, <1>3, <1>4 DEF CycleInv, PodHoldsBatch, PodPaid, ClaimsPending, TypeInv, TypeOK
<1> QED
  BY <1>2, <1>5 DEF CycleInv

LEMMA CycleInvStep ==
  ASSUME TypeInv, CycleInv, [Create \/ Reconciler]_vars
  PROVE  TypeInv' /\ CycleInv' /\ (Promise!Next \/ UNCHANGED PhaseMap)
<1>1. CASE Create
  BY <1>1, CreateType, CreateCycleInv
<1>2. CASE Reconciler
  BY <1>2, ReconcilerType, ClaimCycleInv, StepCycleInv, CrashCycleInv DEF Reconciler
<1>3. CASE UNCHANGED vars
  BY <1>3 DEF vars, TypeInv, TypeOK, Serving, Settling, CycleInv, PhasesMeet, PodHoldsBatch, PodPaid,
              ClaimsPending, Batch, PhaseMap, Phase
<1> QED
  BY <1>1, <1>2, <1>3

LEMMA CycleInvInit == Init => CycleInv /\ Promise!Init
<1> SUFFICES ASSUME Init PROVE CycleInv /\ Promise!Init
  OBVIOUS
<1>1. CycleInv
  BY DEF Init, CycleInv, PhasesMeet, PodHoldsBatch, PodPaid, ClaimsPending, Batch
<1>2. \A i \in Intents : Phase(i) = "absent"
  BY DEF Init, Phase
<1> QED
  BY <1>1, <1>2 DEF Promise!Init

\* The claim (SKIP LOCKED and the RECONCILING mark) gives an intent to one pod
\* at a time, for any number of pods, batches, crashes and lost writes.
THEOREM PodClaimHolds == ReconcilerSpec => []PodHoldsBatch
<1>1. CycleInv => PodHoldsBatch
  BY DEF CycleInv
<1> QED
  BY <1>1, InitType, CycleInvInit, CycleInvStep, PTL DEF ReconcilerSpec

\* Reconcilers without webhooks pay each intent out once and never reopen it.
THEOREM ReconcilersKeepPromise == ReconcilerSpec => KeepsPromise
<1>1. TypeInv /\ CycleInv /\ [Create \/ Reconciler]_vars
        => [Promise!Next]_([i \in Intents |-> Phase(i)])
  BY CycleInvStep DEF PhaseMap
<1> QED
  BY <1>1, InitType, CycleInvInit, CycleInvStep, PTL DEF ReconcilerSpec, KeepsPromise, Promise!Spec

==============================================================================
