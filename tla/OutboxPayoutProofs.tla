-------------------------- MODULE OutboxPayoutProofs --------------------------
(***************************************************************************)
(* Theorems about OutboxPayout, for any number of events, users, workers   *)
(* and faults, any amounts and any kinds of error texts.                   *)
(***************************************************************************)
EXTENDS OutboxPayout, TLAPS

-----------------------------------------------------------------------------
(* Types.  Finalize writes what a worker's local variable holds, and every  *)
(* ledger entry is of the event a worker is at: both belong to the          *)
(* invariant.                                                               *)

Busy(w) == pc[w] # "next"

WorkerOK ==
  \A w \in Workers :
    /\ Busy(w) => event[w] \in held[w]
    /\ pc[w] = "finalize" => outcome[w] \in Replies

TypeInv == TypeOK /\ WorkerOK

LEMMA InitType == Init => TypeInv
BY MoneyAssumption DEF Init, TypeInv, TypeOK, WorkerOK, Busy

\* Entries of an event keep the types of the ledger.
LEMMA LedgerType ==
  ASSUME TypeOK, NEW e \in Events, Debit(e) \/ Refund(e) \/ UNCHANGED ledger
  PROVE  balance' \in [Users -> Int] /\ debits' \in [Events -> Nat] /\ refunds' \in [Events -> Nat]
<1>1. Owner[e] \in Users /\ Amount[e] \in Nat
  BY EventAssumption, MoneyAssumption
<1>2. CASE Debit(e)
  BY <1>1, <1>2 DEF TypeOK, Debit
<1>3. CASE Refund(e)
  BY <1>1, <1>3 DEF TypeOK, Refund
<1>4. CASE UNCHANGED ledger
  BY <1>4 DEF TypeOK, ledger
<1> QED
  BY <1>2, <1>3, <1>4

\* A worker in the middle of its event: what a step that moves it on needs.
LEMMA MoveType ==
  ASSUME TypeInv, NEW w \in Workers, Busy(w),
         NEW label \in {"call", "refund", "finalize", "record"},
         NEW result \in Replies \union ErrorTexts \union {"none", "done", "error"},
         label = "finalize" => result \in Replies,
         Goto(w, label, result), UNCHANGED <<held, event>>
  PROVE  /\ pc' \in [Workers -> {"next", "deduct", "call", "refund", "finalize", "record"}]
         /\ outcome' \in [Workers -> Replies \union ErrorTexts \union {"none", "done", "error"}]
         /\ WorkerOK'
BY DEF TypeInv, TypeOK, WorkerOK, Busy, Goto

LEMMA HandleType ==
  ASSUME TypeInv, NEW w \in Workers, Handle(w)
  PROVE  TypeInv'
<1> DEFINE Moved == /\ pc' \in [Workers -> {"next", "deduct", "call", "refund", "finalize", "record"}]
                    /\ outcome' \in [Workers -> Replies \union ErrorTexts \union {"none", "done", "error"}]
                    /\ WorkerOK'
<1>1. ASSUME NEW e \in Events, Check(w, e) PROVE TypeInv'
  <2>1. /\ Goto(w, "record", "done") \/ Goto(w, "deduct", "none")
        /\ event' = [event EXCEPT ![w] = e]
        /\ faults' \in Nat
    BY <1>1 DEF Check, AfterCheck, Fault, TypeInv, TypeOK
  <2>2. /\ e \in held[w]
        /\ UNCHANGED <<ostatus, retries, ledger, tstatus, external, sqril, held, seen>>
    BY <1>1 DEF Check, outbox, txn, batch
  <2>3. Moved
    <3>1. PICK label \in {"record", "deduct"}, result \in {"done", "none"} : Goto(w, label, result)
      BY <2>1
    <3>2. /\ pc' \in [Workers -> {"next", "deduct", "call", "refund", "finalize", "record"}]
          /\ outcome' \in [Workers -> Replies \union ErrorTexts \union {"none", "done", "error"}]
      BY <3>1 DEF Goto, TypeInv, TypeOK
    <3>3. WorkerOK'
      BY <2>1, <2>2, <3>1 DEF Goto, TypeInv, TypeOK, WorkerOK, Busy
    <3> QED
      BY <3>2, <3>3
  <2> QED
    BY <2>1, <2>2, <2>3 DEF TypeInv, TypeOK, ledger
<1>2. ASSUME Busy(w) PROVE event[w] \in Events
  BY <1>2 DEF TypeInv, TypeOK, WorkerOK
<1>3. CASE Deduct(w)
  <2>1. Moved
    BY <1>3, MoveType DEF Deduct, Busy, batch
  <2>2. balance' \in [Users -> Int] /\ debits' \in [Events -> Nat] /\ refunds' \in [Events -> Nat]
    BY <1>2, <1>3, LedgerType DEF Deduct, Busy, TypeInv
  <2>3. faults' \in Nat
    BY <1>3 DEF Deduct, Fault, TypeInv, TypeOK
  <2>4. UNCHANGED <<ostatus, retries, tstatus, external, sqril, held, seen, event>>
    BY <1>3 DEF Deduct, outbox, txn, batch
  <2> QED
    BY <2>1, <2>2, <2>3, <2>4 DEF TypeInv, TypeOK
<1>4. CASE Insufficient(w)
  <2>1. Moved
    BY <1>4, MoveType DEF Insufficient, Busy, batch
  <2>2. tstatus' \in [Events -> Replies \union {"PENDING"}]
    BY <1>4 DEF Insufficient, TypeInv, TypeOK, Replies
  <2>3. faults' \in Nat
    BY <1>4 DEF Insufficient, Fault, TypeInv, TypeOK
  <2>4. UNCHANGED <<ostatus, retries, external, ledger, sqril, held, seen, event>>
    BY <1>4 DEF Insufficient, outbox, batch
  <2> QED
    BY <2>1, <2>2, <2>3, <2>4 DEF TypeInv, TypeOK, ledger
<1>5. CASE DeductFails(w)
  <2>1. Moved
    BY <1>5, MoveType DEF DeductFails, Busy, batch
  <2> QED
    BY <1>5, <2>1 DEF DeductFails, TypeInv, TypeOK, outbox, ledger, txn, batch
<1>6. CASE Call(w)
  <2>1. Moved
    BY <1>6, MoveType DEF Call, Busy, batch
  <2>2. sqril' \in [Events -> Replies \union {"none"}]
    <3>1. PICK reply \in Replies : sqril' = [sqril EXCEPT ![event[w]] = reply]
      BY <1>6 DEF Call
    <3> QED
      BY <3>1 DEF TypeInv, TypeOK
  <2>3. UNCHANGED <<ostatus, retries, tstatus, external, ledger, held, seen, event, faults>>
    BY <1>6 DEF Call, outbox, txn, batch
  <2> QED
    BY <2>1, <2>2, <2>3 DEF TypeInv, TypeOK, ledger
<1>7. CASE CallRefused(w)
  <2>1. Moved
    BY <1>7, MoveType DEF CallRefused, Busy, batch
  <2> QED
    BY <1>7, <2>1 DEF CallRefused, TypeInv, TypeOK, outbox, ledger, txn, batch
<1>8. CASE CallUnanswered(w)
  <2>1. Moved
    BY <1>8, MoveType DEF CallUnanswered, Busy, batch
  <2>2. sqril' \in [Events -> Replies \union {"none"}]
    <3>1. PICK reply \in Replies : sqril' = [sqril EXCEPT ![event[w]] = reply]
      BY <1>8 DEF CallUnanswered
    <3> QED
      BY <3>1 DEF TypeInv, TypeOK
  <2>3. faults' \in Nat
    BY <1>8 DEF CallUnanswered, Fault, TypeInv, TypeOK
  <2>4. UNCHANGED <<ostatus, retries, tstatus, external, ledger, held, seen, event>>
    BY <1>8 DEF CallUnanswered, outbox, txn, batch
  <2> QED
    BY <2>1, <2>2, <2>3, <2>4 DEF TypeInv, TypeOK, ledger
<1>9. CASE RefundAfterError(w)
  <2>1. Moved
    BY <1>9, MoveType DEF RefundAfterError, Busy, batch
  <2>2. balance' \in [Users -> Int] /\ debits' \in [Events -> Nat] /\ refunds' \in [Events -> Nat]
    BY <1>2, <1>9, LedgerType DEF RefundAfterError, Busy, TypeInv
  <2>3. tstatus' \in [Events -> Replies \union {"PENDING"}]
    BY <1>9 DEF RefundAfterError, TypeInv, TypeOK, Replies
  <2>4. UNCHANGED <<ostatus, retries, external, sqril, held, seen, event, faults>>
    BY <1>9 DEF RefundAfterError, outbox, batch
  <2> QED
    BY <2>1, <2>2, <2>3, <2>4 DEF TypeInv, TypeOK
<1>10. CASE RefundConflicts(w) \/ RefundLost(w)
  <2>1. Moved
    BY <1>10, MoveType DEF RefundConflicts, RefundLost, Busy, batch
  <2> QED
    BY <1>10, <2>1 DEF RefundConflicts, RefundLost, Fault, TypeInv, TypeOK, outbox, ledger, txn, batch
<1>11. CASE Finalize(w)
  <2>1. Moved
    BY <1>11, MoveType DEF Finalize, Busy, batch
  <2>2. balance' \in [Users -> Int] /\ debits' \in [Events -> Nat] /\ refunds' \in [Events -> Nat]
    BY <1>2, <1>11, LedgerType DEF Finalize, FinalizeTx, Busy, TypeInv
  <2>3. event[w] \in Events /\ outcome[w] \in Replies
    BY <1>2, <1>11 DEF Finalize, Busy, TypeInv, WorkerOK
  <2>4. /\ tstatus' \in [Events -> Replies \union {"PENDING"}]
        /\ external' \subseteq Events
        /\ faults' \in Nat
    BY <1>11, <2>3 DEF Finalize, FinalizeTx, Fault, TypeInv, TypeOK
  <2>5. UNCHANGED <<ostatus, retries, sqril, held, seen, event>>
    BY <1>11 DEF Finalize, outbox, batch
  <2> QED
    BY <2>1, <2>2, <2>4, <2>5 DEF TypeInv, TypeOK
<1>12. CASE FinalizeLost(w)
  <2>1. Moved
    BY <1>12, MoveType DEF FinalizeLost, Busy, batch
  <2> QED
    BY <1>12, <2>1 DEF FinalizeLost, Fault, TypeInv, TypeOK, outbox, ledger, txn, batch
<1>13. CASE Record(w)
  <2>1. Moved
    BY <1>13 DEF Record, Goto, TypeInv, TypeOK, WorkerOK, Busy
  <2>2. ostatus' \in [Events -> {"PENDING", "RETRY_PENDING", "PROCESSING", "PROCESSED",
                                 "FAILED", "deleted"}]
    BY <1>13 DEF Record, AfterFailure, TypeInv, TypeOK
  <2>3. /\ held' \in [Workers -> SUBSET Events]
        /\ event' \in [Workers -> Events \union {NoEvent}]
        /\ faults' \in Nat
    BY <1>13 DEF Record, Fault, TypeInv, TypeOK
  <2>4. UNCHANGED <<retries, balance, debits, refunds, tstatus, external, sqril, seen>>
    BY <1>13 DEF Record, ledger, txn
  <2> QED
    BY <2>1, <2>2, <2>3, <2>4 DEF TypeInv, TypeOK
<1> QED
  BY <1>1, <1>3, <1>4, <1>5, <1>6, <1>7, <1>8, <1>9, <1>10, <1>11, <1>12, <1>13 DEF Handle

LEMMA WorkerType ==
  ASSUME TypeInv, NEW w \in Workers, Claim(w) \/ Crash(w)
  PROVE  TypeInv'
<1>1. CASE Claim(w)
  <2>1. PICK claimed \in SUBSET Events :
          /\ held' = [held EXCEPT ![w] = claimed]
          /\ seen' = [seen EXCEPT ![w] = [e \in Events |-> IF e \in claimed THEN retries[e] ELSE 0]]
          /\ ostatus' = [e \in Events |-> IF e \in claimed THEN "PROCESSING" ELSE ostatus[e]]
          /\ retries' = [e \in Events |-> retries[e] + (IF e \in claimed THEN 1 ELSE 0)]
    BY <1>1 DEF Claim
  <2>2. retries' \in [Events -> Nat] /\ seen' \in [Workers -> [Events -> Nat]]
    BY <2>1 DEF TypeInv, TypeOK
  <2> QED
    BY <1>1, <2>1, <2>2 DEF Claim, TypeInv, TypeOK, WorkerOK, Busy, ledger, txn
<1>2. CASE Crash(w)
  BY <1>2 DEF Crash, Goto, Fault, TypeInv, TypeOK, WorkerOK, Busy, outbox, ledger, txn
<1> QED
  BY <1>1, <1>2

LEMMA OthersType ==
  ASSUME TypeInv, Prune \/ PayloadBatch \/ \E e \in Events : SqrilDecides(e) \/ SqrilWebhook(e)
  PROVE  TypeInv'
<1>1. CASE Prune
  BY <1>1 DEF Prune, TypeInv, TypeOK, WorkerOK, Busy, ledger, txn, batch
<1>2. CASE PayloadBatch
  BY <1>2 DEF PayloadBatch, TypeInv, TypeOK, WorkerOK, Busy, ledger, txn, batch
<1>3. ASSUME NEW e \in Events, SqrilDecides(e) PROVE TypeInv'
  BY <1>3 DEF SqrilDecides, TypeInv, TypeOK, WorkerOK, Busy, Replies, outbox, ledger, txn, batch
<1>4. ASSUME NEW e \in Events, SqrilWebhook(e) PROVE TypeInv'
  <2>1. balance' \in [Users -> Int] /\ debits' \in [Events -> Nat] /\ refunds' \in [Events -> Nat]
    BY <1>4, LedgerType DEF SqrilWebhook, TypeInv
  <2> QED
    BY <1>4, <2>1 DEF SqrilWebhook, TypeInv, TypeOK, WorkerOK, Busy, Replies, outbox, batch
<1> QED
  BY <1>1, <1>2, <1>3, <1>4

LEMMA TypeInvHolds == Spec => []TypeInv
<1>1. TypeInv /\ [Next]_vars => TypeInv'
  <2> SUFFICES ASSUME TypeInv, [Next]_vars PROVE TypeInv'
    OBVIOUS
  <2>1. CASE Next
    BY <2>1, HandleType, WorkerType, OthersType DEF Next
  <2>2. CASE UNCHANGED vars
    BY <2>2 DEF vars, TypeInv, TypeOK, WorkerOK, Busy
  <2> QED
    BY <2>1, <2>2
<1> QED
  BY <1>1, InitType, PTL DEF Spec

\* Each variable keeps its type through every step of workers, payload-worker,
\* pruner and webhook, whatever fails on the way.
THEOREM TypeCorrect == Spec => []TypeOK
<1>1. TypeInv => TypeOK
  BY DEF TypeInv
<1> QED
  BY <1>1, TypeInvHolds, PTL

-----------------------------------------------------------------------------
(* Which steps touch what: the three arguments below look only at these.    *)

\* Steps of a worker on its event that leave ledger and transactions alone.
Quiet(w) ==
  \/ \E e \in Events : Check(w, e)
  \/ DeductFails(w) \/ Call(w) \/ CallRefused(w) \/ CallUnanswered(w)
  \/ RefundConflicts(w) \/ RefundLost(w) \/ FinalizeLost(w) \/ Record(w) \/ Claim(w) \/ Crash(w)

LEMMA NextCases ==
  ASSUME Next
  PROVE  \/ Prune \/ PayloadBatch
         \/ \E e \in Events : SqrilDecides(e) \/ SqrilWebhook(e)
         \/ \E w \in Workers :
              Quiet(w) \/ Deduct(w) \/ Insufficient(w) \/ RefundAfterError(w) \/ Finalize(w)
BY DEF Next, Handle, Quiet

LEMMA QuietLedger ==
  ASSUME NEW w \in Workers, Quiet(w)
  PROVE  UNCHANGED <<balance, debits, refunds, tstatus, external>>
BY DEF Quiet, Check, DeductFails, Call, CallRefused, CallUnanswered, RefundConflicts, RefundLost, FinalizeLost,
       Record, Claim, Crash, ledger, txn

-----------------------------------------------------------------------------
(* No overdraft.  The debit is the only entry that takes money, and it is  *)
(* made behind the lock under which the balance was summed.                *)

LEMMA RefundPays ==
  ASSUME TypeOK, NeverOverdrawn, NEW e \in Events, Refund(e) \/ UNCHANGED ledger
  PROVE  NeverOverdrawn'
<1>1. Owner[e] \in Users /\ Amount[e] \in Nat
  BY EventAssumption, MoneyAssumption
<1>2. CASE Refund(e)
  BY <1>1, <1>2 DEF TypeOK, NeverOverdrawn, Refund
<1>3. CASE UNCHANGED ledger
  BY <1>3 DEF NeverOverdrawn, ledger
<1> QED
  BY <1>2, <1>3

LEMMA OverdrawStep ==
  ASSUME TypeInv, NeverOverdrawn, Next
  PROVE  NeverOverdrawn'
<1>1. CASE Prune \/ PayloadBatch
  BY <1>1 DEF Prune, PayloadBatch, NeverOverdrawn, ledger
<1>2. ASSUME NEW e \in Events, SqrilDecides(e) PROVE NeverOverdrawn'
  BY <1>2 DEF SqrilDecides, NeverOverdrawn, ledger
<1>3. ASSUME NEW e \in Events, SqrilWebhook(e) PROVE NeverOverdrawn'
  BY <1>3, RefundPays DEF SqrilWebhook, TypeInv
<1>4. ASSUME NEW w \in Workers, Quiet(w) PROVE NeverOverdrawn'
  BY <1>4, QuietLedger DEF NeverOverdrawn
<1>5. ASSUME NEW w \in Workers, Busy(w) PROVE event[w] \in Events
  BY <1>5 DEF TypeInv, TypeOK, WorkerOK
<1>6. ASSUME NEW w \in Workers, Deduct(w) PROVE NeverOverdrawn'
  <2>1. event[w] \in Events
    BY <1>5, <1>6 DEF Deduct, Busy
  <2>2. Owner[event[w]] \in Users /\ Amount[event[w]] \in Nat
    BY <2>1, EventAssumption, MoneyAssumption
  <2>3. /\ balance[Owner[event[w]]] >= Amount[event[w]]
        /\ balance' = [balance EXCEPT ![Owner[event[w]]] = @ - Amount[event[w]]]
    BY <1>6 DEF Deduct, Covered, Debit
  <2> QED
    BY <2>2, <2>3 DEF TypeInv, TypeOK, NeverOverdrawn
<1>7. ASSUME NEW w \in Workers, Insufficient(w) PROVE NeverOverdrawn'
  BY <1>7 DEF Insufficient, NeverOverdrawn, ledger
<1>8. ASSUME NEW w \in Workers, RefundAfterError(w) PROVE NeverOverdrawn'
  <2>1. event[w] \in Events
    BY <1>5, <1>8 DEF RefundAfterError, Busy
  <2> QED
    BY <1>8, <2>1, RefundPays DEF RefundAfterError, TypeInv, ledger
<1>9. ASSUME NEW w \in Workers, Finalize(w) PROVE NeverOverdrawn'
  <2>1. event[w] \in Events
    BY <1>5, <1>9 DEF Finalize, Busy
  <2> QED
    BY <1>9, <2>1, RefundPays DEF Finalize, FinalizeTx, TypeInv
<1> QED
  BY NextCases, <1>1, <1>2, <1>3, <1>4, <1>6, <1>7, <1>8, <1>9

\* No user's ledger balance goes below zero, however many workers reserve from
\* it at once and whatever is refunded in between.
THEOREM NoOverdraft == Spec => []NeverOverdrawn
<1>1. Init => NeverOverdrawn
  BY MoneyAssumption DEF Init, NeverOverdrawn
<1>2. TypeInv /\ NeverOverdrawn /\ [Next]_vars => NeverOverdrawn'
  BY OverdrawStep DEF vars, NeverOverdrawn
<1> QED
  BY <1>1, <1>2, TypeInvHolds, PTL DEF Spec

-----------------------------------------------------------------------------
(* One holder per event.                                                   *)

LEMMA HeldStep ==
  ASSUME TypeInv, HeldByOne, Next
  PROVE  HeldByOne'
<1>1. CASE Prune
  BY <1>1 DEF Prune, HeldByOne, TypeInv, TypeOK, batch
<1>2. CASE PayloadBatch
  BY <1>2 DEF PayloadBatch, HeldByOne, TypeInv, TypeOK, batch
<1>3. ASSUME NEW e \in Events, SqrilDecides(e) \/ SqrilWebhook(e) PROVE HeldByOne'
  BY <1>3 DEF SqrilDecides, SqrilWebhook, HeldByOne, outbox, batch
<1>4. ASSUME NEW w \in Workers, Claim(w) PROVE HeldByOne'
  <2>1. PICK claimed \in SUBSET {e \in Events : ostatus[e] \in Claimable} :
          /\ held' = [held EXCEPT ![w] = claimed]
          /\ ostatus' = [e \in Events |-> IF e \in claimed THEN "PROCESSING" ELSE ostatus[e]]
    BY <1>4 DEF Claim
  <2>2. \A v \in Workers : \A e \in held[v] : e \notin claimed
    BY <2>1 DEF HeldByOne, Claimable
  <2> QED
    BY <2>1, <2>2 DEF HeldByOne, TypeInv, TypeOK
<1>5. ASSUME NEW w \in Workers, Crash(w) PROVE HeldByOne'
  BY <1>5 DEF Crash, HeldByOne, TypeInv, TypeOK, outbox
<1>6. ASSUME NEW w \in Workers, Record(w) PROVE HeldByOne'
  <2>1. event[w] \in held[w]
    BY <1>6 DEF Record, Busy, TypeInv, WorkerOK
  <2>2. /\ held' = [held EXCEPT ![w] = @ \ {event[w]}]
        /\ \A e \in Events : e # event[w] => ostatus'[e] = ostatus[e]
    BY <1>6 DEF Record, TypeInv, TypeOK
  <2> QED
    BY <2>1, <2>2 DEF HeldByOne, TypeInv, TypeOK
<1>7. ASSUME NEW w \in Workers, Handle(w), ~Record(w) PROVE HeldByOne'
  BY <1>7 DEF Handle, Check, Deduct, Insufficient, DeductFails, Call, CallRefused, CallUnanswered,
              RefundAfterError, RefundConflicts, RefundLost, Finalize, FinalizeLost, HeldByOne, outbox, batch
<1> QED
  BY <1>1, <1>2, <1>3, <1>4, <1>5, <1>6, <1>7 DEF Next

\* An event in a worker's batch reads PROCESSING and is in no other batch:
\* SKIP LOCKED with the mark made in the claiming transaction is enough, with
\* payload-worker and pruner at work on the same table and workers crashing.
THEOREM OneHolder == Spec => []HeldByOne
<1>1. Init => HeldByOne
  BY DEF Init, HeldByOne
<1>2. TypeInv /\ HeldByOne /\ [Next]_vars => HeldByOne'
  BY HeldStep DEF vars, HeldByOne
<1> QED
  BY <1>1, <1>2, TypeInvHolds, PTL DEF Spec

-----------------------------------------------------------------------------
(* No refund without its debit.  A debit is answered for once: by the      *)
(* worker between its deduction and its verdict, by the verdict the        *)
(* webhook still has to bring, or by a refund already written.             *)

CallSteps == {"call", "refund", "finalize"}

InCall(e) == \E w \in Workers : event[w] = e /\ pc[w] \in CallSteps

AwaitsVerdict(e) == e \in external /\ tstatus[e] \notin {"SUCCESS", "FAILED"}

One(claim) == IF claim THEN 1 ELSE 0

RefundInv == \A e \in Events : refunds[e] + One(InCall(e)) + One(AwaitsVerdict(e)) <= debits[e]

\* A busy worker is alone with its event, so its program counter alone says
\* whether the event is in a call.
LEMMA AloneInCall ==
  ASSUME TypeInv, HeldByOne, NEW w \in Workers, Busy(w)
  PROVE  /\ event[w] \in Events
         /\ InCall(event[w]) => pc[w] \in CallSteps
         /\ \A v \in Workers : event[v] = event[w] /\ Busy(v) => v = w
<1>1. event[w] \in held[w] /\ event[w] \in Events
  BY DEF TypeInv, TypeOK, WorkerOK
<1>2. \A v \in Workers : event[v] = event[w] /\ Busy(v) => v = w
  BY <1>1 DEF TypeInv, WorkerOK, HeldByOne
<1> QED
  BY <1>1, <1>2 DEF InCall, Busy, CallSteps

\* A step that neither refunds nor adds to what is owed keeps the invariant.
LEMMA NothingOwed ==
  ASSUME TypeInv, RefundInv, UNCHANGED <<debits, refunds>>,
         \A e \in Events : (InCall(e)' => InCall(e)) /\ (AwaitsVerdict(e)' => AwaitsVerdict(e))
  PROVE  RefundInv'
BY DEF RefundInv, One, TypeInv, TypeOK

\* Steps of a worker outside the ledger: they move it on within a call, out of
\* one, or not at all.
LEMMA QuietOwed ==
  ASSUME TypeInv, HeldByOne, RefundInv, NEW w \in Workers, Quiet(w)
  PROVE  RefundInv'
<1>1. UNCHANGED <<debits, refunds>> /\ \A e \in Events : AwaitsVerdict(e)' = AwaitsVerdict(e)
  BY QuietLedger DEF AwaitsVerdict
<1>2. ASSUME NEW e \in Events, InCall(e)' PROVE InCall(e)
  <2>1. CASE \E f \in Events : Check(w, f)
    <3>1. PICK f \in Events, label \in {"record", "deduct"} :
            pc' = [pc EXCEPT ![w] = label] /\ event' = [event EXCEPT ![w] = f]
      BY <2>1 DEF Check, AfterCheck, Goto
    <3> QED
      BY <1>2, <3>1 DEF InCall, CallSteps, TypeInv, TypeOK
  <2>2. CASE Call(w) \/ CallRefused(w) \/ CallUnanswered(w)
    <3>1. pc[w] = "call" /\ UNCHANGED event /\ \E label \in {"refund", "finalize"} : pc' = [pc EXCEPT ![w] = label]
      BY <2>2 DEF Call, CallRefused, CallUnanswered, Goto
    <3> QED
      BY <1>2, <3>1 DEF InCall, CallSteps, TypeInv, TypeOK
  <2>3. CASE DeductFails(w) \/ RefundConflicts(w) \/ RefundLost(w) \/ FinalizeLost(w)
    <3>1. UNCHANGED event /\ pc' = [pc EXCEPT ![w] = "record"]
      BY <2>3 DEF DeductFails, RefundConflicts, RefundLost, FinalizeLost, Goto
    <3> QED
      BY <1>2, <3>1 DEF InCall, CallSteps, TypeInv, TypeOK
  <2>4. CASE Record(w) \/ Crash(w)
    <3>1. event' = [event EXCEPT ![w] = NoEvent] /\ pc' = [pc EXCEPT ![w] = "next"]
      BY <2>4 DEF Record, Crash, Goto
    <3> QED
      BY <1>2, <3>1 DEF InCall, CallSteps, TypeInv, TypeOK
  <2>5. CASE Claim(w)
    BY <1>2, <2>5 DEF Claim, InCall
  <2> QED
    BY <2>1, <2>2, <2>3, <2>4, <2>5 DEF Quiet
<1> QED
  BY <1>1, <1>2, NothingOwed

\* A worker's step at its event e, by what it adds to the ledger: nothing is
\* owed for e afterwards that was not owed or debited before.
LEMMA Answered ==
  ASSUME TypeInv, TypeInv', HeldByOne, RefundInv, NEW w \in Workers, Busy(w),
         NEW label, pc' = [pc EXCEPT ![w] = label], UNCHANGED event,
         \A e \in Events \ {event[w]} :
           /\ debits'[e] = debits[e] /\ refunds'[e] = refunds[e]
           /\ AwaitsVerdict(e)' => AwaitsVerdict(e),
         refunds'[event[w]] + One(label \in CallSteps) + One(AwaitsVerdict(event[w])') <= debits'[event[w]]
  PROVE  RefundInv'
<1> SUFFICES ASSUME NEW e \in Events
             PROVE  refunds'[e] + One(InCall(e)') + One(AwaitsVerdict(e)') <= debits'[e]
  BY DEF RefundInv, One
<1>1. event[w] \in Events
  BY AloneInCall
<1>2. CASE e = event[w]
  <2>1. InCall(e)' => label \in CallSteps
    BY <1>2, AloneInCall DEF InCall, CallSteps, Busy, TypeInv, TypeOK
  <2>2. One(InCall(e)') <= One(label \in CallSteps) /\ One(InCall(e)') \in Int /\ One(label \in CallSteps) \in Int
    BY <2>1 DEF One
  <2>3. One(AwaitsVerdict(e)') \in Int
    BY DEF One
  <2>4. refunds'[e] \in Int /\ debits'[e] \in Int
    BY DEF TypeInv, TypeOK
  <2> QED
    BY <1>2, <2>2, <2>3, <2>4
<1>3. CASE e # event[w]
  <2>1. InCall(e)' => InCall(e)
    <3>1. ASSUME NEW v \in Workers, event'[v] = e, pc'[v] \in CallSteps
          PROVE  event[v] = e /\ pc[v] \in CallSteps
      BY <1>3, <3>1 DEF TypeInv, TypeOK
    <3> QED
      BY <3>1 DEF InCall
  <2> QED
    BY <1>3, <2>1 DEF RefundInv, One, TypeInv, TypeOK
<1> QED
  BY <1>2, <1>3

LEMMA RefundStep ==
  ASSUME TypeInv, TypeInv', HeldByOne, RefundInv, Next
  PROVE  RefundInv'
<1>1. CASE Prune \/ PayloadBatch
  <2>1. UNCHANGED <<debits, refunds, tstatus, external, event, pc>>
    BY <1>1 DEF Prune, PayloadBatch, ledger, txn
  <2> QED
    BY <2>1, NothingOwed DEF InCall, AwaitsVerdict
<1>2. ASSUME NEW e \in Events, SqrilDecides(e) PROVE RefundInv'
  <2>1. UNCHANGED <<debits, refunds, tstatus, external, event, pc>>
    BY <1>2 DEF SqrilDecides, ledger, txn
  <2> QED
    BY <2>1, NothingOwed DEF InCall, AwaitsVerdict
<1>3. ASSUME NEW e \in Events, SqrilWebhook(e) PROVE RefundInv'
  <2>1. /\ AwaitsVerdict(e) /\ ~AwaitsVerdict(e)'
        /\ \A f \in Events \ {e} : AwaitsVerdict(f)' = AwaitsVerdict(f)
    BY <1>3 DEF SqrilWebhook, AwaitsVerdict, Final, TypeInv, TypeOK
  <2>2. \A f \in Events : InCall(f)' = InCall(f)
    BY <1>3 DEF SqrilWebhook, InCall
  <2>3. /\ debits' = debits
        /\ refunds'[e] <= refunds[e] + 1
        /\ \A f \in Events \ {e} : refunds'[f] = refunds[f]
    BY <1>3 DEF SqrilWebhook, Refund, ledger, TypeInv, TypeOK
  <2> SUFFICES ASSUME NEW f \in Events
               PROVE  refunds'[f] + One(InCall(f)') + One(AwaitsVerdict(f)') <= debits'[f]
    BY DEF RefundInv, One
  <2>4. refunds[f] + One(InCall(f)) + One(AwaitsVerdict(f)) <= debits[f]
    BY DEF RefundInv
  <2>5. refunds[f] \in Nat /\ refunds'[f] \in Nat /\ debits[f] \in Nat
    BY DEF TypeInv, TypeOK
  <2>6. CASE f = e
    <3>1. One(AwaitsVerdict(f)) = 1 /\ One(AwaitsVerdict(f)') = 0 /\ One(InCall(f)') = One(InCall(f))
      BY <2>1, <2>2, <2>6 DEF One
    <3>2. One(InCall(f)) \in Nat
      BY DEF One
    <3> QED
      BY <2>3, <2>4, <2>5, <2>6, <3>1, <3>2
  <2>7. CASE f # e
    <3>1. One(AwaitsVerdict(f)') = One(AwaitsVerdict(f)) /\ One(InCall(f)') = One(InCall(f))
      BY <2>1, <2>2, <2>7 DEF One
    <3> QED
      BY <2>3, <2>4, <2>7, <3>1
  <2> QED
    BY <2>6, <2>7
<1>4. ASSUME NEW w \in Workers, Quiet(w) PROVE RefundInv'
  BY <1>4, QuietOwed
<1>5. ASSUME NEW w \in Workers, Busy(w)
      PROVE  /\ event[w] \in Events
             /\ refunds[event[w]] \in Nat /\ debits[event[w]] \in Nat
             /\ refunds[event[w]] + One(pc[w] \in CallSteps) + One(AwaitsVerdict(event[w])) <= debits[event[w]]
  <2>1. event[w] \in Events
    BY <1>5, AloneInCall
  <2>2. InCall(event[w]) <=> pc[w] \in CallSteps
    BY <1>5, AloneInCall DEF InCall
  <2> QED
    BY <2>1, <2>2 DEF RefundInv, One, TypeInv, TypeOK
<1>6. ASSUME NEW w \in Workers, Deduct(w) PROVE RefundInv'
  <2>1. Busy(w) /\ pc[w] \notin CallSteps
    BY <1>6 DEF Deduct, Busy, CallSteps
  <2>2. PICK label \in {"call", "record"} : pc' = [pc EXCEPT ![w] = label]
    BY <1>6 DEF Deduct, Goto
  <2>3. /\ debits' = [debits EXCEPT ![event[w]] = @ + 1]
        /\ UNCHANGED <<refunds, event, tstatus, external>>
    BY <1>6 DEF Deduct, Debit, txn
  <2>4. debits'[event[w]] = debits[event[w]] + 1 /\ \A e \in Events \ {event[w]} : debits'[e] = debits[e]
    BY <1>5, <2>1, <2>3 DEF TypeInv, TypeOK
  <2>5. \A e \in Events : AwaitsVerdict(e)' = AwaitsVerdict(e)
    BY <2>3 DEF AwaitsVerdict
  <2>6. refunds'[event[w]] + One(label \in CallSteps) + One(AwaitsVerdict(event[w])') <= debits'[event[w]]
    BY <1>5, <2>1, <2>3, <2>4, <2>5 DEF One
  <2> QED
    BY <2>1, <2>2, <2>3, <2>4, <2>5, <2>6, Answered
<1>7. ASSUME NEW w \in Workers, Insufficient(w) PROVE RefundInv'
  <2>1. Busy(w) /\ pc[w] \notin CallSteps
    BY <1>7 DEF Insufficient, Busy, CallSteps
  <2>2. /\ pc' = [pc EXCEPT ![w] = "record"]
        /\ UNCHANGED <<debits, refunds, event, external>>
        /\ tstatus' \in {tstatus, [tstatus EXCEPT ![event[w]] = "FAILED"]}
    BY <1>7 DEF Insufficient, Goto, ledger
  <2>3. \A e \in Events : AwaitsVerdict(e)' => AwaitsVerdict(e)
    BY <2>2 DEF AwaitsVerdict, TypeInv, TypeOK
  <2>4. refunds'[event[w]] + One("record" \in CallSteps) + One(AwaitsVerdict(event[w])') <= debits'[event[w]]
    BY <1>5, <2>1, <2>2, <2>3 DEF One, CallSteps
  <2> QED
    BY <2>1, <2>2, <2>3, <2>4, Answered
<1>8. ASSUME NEW w \in Workers, RefundAfterError(w) PROVE RefundInv'
  <2>1. Busy(w) /\ pc[w] \in CallSteps
    BY <1>8 DEF RefundAfterError, Busy, CallSteps
  <2>2. pc' = [pc EXCEPT ![w] = "record"] /\ UNCHANGED <<debits, event, external>>
    BY <1>8 DEF RefundAfterError, Goto, Refund, ledger
  <2>3. /\ refunds'[event[w]] <= refunds[event[w]] + 1
        /\ \A e \in Events \ {event[w]} : refunds'[e] = refunds[e]
        /\ \A e \in Events : AwaitsVerdict(e)' => AwaitsVerdict(e)
    BY <1>5, <1>8, <2>1 DEF RefundAfterError, Refund, ledger, AwaitsVerdict, TypeInv, TypeOK
  <2>4. refunds'[event[w]] + One("record" \in CallSteps) + One(AwaitsVerdict(event[w])') <= debits'[event[w]]
    <3>1. One("record" \in CallSteps) = 0 /\ One(pc[w] \in CallSteps) = 1
      BY <2>1 DEF One, CallSteps
    <3>2. /\ One(AwaitsVerdict(event[w])') <= One(AwaitsVerdict(event[w]))
          /\ One(AwaitsVerdict(event[w])') \in Nat /\ One(AwaitsVerdict(event[w])) \in Nat
      <4>1. AwaitsVerdict(event[w])' => AwaitsVerdict(event[w])
        BY <1>5, <2>1, <2>2, <2>3 DEF AwaitsVerdict
      <4> QED
        BY <4>1 DEF One
    <3>3. refunds'[event[w]] \in Nat
      BY <1>5, <2>1 DEF TypeInv, TypeOK
    <3> QED
      BY <1>5, <2>1, <2>2, <2>3, <3>1, <3>2, <3>3
  <2> QED
    BY <2>1, <2>2, <2>3, <2>4, Answered
<1>9. ASSUME NEW w \in Workers, Finalize(w) PROVE RefundInv'
  <2>1. Busy(w) /\ pc[w] \in CallSteps /\ outcome[w] \in Replies
    BY <1>9 DEF Finalize, Busy, CallSteps, TypeInv, WorkerOK
  <2>2. pc' = [pc EXCEPT ![w] = "record"] /\ UNCHANGED event
    BY <1>9 DEF Finalize, Goto
  <2>3. /\ debits' = debits
        /\ tstatus' = [tstatus EXCEPT ![event[w]] = outcome[w]]
        /\ external' = external \union {event[w]}
        /\ IF outcome[w] = "FAILED" THEN refunds' = [refunds EXCEPT ![event[w]] = @ + 1]
           ELSE refunds' = refunds
    BY <1>9 DEF Finalize, FinalizeTx, Refund, ledger
  <2>4. \A e \in Events \ {event[w]} :
          debits'[e] = debits[e] /\ refunds'[e] = refunds[e] /\ (AwaitsVerdict(e)' => AwaitsVerdict(e))
    BY <1>5, <2>1, <2>3 DEF AwaitsVerdict, TypeInv, TypeOK
  <2>5. refunds'[event[w]] + One(AwaitsVerdict(event[w])') <= refunds[event[w]] + 1
    <3>1. CASE outcome[w] = "FAILED"
      <4>1. event[w] \in Events
        BY <1>5, <2>1
      <4>2. refunds'[event[w]] = refunds[event[w]] + 1
        BY <2>3, <3>1, <4>1 DEF TypeInv, TypeOK
      <4>3. ~AwaitsVerdict(event[w])'
        <5>1. event' = event
          BY <2>2
        <5>2. tstatus'[event[w]] = "FAILED"
          BY <2>3, <3>1, <4>1 DEF TypeInv, TypeOK
        <5> QED
          BY <5>1, <5>2 DEF AwaitsVerdict
      <4> QED
        BY <1>5, <2>1, <4>2, <4>3 DEF One
    <3>2. CASE outcome[w] # "FAILED"
      BY <1>5, <2>1, <2>3, <3>2 DEF One
    <3> QED
      BY <3>1, <3>2
  <2>6. refunds'[event[w]] + One("record" \in CallSteps) + One(AwaitsVerdict(event[w])') <= debits'[event[w]]
    <3>1. One("record" \in CallSteps) = 0 /\ One(pc[w] \in CallSteps) = 1
      BY <2>1 DEF One, CallSteps
    <3>2. One(AwaitsVerdict(event[w])') \in Nat /\ One(AwaitsVerdict(event[w])) \in Nat
      BY DEF One
    <3>3. refunds'[event[w]] \in Nat
      BY <1>5, <2>1 DEF TypeInv, TypeOK
    <3> QED
      BY <1>5, <2>1, <2>3, <2>5, <3>1, <3>2, <3>3
  <2> QED
    BY <2>1, <2>2, <2>4, <2>6, Answered
<1> QED
  BY NextCases, <1>1, <1>2, <1>3, <1>4, <1>6, <1>7, <1>8, <1>9

LEMMA RefundInvHolds == Spec => []RefundInv
<1>1. Init => RefundInv
  <2> SUFFICES ASSUME Init PROVE RefundInv
    OBVIOUS
  <2>1. \A e \in Events : ~InCall(e) /\ ~AwaitsVerdict(e)
    BY DEF Init, InCall, AwaitsVerdict, CallSteps
  <2> QED
    BY <2>1 DEF Init, RefundInv, One
<1>2. TypeInv /\ TypeInv' /\ HeldByOne /\ RefundInv /\ [Next]_vars => RefundInv'
  <2>1. TypeInv /\ RefundInv /\ UNCHANGED vars => RefundInv'
    BY NothingOwed DEF vars, InCall, AwaitsVerdict
  <2> QED
    BY <2>1, RefundStep
<1> QED
  BY <1>1, <1>2, TypeInvHolds, OneHolder, PTL DEF Spec

\* A transaction never gives back more than it took: finalize, the refund after
\* an error and the FAILED webhook answer for each debit at most once between
\* them, in any order, with retries, crashes and redelivered webhooks.
THEOREM NoDoubleRefund == Spec => []NoExtraRefund
<1>1. TypeInv /\ RefundInv => NoExtraRefund
  BY DEF RefundInv, NoExtraRefund, One, TypeInv, TypeOK
<1> QED
  BY <1>1, TypeInvHolds, RefundInvHolds, PTL

\* Only ExecutePayout brings a payout to SQRIL, and the worker that calls it has
\* debited the event since the last refund: no payout goes out unpaid for.
THEOREM PayoutsAreReserved == Spec => PaidFromReserve
<1> DEFINE Reserved == \A e \in Events : sqril[e] = "none" /\ sqril'[e] # "none" => debits[e] > refunds[e]
<1>1. ASSUME TypeInv, RefundInv, Next PROVE Reserved
  <2> SUFFICES ASSUME NEW e \in Events, sqril[e] = "none", sqril'[e] # "none"
               PROVE  debits[e] > refunds[e]
    OBVIOUS
  <2>1. PICK w \in Workers : Call(w) \/ CallUnanswered(w)
    BY <1>1 DEF Next, Handle, Claim, Crash, Check, Deduct, Insufficient, DeductFails, CallRefused,
                RefundAfterError, RefundConflicts, RefundLost, Finalize, FinalizeLost, Record, SqrilDecides,
                SqrilWebhook, Prune, PayloadBatch, TypeInv, TypeOK
  <2>2. pc[w] = "call" /\ \E reply \in Replies : sqril' = [sqril EXCEPT ![event[w]] = reply]
    BY <2>1 DEF Call, CallUnanswered
  <2>3. event[w] = e
    BY <1>1, <2>2 DEF TypeInv, TypeOK
  <2>4. InCall(e)
    BY <2>2, <2>3 DEF InCall, CallSteps
  <2> QED
    BY <1>1, <2>4 DEF RefundInv, One, TypeInv, TypeOK
<1>2. TypeInv /\ RefundInv /\ [Next]_vars => [Reserved]_vars
  BY <1>1
<1> QED
  BY <1>2, TypeInvHolds, RefundInvHolds, PTL DEF Spec, PaidFromReserve

-----------------------------------------------------------------------------
(* Bounded tries.  A held event was claimed once more than its worker has   *)
(* seen, and until the worker debits it that claim is not used up.          *)

Undebited(w, e) == event[w] # e \/ pc[w] = "deduct"

RetryInv ==
  /\ \A e \in Events : retries[e] <= RetryLimit + 1
  /\ \A e \in Events : ostatus[e] \in Claimable => retries[e] <= RetryLimit
  /\ \A w \in Workers : \A e \in held[w] : retries[e] = seen[w][e] + 1

DebitInv ==
  /\ \A e \in Events : debits[e] <= retries[e]
  /\ \A w \in Workers : pc[w] = "next" => event[w] = NoEvent
  /\ \A w \in Workers : \A e \in held[w] : Undebited(w, e) => debits[e] < retries[e]

\* Only a claim and payload-worker count tries, only Record gives a row back.
LEMMA RetryStep ==
  ASSUME TypeInv, HeldByOne, RetryInv, Next
  PROVE  RetryInv'
<1>1. CASE Prune
  BY <1>1 DEF Prune, RetryInv, Claimable, TypeInv, TypeOK, batch
<1>2. CASE PayloadBatch
  <2>1. PICK taken \in SUBSET {e \in Events : ostatus[e] = "PENDING" /\ retries[e] < PayloadRetries},
             published \in SUBSET Events :
          /\ retries' = [e \in Events |-> retries[e] + (IF e \in taken \ published THEN 1 ELSE 0)]
          /\ ostatus' = [e \in Events |->
               IF e \in published THEN "PROCESSED"
               ELSE IF e \in taken /\ retries[e] + 1 >= PayloadRetries THEN "FAILED"
               ELSE ostatus[e]]
    BY <1>2 DEF PayloadBatch
  <2>2. UNCHANGED <<held, seen>>
    BY <1>2 DEF PayloadBatch, batch
  <2>3. \A e \in Events : /\ retries'[e] <= RetryLimit + 1
                          /\ ostatus'[e] \in Claimable => retries'[e] <= RetryLimit
    BY <2>1, LimitAssumption DEF RetryInv, Claimable, TypeInv, TypeOK
  <2>4. \A w \in Workers : \A e \in held[w] : e \in Events /\ retries'[e] = retries[e]
    BY <2>1 DEF HeldByOne, TypeInv, TypeOK
  <2> QED
    BY <2>2, <2>3, <2>4 DEF RetryInv
<1>3. ASSUME NEW e \in Events, SqrilDecides(e) \/ SqrilWebhook(e) PROVE RetryInv'
  BY <1>3 DEF SqrilDecides, SqrilWebhook, RetryInv, outbox, batch
<1>4. ASSUME NEW w \in Workers, Claim(w) PROVE RetryInv'
  <2>1. PICK claimed \in SUBSET {e \in Events : ostatus[e] \in Claimable} :
          /\ held' = [held EXCEPT ![w] = claimed]
          /\ seen' = [seen EXCEPT ![w] = [e \in Events |-> IF e \in claimed THEN retries[e] ELSE 0]]
          /\ ostatus' = [e \in Events |-> IF e \in claimed THEN "PROCESSING" ELSE ostatus[e]]
          /\ retries' = [e \in Events |-> retries[e] + (IF e \in claimed THEN 1 ELSE 0)]
    BY <1>4 DEF Claim
  <2>2. \A e \in Events : /\ retries'[e] <= RetryLimit + 1
                          /\ ostatus'[e] \in Claimable => retries'[e] <= RetryLimit
    BY <2>1, LimitAssumption DEF RetryInv, Claimable, TypeInv, TypeOK
  <2>3. ASSUME NEW v \in Workers, NEW e \in held'[v] PROVE retries'[e] = seen'[v][e] + 1
    <3>1. CASE v = w
      <4>1. e \in claimed /\ e \in Events /\ seen'[v][e] = retries[e]
        BY <2>1, <2>3, <3>1 DEF TypeInv, TypeOK
      <4> QED
        BY <2>1, <4>1 DEF TypeInv, TypeOK
    <3>2. CASE v # w
      <4>1. e \in held[v] /\ e \in Events /\ e \notin claimed /\ seen'[v] = seen[v]
        BY <2>1, <2>3, <3>2 DEF HeldByOne, Claimable, TypeInv, TypeOK
      <4> QED
        BY <2>1, <4>1 DEF RetryInv, TypeInv, TypeOK
    <3> QED
      BY <3>1, <3>2
  <2> QED
    BY <2>2, <2>3 DEF RetryInv
<1>5. ASSUME NEW w \in Workers, Crash(w) PROVE RetryInv'
  BY <1>5 DEF Crash, RetryInv, TypeInv, TypeOK, outbox
<1>6. ASSUME NEW w \in Workers, Record(w) PROVE RetryInv'
  <2>1. event[w] \in held[w] /\ event[w] \in Events
    BY <1>6 DEF Record, Busy, TypeInv, TypeOK, WorkerOK
  <2>2. /\ held' = [held EXCEPT ![w] = @ \ {event[w]}]
        /\ UNCHANGED <<retries, seen>>
    BY <1>6 DEF Record
  <2>3. /\ \A e \in Events \ {event[w]} : ostatus'[e] = ostatus[e]
        /\ ostatus'[event[w]] \in {"PROCESSED", AfterFailure(seen[w][event[w]]), ostatus[event[w]]}
    BY <1>6, <2>1 DEF Record, TypeInv, TypeOK
  <2>4. ostatus'[event[w]] \in Claimable => retries[event[w]] <= RetryLimit
    <3>1. retries[event[w]] = seen[w][event[w]] + 1 /\ seen[w][event[w]] \in Nat
      BY <2>1 DEF RetryInv, TypeInv, TypeOK
    <3>2. AfterFailure(seen[w][event[w]]) \in Claimable => seen[w][event[w]] < RetryLimit
      BY <3>1, LimitAssumption DEF AfterFailure, Claimable
    <3>3. "PROCESSED" \notin Claimable
      BY DEF Claimable
    <3> QED
      BY <2>1, <2>3, <3>1, <3>2, <3>3, LimitAssumption DEF RetryInv
  <2>5. \A v \in Workers : held'[v] \subseteq held[v]
    BY <2>2 DEF TypeInv, TypeOK
  <2> QED
    BY <2>2, <2>3, <2>4, <2>5 DEF RetryInv
<1>7. ASSUME NEW w \in Workers, Handle(w), ~Record(w) PROVE RetryInv'
  BY <1>7 DEF Handle, Check, Deduct, Insufficient, DeductFails, Call, CallRefused, CallUnanswered,
              RefundAfterError, RefundConflicts, RefundLost, Finalize, FinalizeLost, RetryInv, outbox, batch
<1> QED
  BY <1>1, <1>2, <1>3, <1>4, <1>5, <1>6, <1>7 DEF Next

\* Steps that change neither a debit, a try, a batch nor a worker's place.
LEMMA DebitFrame ==
  ASSUME DebitInv, UNCHANGED <<debits, retries, held, pc, event>>
  PROVE  DebitInv'
BY DEF DebitInv, Undebited

\* Steps of w at its event that leave the ledger's debits alone.
LEMMA DebitMove ==
  ASSUME TypeInv, DebitInv, NEW w \in Workers, Busy(w),
         NEW label, label \notin {"next", "deduct"},
         pc' = [pc EXCEPT ![w] = label], UNCHANGED <<debits, retries, held, event>>
  PROVE  DebitInv'
BY DEF DebitInv, Undebited, Busy, TypeInv, TypeOK

LEMMA DebitStep ==
  ASSUME TypeInv, HeldByOne, DebitInv, Next
  PROVE  DebitInv'
<1>1. CASE Prune
  BY <1>1, DebitFrame DEF Prune, ledger, batch
<1>2. CASE PayloadBatch
  <2>1. UNCHANGED <<debits, held, pc, event>>
    BY <1>2 DEF PayloadBatch, ledger, batch
  <2>2. \A e \in Events : retries'[e] \in Nat /\ retries[e] <= retries'[e]
    BY <1>2 DEF PayloadBatch, TypeInv, TypeOK
  <2> QED
    BY <2>1, <2>2 DEF DebitInv, Undebited, TypeInv, TypeOK
<1>3. ASSUME NEW e \in Events, SqrilDecides(e) \/ SqrilWebhook(e) PROVE DebitInv'
  BY <1>3, DebitFrame DEF SqrilDecides, SqrilWebhook, Refund, outbox, batch, ledger
<1>4. ASSUME NEW w \in Workers, Claim(w) PROVE DebitInv'
  <2>1. PICK claimed \in SUBSET {e \in Events : ostatus[e] \in Claimable} :
          /\ held' = [held EXCEPT ![w] = claimed]
          /\ retries' = [e \in Events |-> retries[e] + (IF e \in claimed THEN 1 ELSE 0)]
    BY <1>4 DEF Claim
  <2>2. UNCHANGED <<debits, pc, event>>
    BY <1>4 DEF Claim, ledger
  <2>3. \A e \in Events : debits'[e] <= retries'[e]
    BY <2>1, <2>2 DEF DebitInv, TypeInv, TypeOK
  <2>4. ASSUME NEW v \in Workers, NEW e \in held'[v], Undebited(v, e)' PROVE debits'[e] < retries'[e]
    <3>1. CASE v = w
      <4>1. e \in claimed /\ e \in Events
        BY <2>1, <2>4, <3>1 DEF TypeInv, TypeOK
      <4> QED
        BY <2>1, <2>2, <4>1 DEF DebitInv, TypeInv, TypeOK
    <3>2. CASE v # w
      <4>1. e \in held[v] /\ e \in Events /\ Undebited(v, e)
        BY <2>1, <2>2, <2>4, <3>2 DEF Undebited, TypeInv, TypeOK
      <4> QED
        BY <2>1, <2>2, <4>1 DEF DebitInv, TypeInv, TypeOK
    <3> QED
      BY <3>1, <3>2
  <2> QED
    BY <2>2, <2>3, <2>4 DEF DebitInv
<1>5. ASSUME NEW w \in Workers, Crash(w) \/ Record(w) PROVE DebitInv'
  <2>1. /\ UNCHANGED <<debits, retries>>
        /\ event' = [event EXCEPT ![w] = NoEvent] /\ pc' = [pc EXCEPT ![w] = "next"]
        /\ held' = [held EXCEPT ![w] = @ \ {event[w]}] \/ held' = [held EXCEPT ![w] = {}]
    BY <1>5 DEF Crash, Record, Goto, outbox, ledger
  <2>2. ASSUME NEW v \in Workers, NEW e \in held'[v], Undebited(v, e)'
        PROVE  e \in held[v] /\ Undebited(v, e)
    BY <2>1, <2>2 DEF Undebited, TypeInv, TypeOK
  <2>3. \A v \in Workers : pc'[v] = "next" => event'[v] = NoEvent
    BY <2>1 DEF DebitInv, TypeInv, TypeOK
  <2> QED
    BY <2>1, <2>2, <2>3 DEF DebitInv
<1>6. ASSUME NEW w \in Workers, NEW e \in Events, Check(w, e) PROVE DebitInv'
  <2>1. /\ pc[w] = "next" /\ e \in held[w]
        /\ event' = [event EXCEPT ![w] = e]
        /\ pc' = [pc EXCEPT ![w] = "record"] \/ pc' = [pc EXCEPT ![w] = "deduct"]
        /\ UNCHANGED <<debits, retries, held>>
    BY <1>6 DEF Check, Goto, AfterCheck, outbox, ledger, batch
  <2>2. \A f \in Events : Undebited(w, f)
    BY <2>1, EventAssumption DEF DebitInv, Undebited
  <2>3. \A v \in Workers : \A f \in Events : Undebited(v, f)' => Undebited(v, f)
    BY <2>1, <2>2 DEF Undebited, TypeInv, TypeOK
  <2>4. \A v \in Workers : pc'[v] = "next" => event'[v] = NoEvent
    BY <2>1 DEF DebitInv, TypeInv, TypeOK
  <2> QED
    BY <2>1, <2>3, <2>4 DEF DebitInv, TypeInv, TypeOK
<1>7. ASSUME NEW w \in Workers, Deduct(w) PROVE DebitInv'
  <2>1. /\ event[w] \in held[w] /\ event[w] \in Events /\ Undebited(w, event[w])
        /\ \A v \in Workers : event[w] \in held[v] => v = w
    BY <1>7 DEF Deduct, Busy, Undebited, HeldByOne, TypeInv, TypeOK, WorkerOK
  <2>2. PICK label \in {"call", "record"} : pc' = [pc EXCEPT ![w] = label]
    BY <1>7 DEF Deduct, Goto
  <2>3. /\ debits' = [debits EXCEPT ![event[w]] = @ + 1]
        /\ UNCHANGED <<retries, held, event>>
    BY <1>7 DEF Deduct, Debit, outbox, batch
  <2>4. \A e \in Events : debits'[e] <= retries'[e]
    BY <2>1, <2>3 DEF DebitInv, TypeInv, TypeOK
  <2>5. ASSUME NEW v \in Workers, NEW e \in held[v], Undebited(v, e)' PROVE debits'[e] < retries[e]
    <3>1. e # event[w]
      <4> SUFFICES ASSUME e = event[w] PROVE FALSE
        OBVIOUS
      <4>1. v = w
        BY <2>1
      <4> QED
        BY <2>2, <2>3, <2>5, <4>1 DEF Undebited, TypeInv, TypeOK
    <3>2. Undebited(v, e)
      BY <1>7, <2>2, <2>3, <2>5 DEF Undebited, Deduct, TypeInv, TypeOK
    <3>3. debits'[e] = debits[e]
      BY <2>1, <2>3, <3>1 DEF TypeInv, TypeOK
    <3> QED
      BY <3>2, <3>3 DEF DebitInv
  <2>6. \A v \in Workers : pc'[v] = "next" => event'[v] = NoEvent
    BY <2>2, <2>3 DEF DebitInv, TypeInv, TypeOK
  <2> QED
    BY <2>3, <2>4, <2>5, <2>6 DEF DebitInv
<1>8. ASSUME NEW w \in Workers, Handle(w), ~Record(w), ~Deduct(w), ~\E e \in Events : Check(w, e)
      PROVE  DebitInv'
  <2>1. Busy(w) /\ UNCHANGED <<debits, retries, held, event>>
    BY <1>8 DEF Handle, Insufficient, DeductFails, Call, CallRefused, CallUnanswered,
                RefundAfterError, RefundConflicts, RefundLost, Finalize, FinalizeLost, FinalizeTx, Refund, Busy,
                outbox, ledger, batch
  <2>2. PICK label \in {"refund", "finalize", "record"} : pc' = [pc EXCEPT ![w] = label]
    BY <1>8 DEF Handle, Insufficient, DeductFails, Call, CallRefused, CallUnanswered,
                RefundAfterError, RefundConflicts, RefundLost, Finalize, FinalizeLost, Goto
  <2> QED
    BY <2>1, <2>2, DebitMove
<1> QED
  BY <1>1, <1>2, <1>3, <1>4, <1>5, <1>6, <1>7, <1>8 DEF Next, Handle

\* However long the provider fails, and whichever of the two workers on the
\* table counts the tries, an event is tried RetryLimit + 1 times at the most and
\* debited at most once in each.
THEOREM TriesAreBounded == Spec => []TriesBounded
<1>1. Init => RetryInv /\ DebitInv
  BY LimitAssumption DEF Init, RetryInv, DebitInv
<1>2. TypeInv /\ HeldByOne /\ RetryInv /\ [Next]_vars => RetryInv'
  BY RetryStep DEF vars, RetryInv
<1>3. TypeInv /\ HeldByOne /\ DebitInv /\ [Next]_vars => DebitInv'
  BY DebitStep, DebitFrame DEF vars
<1>4. RetryInv /\ DebitInv => TriesBounded
  BY DEF RetryInv, DebitInv, TriesBounded
<1> QED
  BY <1>1, <1>2, <1>3, <1>4, TypeInvHolds, OneHolder, PTL DEF Spec

===============================================================================
