------------------------- MODULE OutboxHistoryProofs -------------------------
(***************************************************************************)
(* Without crashes and lost messages, the ledger and SQRIL agree on every  *)
(* payout but for the refunds rolled back, and each event is the saga of   *)
(* PayoutSaga: proofs for any number of events, users and workers, any     *)
(* amounts, and any fault bound.                                           *)
(***************************************************************************)
EXTENDS OutboxHistory, OutboxPayoutProofs

-----------------------------------------------------------------------------
(* The invariant.  Of the amount of an event one unit is out exactly while  *)
(* a worker is calling SQRIL for it or undoing that, while the answer of    *)
(* SQRIL waits to be written down, and once it has been written down as     *)
(* anything but FAILED; what rolled back refunds have left is counted apart. *)

Net(e) == Taken(e) - unreturned[e]

Asking(e) == \E w \in Workers : event[w] = e /\ pc[w] \in {"call", "refund"}

Finalizing(e) == \E w \in Workers : event[w] = e /\ pc[w] = "finalize"

Charged(e) == Asking(e) \/ Finalizing(e) \/ (e \in external /\ tstatus[e] # "FAILED")

Settled(w, e) == event[w] = e /\ pc[w] = "record" /\ outcome[w] = "done"

Sound(e) ==
  /\ Net(e) = One(Charged(e))
  /\ sqril[e] # "none" <=> Finalizing(e) \/ e \in external
  /\ e \in external => ostatus[e] \notin Claimable
  /\ tstatus[e] = "SUCCESS" => e \in external
  /\ \A w \in Workers : e \in held[w] /\ e \in external => Settled(w, e)
  /\ \A w \in Workers : event[w] = e /\ pc[w] = "finalize" => outcome[w] \in {"PROCESSING", sqril[e]}

HistoryInv ==
  /\ unreturned \in [Events -> Nat]
  /\ \A w \in Workers : pc[w] = "refund" => outcome[w] \in ErrorTexts
  /\ faults = 0 => \A e \in Events : Sound(e)

-----------------------------------------------------------------------------
(* Which part of an event's state a step leaves alone.                      *)

Aside(w, e) == event[w] # e \/ pc[w] \in {"next", "deduct", "record"}

\* A step that changes nothing of event e but a refusal before SQRIL has it,
\* and moves only workers that are not in a call for it, keeps it sound.
LEMMA ElsewhereSound ==
  ASSUME NEW e \in Events, Sound(e),
         debits'[e] = debits[e], refunds'[e] = refunds[e], unreturned'[e] = unreturned[e],
         sqril'[e] = sqril[e], e \in external' <=> e \in external,
         tstatus'[e] = tstatus[e] \/ (tstatus'[e] = "FAILED" /\ e \notin external),
         e \in external /\ ostatus'[e] \in Claimable => ostatus[e] \in Claimable,
         \A v \in Workers :
           \/ /\ pc'[v] = pc[v] /\ event'[v] = event[v] /\ outcome'[v] = outcome[v]
              /\ held'[v] = held[v]
           \/ /\ Aside(v, e) /\ Aside(v, e)'
              /\ e \in held'[v] /\ e \in external => Settled(v, e)'
  PROVE  Sound(e)'
<1>1. Asking(e)' <=> Asking(e)
  BY DEF Asking, Aside
<1>2. Finalizing(e)' <=> Finalizing(e)
  BY DEF Finalizing, Aside
<1>3. Charged(e)' <=> Charged(e)
  BY <1>1, <1>2 DEF Charged
<1>4. One(Charged(e))' = One(Charged(e))
  BY <1>3 DEF One
<1>5. (Net(e) = One(Charged(e)))'
  BY <1>4 DEF Sound, Net, Taken
<1>6. (sqril[e] # "none" <=> Finalizing(e) \/ e \in external)'
  BY <1>2 DEF Sound
<1>7. (e \in external => ostatus[e] \notin Claimable)' /\ (tstatus[e] = "SUCCESS" => e \in external)'
  BY DEF Sound, Claimable
<1>8. \A v \in Workers : e \in held'[v] /\ e \in external' => Settled(v, e)'
  BY DEF Sound, Settled
<1>9. \A v \in Workers : event'[v] = e /\ pc'[v] = "finalize" => outcome'[v] \in {"PROCESSING", sqril'[e]}
  BY DEF Sound, Aside
<1> QED
  BY <1>5, <1>6, <1>7, <1>8, <1>9 DEF Sound

\* Busy worker w moves on within its event e, and what that makes of e: w is
\* alone with it, so its own place says whether e is in a call.
Move(w, label, result) ==
  Busy(w) /\ label # "next" /\ Goto(w, label, result) /\ held' = held /\ event' = event

Moved(w, e, label, result) ==
  /\ e \in Events /\ e \in held[w]
  /\ Asking(e) <=> pc[w] = "call" \/ pc[w] = "refund"
  /\ Finalizing(e) <=> pc[w] = "finalize"
  /\ Asking(e)' <=> label = "call" \/ label = "refund"
  /\ Finalizing(e)' <=> label = "finalize"
  /\ \A v \in Workers : e \in held'[v] => v = w
  /\ \A v \in Workers : event'[v] = e /\ pc'[v] = "finalize" => v = w
  /\ pc'[w] = label /\ outcome'[w] = result /\ event'[w] = e

LEMMA HereMoves ==
  ASSUME TypeInv, HeldByOne, NEW w \in Workers, NEW e, e = event[w],
         NEW label, NEW result, Move(w, label, result)
  PROVE  Moved(w, e, label, result)
<1>0. Busy(w) /\ label # "next" /\ Goto(w, label, result) /\ held' = held /\ event' = event
  BY DEF Move
<1>1. e \in held[w] /\ e \in Events
  BY <1>0 DEF TypeInv, TypeOK, WorkerOK
<1>2. \A v \in Workers : event[v] = e /\ Busy(v) => v = w
  BY <1>0, AloneInCall
<1>3. pc'[w] = label /\ outcome'[w] = result /\ event' = event
  BY <1>0 DEF Goto, TypeInv, TypeOK
<1>4. \A v \in Workers \ {w} : pc'[v] = pc[v]
  BY <1>0 DEF Goto, TypeInv, TypeOK
<1>5. \A v \in Workers : e \in held'[v] => v = w
  BY <1>0, <1>1 DEF HeldByOne
<1>6. Asking(e) <=> pc[w] = "call" \/ pc[w] = "refund"
  BY <1>2 DEF Asking, Busy
<1>7. Finalizing(e) <=> pc[w] = "finalize"
  BY <1>2 DEF Finalizing, Busy
<1>8. \A v \in Workers : event'[v] = e /\ pc'[v] # "next" => v = w
  BY <1>2, <1>3, <1>4 DEF Busy
<1>9. Asking(e)' <=> label = "call" \/ label = "refund"
  BY <1>3, <1>8 DEF Asking
<1>10. Finalizing(e)' <=> label = "finalize"
  BY <1>3, <1>8 DEF Finalizing
<1> QED
  BY <1>1, <1>3, <1>5, <1>6, <1>7, <1>8, <1>9, <1>10 DEF Moved

-----------------------------------------------------------------------------
(* Steps of a worker, nothing being lost on the way.                        *)

\* Other events hear nothing of a worker's step at its own.
LEMMA OthersSound ==
  ASSUME TypeInv, TypeInv', NEW w \in Workers, Busy(w), NEW e \in Events, e # event[w], Sound(e),
         NEW label, NEW result, Goto(w, label, result), ostatus' = ostatus, held' = held, event' = event,
         debits'[e] = debits[e], refunds'[e] = refunds[e], unreturned'[e] = unreturned[e],
         sqril'[e] = sqril[e], tstatus'[e] = tstatus[e], e \in external' <=> e \in external
  PROVE  Sound(e)'
<1>1. Aside(w, e) /\ Aside(w, e)'
  BY DEF Aside
<1>2. ~(e \in held[w] /\ e \in external)
  BY DEF Sound, Settled
<1>3. \A v \in Workers \ {w} : pc'[v] = pc[v] /\ outcome'[v] = outcome[v]
  BY DEF Goto, TypeInv, TypeOK
<1> QED
  BY <1>1, <1>2, <1>3, ElsewhereSound

\* Steps that leave SQRIL and the ledger alone and do not move a call.
LEMMA AsideSound ==
  ASSUME TypeInv, TypeInv', NEW w \in Workers, NEW e \in Events, Sound(e),
         faults' = faults, unreturned' = unreturned,
         \/ \E f \in Events : Check(w, f)
         \/ Claim(w) \/ Insufficient(w) \/ DeductFails(w) \/ Record(w)
  PROVE  Sound(e)'
<1> DEFINE Others == \A v \in Workers \ {w} : /\ pc'[v] = pc[v] /\ event'[v] = event[v]
                                              /\ outcome'[v] = outcome[v] /\ held'[v] = held[v]
<1>1. CASE \E f \in Events : Check(w, f)
  <2>1. PICK f \in Events : Check(w, f)
    BY <1>1
  <2>2. /\ pc[w] = "next" /\ event' = [event EXCEPT ![w] = f]
        /\ UNCHANGED <<ostatus, debits, refunds, tstatus, external, sqril, held>>
        /\ \E label \in {"record", "deduct"}, result \in {"done", "none"} : Goto(w, label, result)
    BY <2>1 DEF Check, AfterCheck, outbox, ledger, txn, batch
  <2>3. Others /\ pc'[w] \in {"record", "deduct"}
    BY <2>2 DEF Goto, TypeInv, TypeOK
  <2>4. ~(e \in held[w] /\ e \in external)
    BY <2>2 DEF Sound, Settled
  <2>5. Aside(w, e) /\ Aside(w, e)'
    BY <2>2, <2>3 DEF Aside
  <2> QED
    BY <2>2, <2>3, <2>4, <2>5, ElsewhereSound
<1>2. CASE Claim(w)
  <2>1. PICK claimed \in SUBSET {f \in Events : ostatus[f] \in Claimable} :
          /\ held' = [held EXCEPT ![w] = claimed]
          /\ ostatus' = [f \in Events |-> IF f \in claimed THEN "PROCESSING" ELSE ostatus[f]]
    BY <1>2 DEF Claim
  <2>2. /\ pc[w] = "next" /\ UNCHANGED <<pc, event, outcome>>
        /\ UNCHANGED <<debits, refunds, tstatus, external, sqril>>
    BY <1>2 DEF Claim, ledger, txn
  <2>3. Others /\ Aside(w, e) /\ Aside(w, e)'
    BY <2>1, <2>2 DEF Aside, TypeInv, TypeOK
  <2>4. ~(e \in held'[w] /\ e \in external)
    BY <2>1 DEF Sound, TypeInv, TypeOK
  <2>5. ostatus'[e] \in Claimable => ostatus[e] \in Claimable
    BY <2>1 DEF Claimable
  <2> QED
    BY <2>2, <2>3, <2>4, <2>5, ElsewhereSound
<1>3. CASE Insufficient(w) \/ DeductFails(w)
  <2>1. /\ pc[w] = "deduct" /\ Goto(w, "record", "error")
        /\ UNCHANGED <<ostatus, debits, refunds, external, sqril, held, event>>
        /\ tstatus' \in {tstatus, [tstatus EXCEPT ![event[w]] = "FAILED"]}
    BY <1>3 DEF Insufficient, DeductFails, outbox, ledger, txn, batch
  <2>2. Others /\ pc'[w] = "record"
    BY <2>1 DEF Goto, TypeInv, TypeOK
  <2>3. ~(e \in held[w] /\ e \in external)
    BY <2>1 DEF Sound, Settled
  <2>4. event[w] \in held[w] /\ event[w] \in Events
    BY <2>1 DEF Busy, TypeInv, TypeOK, WorkerOK
  <2>5. tstatus'[e] = tstatus[e] \/ (tstatus'[e] = "FAILED" /\ e \notin external)
    BY <2>1, <2>3, <2>4 DEF TypeInv, TypeOK
  <2>6. Aside(w, e) /\ Aside(w, e)'
    BY <2>1, <2>2 DEF Aside
  <2> QED
    BY <2>1, <2>2, <2>3, <2>5, <2>6, ElsewhereSound
<1>4. CASE Record(w)
  <2>1. faults' # faults + 1
    BY DEF TypeInv, TypeOK
  <2>2. /\ pc[w] = "record" /\ Goto(w, "next", "none")
        /\ UNCHANGED <<debits, refunds, tstatus, external, sqril>>
        /\ event' = [event EXCEPT ![w] = NoEvent]
        /\ held' = [held EXCEPT ![w] = @ \ {event[w]}]
        /\ ostatus' = [ostatus EXCEPT ![event[w]] = IF outcome[w] = "done" THEN "PROCESSED"
                                                    ELSE AfterFailure(seen[w][event[w]])]
    BY <1>4, <2>1 DEF Record, Fault, ledger, txn
  <2>3. Others /\ pc'[w] = "next"
    BY <2>2 DEF Goto, TypeInv, TypeOK
  <2>4. event[w] \in held[w] /\ event[w] \in Events
    BY <2>2 DEF Busy, TypeInv, TypeOK, WorkerOK
  <2>5. ~(e \in held'[w] /\ e \in external)
    BY <2>2 DEF Sound, Settled, TypeInv, TypeOK
  <2>6. e \in external /\ ostatus'[e] \in Claimable => ostatus[e] \in Claimable
    BY <2>2, <2>4 DEF Sound, Settled, Claimable, TypeInv, TypeOK
  <2>7. Aside(w, e) /\ Aside(w, e)'
    BY <2>2, <2>3 DEF Aside
  <2> QED
    BY <2>2, <2>3, <2>5, <2>6, <2>7, ElsewhereSound
<1> QED
  BY <1>1, <1>2, <1>3, <1>4

\* A deduction takes the amount of an event that nobody is asking SQRIL for.
LEMMA DeductSound ==
  ASSUME TypeInv, TypeInv', HeldByOne, NEW w \in Workers, Deduct(w),
         faults' = faults, unreturned' = unreturned, unreturned \in [Events -> Nat],
         \A e \in Events : Sound(e)
  PROVE  \A e \in Events : Sound(e)'
<1> SUFFICES ASSUME NEW e \in Events PROVE Sound(e)'
  OBVIOUS
<1>1. faults' # faults + 1
  BY DEF TypeInv, TypeOK
<1>2. /\ pc[w] = "deduct" /\ Busy(w) /\ Goto(w, "call", "none")
      /\ UNCHANGED <<ostatus, refunds, tstatus, external, sqril, held, event>>
      /\ debits' = [debits EXCEPT ![event[w]] = @ + 1]
  BY <1>1 DEF Deduct, Debit, Fault, Busy, outbox, txn, batch
<1>3. CASE e # event[w]
  BY <1>2, <1>3, OthersSound DEF TypeInv, TypeOK
<1>4. CASE e = event[w]
  <2>1. /\ e \in held[w]
        /\ ~Asking(e) /\ ~Finalizing(e) /\ Asking(e)' /\ ~Finalizing(e)'
        /\ \A v \in Workers : event'[v] = e /\ pc'[v] = "finalize" => v = w
        /\ pc'[w] = "call"
    <3>1. Move(w, "call", "none")
      BY <1>2 DEF Move
    <3>2. Moved(w, e, "call", "none")
      BY <1>4, <3>1, HereMoves
    <3> QED
      BY <1>2, <3>2 DEF Moved
  <2>2. e \notin external
    BY <1>2, <1>4, <2>1 DEF Sound, Settled
  <2>3. Net(e) = 0
    BY <2>1, <2>2 DEF Sound, Charged, One
  <2>4. debits'[e] = debits[e] + 1 /\ debits[e] \in Nat /\ refunds[e] \in Nat /\ unreturned[e] \in Nat
    BY <1>2, <1>4 DEF TypeInv, TypeOK
  <2>5. One(Charged(e))' = 1
    BY <2>1 DEF Charged, One
  <2>6. (Net(e) = One(Charged(e)))'
    BY <1>2, <2>3, <2>4, <2>5 DEF Net, Taken
  <2> QED
    BY <1>2, <2>1, <2>2, <2>6 DEF Sound
<1> QED
  BY <1>3, <1>4

\* A call, answered or refused, moves on an event whose amount is out.
LEMMA CallSound ==
  ASSUME TypeInv, TypeInv', HeldByOne, NEW w \in Workers, Call(w) \/ CallRefused(w), unreturned' = unreturned,
         \A e \in Events : Sound(e)
  PROVE  \A e \in Events : Sound(e)'
<1> SUFFICES ASSUME NEW e \in Events PROVE Sound(e)'
  OBVIOUS
<1>1. /\ pc[w] = "call" /\ Busy(w)
      /\ UNCHANGED <<ostatus, debits, refunds, tstatus, external, held, event>>
  BY DEF Call, CallRefused, Busy, outbox, ledger, txn, batch
<1>2. PICK label \in {"finalize", "refund"}, result \in Replies \union ErrorTexts,
           made \in Replies \union {"none"} :
        /\ Goto(w, label, result)
        /\ sqril' = [sqril EXCEPT ![event[w]] = made]
        /\ label = "finalize" => result = made /\ made # "none" /\ sqril[event[w]] \in {"none", made}
        /\ label = "refund" => made = sqril[event[w]]
  <2>1. CASE Call(w)
    <3>1. PICK reply \in Replies : /\ Goto(w, "finalize", reply)
                                   /\ sqril' = [sqril EXCEPT ![event[w]] = reply]
                                   /\ sqril[event[w]] \in {"none", reply}
      BY <2>1 DEF Call
    <3>2. reply # "none"
      BY DEF Replies
    <3> QED
      BY <3>1, <3>2
  <2>2. CASE CallRefused(w)
    <3>1. event[w] \in Events
      BY <1>1, AloneInCall
    <3>2. /\ sqril[event[w]] \in Replies \union {"none"}
          /\ sqril' = [sqril EXCEPT ![event[w]] = sqril[event[w]]]
          /\ \E result \in ErrorTexts : Goto(w, "refund", result)
      BY <2>2, <3>1 DEF CallRefused, TypeInv, TypeOK
    <3> QED
      BY <3>2
  <2> QED
    BY <2>1, <2>2
<1>3. CASE e # event[w]
  BY <1>1, <1>2, <1>3, OthersSound DEF TypeInv, TypeOK
<1>4. CASE e = event[w]
  <2>1. /\ e \in held[w]
        /\ Asking(e) /\ ~Finalizing(e)
        /\ Asking(e)' <=> label = "refund"
        /\ Finalizing(e)' <=> label = "finalize"
        /\ \A v \in Workers : event'[v] = e /\ pc'[v] = "finalize" => v = w
        /\ pc'[w] = label /\ outcome'[w] = result
    <3>1. Move(w, label, result)
      BY <1>1, <1>2 DEF Move
    <3>2. Moved(w, e, label, result)
      BY <1>4, <3>1, HereMoves
    <3> QED
      BY <1>1, <1>2, <3>2 DEF Moved
  <2>2. e \notin external
    BY <1>1, <1>4, <2>1 DEF Sound, Settled
  <2>3. sqril[e] = "none" /\ sqril'[e] = made
    BY <1>2, <1>4, <2>1, <2>2 DEF Sound, TypeInv, TypeOK
  <2>4. One(Charged(e))' = One(Charged(e))
    BY <2>1 DEF Charged, One
  <2>5. (Net(e) = One(Charged(e)))'
    BY <1>1, <2>4 DEF Sound, Net, Taken
  <2>6. (sqril[e] # "none" <=> Finalizing(e) \/ e \in external)'
    BY <1>1, <1>2, <1>4, <2>1, <2>2, <2>3
  <2>7. \A v \in Workers : event'[v] = e /\ pc'[v] = "finalize" => outcome'[v] \in {"PROCESSING", sqril'[e]}
    BY <1>2, <2>1, <2>3
  <2> QED
    BY <1>1, <2>1, <2>2, <2>5, <2>6, <2>7 DEF Sound
<1> QED
  BY <1>3, <1>4

\* After an error the amount goes back to the user, who is told, or the refund
\* is rolled back and counted.
Returns(w) ==
  Refund(event[w]) /\ tstatus' = [tstatus EXCEPT ![event[w]] = "FAILED"] /\ unreturned' = unreturned

Withholds(w) ==
  UNCHANGED <<ledger, tstatus>> /\ unreturned' = [unreturned EXCEPT ![event[w]] = @ + 1]

LEMMA RefundOutcome ==
  ASSUME TypeInv, HistoryInv, HistoryNext, NEW w \in Workers, RefundAfterError(w) \/ RefundConflicts(w)
  PROVE  Returns(w) \/ Withholds(w)
<1>1. /\ pc[w] = "refund" /\ pc'[w] = "record" /\ event[w] \in Events
      /\ \A v \in Workers \ {w} : pc'[v] = pc[v]
  BY DEF RefundAfterError, RefundConflicts, Goto, Busy, TypeInv, TypeOK, WorkerOK
<1>2. \A v \in Workers : RollsBack(v) <=> v = w /\ refunds' = refunds
  BY <1>1 DEF RollsBack
<1>3. \/ Refund(event[w]) /\ tstatus' = [tstatus EXCEPT ![event[w]] = "FAILED"]
      \/ UNCHANGED <<ledger, tstatus>>
  BY DEF RefundAfterError, RefundConflicts, txn
<1>4. CASE Refund(event[w]) /\ tstatus' = [tstatus EXCEPT ![event[w]] = "FAILED"]
  <2>1. refunds'[event[w]] = refunds[event[w]] + 1 /\ refunds[event[w]] \in Nat
    BY <1>1, <1>4 DEF Refund, TypeInv, TypeOK
  <2>2. \A v \in Workers : ~RollsBack(v)
    BY <1>2, <2>1
  <2>3. unreturned' = [f \in Events |-> unreturned[f] + 0]
    BY <2>2 DEF HistoryNext
  <2>4. unreturned' = unreturned
    BY <2>3 DEF HistoryInv
  <2> QED
    BY <1>4, <2>4 DEF Returns
<1>5. CASE UNCHANGED <<ledger, tstatus>>
  <2>1. refunds' = refunds
    BY <1>5 DEF ledger
  <2>2. \A f \in Events : (\E v \in Workers : event[v] = f /\ RollsBack(v)) <=> f = event[w]
    BY <1>1, <1>2, <2>1
  <2>3. unreturned' = [f \in Events |-> unreturned[f] + (IF f = event[w] THEN 1 ELSE 0)]
    BY <2>2 DEF HistoryNext
  <2>4. unreturned' = [unreturned EXCEPT ![event[w]] = unreturned[event[w]] + 1]
    <3>1. unreturned = [f \in Events |-> unreturned[f]] /\ \A f \in Events : unreturned[f] + 0 = unreturned[f]
      BY DEF HistoryInv
    <3> QED
      BY <1>1, <2>3, <3>1
  <2> QED
    BY <1>5, <2>4 DEF Withholds
<1> QED
  BY <1>3, <1>4, <1>5

\* Any other step that loses nothing rolls no refund back.
LEMMA NothingWithheld ==
  ASSUME TypeInv, HistoryInv, HistoryNext,
         \/ Prune \/ PayloadBatch
         \/ \E e \in Events : SqrilDecides(e) \/ SqrilWebhook(e)
         \/ \E w \in Workers :
              \/ Claim(w) \/ \E f \in Events : Check(w, f)
              \/ Deduct(w) \/ Insufficient(w) \/ DeductFails(w)
              \/ Call(w) \/ CallRefused(w) \/ Finalize(w) \/ Record(w)
  PROVE  unreturned' = unreturned
<1>1. \/ UNCHANGED pc
      \/ \E w \in Workers, label \in {"next", "deduct", "call", "refund", "finalize", "record"} :
           pc[w] # "refund" /\ pc' = [pc EXCEPT ![w] = label]
  <2>1. CASE Prune \/ PayloadBatch \/ \E e \in Events : SqrilDecides(e) \/ SqrilWebhook(e)
    BY <2>1 DEF Prune, PayloadBatch, SqrilDecides, SqrilWebhook
  <2>2. ASSUME NEW w \in Workers, Claim(w) PROVE UNCHANGED pc
    BY <2>2 DEF Claim
  <2>3. ASSUME NEW w \in Workers,
               \/ \E f \in Events : Check(w, f)
               \/ Deduct(w) \/ Insufficient(w) \/ DeductFails(w)
               \/ Call(w) \/ CallRefused(w) \/ Finalize(w) \/ Record(w)
        PROVE  \E label \in {"next", "deduct", "call", "refund", "finalize", "record"} :
                 pc[w] # "refund" /\ pc' = [pc EXCEPT ![w] = label]
    BY <2>3 DEF Check, AfterCheck, Deduct, Insufficient, DeductFails, Call, CallRefused, Finalize,
                Record, Goto
  <2> QED
    BY <2>1, <2>2, <2>3
<1>2. \A v \in Workers : ~RollsBack(v)
  BY <1>1 DEF RollsBack, TypeInv, TypeOK
<1>3. unreturned' = [f \in Events |-> unreturned[f] + 0]
  BY <1>2 DEF HistoryNext
<1> QED
  BY <1>3 DEF HistoryInv

\* After an error SQRIL has no part in the payout, and nothing stays set aside.
LEMMA RefundSound ==
  ASSUME TypeInv, TypeInv', HeldByOne, NEW w \in Workers, RefundAfterError(w) \/ RefundConflicts(w),
         Returns(w) \/ Withholds(w), unreturned \in [Events -> Nat], \A e \in Events : Sound(e)
  PROVE  \A e \in Events : Sound(e)'
<1> SUFFICES ASSUME NEW e \in Events PROVE Sound(e)'
  OBVIOUS
<1>1. /\ pc[w] = "refund" /\ Busy(w) /\ Goto(w, "record", "error")
      /\ UNCHANGED <<ostatus, external, sqril, held, event>>
  BY DEF RefundAfterError, RefundConflicts, Busy, outbox, txn, batch
<1>2. debits' = debits
  BY DEF Returns, Withholds, Refund, ledger
<1>3. CASE e # event[w]
  <2>1. refunds'[e] = refunds[e] /\ tstatus'[e] = tstatus[e] /\ unreturned'[e] = unreturned[e]
    BY <1>3 DEF Returns, Withholds, Refund, ledger, TypeInv, TypeOK
  <2> QED
    BY <1>1, <1>2, <1>3, <2>1, OthersSound
<1>4. CASE e = event[w]
  <2>1. /\ e \in held[w]
        /\ Asking(e) /\ ~Asking(e)' /\ ~Finalizing(e) /\ ~Finalizing(e)'
        /\ \A v \in Workers : event'[v] = e /\ pc'[v] = "finalize" => v = w
        /\ pc'[w] = "record"
    <3>1. Move(w, "record", "error")
      BY <1>1 DEF Move
    <3>2. Moved(w, e, "record", "error")
      BY <1>4, <3>1, HereMoves
    <3> QED
      BY <1>1, <3>2 DEF Moved
  <2>2. e \notin external
    BY <1>1, <1>4, <2>1 DEF Sound, Settled
  <2>3. Net(e) = 1
    BY <2>1 DEF Sound, Charged, One
  <2>4. debits[e] \in Nat /\ refunds[e] \in Nat /\ unreturned[e] \in Nat
    BY DEF TypeInv, TypeOK
  <2>5. One(Charged(e))' = 0
    BY <1>1, <2>1, <2>2 DEF Charged, One
  <2>6. /\ refunds'[e] + unreturned'[e] = refunds[e] + unreturned[e] + 1
        /\ refunds'[e] \in Nat /\ unreturned'[e] \in Nat
    BY <1>4, <2>4 DEF Returns, Withholds, Refund, ledger, TypeInv, TypeOK
  <2>7. (Net(e) = One(Charged(e)))'
    BY <1>2, <2>3, <2>4, <2>5, <2>6 DEF Net, Taken
  <2>8. tstatus'[e] \in {"FAILED", tstatus[e]}
    BY <1>4 DEF Returns, Withholds, TypeInv, TypeOK
  <2> QED
    BY <1>1, <2>1, <2>2, <2>7, <2>8 DEF Sound
<1> QED
  BY <1>3, <1>4

\* Finalize writes down what SQRIL answered, and gives back what it failed.
LEMMA FinalizeSound ==
  ASSUME TypeInv, TypeInv', HeldByOne, NEW w \in Workers, Finalize(w),
         faults' = faults, unreturned' = unreturned, unreturned \in [Events -> Nat],
         \A e \in Events : Sound(e)
  PROVE  \A e \in Events : Sound(e)'
<1> SUFFICES ASSUME NEW e \in Events PROVE Sound(e)'
  OBVIOUS
<1>1. faults' # faults + 1
  BY DEF TypeInv, TypeOK
<1>2. /\ pc[w] = "finalize" /\ Busy(w) /\ Goto(w, "record", "done")
      /\ UNCHANGED <<ostatus, debits, sqril, held, event>>
      /\ external' = external \union {event[w]}
      /\ tstatus' = [tstatus EXCEPT ![event[w]] = outcome[w]]
      /\ refunds' = IF outcome[w] = "FAILED" THEN [refunds EXCEPT ![event[w]] = @ + 1] ELSE refunds
  <2>1. /\ pc[w] = "finalize" /\ Goto(w, "record", "done") /\ FinalizeTx(event[w], outcome[w])
        /\ UNCHANGED <<ostatus, sqril, held, event>>
    BY <1>1 DEF Finalize, Fault, outbox, batch
  <2>2. /\ debits' = debits
        /\ refunds' = IF outcome[w] = "FAILED" THEN [refunds EXCEPT ![event[w]] = @ + 1] ELSE refunds
    BY <2>1 DEF FinalizeTx, Refund, ledger
  <2> QED
    BY <2>1, <2>2 DEF FinalizeTx, Busy
<1>3. CASE e # event[w]
  <2>1. refunds'[e] = refunds[e] /\ tstatus'[e] = tstatus[e]
    BY <1>2, <1>3 DEF TypeInv, TypeOK
  <2>2. debits' = debits /\ sqril' = sqril /\ (e \in external' <=> e \in external)
    BY <1>2, <1>3
  <2> QED
    BY <1>2, <1>3, <2>1, <2>2, OthersSound
<1>4. CASE e = event[w]
  <2>1. /\ ~Asking(e)' /\ Finalizing(e) /\ ~Finalizing(e)'
        /\ \A v \in Workers : event'[v] = e /\ pc'[v] = "finalize" => v = w
        /\ \A v \in Workers : e \in held'[v] => v = w
        /\ pc'[w] = "record" /\ outcome'[w] = "done" /\ event'[w] = e
    <3>1. Move(w, "record", "done")
      BY <1>2 DEF Move
    <3>2. Moved(w, e, "record", "done")
      BY <1>4, <3>1, HereMoves
    <3> QED
      BY <1>2, <3>2 DEF Moved
  <2>2. e \in external' /\ Settled(w, e)' /\ tstatus'[e] = outcome[w]
    BY <1>2, <1>4, <2>1 DEF Settled, TypeInv, TypeOK
  <2>3. ostatus[e] = "PROCESSING"
    BY <1>2, <1>4 DEF HeldByOne, TypeInv, WorkerOK
  <2>4. Net(e) = 1
    BY <2>1 DEF Sound, Charged, One
  <2>5. debits[e] \in Nat /\ refunds[e] \in Nat /\ unreturned[e] \in Nat
    BY DEF TypeInv, TypeOK
  <2>6. One(Charged(e))' = IF outcome[w] = "FAILED" THEN 0 ELSE 1
    BY <2>1, <2>2 DEF Charged, One
  <2>7. refunds'[e] = IF outcome[w] = "FAILED" THEN refunds[e] + 1 ELSE refunds[e]
    BY <1>2, <1>4 DEF TypeInv, TypeOK
  <2>8. (Net(e) = One(Charged(e)))'
    <3>1. CASE outcome[w] = "FAILED"
      BY <1>2, <2>4, <2>5, <2>6, <2>7, <3>1 DEF Net, Taken
    <3>2. CASE outcome[w] # "FAILED"
      BY <1>2, <2>4, <2>5, <2>6, <2>7, <3>2 DEF Net, Taken
    <3> QED
      BY <3>1, <3>2
  <2>9. sqril'[e] # "none"
    BY <1>2, <2>1 DEF Sound
  <2> QED
    BY <1>2, <2>1, <2>2, <2>3, <2>8, <2>9 DEF Sound, Claimable
<1> QED
  BY <1>3, <1>4

-----------------------------------------------------------------------------
(* Steps of the others.                                                     *)

\* Nobody moves, and the events a step of SQRIL is not about keep still.
LEMMA UnmovedSound ==
  ASSUME NEW e \in Events, Sound(e), UNCHANGED <<pc, event, outcome, held, external, debits>>,
         refunds'[e] = refunds[e], unreturned'[e] = unreturned[e],
         sqril'[e] = sqril[e], tstatus'[e] = tstatus[e],
         e \in external /\ ostatus'[e] \in Claimable => ostatus[e] \in Claimable
  PROVE  Sound(e)'
BY ElsewhereSound

\* Pruner and payload-worker take no event of a payout SQRIL has.
LEMMA TableSound ==
  ASSUME NEW e \in Events, Sound(e), Prune \/ PayloadBatch, unreturned' = unreturned
  PROVE  Sound(e)'
<1>1. UNCHANGED <<pc, event, outcome, held, external, debits, refunds, sqril, tstatus>>
  BY DEF Prune, PayloadBatch, ledger, txn, batch
<1>2. ostatus'[e] \in Claimable => ostatus[e] \in Claimable
  BY DEF Prune, PayloadBatch, Claimable
<1> QED
  BY <1>1, <1>2, UnmovedSound

\* A verdict of SQRIL may overtake the answer to the call, which then says
\* PROCESSING.
LEMMA DecideSound ==
  ASSUME TypeInv, NEW d \in Events, SqrilDecides(d), unreturned' = unreturned, NEW e \in Events, Sound(e)
  PROVE  Sound(e)'
<1>1. UNCHANGED <<ostatus, pc, event, outcome, held, external, debits, refunds, tstatus>>
  BY DEF SqrilDecides, outbox, ledger, txn, batch
<1>2. /\ sqril[d] = "PROCESSING" /\ sqril'[d] # "none"
      /\ \A f \in Events \ {d} : sqril'[f] = sqril[f]
  BY DEF SqrilDecides, TypeInv, TypeOK
<1>3. CASE e # d
  BY <1>1, <1>2, <1>3, UnmovedSound
<1>4. CASE e = d
  <2>1. Finalizing(e)' = Finalizing(e) /\ One(Charged(e))' = One(Charged(e))
    BY <1>1 DEF Finalizing, Asking, Charged
  <2>2. (Net(e) = One(Charged(e)))'
    BY <1>1, <2>1 DEF Sound, Net, Taken
  <2>3. (sqril[e] # "none" <=> Finalizing(e) \/ e \in external)'
    BY <1>1, <1>2, <1>4, <2>1 DEF Sound
  <2>4. \A v \in Workers : event'[v] = e /\ pc'[v] = "finalize" => outcome'[v] \in {"PROCESSING", sqril'[e]}
    BY <1>1, <1>2, <1>4 DEF Sound
  <2>5. \A v \in Workers : e \in held'[v] /\ e \in external' => Settled(v, e)'
    BY <1>1 DEF Sound, Settled
  <2> QED
    BY <1>1, <2>2, <2>3, <2>4, <2>5 DEF Sound
<1> QED
  BY <1>3, <1>4

\* The webhook closes a payout, and gives back the amount of one SQRIL failed.
LEMMA WebhookSound ==
  ASSUME TypeInv, NEW d \in Events, SqrilWebhook(d), unreturned' = unreturned,
         unreturned \in [Events -> Nat], \A e \in Events : Sound(e)
  PROVE  \A e \in Events : Sound(e)'
<1> SUFFICES ASSUME NEW e \in Events PROVE Sound(e)'
  OBVIOUS
<1>1. /\ UNCHANGED <<ostatus, pc, event, outcome, held, external, sqril, debits>>
      /\ d \in external /\ sqril[d] \in {"SUCCESS", "FAILED"} /\ tstatus[d] \notin {"SUCCESS", "FAILED"}
      /\ tstatus' = [tstatus EXCEPT ![d] = sqril[d]]
  BY DEF SqrilWebhook, Final, Refund, outbox, ledger, batch
<1>2. /\ sqril[d] = "FAILED" => refunds' = [refunds EXCEPT ![d] = @ + 1]
      /\ sqril[d] # "FAILED" => refunds' = refunds
  BY DEF SqrilWebhook, Refund, ledger
<1>3. CASE e # d
  <2>1. refunds'[e] = refunds[e] /\ tstatus'[e] = tstatus[e]
    BY <1>1, <1>2, <1>3 DEF TypeInv, TypeOK
  <2>2. UNCHANGED <<pc, event, outcome, held, external, debits>> /\ sqril'[e] = sqril[e] /\ ostatus' = ostatus
    BY <1>1
  <2> QED
    BY <2>1, <2>2, UnmovedSound
<1>4. CASE e = d
  <2>1. /\ Finalizing(e)' = Finalizing(e) /\ Asking(e)' = Asking(e)
        /\ tstatus'[e] = sqril[e]
    BY <1>1, <1>4 DEF Finalizing, Asking, TypeInv, TypeOK
  <2>2. ~Finalizing(e) /\ ~Asking(e)
    <3>1. ASSUME NEW v \in Workers, event[v] = e, pc[v] \in {"call", "refund", "finalize"} PROVE FALSE
      <4>1. e \in held[v]
        BY <3>1 DEF TypeInv, WorkerOK, Busy
      <4> QED
        BY <1>1, <1>4, <3>1, <4>1 DEF Sound, Settled
    <3> QED
      BY <3>1 DEF Finalizing, Asking
  <2>3. Net(e) = 1
    BY <1>1, <1>4 DEF Sound, Charged, One
  <2>4. debits[e] \in Nat /\ refunds[e] \in Nat /\ unreturned[e] \in Nat
    BY DEF TypeInv, TypeOK
  <2>5. One(Charged(e))' = IF sqril[e] = "FAILED" THEN 0 ELSE 1
    BY <1>1, <1>4, <2>1, <2>2 DEF Charged, One
  <2>6. refunds'[e] = IF sqril[e] = "FAILED" THEN refunds[e] + 1 ELSE refunds[e]
    BY <1>2, <1>4 DEF TypeInv, TypeOK
  <2>7. (Net(e) = One(Charged(e)))'
    <3>1. CASE sqril[e] = "FAILED"
      BY <1>1, <2>3, <2>4, <2>5, <2>6, <3>1 DEF Net, Taken
    <3>2. CASE sqril[e] # "FAILED"
      BY <1>1, <2>3, <2>4, <2>5, <2>6, <3>2 DEF Net, Taken
    <3> QED
      BY <3>1, <3>2
  <2>8. /\ \A v \in Workers : event'[v] = e /\ pc'[v] = "finalize" => outcome'[v] \in {"PROCESSING", sqril'[e]}
        /\ \A v \in Workers : e \in held'[v] /\ e \in external' => Settled(v, e)'
        /\ e \in external' => ostatus'[e] \notin Claimable
    BY <1>1 DEF Sound, Settled
  <2> QED
    BY <1>1, <1>4, <2>1, <2>2, <2>7, <2>8 DEF Sound
<1> QED
  BY <1>3, <1>4

-----------------------------------------------------------------------------
(* Faults.  Nothing takes them back, so a step that ends unbroken began so. *)

LEMMA Unbroken ==
  ASSUME TypeInv, Next, faults' = 0
  PROVE  faults = 0
<1>1. UNCHANGED faults \/ Fault
  BY DEF Next, Handle, Claim, Crash, Check, Deduct, Insufficient, DeductFails, Call, CallRefused,
         CallUnanswered, RefundAfterError, RefundConflicts, RefundLost, Finalize, FinalizeLost, Record,
         Prune, PayloadBatch, SqrilDecides, SqrilWebhook
<1> QED
  BY <1>1 DEF Fault, TypeInv, TypeOK

LEMMA RefundTexts ==
  ASSUME TypeInv, HistoryInv, Next
  PROVE  \A w \in Workers : pc'[w] = "refund" => outcome'[w] \in ErrorTexts
<1>1. CASE UNCHANGED <<pc, outcome>>
  BY <1>1 DEF HistoryInv
<1>2. ASSUME NEW w \in Workers, NEW label, label # "refund", NEW result, Goto(w, label, result)
      PROVE  \A v \in Workers : pc'[v] = "refund" => outcome'[v] \in ErrorTexts
  BY <1>2 DEF Goto, HistoryInv, TypeInv, TypeOK
<1>3. ASSUME NEW w \in Workers, NEW result \in ErrorTexts, Goto(w, "refund", result)
      PROVE  \A v \in Workers : pc'[v] = "refund" => outcome'[v] \in ErrorTexts
  BY <1>3 DEF Goto, HistoryInv, TypeInv, TypeOK
<1>4. \/ UNCHANGED <<pc, outcome>>
      \/ \E w \in Workers, label \in {"next", "deduct", "call", "finalize", "record"},
            result \in Replies \union {"none", "done", "error"} : Goto(w, label, result)
      \/ \E w \in Workers, result \in ErrorTexts : Goto(w, "refund", result)
  <2>1. CASE Prune \/ PayloadBatch \/ \E e \in Events : SqrilDecides(e) \/ SqrilWebhook(e)
    BY <2>1 DEF Prune, PayloadBatch, SqrilDecides, SqrilWebhook
  <2>2. ASSUME NEW w \in Workers, Claim(w) PROVE UNCHANGED <<pc, outcome>>
    BY <2>2 DEF Claim
  <2>3. ASSUME NEW w \in Workers, CallRefused(w) \/ CallUnanswered(w)
        PROVE  \E result \in ErrorTexts : Goto(w, "refund", result)
    BY <2>3 DEF CallRefused, CallUnanswered
  <2>4. ASSUME NEW w \in Workers, Call(w)
        PROVE  \E result \in Replies : Goto(w, "finalize", result)
    BY <2>4 DEF Call
  <2>5. ASSUME NEW w \in Workers, Crash(w) \/ (Handle(w) /\ ~Call(w) /\ ~CallRefused(w) /\ ~CallUnanswered(w))
        PROVE  \E label \in {"next", "deduct", "call", "record"}, result \in {"none", "done", "error"} :
                  Goto(w, label, result)
    BY <2>5 DEF Crash, Handle, Check, AfterCheck, Deduct, Insufficient, DeductFails, RefundAfterError,
                RefundConflicts, RefundLost, Finalize, FinalizeLost, Record
  <2> QED
    BY <2>1, <2>2, <2>3, <2>4, <2>5 DEF Next
<1> QED
  BY <1>1, <1>2, <1>3, <1>4

-----------------------------------------------------------------------------
(* The ledger and SQRIL agree.                                              *)

LEMMA SoundStep ==
  ASSUME TypeInv, TypeInv', HeldByOne, HistoryInv, HistoryNext, faults' = 0
  PROVE  \A e \in Events : Sound(e)'
<1>1. /\ Next /\ faults' = faults /\ unreturned \in [Events -> Nat]
      /\ \A e \in Events : Sound(e)
  BY Unbroken DEF HistoryNext, HistoryInv
<1>2. ASSUME NEW w \in Workers, Fault PROVE FALSE
  BY <1>1, <1>2 DEF Fault, TypeInv, TypeOK
<1>3. ASSUME NEW w \in Workers, Claim(w) \/ Handle(w) \/ Crash(w)
      PROVE  \A e \in Events : Sound(e)'
  <2>1. \/ (\E f \in Events : Check(w, f)) \/ Claim(w) \/ Insufficient(w) \/ DeductFails(w) \/ Record(w)
        \/ Deduct(w) \/ Call(w) \/ CallRefused(w) \/ Finalize(w)
        \/ RefundAfterError(w) \/ RefundConflicts(w)
    BY <1>2, <1>3 DEF Handle, Crash, CallUnanswered, RefundLost, FinalizeLost
  <2>2. CASE (\E f \in Events : Check(w, f)) \/ Claim(w) \/ Insufficient(w) \/ DeductFails(w) \/ Record(w)
    <3>1. unreturned' = unreturned
      BY <2>2, NothingWithheld
    <3> QED
      BY <1>1, <2>2, <3>1, AsideSound
  <2>3. CASE Deduct(w)
    <3>1. unreturned' = unreturned
      BY <2>3, NothingWithheld
    <3> QED
      BY <1>1, <2>3, <3>1, DeductSound
  <2>4. CASE Call(w) \/ CallRefused(w)
    <3>1. unreturned' = unreturned
      BY <2>4, NothingWithheld
    <3> QED
      BY <1>1, <2>4, <3>1, CallSound
  <2>5. CASE RefundAfterError(w) \/ RefundConflicts(w)
    BY <1>1, <2>5, RefundOutcome, RefundSound
  <2>6. CASE Finalize(w)
    <3>1. unreturned' = unreturned
      BY <2>6, NothingWithheld
    <3> QED
      BY <1>1, <2>6, <3>1, FinalizeSound
  <2> QED
    BY <2>1, <2>2, <2>3, <2>4, <2>5, <2>6
<1>4. CASE Prune \/ PayloadBatch
  <2>1. unreturned' = unreturned
    BY <1>4, NothingWithheld
  <2> QED
    BY <1>1, <1>4, <2>1, TableSound
<1>5. ASSUME NEW d \in Events, SqrilDecides(d) PROVE \A e \in Events : Sound(e)'
  <2>1. unreturned' = unreturned
    BY <1>5, NothingWithheld
  <2> QED
    BY <1>1, <1>5, <2>1, DecideSound
<1>6. ASSUME NEW d \in Events, SqrilWebhook(d) PROVE \A e \in Events : Sound(e)'
  <2>1. unreturned' = unreturned
    BY <1>6, NothingWithheld
  <2> QED
    BY <1>1, <1>6, <2>1, WebhookSound
<1> QED
  BY <1>1, <1>3, <1>4, <1>5, <1>6 DEF Next

LEMMA HistoryInvInit == HistoryInit => HistoryInv
<1> SUFFICES ASSUME HistoryInit PROVE HistoryInv
  OBVIOUS
<1>1. Init /\ unreturned = [e \in Events |-> 0]
  BY DEF HistoryInit
<1>2. \A e \in Events : ~Finalizing(e) /\ ~Asking(e) /\ ~Charged(e)
  BY <1>1 DEF Init, Finalizing, Asking, Charged
<1>3. \A e \in Events : Sound(e)
  BY <1>1, <1>2 DEF Init, Sound, Net, Taken, One
<1> QED
  BY <1>1, <1>3 DEF Init, HistoryInv

LEMMA HistoryInvStep ==
  ASSUME TypeInv, TypeInv', HeldByOne, HistoryInv, [HistoryNext]_<<vars, unreturned>>
  PROVE  HistoryInv'
<1>1. CASE HistoryNext
  <2>1. unreturned' \in [Events -> Nat]
    BY <1>1 DEF HistoryNext, HistoryInv
  <2>2. \A w \in Workers : pc'[w] = "refund" => outcome'[w] \in ErrorTexts
    BY <1>1, RefundTexts DEF HistoryNext
  <2>3. faults' = 0 => \A e \in Events : Sound(e)'
    BY <1>1, SoundStep
  <2> QED
    BY <2>1, <2>2, <2>3 DEF HistoryInv
<1>2. CASE UNCHANGED <<vars, unreturned>>
  <2>1. UNCHANGED <<pc, outcome, unreturned, faults>>
    BY <1>2 DEF vars
  <2>2. \A e \in Events : Sound(e) => Sound(e)'
    BY <1>2, UnmovedSound DEF vars
  <2> QED
    BY <2>1, <2>2 DEF HistoryInv
<1> QED
  BY <1>1, <1>2

LEMMA HistoryIsSpec == HistorySpec => Spec
<1>1. HistoryInit => Init
  BY DEF HistoryInit
<1>2. [HistoryNext]_<<vars, unreturned>> => [Next]_vars
  BY DEF HistoryNext
<1> QED
  BY <1>1, <1>2, PTL DEF HistorySpec, Spec

LEMMA HistoryInvHolds == HistorySpec => []HistoryInv
BY HistoryInvInit, HistoryInvStep, HistoryIsSpec, TypeInvHolds, OneHolder, PTL DEF HistorySpec

\* Without crashes and lost messages, an event no worker has in hand has taken
\* its amount once if SQRIL has the payout and the transaction does not say
\* FAILED, and once more for every refund rolled back: whatever SQRIL refuses,
\* however often the event is retried and whichever refund loses a
\* serialization conflict, and in whichever order answer and verdict arrive.
THEOREM LedgerAlwaysAgrees == HistorySpec => []LedgerAgrees
<1>1. TypeInv /\ HistoryInv => LedgerAgrees
  <2> SUFFICES ASSUME TypeInv, HistoryInv, faults = 0, NEW e \in Events, ~InHand(e)
               PROVE  Taken(e) = unreturned[e] + (IF sqril[e] = "none" \/ tstatus[e] = "FAILED" THEN 0 ELSE 1)
    BY DEF LedgerAgrees
  <2>1. ~Asking(e) /\ ~Finalizing(e)
    BY DEF InHand, Asking, Finalizing, TypeInv, WorkerOK, Busy
  <2>2. Sound(e)
    BY DEF HistoryInv
  <2>3. Charged(e) <=> ~(sqril[e] = "none" \/ tstatus[e] = "FAILED")
    BY <2>1, <2>2 DEF Charged, Sound
  <2>4. Net(e) = IF sqril[e] = "none" \/ tstatus[e] = "FAILED" THEN 0 ELSE 1
    BY <2>2, <2>3 DEF Sound, One
  <2>5. Net(e) = Taken(e) - unreturned[e] /\ Taken(e) \in Int /\ unreturned[e] \in Nat
    BY DEF Net, Taken, TypeInv, TypeOK, HistoryInv
  <2> QED
    BY <2>4, <2>5
<1> QED
  BY <1>1, HistoryInvHolds, HistoryIsSpec, TypeInvHolds, PTL

-----------------------------------------------------------------------------
(* Each event is a saga.  The step of PayoutSaga that a step of the outbox  *)
(* makes is read off the place of the worker, the only one in its event.    *)

NetMap == [e \in Events |-> Taken(e) - unreturned[e]]

LEMMA NetAt ==
  ASSUME NEW e \in Events, NEW n, Net(e)' = n, \A f \in Events \ {e} : Net(f)' = Net(f)
  PROVE  NetMap' = [NetMap EXCEPT ![e] = n]
BY DEF NetMap, Net

\* The entries of an event, and refunds not made, change what is set aside for it.
LEMMA NetByEntry ==
  ASSUME TypeInv, unreturned \in [Events -> Nat], NEW e \in Events
  PROVE  /\ Debit(e) /\ unreturned' = unreturned => NetMap' = [NetMap EXCEPT ![e] = Net(e) + 1]
         /\ Refund(e) /\ unreturned' = unreturned => NetMap' = [NetMap EXCEPT ![e] = Net(e) - 1]
         /\ UNCHANGED ledger /\ unreturned' = unreturned => NetMap' = NetMap
         /\ UNCHANGED ledger /\ unreturned' = [unreturned EXCEPT ![e] = @ + 1] =>
              NetMap' = [NetMap EXCEPT ![e] = Net(e) - 1]
<1>1. debits \in [Events -> Nat] /\ refunds \in [Events -> Nat]
  BY DEF TypeInv, TypeOK
<1>2. ASSUME Debit(e), unreturned' = unreturned PROVE NetMap' = [NetMap EXCEPT ![e] = Net(e) + 1]
  <2>1. Net(e)' = Net(e) + 1 /\ \A f \in Events \ {e} : Net(f)' = Net(f)
    BY <1>1, <1>2 DEF Debit, Net, Taken
  <2> QED
    BY <2>1, NetAt
<1>3. ASSUME Refund(e), unreturned' = unreturned PROVE NetMap' = [NetMap EXCEPT ![e] = Net(e) - 1]
  <2>1. Net(e)' = Net(e) - 1 /\ \A f \in Events \ {e} : Net(f)' = Net(f)
    BY <1>1, <1>3 DEF Refund, Net, Taken
  <2> QED
    BY <2>1, NetAt
<1>4. ASSUME UNCHANGED ledger, unreturned' = unreturned PROVE NetMap' = NetMap
  BY <1>4 DEF ledger, NetMap, Taken
<1>5. ASSUME UNCHANGED ledger, unreturned' = [unreturned EXCEPT ![e] = @ + 1]
      PROVE  NetMap' = [NetMap EXCEPT ![e] = Net(e) - 1]
  <2>1. Net(e)' = Net(e) - 1 /\ \A f \in Events \ {e} : Net(f)' = Net(f)
    BY <1>1, <1>5 DEF ledger, Net, Taken
  <2> QED
    BY <2>1, NetAt
<1> QED
  BY <1>2, <1>3, <1>4, <1>5

LEMMA AtEvent ==
  ASSUME TypeInv, HeldByOne, NEW w \in Workers, pc[w] \in {"deduct", "call", "refund", "finalize"},
         NEW e, e = event[w], \A f \in Events : Sound(f)
  PROVE  /\ e \in Events /\ e \notin external /\ tstatus[e] # "SUCCESS"
         /\ Net(e) = IF pc[w] = "deduct" THEN 0 ELSE 1
         /\ sqril[e] = "none" <=> pc[w] # "finalize"
         /\ pc[w] = "finalize" => outcome[w] \in {"PROCESSING", sqril[e]}
<1>1. Busy(w) /\ e \in held[w] /\ e \in Events
  BY DEF Busy, TypeInv, TypeOK, WorkerOK
<1>2. Sound(e)
  BY <1>1
<1>3. e \notin external
  BY <1>1, <1>2 DEF Sound, Settled
<1>4. \A v \in Workers : event[v] = e /\ Busy(v) => v = w
  BY <1>1, AloneInCall
<1>5. Asking(e) <=> pc[w] \in {"call", "refund"}
  BY <1>4 DEF Asking, Busy
<1>6. Finalizing(e) <=> pc[w] = "finalize"
  BY <1>4 DEF Finalizing, Busy
<1>7. Charged(e) <=> pc[w] # "deduct"
  BY <1>3, <1>5, <1>6 DEF Charged
<1>8. Net(e) = IF pc[w] = "deduct" THEN 0 ELSE 1
  BY <1>2, <1>7 DEF Sound, One
<1>9. sqril[e] = "none" <=> pc[w] # "finalize"
  BY <1>2, <1>3, <1>6 DEF Sound
<1> QED
  BY <1>1, <1>2, <1>3, <1>8, <1>9 DEF Sound


\* A step that gives back, rolls back, or tells at event e, in terms of
\* PayoutSaga.
LEMMA SagaGiveBack ==
  ASSUME TypeInv, unreturned \in [Events -> Nat], NEW e \in Events, Net(e) = 1,
         tstatus[e] # "SUCCESS", sqril[e] \in {"none", "FAILED"},
         Refund(e), tstatus' = [tstatus EXCEPT ![e] = "FAILED"], sqril' = sqril, unreturned' = unreturned
  PROVE  Saga!Step(e)
<1>1. NetMap' = [NetMap EXCEPT ![e] = Net(e) - 1]
  BY NetByEntry
<1>2. NetMap' = [NetMap EXCEPT ![e] = 0] /\ NetMap[e] = 1
  <2>1. Net(e) - 1 = 0
    OBVIOUS
  <2>2. NetMap' = [NetMap EXCEPT ![e] = 0]
    BY <1>1, <2>1
  <2> QED
    BY <2>2 DEF NetMap, Net
<1>3. Saga!GiveBack(e)
  BY <1>2 DEF Saga!GiveBack, NetMap
<1> QED
  BY <1>3 DEF Saga!Step

LEMMA SagaWithhold ==
  ASSUME TypeInv, unreturned \in [Events -> Nat], NEW e \in Events, Net(e) = 1, sqril[e] = "none",
         UNCHANGED ledger, tstatus' = tstatus, sqril' = sqril,
         unreturned' = [unreturned EXCEPT ![e] = @ + 1]
  PROVE  Saga!Step(e)
<1>1. NetMap' = [NetMap EXCEPT ![e] = Net(e) - 1]
  BY NetByEntry
<1>2. NetMap' = [NetMap EXCEPT ![e] = 0] /\ NetMap[e] = 1
  <2>1. Net(e) - 1 = 0
    OBVIOUS
  <2>2. NetMap' = [NetMap EXCEPT ![e] = 0]
    BY <1>1, <2>1
  <2> QED
    BY <2>2 DEF NetMap, Net
<1>3. Saga!Withhold(e)
  BY <1>2 DEF Saga!Withhold, NetMap
<1> QED
  BY <1>3 DEF Saga!Step

LEMMA SagaTell ==
  ASSUME TypeInv, unreturned \in [Events -> Nat], NEW e \in Events, Net(e) = 1,
         tstatus[e] # "SUCCESS", sqril[e] # "none",
         NEW news \in {"PROCESSING", sqril[e]}, news # "FAILED",
         tstatus' = [tstatus EXCEPT ![e] = news], UNCHANGED ledger, sqril' = sqril, unreturned' = unreturned
  PROVE  Saga!Step(e)
<1>1. NetMap' = NetMap
  BY NetByEntry
<1>2. NetMap[e] = 1
  BY DEF NetMap, Net
<1>3. Saga!Tell(e)
  BY <1>1, <1>2 DEF Saga!Tell, NetMap
<1> QED
  BY <1>3 DEF Saga!Step

\* What worker w does with its event is a step of the saga of that event, or
\* none the saga sees.
LEMMA SagaHere ==
  ASSUME TypeInv, HeldByOne, HistoryInv, HistoryNext, NEW w \in Workers, Handle(w), faults' = faults,
         \A f \in Events : Sound(f)
  PROVE  (\E e \in Events : Saga!Step(e)) \/ UNCHANGED <<NetMap, sqril, tstatus, unreturned>>
<1>0. PICK e : e = event[w]
  OBVIOUS
<1>1. ~Fault /\ unreturned \in [Events -> Nat]
  BY DEF Fault, HistoryInv, TypeInv, TypeOK
<1>2. CASE (\E f \in Events : Check(w, f)) \/ DeductFails(w) \/ CallRefused(w) \/ Record(w)
  <2>1. UNCHANGED <<ledger, tstatus, sqril>>
    BY <1>2 DEF Check, DeductFails, CallRefused, Record, txn
  <2>2. unreturned' = unreturned
    BY <1>2, NothingWithheld
  <2>3. NetMap' = NetMap
    BY <2>1, <2>2 DEF ledger, NetMap, Taken
  <2> QED
    BY <2>1, <2>2, <2>3
<1>3. CASE Deduct(w)
  <2>1. pc[w] = "deduct" /\ Debit(e) /\ UNCHANGED <<tstatus, sqril>>
    BY <1>0, <1>3 DEF Deduct, txn
  <2>2. e \in Events /\ Net(e) = 0 /\ sqril[e] = "none"
    BY <1>0, <2>1, AtEvent
  <2>3. unreturned' = unreturned
    BY <1>3, NothingWithheld
  <2>4. NetMap' = [NetMap EXCEPT ![e] = 1] /\ NetMap[e] = 0
    <3>1. NetMap' = [NetMap EXCEPT ![e] = Net(e) + 1]
      BY <1>1, <2>1, <2>2, <2>3, NetByEntry
    <3>2. Net(e) + 1 = 1
      BY <2>2
    <3> QED
      BY <2>2, <3>1, <3>2 DEF NetMap, Net
  <2>5. Saga!Reserve(e)
    BY <2>1, <2>2, <2>3, <2>4 DEF Saga!Reserve, NetMap
  <2> QED
    BY <2>2, <2>5 DEF Saga!Step
<1>4. CASE Insufficient(w)
  <2>1. /\ pc[w] = "deduct" /\ UNCHANGED <<ledger, sqril>>
        /\ tstatus' = [tstatus EXCEPT ![e] = "FAILED"]
    BY <1>0, <1>1, <1>4 DEF Insufficient
  <2>2. e \in Events /\ Net(e) = 0 /\ sqril[e] = "none"
    BY <1>0, <2>1, AtEvent
  <2>3. unreturned' = unreturned
    BY <1>4, NothingWithheld
  <2>4. NetMap' = NetMap /\ NetMap[e] = 0
    BY <1>1, <2>1, <2>2, <2>3, NetByEntry DEF NetMap, Net
  <2>5. Saga!Refuse(e)
    BY <2>1, <2>2, <2>3, <2>4 DEF Saga!Refuse, NetMap
  <2> QED
    BY <2>2, <2>5 DEF Saga!Step
<1>5. CASE Call(w)
  <2>1. /\ pc[w] = "call" /\ UNCHANGED <<ledger, tstatus>>
        /\ \E reply \in Replies : sqril' = [sqril EXCEPT ![e] = reply]
    BY <1>0, <1>5 DEF Call, txn
  <2>2. e \in Events /\ Net(e) = 1 /\ sqril[e] = "none"
    BY <1>0, <2>1, AtEvent
  <2>3. unreturned' = unreturned
    BY <1>5, NothingWithheld
  <2>4. NetMap' = NetMap /\ NetMap[e] = 1
    BY <1>1, <2>1, <2>2, <2>3, NetByEntry DEF NetMap, Net
  <2>5. Saga!Execute(e)
    BY <2>1, <2>2, <2>3, <2>4 DEF Saga!Execute, Saga!Verdicts, Replies, NetMap
  <2> QED
    BY <2>2, <2>5 DEF Saga!Step
<1>6. CASE RefundAfterError(w) \/ RefundConflicts(w)
  <2>1. pc[w] = "refund" /\ sqril' = sqril
    BY <1>6 DEF RefundAfterError, RefundConflicts
  <2>2. e \in Events /\ Net(e) = 1 /\ tstatus[e] # "SUCCESS" /\ sqril[e] = "none"
    BY <1>0, <2>1, AtEvent
  <2>3. CASE Returns(w)
    BY <1>0, <1>1, <2>1, <2>2, <2>3, SagaGiveBack DEF Returns
  <2>4. CASE Withholds(w)
    BY <1>0, <1>1, <2>1, <2>2, <2>4, SagaWithhold DEF Withholds
  <2> QED
    BY <1>6, <2>3, <2>4, RefundOutcome
<1>7. CASE Finalize(w)
  <2>1. /\ pc[w] = "finalize" /\ sqril' = sqril
        /\ tstatus' = [tstatus EXCEPT ![e] = outcome[w]]
        /\ IF outcome[w] = "FAILED" THEN Refund(e) ELSE UNCHANGED ledger
    BY <1>0, <1>7 DEF Finalize, FinalizeTx
  <2>2. /\ e \in Events /\ Net(e) = 1 /\ tstatus[e] # "SUCCESS" /\ sqril[e] # "none"
        /\ outcome[w] \in {"PROCESSING", sqril[e]}
    BY <1>0, <2>1, AtEvent
  <2>3. unreturned' = unreturned
    BY <1>7, NothingWithheld
  <2>4. CASE outcome[w] = "FAILED"
    BY <1>1, <2>1, <2>2, <2>3, <2>4, SagaGiveBack
  <2>5. CASE outcome[w] # "FAILED"
    BY <1>1, <2>1, <2>2, <2>3, <2>5, SagaTell
  <2> QED
    BY <2>4, <2>5
<1>8. ~CallUnanswered(w) /\ ~RefundLost(w) /\ ~FinalizeLost(w)
  BY <1>1 DEF CallUnanswered, RefundLost, FinalizeLost
<1> QED
  BY <1>2, <1>3, <1>4, <1>5, <1>6, <1>7, <1>8 DEF Handle

\* SQRIL's verdict and the webhook that brings it are steps of the saga too.
LEMMA SagaVerdict ==
  ASSUME TypeInv, unreturned \in [Events -> Nat], unreturned' = unreturned,
         NEW d \in Events, SqrilDecides(d) \/ SqrilWebhook(d), Sound(d)
  PROVE  Saga!Step(d)
<1>1. CASE SqrilDecides(d)
  <2>1. UNCHANGED <<ledger, tstatus>>
    BY <1>1 DEF SqrilDecides, txn
  <2>2. NetMap' = NetMap
    BY <2>1, NetByEntry
  <2>3. Saga!Decide(d)
    BY <1>1, <2>1, <2>2 DEF SqrilDecides, Saga!Decide, Saga!Verdicts, NetMap
  <2> QED
    BY <2>3 DEF Saga!Step
<1>2. CASE SqrilWebhook(d)
  <2>1. /\ sqril[d] \in {"SUCCESS", "FAILED"} /\ d \in external /\ sqril' = sqril
        /\ tstatus[d] \notin {"SUCCESS", "FAILED"} /\ tstatus' = [tstatus EXCEPT ![d] = sqril[d]]
        /\ IF sqril[d] = "FAILED" THEN Refund(d) ELSE UNCHANGED ledger
    BY <1>2 DEF SqrilWebhook, Final
  <2>2. Net(d) = 1
    BY <2>1 DEF Sound, Charged, One
  <2>3. CASE sqril[d] = "FAILED"
    BY <2>1, <2>2, <2>3, SagaGiveBack
  <2>4. CASE sqril[d] # "FAILED"
    BY <2>1, <2>2, <2>4, SagaTell
  <2> QED
    BY <2>3, <2>4
<1> QED
  BY <1>1, <1>2

LEMMA SagaStep ==
  ASSUME TypeInv, TypeInv', HeldByOne, HistoryInv, [HistoryNext]_<<vars, unreturned>>
  PROVE  [Saga!Next]_<<NetMap, sqril, tstatus, unreturned, faults > 0>>
<1>1. CASE UNCHANGED <<vars, unreturned>>
  BY <1>1 DEF vars, NetMap, Taken
<1>2. CASE HistoryNext /\ faults' > 0
  BY <1>2 DEF Saga!Next
<1>3. CASE HistoryNext /\ faults' = 0
  <2>1. /\ Next /\ faults = 0 /\ faults' = faults /\ unreturned \in [Events -> Nat]
        /\ \A e \in Events : Sound(e)
    BY <1>3, Unbroken DEF HistoryNext, HistoryInv
  <2>2. (\E e \in Events : Saga!Step(e)) \/ UNCHANGED <<NetMap, sqril, tstatus, unreturned>>
    <3>1. CASE Prune \/ PayloadBatch \/ \E w \in Workers : Claim(w)
      <4>1. UNCHANGED <<ledger, tstatus, sqril>>
        BY <3>1 DEF Prune, PayloadBatch, Claim, txn
      <4>2. unreturned' = unreturned
        BY <1>3, <3>1, NothingWithheld
      <4> QED
        BY <4>1, <4>2 DEF ledger, NetMap, Taken
    <3>2. ASSUME NEW w \in Workers, Crash(w) PROVE FALSE
      BY <2>1, <3>2 DEF Crash, Fault, TypeInv, TypeOK
    <3>3. ASSUME NEW w \in Workers, Handle(w)
          PROVE  (\E e \in Events : Saga!Step(e)) \/ UNCHANGED <<NetMap, sqril, tstatus, unreturned>>
      BY <1>3, <2>1, <3>3, SagaHere
    <3>4. ASSUME NEW d \in Events, SqrilDecides(d) \/ SqrilWebhook(d) PROVE Saga!Step(d)
      <4>1. unreturned' = unreturned
        BY <1>3, <3>4, NothingWithheld
      <4> QED
        BY <2>1, <3>4, <4>1, SagaVerdict
    <3> QED
      BY <2>1, <3>1, <3>2, <3>3, <3>4 DEF Next
  <2>3. (faults > 0)' = (faults > 0)
    BY <2>1
  <2>4. CASE \E e \in Events : Saga!Step(e)
    BY <2>3, <2>4 DEF Saga!Next
  <2>5. CASE UNCHANGED <<NetMap, sqril, tstatus, unreturned>>
    BY <2>3, <2>5
  <2> QED
    BY <2>2, <2>4, <2>5
<1>4. faults' = 0 \/ faults' > 0
  BY DEF TypeInv, TypeOK
<1> QED
  BY <1>1, <1>2, <1>3, <1>4

\* Without crashes and lost messages, every step of the workers, the webhook,
\* the payload worker and the pruner is a step of the saga of some event, or
\* none it sees: SQRIL executes a payout only with its amount taken, the amount
\* is taken once at a time, and given back only with FAILED and only if SQRIL
\* has no part in the payout or has failed it.  A refund that its error text or
\* another worker's transaction rolls back is the saga's Withhold.
THEOREM OutboxKeepsSaga == HistorySpec => KeepsSaga
<1>1. HistoryInit => Saga!Init
  <2> SUFFICES ASSUME HistoryInit PROVE Saga!Init
    OBVIOUS
  <2>1. Init /\ unreturned = [e \in Events |-> 0]
    BY DEF HistoryInit
  <2>2. \A e \in Events : Net(e) = 0
    BY <2>1 DEF Init, Net, Taken
  <2>3. (faults > 0) = FALSE
    BY <2>1 DEF Init
  <2> QED
    BY <2>1, <2>2, <2>3 DEF Init, Net, Saga!Init
<1>2. TypeInv /\ TypeInv' /\ HeldByOne /\ HistoryInv /\ [HistoryNext]_<<vars, unreturned>>
        => [Saga!Next]_(Saga!vars)
  BY SagaStep DEF NetMap, Saga!vars
<1> QED
  BY <1>1, <1>2, HistoryInvHolds, HistoryIsSpec, TypeInvHolds, OneHolder, PTL
     DEF HistorySpec, KeepsSaga, Saga!Spec

=============================================================================
