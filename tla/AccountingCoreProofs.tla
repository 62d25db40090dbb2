------------------------- MODULE AccountingCoreProofs -------------------------
(***************************************************************************)
(* Theorems about AccountingCore, for any number of calls, accounts, users *)
(* and replicas: its variables keep their types, a balance among them that *)
(* is never negative, no balance update is lost, and the daily limit holds *)
(* while the cache loses no reservation.                                   *)
(***************************************************************************)
EXTENDS AccountingCore, FiniteSetTheorems, TLAPS

\* What a call has read is still so when it writes: it holds the locks.
SenderHeld(c) ==
  pc[c] \in {"receiver", "commit"} =>
    /\ lock[From[c]] = c
    /\ sBal[c] = balance[From[c]]
    /\ sBal[c] >= Amount[c]
ReceiverHeld(c) ==
  pc[c] = "commit" => lock[To[c]] = c /\ rBal[c] = balance[To[c]]
LocksHeld == \A c \in Calls : SenderHeld(c) /\ ReceiverHeld(c)

Inv == TypeOK /\ LocksHeld /\ BalanceIsPosted

LEMMA InitInv == Init => Inv
<1> SUFFICES ASSUME Init PROVE Inv
  OBVIOUS
<1> USE CallAssumption, MoneyAssumption, LimitAssumption
<1>1. TypeOK
  BY DEF Init, TypeOK, Keys, PreHydrated
<1>2. LocksHeld
  BY DEF Init, LocksHeld, SenderHeld, ReceiverHeld
<1>3. BalanceIsPosted
  BY DEF Init, BalanceIsPosted
<1> QED
  BY <1>1, <1>2, <1>3 DEF Inv

LEMMA KeyType == \A c \in Calls : Key(c) \in Keys /\ User(c) \in Users
  BY CallAssumption DEF Key, Keys, User

-----------------------------------------------------------------------------
(* The steps that touch neither balances nor locks: everything up to the   *)
(* reservation, the release and the subscriber.                            *)

CacheStep(c) ==
  Begin(c) \/ Hydrate(c) \/ HydrateFails(c) \/ Store(c) \/ Load(c)
    \/ ResetDay(c) \/ Zero(c) \/ Reserve(c) \/ Exceeded(c) \/ Release(c)

\* TypeOK in three parts: what these steps leave alone, the cache, the call.
Elsewhere ==
  <<balance, posted, spent, references, committed, lock, changed, sBal, rBal,
    day, inbox, applying, faults>>
Labels == {"idle", "hydrate", "store", "load", "reset", "zero", "cas",
           "sender", "receiver", "commit", "release", "done"}
EntryOK ==
  /\ total \in [Keys -> Nat] /\ date \in [Keys -> 0..MaxDays]
  /\ hydrated \subseteq Keys /\ stale \subseteq Keys
CallOK ==
  /\ pc \in [Calls -> Labels] /\ today \in [Calls -> 0..MaxDays]
  /\ seen \in [Calls -> Nat] /\ lapsed \subseteq Users

LEMMA TypeParts ==
  /\ TypeOK => EntryOK /\ CallOK /\ day \in 0..MaxDays
  /\ TypeOK /\ UNCHANGED Elsewhere /\ EntryOK' /\ CallOK' => TypeOK'
<1>1. TypeOK => EntryOK /\ CallOK /\ day \in 0..MaxDays
  BY LimitAssumption DEF TypeOK, EntryOK, CallOK, Labels
<1>2. ASSUME TypeOK, UNCHANGED Elsewhere, EntryOK', CallOK' PROVE TypeOK'
  BY <1>2 DEF TypeOK, Elsewhere, EntryOK, CallOK, Labels
<1> QED
  BY <1>1, <1>2

LEMMA CacheStepType ==
  ASSUME TypeOK, NEW c \in Calls, CacheStep(c)
  PROVE  TypeOK'
<1>a. EntryOK /\ CallOK /\ day \in 0..MaxDays
  BY TypeParts
<1>b. Key(c) \in Keys /\ Key(c)[2] \in Users /\ User(c) \in Users
  BY KeyType DEF Key
<1>c. Amount[c] \in Nat
  BY MoneyAssumption
<1>1. UNCHANGED Elsewhere
  <2>1. CASE Begin(c)
    BY <2>1 DEF Begin, Elsewhere, ledger, txs, redis
  <2>2. CASE Hydrate(c)
    BY <2>2 DEF Hydrate, Elsewhere, ledger, txs, redis
  <2>3. CASE HydrateFails(c)
    BY <2>3 DEF HydrateFails, Elsewhere, ledger, txs, redis
  <2>4. CASE Store(c)
    BY <2>4 DEF Store, Elsewhere, ledger, txs, redis
  <2>5. CASE Load(c)
    BY <2>5 DEF Load, Elsewhere, ledger, txs, redis
  <2>6. CASE ResetDay(c)
    BY <2>6 DEF ResetDay, Elsewhere, ledger, txs, redis
  <2>7. CASE Zero(c)
    BY <2>7 DEF Zero, Elsewhere, ledger, txs, redis
  <2>8. CASE Reserve(c)
    BY <2>8 DEF Reserve, Elsewhere, ledger, txs, redis
  <2>9. CASE Exceeded(c)
    BY <2>9 DEF Exceeded, Elsewhere, ledger, txs, redis
  <2>10. CASE Release(c)
    BY <2>10 DEF Release, Elsewhere, ledger, txs, redis
  <2> QED
    BY <2>1, <2>2, <2>3, <2>4, <2>5, <2>6, <2>7, <2>8, <2>9, <2>10 DEF CacheStep
<1>2. EntryOK'
  <2>1. CASE Begin(c)
    BY <1>a, <2>1 DEF Begin, entry, EntryOK
  <2>2. CASE Hydrate(c)
    BY <1>a, <2>2 DEF Hydrate, entry, EntryOK
  <2>3. CASE HydrateFails(c)
    BY <1>a, <2>3 DEF HydrateFails, entry, EntryOK
  <2>4. CASE Store(c)
    BY <1>a, <1>b, <2>4 DEF Store, SetTotal, EntryOK, CallOK
  <2>5. CASE Load(c)
    BY <1>a, <2>5 DEF Load, entry, EntryOK
  <2>6. CASE ResetDay(c)
    BY <1>a, <1>b, <2>6 DEF ResetDay, EntryOK, CallOK
  <2>7. CASE Zero(c)
    BY <1>a, <1>b, <2>7 DEF Zero, EntryOK
  <2>8. CASE Reserve(c)
    BY <1>a, <1>b, <1>c, <2>8 DEF Reserve, SetTotal, EntryOK, CallOK
  <2>9. CASE Exceeded(c)
    BY <1>a, <2>9 DEF Exceeded, entry, EntryOK
  <2>10. CASE Release(c)
    BY <1>a, <1>b, <1>c, <2>10 DEF Release, Released, SetTotal, EntryOK
  <2> QED
    BY <2>1, <2>2, <2>3, <2>4, <2>5, <2>6, <2>7, <2>8, <2>9, <2>10 DEF CacheStep
<1>3. CallOK'
  <2>1. CASE Begin(c)
    BY <1>a, <1>b, <2>1 DEF Begin, FirstStep, Goto, Lapse, CallOK, Labels
  <2>2. CASE Hydrate(c)
    <3>1. spent[User(c)] \in Nat
      BY <1>b DEF TypeOK
    <3> QED
      BY <1>a, <2>2, <3>1 DEF Hydrate, Goto, CallOK, Labels
  <2>3. CASE HydrateFails(c)
    BY <1>a, <2>3 DEF HydrateFails, Goto, CallOK, Labels
  <2>4. CASE Store(c)
    BY <1>a, <1>b, <2>4 DEF Store, Goto, LapseBelow, CallOK, Labels
  <2>5. CASE Load(c)
    <3>1. total[Key(c)] \in Nat
      BY <1>a, <1>b DEF EntryOK
    <3> QED
      BY <1>a, <2>5, <3>1 DEF Load, Goto, CallOK, Labels
  <2>6. CASE ResetDay(c)
    BY <1>a, <2>6 DEF ResetDay, Goto, CallOK, Labels
  <2>7. CASE Zero(c)
    BY <1>a, <1>b, <2>7 DEF Zero, Goto, LapseBelow, CallOK, Labels
  <2>8. CASE Reserve(c)
    BY <1>a, <2>8 DEF Reserve, Goto, CallOK, Labels
  <2>9. CASE Exceeded(c)
    BY <1>a, <1>b, <2>9 DEF Exceeded, Goto, Lapse, CallOK, Labels
  <2>10. CASE Release(c)
    BY <1>a, <2>10 DEF Release, Goto, CallOK, Labels
  <2> QED
    BY <2>1, <2>2, <2>3, <2>4, <2>5, <2>6, <2>7, <2>8, <2>9, <2>10 DEF CacheStep
<1> QED
  BY <1>1, <1>2, <1>3, TypeParts

\* They leave balances, locks and the places of those that hold locks alone.
LEMMA CacheStepRest ==
  ASSUME TypeOK, LocksHeld, BalanceIsPosted, NEW c \in Calls, CacheStep(c)
  PROVE  LocksHeld' /\ BalanceIsPosted'
<1> DEFINE Apart == pc' = [pc EXCEPT ![c] = pc'[c]]
                    /\ pc'[c] \notin {"receiver", "commit"}
                    /\ UNCHANGED ledger /\ UNCHANGED txs
<1> USE DEF TypeOK, Goto
<1>1. Apart
  <2>1. CASE Begin(c)
    BY <2>1 DEF Begin, FirstStep
  <2>2. CASE Hydrate(c)
    BY <2>2 DEF Hydrate
  <2>3. CASE HydrateFails(c)
    BY <2>3 DEF HydrateFails
  <2>4. CASE Store(c)
    BY <2>4 DEF Store
  <2>5. CASE Load(c)
    BY <2>5 DEF Load
  <2>6. CASE ResetDay(c)
    BY <2>6 DEF ResetDay
  <2>7. CASE Zero(c)
    BY <2>7 DEF Zero
  <2>8. CASE Reserve(c)
    BY <2>8 DEF Reserve
  <2>9. CASE Exceeded(c)
    BY <2>9 DEF Exceeded
  <2>10. CASE Release(c)
    BY <2>10 DEF Release
  <2> QED
    BY <2>1, <2>2, <2>3, <2>4, <2>5, <2>6, <2>7, <2>8, <2>9, <2>10 DEF CacheStep
<1>2. /\ UNCHANGED <<balance, posted, lock, sBal, rBal>>
      /\ \A d \in Calls : pc'[d] \in {"receiver", "commit"} => pc'[d] = pc[d]
  BY <1>1 DEF ledger, txs
<1> QED
  BY <1>2 DEF LocksHeld, SenderHeld, ReceiverHeld, BalanceIsPosted

-----------------------------------------------------------------------------
(* The transaction: locks exclude the transfers that would read a balance  *)
(* another one is about to write.                                          *)

LEMMA LockSenderInv ==
  ASSUME Inv, NEW c \in Calls, LockSender(c)
  PROVE  Inv'
<1> USE CallAssumption, MoneyAssumption, LimitAssumption DEF Inv
<1>1. TypeOK'
  BY DEF TypeOK, LockSender, Goto, ledger, entry, redis
<1>2. LocksHeld'
  <2> SUFFICES ASSUME NEW d \in Calls PROVE SenderHeld(d)' /\ ReceiverHeld(d)'
    BY DEF LocksHeld
  <2>1. CASE d = c
    BY <2>1 DEF LockSender, Goto, ledger, TypeOK, SenderHeld, ReceiverHeld
  <2>2. CASE d # c
    BY <2>2 DEF LockSender, Free, Goto, ledger, TypeOK, LocksHeld, SenderHeld, ReceiverHeld
  <2> QED
    BY <2>1, <2>2
<1>3. BalanceIsPosted'
  BY DEF LockSender, ledger, BalanceIsPosted
<1> QED
  BY <1>1, <1>2, <1>3

LEMMA LockReceiverInv ==
  ASSUME Inv, NEW c \in Calls, LockReceiver(c)
  PROVE  Inv'
<1> USE CallAssumption, MoneyAssumption, LimitAssumption DEF Inv
<1>1. TypeOK'
  BY DEF TypeOK, LockReceiver, Goto, ledger, entry, redis
<1>2. LocksHeld'
  <2> SUFFICES ASSUME NEW d \in Calls PROVE SenderHeld(d)' /\ ReceiverHeld(d)'
    BY DEF LocksHeld
  <2>1. CASE d = c
    BY <2>1 DEF LockReceiver, Goto, ledger, TypeOK, LocksHeld, SenderHeld, ReceiverHeld
  <2>2. CASE d # c
    BY <2>2 DEF LockReceiver, Free, Goto, ledger, TypeOK, LocksHeld, SenderHeld, ReceiverHeld
  <2> QED
    BY <2>1, <2>2
<1>3. BalanceIsPosted'
  BY DEF LockReceiver, ledger, BalanceIsPosted
<1> QED
  BY <1>1, <1>2, <1>3

LEMMA EntryFailsInv ==
  ASSUME Inv, NEW c \in Calls, EntryFails(c)
  PROVE  Inv'
<1> USE CallAssumption, MoneyAssumption, LimitAssumption DEF Inv
<1>1. TypeOK'
  BY DEF TypeOK, EntryFails, EndTx, Goto, ledger, entry, redis
<1>2. LocksHeld'
  BY DEF EntryFails, EndTx, Goto, ledger, TypeOK, LocksHeld, SenderHeld, ReceiverHeld
<1>3. BalanceIsPosted'
  BY DEF EntryFails, ledger, BalanceIsPosted
<1> QED
  BY <1>1, <1>2, <1>3

\* The commit, whether its reply arrives or not.
LEMMA EntriesInv ==
  ASSUME Inv, NEW c \in Calls, Entries(c), pc[c] = "commit",
         pc' = [pc EXCEPT ![c] = pc'[c]], pc'[c] \notin {"receiver", "commit"}
  PROVE  LocksHeld' /\ BalanceIsPosted' /\ balance' \in [Accounts -> Nat]
<1> USE CallAssumption, MoneyAssumption DEF Inv
<1>1. /\ sBal[c] = balance[From[c]] /\ sBal[c] >= Amount[c] /\ rBal[c] = balance[To[c]]
      /\ lock[From[c]] = c /\ lock[To[c]] = c
  BY DEF LocksHeld, SenderHeld, ReceiverHeld
<1>2. /\ From[c] \in Accounts /\ To[c] \in Accounts
      /\ sBal[c] - Amount[c] \in Nat /\ rBal[c] + Amount[c] \in Nat
  <2>1. sBal[c] \in Nat /\ rBal[c] \in Nat /\ Amount[c] \in Nat
    BY DEF TypeOK
  <2> QED
    BY <1>1, <2>1
<1>3. /\ balance' = [balance EXCEPT ![From[c]] = sBal[c] - Amount[c],
                                    ![To[c]] = rBal[c] + Amount[c]]
      /\ balance \in [Accounts -> Nat]
      /\ posted' = [posted EXCEPT ![From[c]] = @ - Amount[c], ![To[c]] = @ + Amount[c]]
      /\ posted \in [Accounts -> Int]
      /\ lock' = [a \in Accounts |-> IF lock[a] = c THEN NoCall ELSE lock[a]]
      /\ sBal' = [sBal EXCEPT ![c] = 0] /\ sBal \in [Calls -> Nat]
      /\ rBal' = [rBal EXCEPT ![c] = 0] /\ rBal \in [Calls -> Nat]
      /\ \A d \in Calls : d # c => pc'[d] = pc[d]
  <2>1. \A d \in Calls : d # c => pc'[d] = pc[d]
    BY DEF TypeOK
  <2> QED
    BY <2>1 DEF Entries, EndTx, TypeOK
<1> HIDE DEF Inv
<1>4. balance' \in [Accounts -> Nat]
  BY <1>2, <1>3
<1>5. LocksHeld'
  <2> SUFFICES ASSUME NEW d \in Calls, pc[d] \in {"receiver", "commit"}, d # c
               PROVE  SenderHeld(d)' /\ ReceiverHeld(d)'
    BY <1>3 DEF LocksHeld, SenderHeld, ReceiverHeld
  <2>1. From[d] # From[c] /\ From[d] # To[c]
    BY <1>1 DEF Inv, LocksHeld, SenderHeld
  <2>2. SenderHeld(d)'
    <3>1. /\ balance'[From[d]] = balance[From[d]] /\ lock'[From[d]] = lock[From[d]]
          /\ sBal'[d] = sBal[d] /\ SenderHeld(d)
      BY <1>1, <1>2, <1>3, <2>1, CallAssumption DEF Inv, LocksHeld, SenderHeld
    <3> QED
      BY <3>1 DEF SenderHeld
  <2>3. pc[d] = "commit" => To[d] # From[c] /\ To[d] # To[c]
    BY <1>1 DEF Inv, LocksHeld, ReceiverHeld
  <2>4. ReceiverHeld(d)'
    <3> SUFFICES ASSUME pc[d] = "commit" PROVE ReceiverHeld(d)'
      BY <1>3 DEF ReceiverHeld
    <3>1. /\ balance'[To[d]] = balance[To[d]] /\ lock'[To[d]] = lock[To[d]]
          /\ rBal'[d] = rBal[d] /\ ReceiverHeld(d)
      BY <1>1, <1>2, <1>3, <2>3, CallAssumption DEF Inv, LocksHeld, ReceiverHeld
    <3> QED
      BY <3>1 DEF ReceiverHeld
  <2> QED
    BY <2>2, <2>4
<1>6. BalanceIsPosted'
  <2> SUFFICES ASSUME NEW a \in Accounts, Selfless(a)
               PROVE  balance'[a] = Opening[a] + posted'[a]
    BY DEF BalanceIsPosted, Selfless
  <2>1. balance[a] = Opening[a] + posted[a]
    BY DEF Inv, BalanceIsPosted
  <2>2. CASE a = From[c]
    <3>1. a # To[c]
      BY <2>2 DEF Selfless
    <3> QED
      BY <1>1, <1>2, <1>3, <2>1, <2>2, <3>1, MoneyAssumption
  <2>3. CASE a # From[c] /\ a = To[c]
    BY <1>1, <1>2, <1>3, <2>1, <2>3, MoneyAssumption
  <2>4. CASE a # From[c] /\ a # To[c]
    BY <1>3, <2>1, <2>4
  <2> QED
    BY <2>2, <2>3, <2>4
<1> QED
  BY <1>5, <1>6, <1>4

LEMMA CommitInv ==
  ASSUME Inv, NEW c \in Calls, Commit(c) \/ CommitReplyLost(c)
  PROVE  Inv'
<1> USE CallAssumption, MoneyAssumption, LimitAssumption DEF Inv
<1>1. LocksHeld' /\ BalanceIsPosted' /\ balance' \in [Accounts -> Nat]
  BY EntriesInv DEF Commit, CommitReplyLost, Goto, TypeOK
<1>2. TypeOK'
  <2>1. posted' \in [Accounts -> Int] /\ spent' \in [Users -> Nat]
    <3>1. Entries(c) /\ From[c] \in Accounts /\ To[c] \in Accounts /\ Amount[c] \in Nat
      BY DEF Commit, CommitReplyLost
    <3>2. posted' \in [Accounts -> Int]
      BY <3>1 DEF Entries, TypeOK
    <3>3. spent' \in [Users -> Nat]
      BY <3>1, KeyType DEF Entries, TypeOK
    <3> QED
      BY <3>2, <3>3
  <2>2. references' \subseteq {StoredReference(d) : d \in Calls}
    BY DEF Commit, CommitReplyLost, Entries, TypeOK
  <2>3. /\ lock' \in [Accounts -> Calls \union {NoCall}]
        /\ changed' \in [Calls -> SUBSET Accounts]
        /\ sBal' \in [Calls -> Nat] /\ rBal' \in [Calls -> Nat]
    <3>1. Entries(c) /\ From[c] \in Accounts /\ To[c] \in Accounts
      BY DEF Commit, CommitReplyLost
    <3>2. changed' \in [Calls -> SUBSET Accounts]
      BY <3>1 DEF Entries, TypeOK
    <3>3. lock' \in [Accounts -> Calls \union {NoCall}]
      BY <3>1 DEF Entries, EndTx, TypeOK
    <3>4. sBal' \in [Calls -> Nat] /\ rBal' \in [Calls -> Nat]
      BY <3>1 DEF Entries, EndTx, TypeOK
    <3> QED
      BY <3>2, <3>3, <3>4
  <2>4. /\ inbox' \in [Replicas -> SUBSET Calls] /\ lapsed' \subseteq Users
        /\ committed' \subseteq Calls /\ faults' \in Nat
    BY KeyType DEF Commit, CommitReplyLost, Entries, Lapse, redis, TypeOK
  <2> QED
    BY <1>1, <2>1, <2>2, <2>3, <2>4 DEF Commit, CommitReplyLost, Goto, entry, redis, TypeOK
<1> QED
  BY <1>1, <1>2

-----------------------------------------------------------------------------
LEMMA EnvironmentInv ==
  ASSUME Inv,
         \/ \E r \in Replicas :
              (\E c \in Calls : ApplyRemoteIncrement(r, c)) \/ FinishRemoteReset(r)
         \/ \E k \in Keys : GoesStale(k)
         \/ Midnight
         \/ UNCHANGED vars
  PROVE  Inv'
<1> USE CallAssumption, MoneyAssumption, LimitAssumption, KeyType DEF Inv
<1>1. LocksHeld' /\ BalanceIsPosted'
  <2>1. UNCHANGED <<balance, posted, lock, sBal, rBal, pc>>
    BY DEF ApplyRemoteIncrement, FinishRemoteReset, GoesStale, Midnight, vars, ledger, txs
  <2> QED
    BY <2>1 DEF LocksHeld, SenderHeld, ReceiverHeld, BalanceIsPosted
<1>2. TypeOK'
  <2>1. ASSUME NEW r \in Replicas, NEW c \in Calls, ApplyRemoteIncrement(r, c)
        PROVE  TypeOK'
    <3>1. <<r, User(c)>> \in Keys
      BY DEF Keys
    <3>2. /\ inbox' \in [Replicas -> SUBSET Calls]
          /\ applying' \in [Replicas -> Calls \union {NoCall}]
      BY <2>1 DEF ApplyRemoteIncrement, TypeOK
    <3> DEFINE k == <<r, User(c)>>
    <3>3. total' \in [Keys -> Nat] /\ stale' \subseteq Keys
      <4>1. \/ \E n \in Nat : SetTotal(k, n)
            \/ UNCHANGED <<total, stale>>
        <5>1. Amount[c] \in Nat /\ total[k] + Amount[c] \in Nat
          BY <3>1 DEF TypeOK
        <5>2. \/ SetTotal(k, Amount[c])
              \/ SetTotal(k, total[k] + Amount[c])
              \/ UNCHANGED <<total, stale>>
          BY <2>1 DEF ApplyRemoteIncrement
        <5> QED
          BY <5>1, <5>2
      <4>2. total \in [Keys -> Nat] /\ stale \subseteq Keys
        BY DEF TypeOK
      <4> HIDE DEF k
      <4> QED
        BY <3>1, <4>1, <4>2 DEF SetTotal
    <3>4. date' \in [Keys -> 0..MaxDays]
      <4>1. date' = [date EXCEPT ![k] = day] \/ UNCHANGED date
        BY <2>1 DEF ApplyRemoteIncrement
      <4>2. day \in 0..MaxDays /\ date \in [Keys -> 0..MaxDays]
        BY DEF TypeOK
      <4> QED
        BY <3>1, <4>1, <4>2
    <3> QED
      BY <2>1, <3>2, <3>3, <3>4 DEF ApplyRemoteIncrement, TypeOK, ledger, txs
  <2>2. ASSUME NEW r \in Replicas, FinishRemoteReset(r) PROVE TypeOK'
    <3>1. applying[r] \in Calls /\ <<r, User(applying[r])>> \in Keys
      BY <2>2 DEF FinishRemoteReset, TypeOK, Keys
    <3>2. lapsed' \subseteq Users
      BY <2>2, <3>1 DEF FinishRemoteReset, LapseBelow, TypeOK
    <3> QED
      BY <2>2, <3>1, <3>2 DEF FinishRemoteReset, SetTotal, TypeOK, ledger, txs
  <2>3. ASSUME NEW k \in Keys, GoesStale(k) PROVE TypeOK'
    BY <2>3 DEF GoesStale, TypeOK, ledger, txs, redis
  <2>4. CASE Midnight
    BY <2>4 DEF Midnight, TypeOK, txs, entry, redis
  <2>5. CASE UNCHANGED vars
    BY <2>5 DEF vars, TypeOK, ledger, txs, entry, redis
  <2> QED
    BY <2>1, <2>2, <2>3, <2>4, <2>5
<1> QED
  BY <1>1, <1>2

LEMMA NextInv == Inv /\ [Next]_vars => Inv'
<1> SUFFICES ASSUME Inv, [Next]_vars PROVE Inv'
  OBVIOUS
<1>1. ASSUME NEW c \in Calls, Serve(c) PROVE Inv'
  <2>1. CASE CacheStep(c)
    BY <2>1, CacheStepType, CacheStepRest DEF Inv
  <2>2. CASE LockSender(c)
    BY <2>2, LockSenderInv
  <2>3. CASE LockReceiver(c)
    BY <2>3, LockReceiverInv
  <2>4. CASE EntryFails(c)
    BY <2>4, EntryFailsInv
  <2>5. CASE Commit(c) \/ CommitReplyLost(c)
    BY <2>5, CommitInv
  <2> QED
    BY <1>1, <2>1, <2>2, <2>3, <2>4, <2>5 DEF Serve, CacheStep
<1> QED
  BY <1>1, EnvironmentInv DEF Next

LEMMA InvAlways == Spec => []Inv
  BY InitInv, NextInv, PTL DEF Spec

\* Every variable keeps its type; no balance becomes negative.
THEOREM TypeCorrect == Spec => []TypeOK
<1>1. Inv => TypeOK
  BY DEF Inv
<1> QED
  BY InvAlways, <1>1, PTL

\* The rows the transfers lock are the rows they read and write: however many
\* transfers run, an account's balance is what its entries add up to.
THEOREM NoUpdateIsLost == Spec => []BalanceIsPosted
<1>1. Inv => BalanceIsPosted
  BY DEF Inv
<1> QED
  BY InvAlways, <1>1, PTL

-----------------------------------------------------------------------------
(* The daily limit.  An entry no reservation was lost from is never below   *)
(* what is due, so that a reservation that fits under the limit leaves what *)
(* is due under it; a commit moves its amount from reserved to spent.       *)

UsesEntry == {"load", "reset", "zero", "cas"} \union Reserving
Serves(r, u) == \A c \in Calls : User(c) = u => At[c] = r
Intact(u) == u \in Users /\ u \notin lapsed /\ SpentBefore[u] <= DailyLimit
WithinLimit(k) ==
  /\ Due(k) <= DailyLimit
  /\ k \in hydrated => Due(k) <= total[k]

Started == \A c \in Calls : pc[c] # "idle" => today[c] # 0
Dated == \A k \in hydrated : date[k] # 0
Entered == \A c \in Calls : pc[c] \in UsesEntry /\ User(c) \notin lapsed => Key(c) \in hydrated
UnitsFinite == \A k : IsFiniteSet(Units(Reserved(k)))
Within == \A r, u : Intact(u) /\ Serves(r, u) => WithinLimit(<<r, u>>)

LimitInv == Started /\ Dated /\ Entered /\ UnitsFinite /\ Within

LEMMA CoinsCount ==
  ASSUME NEW c \in Calls
  PROVE  IsFiniteSet(Coins(c)) /\ Cardinality(Coins(c)) = Amount[c]
<1>1. Amount[c] \in Nat /\ Amount[c] >= 1
  BY MoneyAssumption
<1>2. IsFiniteSet(1 .. Amount[c]) /\ Cardinality(1 .. Amount[c]) = Amount[c]
  BY <1>1, FS_Interval
<1>3. IsFiniteSet({c}) /\ Cardinality({c}) = 1
  BY FS_Singleton
<1>4. ASSUME NEW S, NEW T, IsFiniteSet(S), IsFiniteSet(T)
      PROVE  IsFiniteSet(S \X T) /\ Cardinality(S \X T) = Cardinality(S) * Cardinality(T)
  BY <1>4, FS_Product
<1>5. /\ IsFiniteSet({c} \X (1 .. Amount[c]))
      /\ Cardinality({c} \X (1 .. Amount[c])) = Cardinality({c}) * Cardinality(1 .. Amount[c])
  BY <1>2, <1>3, <1>4
<1>6. Cardinality({c}) * Cardinality(1 .. Amount[c]) = Amount[c]
  BY <1>1, <1>2, <1>3
<1> QED
  BY <1>5, <1>6 DEF Coins

\* One more reservation is its amount more.
LEMMA UnitsAdded ==
  ASSUME NEW C \in SUBSET Calls, NEW c \in Calls, c \notin C, IsFiniteSet(Units(C))
  PROVE  /\ IsFiniteSet(Units(C \union {c}))
         /\ Cardinality(Units(C \union {c})) = Cardinality(Units(C)) + Amount[c]
         /\ Cardinality(Units(C)) \in Nat
<1>1. Units(C \union {c}) = Units(C) \union Coins(c)
  BY DEF Units
<1>2. Units(C) \intersect Coins(c) = {}
  BY DEF Units, Coins
<1>3. Cardinality(Units(C) \intersect Coins(c)) = 0
  BY <1>2, FS_EmptySet
<1>4. /\ IsFiniteSet(Units(C) \union Coins(c))
      /\ Cardinality(Units(C) \union Coins(c))
           = Cardinality(Units(C)) + Cardinality(Coins(c))
             - Cardinality(Units(C) \intersect Coins(c))
  <2>1. IsFiniteSet(Units(C)) /\ IsFiniteSet(Coins(c))
    BY CoinsCount
  <2> QED
    BY <2>1, FS_Union
<1>5. Cardinality(Units(C)) \in Nat /\ Amount[c] \in Nat
  BY FS_CardinalityType, MoneyAssumption
<1>6. Cardinality(Coins(c)) = Amount[c]
  BY CoinsCount
<1>7. Cardinality(Units(C) \union Coins(c)) = Cardinality(Units(C)) + Amount[c]
  BY <1>3, <1>4, <1>5, <1>6
<1> QED
  BY <1>1, <1>4, <1>5, <1>7

LEMMA UnitsRemoved ==
  ASSUME NEW C \in SUBSET Calls, NEW c \in C, IsFiniteSet(Units(C))
  PROVE  /\ IsFiniteSet(Units(C \ {c}))
         /\ Cardinality(Units(C)) = Cardinality(Units(C \ {c})) + Amount[c]
         /\ Cardinality(Units(C \ {c})) \in Nat
<1>1. Units(C \ {c}) \in SUBSET Units(C)
  BY DEF Units
<1>2. IsFiniteSet(Units(C \ {c}))
  BY <1>1, FS_Subset
<1>3. (C \ {c}) \union {c} = C /\ C \ {c} \in SUBSET Calls /\ c \in Calls
  OBVIOUS
<1> QED
  BY <1>2, <1>3, UnitsAdded

LEMMA DueType ==
  ASSUME TypeOK, UnitsFinite, NEW r, NEW u \in Users
  PROVE  Due(<<r, u>>) \in Nat
<1>1. spent[u] \in Nat
  BY DEF TypeOK
<1>2. Cardinality(Units(Reserved(<<r, u>>))) \in Nat
  BY FS_CardinalityType DEF UnitsFinite
<1> QED
  BY <1>1, <1>2 DEF Due

LEMMA InitLimit == Init => LimitInv
<1> SUFFICES ASSUME Init PROVE LimitInv
  OBVIOUS
<1>1. \A k : Reserved(k) = {} /\ Units(Reserved(k)) = {}
  BY DEF Init, Reserved, Reserving, Units
<1>2. \A k : IsFiniteSet(Units(Reserved(k))) /\ Cardinality(Units(Reserved(k))) = 0
  BY <1>1, FS_EmptySet
<1>3. Started /\ Entered
  BY DEF Init, Started, Entered, UsesEntry, Reserving
<1>4. Dated
  <2>1. hydrated \subseteq Keys
    BY CallAssumption DEF Init, Keys
  <2> QED
    BY <2>1 DEF Init, Dated
<1>5. ASSUME NEW r, NEW u, Intact(u) PROVE WithinLimit(<<r, u>>)
  <2>1. SpentBefore[u] \in Nat /\ ReceivedBefore[u] \in Nat /\ SpentBefore[u] <= DailyLimit
    BY <1>5, MoneyAssumption DEF Intact
  <2>2. Due(<<r, u>>) = SpentBefore[u]
    BY <1>2, <2>1 DEF Init, Due
  <2>3. ASSUME <<r, u>> \in hydrated PROVE total[<<r, u>>] = SpentBefore[u] + ReceivedBefore[u]
    <3>1. <<r, u>> \in Keys
      BY <2>3, CallAssumption DEF Init, Keys
    <3> QED
      BY <2>3, <3>1 DEF Init, PreHydrated
  <2> QED
    BY <2>1, <2>2, <2>3 DEF WithinLimit
<1> QED
  BY <1>2, <1>3, <1>4, <1>5 DEF LimitInv, UnitsFinite, Within

\* A step of call c on the entry of its own user: the others' are untouched.
LEMMA OwnEntryOnly ==
  ASSUME TypeOK, LimitInv, NEW c \in Calls, NEW l,
         pc' = [pc EXCEPT ![c] = l],
         \A u \in Users \ {User(c)} : spent'[u] = spent[u],
         \A k \in Keys \ {Key(c)} : total'[k] = total[k],
         hydrated' \subseteq hydrated \union {Key(c)}, lapsed \subseteq lapsed',
         Intact(User(c))' /\ Serves(At[c], User(c)) => WithinLimit(Key(c))'
  PROVE  Within'
<1> SUFFICES ASSUME NEW r, NEW u, Intact(u)', Serves(r, u)
             PROVE  WithinLimit(<<r, u>>)'
  BY DEF Within, Serves
<1>1. u \in Users /\ Intact(u)
  BY DEF Intact
<1>2. WithinLimit(<<r, u>>)
  BY <1>1 DEF LimitInv, Within
<1>3. CASE u = User(c)
  <2>1. <<r, u>> = Key(c)
    BY <1>3 DEF Serves, Key
  <2>2. Serves(At[c], User(c))
    BY <1>3 DEF Serves
  <2> QED
    BY <1>3, <2>1, <2>2
<1>4. CASE u # User(c)
  <2>1. <<r, u>> # Key(c)
    BY <1>4 DEF Key
  <2>2. Reserved(<<r, u>>)' = Reserved(<<r, u>>)
    BY <2>1 DEF Reserved, TypeOK
  <2>3. Due(<<r, u>>)' = Due(<<r, u>>)
    BY <1>1, <1>4, <2>2 DEF Due
  <2>4. <<r, u>> \in hydrated => <<r, u>> \in Keys
    BY DEF TypeOK
  <2> QED
    BY <1>2, <2>1, <2>3, <2>4 DEF WithinLimit
<1> QED
  BY <1>3, <1>4

\* The call stays in Reserving or out of it.
LEMMA ReservedKept ==
  ASSUME TypeOK, LimitInv, NEW c \in Calls, NEW l,
         pc' = [pc EXCEPT ![c] = l], l \in Reserving <=> pc[c] \in Reserving
  PROVE  /\ \A k : Reserved(k)' = Reserved(k)
         /\ UnitsFinite'
<1>1. ASSUME NEW k PROVE Reserved(k)' = Reserved(k)
  BY DEF Reserved, TypeOK
<1>2. UnitsFinite'
  BY <1>1 DEF LimitInv, UnitsFinite
<1> QED
  BY <1>1, <1>2

LEMMA DueKept ==
  ASSUME TypeOK, LimitInv, NEW c \in Calls, NEW l,
         pc' = [pc EXCEPT ![c] = l], l \in Reserving <=> pc[c] \in Reserving,
         UNCHANGED spent
  PROVE  /\ \A k : Due(k)' = Due(k)
         /\ UnitsFinite'
BY ReservedKept DEF Due

\* Where a call of an intact user stands, what is due is within its limit.
LEMMA OwnWithin ==
  ASSUME LimitInv, NEW c \in Calls, Intact(User(c)), Serves(At[c], User(c))
  PROVE  WithinLimit(Key(c))
BY DEF LimitInv, Within, Key

\* A call enters or leaves Reserving.
LEMMA ReservationAdded ==
  ASSUME TypeOK, LimitInv, NEW c \in Calls, NEW l,
         pc' = [pc EXCEPT ![c] = l], l \in Reserving, pc[c] \notin Reserving
  PROVE  /\ UnitsFinite'
         /\ UNCHANGED spent => Due(Key(c))' = Due(Key(c)) + Amount[c]
<1>1. Reserved(Key(c))' = Reserved(Key(c)) \union {c} /\ c \notin Reserved(Key(c))
  BY DEF Reserved, TypeOK
<1>2. \A k : k # Key(c) => Reserved(k)' = Reserved(k)
  BY DEF Reserved, TypeOK
<1>3. Reserved(Key(c)) \in SUBSET Calls /\ IsFiniteSet(Units(Reserved(Key(c))))
  BY DEF Reserved, LimitInv, UnitsFinite
<1>4. /\ IsFiniteSet(Units(Reserved(Key(c))'))
      /\ Cardinality(Units(Reserved(Key(c))')) = Cardinality(Units(Reserved(Key(c)))) + Amount[c]
      /\ Cardinality(Units(Reserved(Key(c)))) \in Nat
  BY <1>1, <1>3, UnitsAdded
<1>5. UnitsFinite'
  <2>1. ASSUME NEW k PROVE IsFiniteSet(Units(Reserved(k))')
    BY <1>2, <1>4 DEF LimitInv, UnitsFinite, Units
  <2> QED
    BY <2>1 DEF UnitsFinite
<1>6. ASSUME UNCHANGED spent PROVE Due(Key(c))' = Due(Key(c)) + Amount[c]
  <2>1. spent[Key(c)[2]] \in Nat /\ Amount[c] \in Nat
    BY KeyType, MoneyAssumption DEF TypeOK, Key
  <2>2. Units(Reserved(Key(c)))' = Units(Reserved(Key(c))')
    BY DEF Units
  <2> QED
    BY <1>4, <1>6, <2>1, <2>2 DEF Due, Key
<1> QED
  BY <1>5, <1>6

LEMMA ReservationRemoved ==
  ASSUME TypeOK, LimitInv, NEW c \in Calls, NEW l,
         pc' = [pc EXCEPT ![c] = l], l \notin Reserving, pc[c] \in Reserving
  PROVE  /\ UnitsFinite'
         /\ spent'[User(c)] = spent[User(c)] =>
              Due(Key(c)) = Due(Key(c))' + Amount[c] /\ Due(Key(c))' \in Nat
         /\ spent'[User(c)] = spent[User(c)] + Amount[c] =>
              Due(Key(c)) = Due(Key(c))' /\ Due(Key(c))' \in Nat
<1>1. Reserved(Key(c))' = Reserved(Key(c)) \ {c} /\ c \in Reserved(Key(c))
  BY DEF Reserved, TypeOK
<1>2. \A k : k # Key(c) => Reserved(k)' = Reserved(k)
  BY DEF Reserved, TypeOK
<1>3. Reserved(Key(c)) \in SUBSET Calls /\ IsFiniteSet(Units(Reserved(Key(c))))
  BY DEF Reserved, LimitInv, UnitsFinite
<1>4. /\ IsFiniteSet(Units(Reserved(Key(c))'))
      /\ Cardinality(Units(Reserved(Key(c)))) = Cardinality(Units(Reserved(Key(c))')) + Amount[c]
      /\ Cardinality(Units(Reserved(Key(c))')) \in Nat
  BY <1>1, <1>3, UnitsRemoved
<1>5. UnitsFinite'
  <2>1. ASSUME NEW k PROVE IsFiniteSet(Units(Reserved(k))')
    BY <1>2, <1>4 DEF LimitInv, UnitsFinite, Units
  <2> QED
    BY <2>1 DEF UnitsFinite
<1>6. /\ Due(Key(c)) = spent[User(c)] + Cardinality(Units(Reserved(Key(c))))
      /\ Due(Key(c))' = spent'[User(c)] + Cardinality(Units(Reserved(Key(c))'))
      /\ spent[User(c)] \in Nat /\ Amount[c] \in Nat
  BY KeyType, MoneyAssumption DEF TypeOK, Key, Due, Units
<1>7. ASSUME spent'[User(c)] = spent[User(c)] 
      PROVE  Due(Key(c)) = Due(Key(c))' + Amount[c] /\ Due(Key(c))' \in Nat
  BY <1>4, <1>6, <1>7
<1>8. ASSUME spent'[User(c)] = spent[User(c)] + Amount[c] 
      PROVE  Due(Key(c)) = Due(Key(c))' /\ Due(Key(c))' \in Nat
  BY <1>4, <1>6, <1>8
<1> QED
  BY <1>5, <1>7, <1>8

-----------------------------------------------------------------------------
LEMMA ServeRest ==
  ASSUME TypeOK, LimitInv, NEW c \in Calls, Serve(c)
  PROVE  Started' /\ Dated' /\ Entered' /\ lapsed \subseteq lapsed'
<1> DEFINE Moved == /\ pc' = [pc EXCEPT ![c] = pc'[c]]
                    /\ pc'[c] # "idle"
                    /\ today' = today \/ today' = [today EXCEPT ![c] = day]
                    /\ pc[c] = "idle" => today'[c] # 0
                    /\ lapsed \subseteq lapsed'
           Kept == UNCHANGED date /\ UNCHANGED hydrated
           Dates == /\ hydrated \subseteq hydrated'
                    /\ hydrated' \subseteq hydrated \union {Key(c)}
                    /\ \A k \in Keys : date'[k] # date[k] => date'[k] = today[c]
           Goes == pc'[c] \in UsesEntry /\ User(c) \notin lapsed'
                     => pc[c] \in UsesEntry \/ Key(c) \in hydrated'
<1>0. day # 0 /\ (pc[c] # "idle" => today[c] # 0) /\ Key(c) \in Keys
  BY KeyType DEF TypeOK, LimitInv, Started
<1>1. CASE Begin(c)
  <2>1. Moved
    BY <1>0, <1>1 DEF Begin, Goto, Lapse, FirstStep, TypeOK
  <2>2. Kept
    BY <1>1 DEF Begin, entry
  <2>3. Goes
    BY <1>1 DEF Begin, Goto, Lapse, FirstStep, Usable, TypeOK, UsesEntry, Reserving, entry
  <2> QED
    BY <2>1, <2>2, <2>3 DEF LimitInv, Started, Dated, Entered, TypeOK
<1>2. CASE Hydrate(c) \/ HydrateFails(c) \/ Load(c) \/ Reserve(c) \/ Exceeded(c)
             \/ LockSender(c) \/ LockReceiver(c) \/ EntryFails(c)
             \/ Commit(c) \/ CommitReplyLost(c) \/ Release(c)
  <2>1. Moved
    <3>1. CASE Hydrate(c) \/ HydrateFails(c) \/ Load(c) \/ Reserve(c) \/ Exceeded(c)
      BY <3>1 DEF Hydrate, HydrateFails, Load, Reserve, Exceeded, Goto, Lapse, TypeOK
    <3>2. CASE LockSender(c) \/ LockReceiver(c) \/ EntryFails(c)
      BY <3>2 DEF LockSender, LockReceiver, EntryFails, Goto, TypeOK
    <3>3. CASE Commit(c) \/ CommitReplyLost(c) \/ Release(c)
      BY <3>3 DEF Commit, CommitReplyLost, Release, Goto, Lapse, TypeOK
    <3> QED
      BY <1>2, <3>1, <3>2, <3>3
  <2>2. Kept
    BY <1>2 DEF Hydrate, HydrateFails, Load, Reserve, Exceeded, LockSender, LockReceiver,
                EntryFails, Commit, CommitReplyLost, Release, entry
  <2>3. Goes
    <3>1. CASE Hydrate(c) \/ HydrateFails(c) \/ Load(c) \/ Reserve(c) \/ Exceeded(c)
      BY <3>1 DEF Hydrate, HydrateFails, Load, Reserve, Exceeded, Goto, UsesEntry, Reserving, TypeOK
    <3>2. CASE LockSender(c) \/ LockReceiver(c) \/ EntryFails(c)
      BY <3>2 DEF LockSender, LockReceiver, EntryFails, UsesEntry, Reserving
    <3>3. CASE Commit(c) \/ CommitReplyLost(c) \/ Release(c)
      BY <3>3 DEF Commit, CommitReplyLost, Release, UsesEntry, Reserving
    <3> QED
      BY <1>2, <3>1, <3>2, <3>3
  <2> QED
    BY <2>1, <2>2, <2>3 DEF LimitInv, Started, Dated, Entered, TypeOK
<1>3. CASE Store(c) \/ ResetDay(c) \/ Zero(c)
  <2>1. Moved /\ pc[c] # "idle"
    BY <1>3 DEF Store, ResetDay, Zero, Goto, LapseBelow, TypeOK
  <2>2. Dates /\ (Key(c) \in hydrated' \ hydrated => date'[Key(c)] = today[c])
    BY <1>0, <1>3 DEF Store, ResetDay, Zero, TypeOK
  <2>3. Goes
    BY <1>3 DEF Store, ResetDay, Zero, UsesEntry
  <2>4. Dated'
    BY <1>0, <2>1, <2>2 DEF LimitInv, Dated, TypeOK
  <2> QED
    BY <2>1, <2>2, <2>3, <2>4 DEF LimitInv, Started, Entered, TypeOK
<1> QED
  BY <1>1, <1>2, <1>3 DEF Serve

LEMMA ServeWithin ==
  ASSUME TypeOK, LimitInv, NEW c \in Calls, Serve(c)
  PROVE  UnitsFinite' /\ Within'
<1> USE DEF Goto
<1>0. /\ lapsed \subseteq lapsed' /\ Key(c) \in Keys
      /\ Amount[c] \in Nat /\ DailyLimit \in Nat /\ total[Key(c)] \in Nat
      /\ Due(Key(c)) \in Nat
  <2>1. Due(Key(c)) \in Nat
    BY DueType, KeyType DEF Key, LimitInv
  <2> QED
    BY <2>1, ServeRest, KeyType, MoneyAssumption, LimitAssumption DEF TypeOK
<1>1. ASSUME Intact(User(c))', Serves(At[c], User(c))
      PROVE  WithinLimit(Key(c))
  <2>1. Intact(User(c))
    BY <1>0, <1>1 DEF Intact
  <2> QED
    BY <1>1, <2>1, OwnWithin
\* Steps that leave total and ledger alone and keep the place in Reserving.
<1>2. ASSUME NEW l, pc' = [pc EXCEPT ![c] = l], l \in Reserving <=> pc[c] \in Reserving,
             UNCHANGED <<spent, total, hydrated>>
      PROVE  UnitsFinite' /\ Within'
  <2>1. UnitsFinite' /\ Due(Key(c))' = Due(Key(c))
    BY <1>2, DueKept
  <2>2. Intact(User(c))' /\ Serves(At[c], User(c)) => WithinLimit(Key(c))'
    BY <1>1, <1>2, <2>1 DEF WithinLimit
  <2> QED
    BY <1>0, <1>2, <2>1, <2>2, OwnEntryOnly
\* Steps after which the user is no longer intact.
<1>3. ASSUME NEW l, pc' = [pc EXCEPT ![c] = l], l \in Reserving,
             User(c) \in lapsed', UNCHANGED <<total, hydrated>>,
             \A u \in Users \ {User(c)} : spent'[u] = spent[u]
      PROVE  UnitsFinite' /\ Within'
  <2>1. UnitsFinite'
    <3>1. CASE pc[c] \in Reserving
      BY <1>3, <3>1, ReservedKept
    <3>2. CASE pc[c] \notin Reserving
      BY <1>3, <3>2, ReservationAdded
    <3> QED
      BY <3>1, <3>2
  <2>2. ~Intact(User(c))'
    BY <1>3 DEF Intact
  <2> QED
    BY <1>0, <1>3, <2>1, <2>2, OwnEntryOnly
<1>4. CASE Begin(c)
  <2>1. CASE TooLarge(c)
    BY <1>3, <1>4, <2>1 DEF Begin, FirstStep, Lapse, Reserving, ledger, entry
  <2>2. CASE ~TooLarge(c)
    BY <1>2, <1>4, <2>2 DEF Begin, FirstStep, Reserving, ledger, entry
  <2> QED
    BY <2>1, <2>2
<1>5. CASE Hydrate(c) \/ HydrateFails(c) \/ Load(c) \/ ResetDay(c)
  BY <1>2, <1>5 DEF Hydrate, HydrateFails, Load, ResetDay, Reserving, ledger, entry
<1>6. CASE Exceeded(c)
  <2>1. CASE c \in Validations
    BY <1>3, <1>6, <2>1 DEF Exceeded, Lapse, Reserving, ledger, entry
  <2>2. CASE c \notin Validations
    BY <1>2, <1>6, <2>2 DEF Exceeded, Reserving, ledger, entry
  <2> QED
    BY <2>1, <2>2
<1>7. CASE LockSender(c) \/ LockReceiver(c) \/ EntryFails(c)
  BY <1>2, <1>7 DEF LockSender, LockReceiver, EntryFails, Reserving, ledger, entry
<1>8. CASE Store(c)
  <2>1. UnitsFinite' /\ Due(Key(c))' = Due(Key(c))
    BY <1>8, DueKept DEF Store, Reserving, ledger
  <2>2. /\ total' = [total EXCEPT ![Key(c)] = seen[c]] /\ seen[c] \in Nat
        /\ hydrated' = hydrated \union {Key(c)} /\ UNCHANGED spent
        /\ pc' = [pc EXCEPT ![c] = "load"]
    BY <1>8 DEF Store, SetTotal, ledger, TypeOK
  <2>3. User(c) \notin lapsed' => ~(seen[c] < Due(Key(c)))
    BY <1>8, KeyType DEF Store, LapseBelow, Key
  <2>4. ASSUME Intact(User(c))', Serves(At[c], User(c)) PROVE WithinLimit(Key(c))'
    <3>1. Due(Key(c)) <= DailyLimit
      BY <1>1, <2>4 DEF WithinLimit
    <3>2. Due(Key(c)) <= seen[c]
      BY <1>0, <2>2, <2>3, <2>4 DEF Intact
    <3>3. total'[Key(c)] = seen[c]
      BY <1>0, <2>2 DEF TypeOK
    <3> QED
      BY <2>1, <3>1, <3>2, <3>3 DEF WithinLimit
  <2>5. \A k \in Keys \ {Key(c)} : total'[k] = total[k]
    BY <2>2 DEF TypeOK
  <2> QED
    BY <1>0, <2>1, <2>2, <2>4, <2>5, OwnEntryOnly
<1>9. CASE Zero(c)
  <2>1. UnitsFinite' /\ Due(Key(c))' = Due(Key(c))
    BY <1>9, DueKept DEF Zero, Reserving, ledger
  <2>2. /\ total' = [total EXCEPT ![Key(c)] = 0]
        /\ hydrated' = hydrated /\ UNCHANGED spent
        /\ pc' = [pc EXCEPT ![c] = "cas"]
    BY <1>9 DEF Zero, ledger
  <2>3. User(c) \notin lapsed' => ~(0 < Due(Key(c)))
    BY <1>9, KeyType DEF Zero, LapseBelow, Key
  <2>4. ASSUME Intact(User(c))', Serves(At[c], User(c)) PROVE WithinLimit(Key(c))'
    <3>1. Due(Key(c)) <= DailyLimit
      BY <1>1, <2>4 DEF WithinLimit
    <3>2. Due(Key(c)) <= 0
      BY <1>0, <2>3, <2>4 DEF Intact
    <3>3. total'[Key(c)] = 0
      BY <1>0, <2>2 DEF TypeOK
    <3> QED
      BY <2>1, <3>1, <3>2, <3>3 DEF WithinLimit
  <2>5. \A k \in Keys \ {Key(c)} : total'[k] = total[k]
    BY <2>2 DEF TypeOK
  <2> QED
    BY <1>0, <2>1, <2>2, <2>4, <2>5, OwnEntryOnly
<1>10. CASE Reserve(c)
  <2>1. CASE ~Swaps(c)
    BY <1>2, <1>10, <2>1 DEF Reserve, Reserving, ledger
  <2>2. CASE Swaps(c)
    <3>1. PICK l \in {"sender", "release"} : pc' = [pc EXCEPT ![c] = l]
      BY <1>10, <2>2 DEF Reserve
    <3>2. /\ total' = [total EXCEPT ![Key(c)] = total[Key(c)] + Amount[c]]
          /\ total[Key(c)] + Amount[c] <= DailyLimit
          /\ UNCHANGED <<spent, hydrated, lapsed>> /\ pc[c] = "cas"
      BY <1>10, <2>2 DEF Reserve, Swaps, SetTotal, ledger
    <3>3. UnitsFinite' /\ Due(Key(c))' = Due(Key(c)) + Amount[c]
      BY <3>1, <3>2, ReservationAdded DEF Reserving
    <3>4. ASSUME Intact(User(c))', Serves(At[c], User(c)) PROVE WithinLimit(Key(c))'
      <4>1. Key(c) \in hydrated
        BY <3>2, <3>4 DEF LimitInv, Entered, UsesEntry, Intact
      <4>2. Due(Key(c)) <= total[Key(c)]
        BY <1>1, <3>4, <4>1 DEF WithinLimit
      <4>3. total'[Key(c)] = total[Key(c)] + Amount[c]
        BY <1>0, <3>2 DEF TypeOK
      <4>4. Due(Key(c)) + Amount[c] <= total[Key(c)] + Amount[c]
            /\ Due(Key(c)) + Amount[c] <= DailyLimit
        BY <1>0, <3>2, <4>2
      <4> QED
        BY <3>3, <4>3, <4>4 DEF WithinLimit
    <3>5. \A k \in Keys \ {Key(c)} : total'[k] = total[k]
      BY <3>2 DEF TypeOK
    <3> QED
      BY <1>0, <3>1, <3>2, <3>3, <3>4, <3>5, OwnEntryOnly
  <2> QED
    BY <2>1, <2>2
<1>11. CASE Release(c)
  <2>1. /\ pc[c] = "release" /\ pc' = [pc EXCEPT ![c] = "done"]
        /\ UNCHANGED <<spent, hydrated, lapsed>>
        /\ date[Key(c)] # 0 =>
             total' = [total EXCEPT ![Key(c)] = Released(total[Key(c)], Amount[c])]
        /\ date[Key(c)] = 0 => total' = total
    BY <1>11 DEF Release, SetTotal, ledger
  <2>2. /\ UnitsFinite' /\ Due(Key(c)) = Due(Key(c))' + Amount[c]
        /\ Due(Key(c))' \in Nat
    BY <2>1, ReservationRemoved DEF Reserving
  <2>3. ASSUME Intact(User(c))', Serves(At[c], User(c)) PROVE WithinLimit(Key(c))'
    <3>1. Key(c) \in hydrated /\ date[Key(c)] # 0
      BY <2>1, <2>3 DEF LimitInv, Entered, Dated, UsesEntry, Reserving, Intact
    <3>2. Due(Key(c)) <= total[Key(c)] /\ Due(Key(c)) <= DailyLimit
      BY <1>1, <2>3, <3>1 DEF WithinLimit
    <3>3. total'[Key(c)] = Released(total[Key(c)], Amount[c])
      BY <1>0, <2>1, <3>1 DEF TypeOK
    <3>4. Due(Key(c))' <= DailyLimit /\ Due(Key(c))' <= Released(total[Key(c)], Amount[c])
      BY <1>0, <2>2, <3>2 DEF Released
    <3> QED
      BY <3>3, <3>4 DEF WithinLimit
  <2>4. \A k \in Keys \ {Key(c)} : total'[k] = total[k]
    BY <2>1 DEF TypeOK
  <2> QED
    BY <1>0, <2>1, <2>2, <2>3, <2>4, OwnEntryOnly
<1>12. CASE CommitReplyLost(c)
  <2>1. \A u \in Users \ {User(c)} : spent'[u] = spent[u]
    BY <1>12 DEF CommitReplyLost, Entries, TypeOK
  <2> QED
    BY <1>3, <1>12, <2>1 DEF CommitReplyLost, Lapse, Reserving, entry
<1>13. CASE Commit(c)
  <2>1. /\ pc[c] = "commit" /\ pc' = [pc EXCEPT ![c] = "done"]
        /\ UNCHANGED <<total, hydrated, lapsed>>
        /\ \/ spent' = [spent EXCEPT ![User(c)] = spent[User(c)] + Amount[c]]
           \/ UNCHANGED spent
    BY <1>13 DEF Commit, Entries, entry
  <2>2. \/ spent'[User(c)] = spent[User(c)] + Amount[c]
        \/ spent'[User(c)] = spent[User(c)]
    BY <2>1, KeyType DEF TypeOK
  <2>3. UnitsFinite' /\ Due(Key(c))' <= Due(Key(c)) /\ Due(Key(c))' \in Nat
    <3>1. "done" \notin Reserving /\ pc[c] \in Reserving
      BY <2>1 DEF Reserving
    <3>2. UnitsFinite'
      BY <2>1, <3>1, ReservationRemoved
    <3>3. CASE spent'[User(c)] = spent[User(c)] + Amount[c]
      <4>1. Due(Key(c)) = Due(Key(c))'
        BY <2>1, <3>1, <3>3, ReservationRemoved
      <4> QED
        BY <1>0, <3>2, <4>1
    <3>4. CASE spent'[User(c)] = spent[User(c)]
      <4>1. Due(Key(c)) = Due(Key(c))' + Amount[c] /\ Due(Key(c))' \in Nat
        BY <2>1, <3>1, <3>4, ReservationRemoved
      <4> QED
        BY <1>0, <3>2, <4>1
    <3> QED
      BY <2>2, <3>3, <3>4
  <2>4. ASSUME Intact(User(c))', Serves(At[c], User(c)) PROVE WithinLimit(Key(c))'
    BY <1>0, <1>1, <2>1, <2>3, <2>4 DEF WithinLimit
  <2>5. \A u \in Users \ {User(c)} : spent'[u] = spent[u]
    BY <2>1 DEF TypeOK
  <2> QED
    BY <1>0, <2>1, <2>3, <2>4, <2>5, OwnEntryOnly
<1> QED
  BY <1>4, <1>5, <1>6, <1>7, <1>8, <1>9, <1>10, <1>11, <1>12, <1>13 DEF Serve

LEMMA EnvironmentLimit ==
  ASSUME TypeOK, LimitInv,
         \/ \E r \in Replicas :
              (\E c \in Calls : ApplyRemoteIncrement(r, c)) \/ FinishRemoteReset(r)
         \/ \E k \in Keys : GoesStale(k)
         \/ UNCHANGED vars
  PROVE  LimitInv'
<1>0. UNCHANGED <<pc, today, spent, hydrated, day>> /\ lapsed \subseteq lapsed'
  BY DEF ApplyRemoteIncrement, FinishRemoteReset, LapseBelow, GoesStale, vars, ledger, entry
<1>1. \A k : Reserved(k)' = Reserved(k) /\ Due(k)' = Due(k)
  <2>1. \A k : Reserved(k)' = Reserved(k)
    BY <1>0 DEF Reserved
  <2> QED
    BY <1>0, <2>1 DEF Due
<1>2. Started' /\ UnitsFinite' /\ Entered'
  <2>1. Started' /\ Entered'
    BY <1>0 DEF LimitInv, Started, Entered
  <2>2. UnitsFinite'
    BY <1>1 DEF LimitInv, UnitsFinite
  <2> QED
    BY <2>1, <2>2
\* Enough that the entry keeps its date and what is due.
<1>3. ASSUME Dated',
             \A k \in hydrated : \/ total'[k] = total[k]
                                 \/ total'[k] \in Nat /\ total'[k] >= total[k]
                                 \/ k[2] \in lapsed'
                                 \/ total'[k] \in Nat /\ total'[k] >= Due(k)
      PROVE  LimitInv'
  <2> SUFFICES ASSUME NEW r, NEW u, Intact(u)', Serves(r, u)
               PROVE  WithinLimit(<<r, u>>)'
    BY <1>2, <1>3 DEF LimitInv, Within, Serves
  <2>1. Intact(u) /\ u \notin lapsed' /\ u \in Users
    BY <1>0 DEF Intact
  <2>2. WithinLimit(<<r, u>>)
    BY <2>1 DEF LimitInv, Within
  <2>3. Due(<<r, u>>) \in Nat
    BY <2>1, DueType DEF LimitInv
  <2>4. ASSUME <<r, u>> \in hydrated PROVE Due(<<r, u>>) <= total'[<<r, u>>]
    <3>1. Due(<<r, u>>) <= total[<<r, u>>] /\ total[<<r, u>>] \in Nat
      BY <2>2, <2>4 DEF WithinLimit, TypeOK
    <3>2. \/ total'[<<r, u>>] = total[<<r, u>>]
          \/ total'[<<r, u>>] \in Nat /\ total'[<<r, u>>] >= total[<<r, u>>]
          \/ total'[<<r, u>>] \in Nat /\ total'[<<r, u>>] >= Due(<<r, u>>)
      BY <1>3, <2>1, <2>4
    <3> QED
      BY <2>3, <3>1, <3>2
  <2> QED
    BY <1>0, <1>1, <2>2, <2>4 DEF WithinLimit
<1>4. ASSUME NEW r \in Replicas, NEW c \in Calls, ApplyRemoteIncrement(r, c)
      PROVE  LimitInv'
  <2> PICK k \in Keys : k = <<r, User(c)>>
    BY KeyType DEF Keys
  <2>1. Amount[c] \in Nat /\ total[k] \in Nat /\ day # 0
    BY MoneyAssumption DEF TypeOK
  <2>2. /\ date' = date \/ date' = [date EXCEPT ![k] = day]
        /\ \/ total' = total
           \/ date[k] = 0 /\ total' = [total EXCEPT ![k] = Amount[c]]
           \/ total' = [total EXCEPT ![k] = total[k] + Amount[c]]
    BY <1>4 DEF ApplyRemoteIncrement, SetTotal
  <2>3. Dated'
    BY <1>0, <2>1, <2>2 DEF LimitInv, Dated, TypeOK
  <2>4. ASSUME NEW j \in hydrated
        PROVE  \/ total'[j] = total[j]
               \/ total'[j] \in Nat /\ total'[j] >= total[j]
    <3>1. j \in Keys /\ date[j] # 0
      BY DEF LimitInv, Dated, TypeOK
    <3>2. CASE j = k
      BY <2>1, <2>2, <3>1, <3>2 DEF TypeOK
    <3>3. CASE j # k
      BY <2>2, <3>1, <3>3 DEF TypeOK
    <3> QED
      BY <3>2, <3>3
  <2> QED
    BY <1>3, <2>3, <2>4
<1>5. ASSUME NEW r \in Replicas, FinishRemoteReset(r) PROVE LimitInv'
  <2> PICK c \in Calls : c = applying[r]
    BY <1>5 DEF FinishRemoteReset, TypeOK
  <2> PICK k \in Keys : k = <<r, User(c)>>
    BY KeyType DEF Keys
  <2>1. /\ total' = [total EXCEPT ![k] = Amount[c]] /\ Amount[c] \in Nat
        /\ k[2] \in lapsed' \/ ~(Amount[c] < Due(k))
        /\ UNCHANGED date
    BY <1>5, MoneyAssumption DEF FinishRemoteReset, SetTotal, LapseBelow
  <2>2. Due(k) \in Nat
    BY KeyType, DueType DEF LimitInv
  <2>3. Dated'
    BY <1>0, <2>1 DEF LimitInv, Dated
  <2>4. ASSUME NEW j \in hydrated
        PROVE  \/ total'[j] = total[j] \/ j[2] \in lapsed'
               \/ total'[j] \in Nat /\ total'[j] >= Due(j)
    <3>1. CASE j = k
      BY <2>1, <2>2, <3>1 DEF TypeOK
    <3>2. CASE j # k
      BY <2>1, <3>2 DEF TypeOK
    <3> QED
      BY <3>1, <3>2
  <2> QED
    BY <1>3, <2>3, <2>4
<1>6. CASE (\E k \in Keys : GoesStale(k)) \/ UNCHANGED vars
  <2>1. UNCHANGED <<total, date>>
    BY <1>6 DEF GoesStale, vars, entry
  <2>2. Dated'
    BY <1>0, <2>1 DEF LimitInv, Dated
  <2> QED
    BY <1>3, <2>1, <2>2
<1> QED
  BY <1>4, <1>5, <1>6

\* At midnight the users of calls in flight lapse; of the others nothing is due.
LEMMA MidnightLimit ==
  ASSUME TypeOK, LimitInv, Midnight
  PROVE  LimitInv'
<1>0. /\ UNCHANGED <<pc, today, total, date, hydrated>> /\ lapsed \subseteq lapsed'
      /\ spent' = [u \in Users |-> 0]
      /\ \A c \in Calls : InFlight(c) => User(c) \in lapsed'
  BY DEF Midnight, entry
<1>1. Started' /\ Dated' /\ Entered'
  BY <1>0 DEF LimitInv, Started, Dated, Entered
<1>2. \A k : Reserved(k)' = Reserved(k)
  BY <1>0 DEF Reserved
<1>3. UnitsFinite'
  BY <1>2 DEF LimitInv, UnitsFinite
<1>4. ASSUME NEW r, NEW u, Intact(u)' PROVE WithinLimit(<<r, u>>)'
  <2>1. u \in Users /\ u \notin lapsed'
    BY <1>4 DEF Intact
  <2>2. Reserved(<<r, u>>)' = {}
    BY <1>0, <1>2, <2>1 DEF Reserved, Reserving, InFlight, Key
  <2>3. Cardinality(Units(Reserved(<<r, u>>)')) = 0
    BY <2>2, FS_EmptySet DEF Units
  <2>4. Due(<<r, u>>)' = 0
    BY <1>0, <2>1, <2>3 DEF Due, Units
  <2>5. <<r, u>> \in hydrated => total[<<r, u>>] \in Nat
    BY DEF TypeOK
  <2> QED
    BY <1>0, <2>4, <2>5, LimitAssumption DEF WithinLimit
<1> QED
  BY <1>1, <1>3, <1>4 DEF LimitInv, Within

\* A user served by one replica spends no more than the daily limit unless the
\* cache has lost one of the user's reservations.
THEOREM DailyLimitHolds == Spec => []LimitHolds
<1>1. Inv /\ LimitInv /\ [Next]_vars => LimitInv'
  <2> SUFFICES ASSUME TypeOK, LimitInv, [Next]_vars PROVE LimitInv'
    BY DEF Inv
  <2>1. ASSUME NEW c \in Calls, Serve(c) PROVE LimitInv'
    BY <2>1, ServeRest, ServeWithin DEF LimitInv
  <2> QED
    BY <2>1, EnvironmentLimit, MidnightLimit DEF Next
<1>2. Inv /\ LimitInv => LimitHolds
  <2> SUFFICES ASSUME TypeOK, LimitInv, NEW u \in Users \ lapsed,
                      OneReplica(u), SpentBefore[u] <= DailyLimit
               PROVE  spent[u] <= DailyLimit
    BY DEF Inv, LimitHolds
  <2>1. PICK r : Serves(r, u)
    <3>1. CASE \E c \in Calls : User(c) = u
      BY <3>1 DEF OneReplica, Serves
    <3>2. CASE ~ \E c \in Calls : User(c) = u
      BY <3>2 DEF Serves
    <3> QED
      BY <3>1, <3>2
  <2>2. Due(<<r, u>>) <= DailyLimit
    BY <2>1 DEF LimitInv, Within, Intact, WithinLimit
  <2>3. /\ Cardinality(Units(Reserved(<<r, u>>))) \in Nat /\ spent[u] \in Nat
        /\ Due(<<r, u>>) = spent[u] + Cardinality(Units(Reserved(<<r, u>>)))
    BY FS_CardinalityType DEF LimitInv, UnitsFinite, TypeOK, Due
  <2> QED
    BY <2>2, <2>3, LimitAssumption
<1> QED
  BY <1>1, <1>2, InitLimit, InvAlways, PTL DEF Spec


-----------------------------------------------------------------------------
(* The transfers are atomic.  A call that reaches its commit has reserved    *)
(* as a transfer and has not committed before; what it then writes is what   *)
(* the balances say at that moment, as the locks guarantee.                  *)

OnceEach ==
  \A c \in Calls :
    /\ c \in committed => pc[c] \in {"release", "done"}
    /\ c \in Validations => pc[c] \notin {"sender", "receiver", "commit"}

\* Steps that commit nothing: those of one call, and those of none.
LEMMA StepsOnceEach ==
  ASSUME TypeOK, OnceEach, NEW c \in Calls, UNCHANGED committed,
         pc' = [pc EXCEPT ![c] = pc'[c]],
         pc[c] \notin {"release", "done"} \/ pc'[c] \in {"release", "done"},
         c \in Validations => pc'[c] \notin {"sender", "receiver", "commit"}
  PROVE  OnceEach'
BY DEF OnceEach, TypeOK

LEMMA CacheStepOnce ==
  ASSUME TypeOK, OnceEach, NEW c \in Calls, CacheStep(c)
  PROVE  OnceEach'
<1>1. UNCHANGED ledger
  BY DEF CacheStep, Begin, Hydrate, HydrateFails, Store, Load, ResetDay, Zero, Reserve, Exceeded, Release
<1>2. \E label : Goto(c, label)
  BY DEF CacheStep, Begin, Hydrate, HydrateFails, Store, Load, ResetDay, Zero, Reserve, Exceeded, Release
<1>3. pc' = [pc EXCEPT ![c] = pc'[c]]
  BY <1>2 DEF Goto, TypeOK
<1>4. /\ pc[c] \notin {"release", "done"} \/ pc'[c] \in {"release", "done"}
      /\ c \in Validations => pc'[c] \notin {"sender", "receiver", "commit"}
  BY DEF CacheStep, Begin, FirstStep, Hydrate, HydrateFails, Store, Load, ResetDay, Zero, Reserve,
         Exceeded, Release, Goto, TypeOK
<1> QED
  BY <1>1, <1>3, <1>4, StepsOnceEach DEF ledger

LEMMA OnceEachStep ==
  ASSUME TypeOK, OnceEach, [Next]_vars
  PROVE  OnceEach'
<1>1. ASSUME NEW c \in Calls, LockSender(c) \/ LockReceiver(c) \/ EntryFails(c) PROVE OnceEach'
  <2>1. UNCHANGED committed /\ pc' = [pc EXCEPT ![c] = pc'[c]]
    BY <1>1 DEF LockSender, LockReceiver, EntryFails, Goto, ledger, TypeOK
  <2>2. /\ pc[c] \in {"sender", "receiver", "commit"}
        /\ pc'[c] \in {"receiver", "commit", "release"}
    BY <1>1 DEF LockSender, LockReceiver, EntryFails, Goto, TypeOK
  <2> QED
    BY <2>1, <2>2, StepsOnceEach DEF OnceEach
<1>2. ASSUME NEW c \in Calls, Commit(c) \/ CommitReplyLost(c) PROVE OnceEach'
  <2>1. /\ committed' = committed \union {c}
        /\ pc'[c] \in {"release", "done"} /\ \A d \in Calls \ {c} : pc'[d] = pc[d]
    BY <1>2 DEF Commit, CommitReplyLost, Entries, Goto, TypeOK
  <2> QED
    BY <2>1 DEF OnceEach
<1>3. CASE \/ \E r \in Replicas : (\E c \in Calls : ApplyRemoteIncrement(r, c)) \/ FinishRemoteReset(r)
           \/ (\E k \in Keys : GoesStale(k)) \/ Midnight \/ UNCHANGED vars
  <2>1. UNCHANGED <<pc, committed>>
    BY <1>3 DEF ApplyRemoteIncrement, FinishRemoteReset, GoesStale, Midnight, vars, ledger
  <2> QED
    BY <2>1 DEF OnceEach
<1> QED
  BY <1>1, <1>2, <1>3, CacheStepOnce DEF Next, Serve, CacheStep

LEMMA OnceEachAlways == Spec => []OnceEach
<1>1. Init => OnceEach
  BY DEF Init, OnceEach
<1> QED
  BY <1>1, OnceEachStep, TypeCorrect, PTL DEF Spec

UntangledBalance == [a \in Untangled |-> balance[a]]

\* A commit writes the balances it read before: that is the transfer, here.
LEMMA CommitIsTransfer ==
  ASSUME Inv, OnceEach, NEW c \in Calls, Commit(c) \/ CommitReplyLost(c)
  PROVE  Atomic!Next
<1>1. pc[c] = "commit" /\ Entries(c)
  BY DEF Commit, CommitReplyLost
<1>2. c \in Calls \ Validations /\ c \notin committed
  BY <1>1 DEF OnceEach
<1>3. /\ sBal[c] = balance[From[c]] /\ rBal[c] = balance[To[c]]
      /\ balance[From[c]] >= Amount[c]
  BY <1>1 DEF Inv, LocksHeld, SenderHeld, ReceiverHeld
<1>4. balance' = [balance EXCEPT ![From[c]] = balance[From[c]] - Amount[c],
                                 ![To[c]] = balance[To[c]] + Amount[c]]
  BY <1>1, <1>3 DEF Entries
<1>5. balance \in [Accounts -> Nat] /\ Amount[c] \in Nat
  BY MoneyAssumption DEF Inv, TypeOK
<1>6. ASSUME NEW a \in Untangled
      PROVE  balance'[a] = balance[a] + (IF a = To[c] THEN Amount[c] ELSE 0)
                                      - (IF a = From[c] THEN Amount[c] ELSE 0)
  <2>1. a \in Accounts /\ ~(a = From[c] /\ a = To[c])
    BY DEF Untangled, Selfless
  <2> QED
    BY <1>4, <1>5, <2>1
<1>7. UntangledBalance' = [a \in Untangled |->
        UntangledBalance[a] + (IF a = To[c] THEN Amount[c] ELSE 0) - (IF a = From[c] THEN Amount[c] ELSE 0)]
  BY <1>6 DEF UntangledBalance
<1>8. Atomic!Funded(c)
  BY <1>3 DEF Atomic!Funded
<1>9. committed' = committed \union {c}
  BY <1>1 DEF Entries
<1>10. Atomic!Transfer(c)
  BY <1>2, <1>7, <1>8, <1>9 DEF Atomic!Transfer, UntangledBalance
<1> QED
  BY <1>2, <1>10 DEF Atomic!Next

\* However the calls interleave, wait for each other's locks, fail or lose
\* their reply, the balances of all accounts no call transfers from to itself
\* change by whole transfers alone, one at a time: each call once at the most,
\* with its amount there, and no validation.
THEOREM TransfersTakePlaceAtOnce == Spec => TransfersAreAtomic
<1>1. Init => Atomic!Init
  BY DEF Init, Atomic!Init, Untangled
<1>2. Inv /\ OnceEach /\ [Next]_vars => [Atomic!Next]_(Atomic!vars)
  <2> SUFFICES ASSUME Inv, OnceEach, [Next]_vars PROVE Atomic!Next \/ UNCHANGED <<balance, committed>>
    BY DEF Atomic!vars
  <2>1. ASSUME NEW c \in Calls, Serve(c) PROVE Atomic!Next \/ UNCHANGED <<balance, committed>>
    <3>1. CASE Commit(c) \/ CommitReplyLost(c)
      BY <3>1, CommitIsTransfer
    <3>2. CASE ~(Commit(c) \/ CommitReplyLost(c))
      <4>1. UNCHANGED ledger
        BY <2>1, <3>2 DEF Serve, Begin, Hydrate, HydrateFails, Store, Load, ResetDay, Zero, Reserve,
                          Exceeded, Release, LockSender, LockReceiver, EntryFails
      <4> QED
        BY <4>1 DEF ledger
    <3> QED
      BY <3>1, <3>2
  <2>2. CASE \/ \E r \in Replicas : (\E c \in Calls : ApplyRemoteIncrement(r, c)) \/ FinishRemoteReset(r)
             \/ (\E k \in Keys : GoesStale(k)) \/ Midnight \/ UNCHANGED vars
    BY <2>2 DEF ApplyRemoteIncrement, FinishRemoteReset, GoesStale, Midnight, vars, ledger
  <2> QED
    BY <2>1, <2>2 DEF Next
<1> QED
  BY <1>1, <1>2, InvAlways, OnceEachAlways, PTL DEF Spec, TransfersAreAtomic, Atomic!Spec

=============================================================================
