---------------------------- MODULE AccountingCore ----------------------------
(***************************************************************************)
(* The accounting core: gRPC calls that move money between two payment     *)
(* accounts by double entry in a serializable transaction, after reserving *)
(* the amount in a per-replica cache of what the user has spent today.     *)
(* The cache is lock-free (compare-and-swap on two words), is filled from  *)
(* the ledger when it is cold or stale, gives a reservation back when the  *)
(* transfer fails, and hears of transfers, its own included, over Redis.   *)
(***************************************************************************)
EXTENDS Integers, FiniteSets

CONSTANTS
  Calls,           \* gRPC calls: Transfer, or ValidateTransaction
  Validations,     \* the calls that are ValidateTransaction
  Reference,       \* Reference[c]: the reference_id the client sends
  Accounts, Users, Replicas,
  Owner,           \* Owner[a]: the user of account a
  From, To,        \* From[c], To[c]: accounts of call c
  Amount,
  At,              \* At[c]: the replica that serves c
  Opening,         \* Opening[a]: balance at the start
  SpentBefore,     \* SpentBefore[u], ReceivedBefore[u]: the user's debits and
  ReceivedBefore,  \* credits of the first day before the behaviour starts
  Warm,            \* replicas that could fill their cache at the start
  DailyLimit, TransactionLimit,
  NoCall,
  MaxDays, MaxFaults   \* bounds: midnights, lost commit replies

ASSUME CallAssumption ==
  /\ Validations \subseteq Calls /\ NoCall \notin Calls
  /\ Owner \in [Accounts -> Users]
  /\ From \in [Calls -> Accounts] /\ To \in [Calls -> Accounts]
  /\ At \in [Calls -> Replicas] /\ Warm \subseteq Replicas
ASSUME MoneyAssumption ==
  /\ Amount \in [Calls -> Nat \ {0}] /\ Opening \in [Accounts -> Nat]
  /\ SpentBefore \in [Users -> Nat] /\ ReceivedBefore \in [Users -> Nat]
ASSUME LimitAssumption ==
  /\ DailyLimit \in Nat /\ TransactionLimit \in Nat
  /\ MaxDays \in Nat \ {0} /\ MaxFaults \in Nat

VARIABLES
  balance,     \* payment_accounts.balance
  posted,      \* posted[a]: SUM(ledger_entries.amount) since the start
  spent,       \* spent[u]: debits in the ledger dated today
  references,  \* transactions.reference_id
  committed,   \* calls whose transaction committed
  lock,        \* lock[a]: the call whose transaction holds FOR UPDATE on a
  changed,     \* changed[c]: accounts committed by others since c's snapshot
  day,
  total, date, \* UserLimitEntry.DailyTotal and .Date; date 0: no entry
  hydrated,    \* <<r, u>> whose entry has Hydrated = 1
  stale,       \* <<r, u>> whose LastSynced is over a minute ago
  pc, today, seen,   \* of each call: its place, its `today`, what it last read
  sBal, rBal,        \* balances read under the locks
  inbox,       \* inbox[r]: calls published on Redis and not applied at r
  applying,    \* applying[r]: the call whose increment r is resetting a day for
  lapsed,      \* users a reservation of whom the cache has lost (see LimitHolds)
  faults

ledger == <<balance, posted, spent, references, committed>>
txs == <<lock, changed, sBal, rBal>>
entry == <<total, date, hydrated, stale>>
redis == <<inbox, applying>>
vars == <<ledger, txs, day, entry, pc, today, seen, redis, lapsed, faults>>

User(c) == Owner[From[c]]
Key(c) == <<At[c], User(c)>>
Keys == Replicas \X Users

\* PreHydrate sums the absolute amounts of a user's entries, credits included,
\* for users that have any; its failure is only logged.
PreHydrated(u) == SpentBefore[u] + ReceivedBefore[u]

Init ==
  /\ balance = Opening
  /\ posted = [a \in Accounts |-> 0]
  /\ spent = SpentBefore
  /\ references = {} /\ committed = {}
  /\ lock = [a \in Accounts |-> NoCall]
  /\ changed = [c \in Calls |-> {}]
  /\ day = 1
  /\ hydrated = {k \in Warm \X Users : PreHydrated(k[2]) > 0}
  /\ total = [k \in Keys |-> IF k \in hydrated THEN PreHydrated(k[2]) ELSE 0]
  /\ date = [k \in Keys |-> IF k \in hydrated THEN 1 ELSE 0]
  /\ stale = {}
  /\ pc = [c \in Calls |-> "idle"]
  /\ today = [c \in Calls |-> 0]
  /\ seen = [c \in Calls |-> 0]
  /\ sBal = [c \in Calls |-> 0] /\ rBal = [c \in Calls |-> 0]
  /\ inbox = [r \in Replicas |-> {}]
  /\ applying = [r \in Replicas |-> NoCall]
  /\ lapsed = {}
  /\ faults = 0

Goto(c, label) == pc' = [pc EXCEPT ![c] = label]

\* Stores to the entry of key k; each of them sets LastSynced.
SetTotal(k, n) == total' = [total EXCEPT ![k] = n] /\ stale' = stale \ {k}

Lapse(c) == lapsed' = lapsed \union {User(c)}

\* What the entry of k should not fall below: the user's debits of today and
\* what the calls at this replica have reserved and not given back, counted
\* unit by unit.
Reserving == {"sender", "receiver", "commit", "release"}
Reserved(k) == {c \in Calls : Key(c) = k /\ pc[c] \in Reserving}
Coins(c) == {c} \X (1 .. Amount[c])
Units(C) == UNION {Coins(c) : c \in C}
Due(k) == spent[k[2]] + Cardinality(Units(Reserved(k)))

\* A store that leaves the entry below what is due loses a reservation.
LapseBelow(k, n) == lapsed' = IF n < Due(k) THEN lapsed \union {k[2]} ELSE lapsed

-----------------------------------------------------------------------------
(* Execute and Validate up to the limit check.                             *)

Usable(k) == k \in hydrated \ stale

\* Where a call goes first.  A validation over the transaction limit is not
\* reserved, but Validate gives back what it asked for all the same.
TooLarge(c) == Amount[c] > TransactionLimit
FirstStep(c) ==
  IF TooLarge(c) THEN "release" ELSE IF Usable(Key(c)) THEN "load" ELSE "hydrate"

\* The reference_id is looked up in transactions; a transfer that is found, or
\* from an account of someone else, or over the transaction limit is answered
\* and changes nothing.  Snapshot and `today` are taken here.
Begin(c) ==
  /\ pc[c] = "idle"
  /\ c \in Validations \/ (Reference[c] \notin references /\ ~TooLarge(c))
  /\ today' = [today EXCEPT ![c] = day]
  /\ Goto(c, FirstStep(c))
  /\ IF TooLarge(c) THEN Lapse(c) ELSE UNCHANGED lapsed
  /\ UNCHANGED <<ledger, txs, day, entry, seen, redis, faults>>

-----------------------------------------------------------------------------
(* CheckTransaction.                                                       *)

\* hydrateFromDB, in a transaction of its own: it sees no call in flight.
Hydrate(c) ==
  /\ pc[c] = "hydrate"
  /\ seen' = [seen EXCEPT ![c] = spent[User(c)]]
  /\ Goto(c, "store")
  /\ UNCHANGED <<ledger, txs, day, entry, today, redis, lapsed, faults>>

HydrateFails(c) ==
  /\ pc[c] = "hydrate"
  /\ Goto(c, "done")
  /\ UNCHANGED <<ledger, txs, day, entry, today, seen, redis, lapsed, faults>>

\* A new entry, or its four words under the shard's lock.
Store(c) ==
  /\ pc[c] = "store"
  /\ SetTotal(Key(c), seen[c])
  /\ date' = [date EXCEPT ![Key(c)] = today[c]]
  /\ hydrated' = hydrated \union {Key(c)}
  /\ LapseBelow(Key(c), seen[c])
  /\ Goto(c, "load")
  /\ UNCHANGED <<ledger, txs, day, today, seen, redis, faults>>

\* The loop: read both words, on another day reset them one after the other,
\* then compare and swap the total.
Load(c) ==
  /\ pc[c] = "load"
  /\ seen' = [seen EXCEPT ![c] = total[Key(c)]]
  /\ Goto(c, IF date[Key(c)] = today[c] THEN "cas" ELSE "reset")
  /\ UNCHANGED <<ledger, txs, day, entry, today, redis, lapsed, faults>>

ResetDay(c) ==
  /\ pc[c] = "reset"
  /\ IF date[Key(c)] = today[c]
     THEN Goto(c, "load") /\ UNCHANGED date
     ELSE Goto(c, "zero") /\ date' = [date EXCEPT ![Key(c)] = today[c]]
  /\ UNCHANGED <<ledger, txs, day, total, hydrated, stale, today, seen, redis, lapsed, faults>>

Zero(c) ==
  /\ pc[c] = "zero"
  /\ total' = [total EXCEPT ![Key(c)] = 0]
  /\ seen' = [seen EXCEPT ![c] = 0]
  /\ LapseBelow(Key(c), 0)
  /\ Goto(c, "cas")
  /\ UNCHANGED <<ledger, txs, day, date, hydrated, stale, today, redis, faults>>

SwapsBlindly(c) == TRUE   \* mutant
Swaps(c) == total[Key(c)] = seen[c]

Reserve(c) ==
  /\ pc[c] = "cas"
  /\ seen[c] + Amount[c] <= DailyLimit
  /\ IF Swaps(c)
     THEN /\ SetTotal(Key(c), seen[c] + Amount[c])
          /\ Goto(c, IF c \in Validations THEN "release" ELSE "sender")
     ELSE Goto(c, "load") /\ UNCHANGED <<total, stale>>
  /\ seen' = [seen EXCEPT ![c] = 0]
  /\ UNCHANGED <<ledger, txs, day, date, hydrated, today, redis, lapsed, faults>>

Exceeded(c) ==
  /\ pc[c] = "cas"
  /\ seen[c] + Amount[c] > DailyLimit
  /\ IF c \in Validations
     THEN Goto(c, "release") /\ Lapse(c)
     ELSE Goto(c, "done") /\ UNCHANGED lapsed
  /\ UNCHANGED <<ledger, txs, day, entry, today, seen, redis, faults>>

ReleasedUnclamped(n, amount) == n - amount   \* mutant
Released(n, amount) == IF n < amount THEN 0 ELSE n - amount

\* ReleaseLimit, a loop over one word: one step.
Release(c) ==
  /\ pc[c] = "release"
  /\ IF date[Key(c)] = 0
     THEN UNCHANGED <<total, stale>>
     ELSE SetTotal(Key(c), Released(total[Key(c)], Amount[c]))
  /\ Goto(c, "done")
  /\ UNCHANGED <<ledger, txs, day, date, hydrated, today, seen, redis, lapsed, faults>>

-----------------------------------------------------------------------------
(* executeDoubleEntry and the commit.                                      *)

FreeOrNot(a, c) == TRUE   \* mutant
\* SELECT ... FOR UPDATE waits for the holder, and in a serializable
\* transaction fails if the row was changed since the snapshot.
Free(a, c) == lock[a] \in {NoCall, c}
Current(a, c) == a \notin changed[c]

LockSender(c) ==
  /\ pc[c] = "sender"
  /\ Free(From[c], c) /\ Current(From[c], c)
  /\ balance[From[c]] >= Amount[c]
  /\ lock' = [lock EXCEPT ![From[c]] = c]
  /\ sBal' = [sBal EXCEPT ![c] = balance[From[c]]]
  /\ Goto(c, "receiver")
  /\ UNCHANGED <<ledger, changed, rBal, day, entry, today, seen, redis, lapsed, faults>>

LockReceiver(c) ==
  /\ pc[c] = "receiver"
  /\ Free(To[c], c) /\ Current(To[c], c)
  /\ lock' = [lock EXCEPT ![To[c]] = c]
  /\ rBal' = [rBal EXCEPT ![c] = balance[To[c]]]
  /\ Goto(c, "commit")
  /\ UNCHANGED <<ledger, changed, sBal, day, entry, today, seen, redis, lapsed, faults>>

\* The transaction is over: its locks are released, its locals are gone.
EndTx(c) ==
  /\ lock' = [a \in Accounts |-> IF lock[a] = c THEN NoCall ELSE lock[a]]
  /\ sBal' = [sBal EXCEPT ![c] = 0]
  /\ rBal' = [rBal EXCEPT ![c] = 0]

\* Insufficient funds, a currency or status that does not fit, a serialization
\* failure, the victim of a deadlock, a failed statement or commit: rolled back.
EntryFails(c) ==
  /\ pc[c] \in {"sender", "receiver", "commit"}
  /\ EndTx(c)
  /\ Goto(c, "release")
  /\ UNCHANGED <<ledger, changed, day, entry, today, seen, redis, lapsed, faults>>

InFlight(c) == pc[c] \notin {"idle", "done"}

\* The row of transactions gets a reference_id of its own.
StoredReference(c) == <<"transfer", c>>

\* Both balances, the transaction and its two entries.  The entries bear the
\* time the transaction began.
Entries(c) ==
  /\ balance' = [balance EXCEPT ![From[c]] = sBal[c] - Amount[c],
                                ![To[c]] = rBal[c] + Amount[c]]
  /\ posted' = [posted EXCEPT ![From[c]] = @ - Amount[c], ![To[c]] = @ + Amount[c]]
  /\ spent' = IF today[c] = day THEN [spent EXCEPT ![User(c)] = @ + Amount[c]] ELSE spent
  /\ references' = references \union {StoredReference(c)}
  /\ committed' = committed \union {c}
  /\ EndTx(c)
  /\ changed' = [d \in Calls |-> IF InFlight(d) /\ d # c
                                 THEN changed[d] \union {From[c], To[c]} ELSE {}]

\* Transfer publishes what succeeded, for every subscriber.
Commit(c) ==
  /\ pc[c] = "commit"
  /\ Entries(c)
  /\ inbox' = [r \in Replicas |-> inbox[r] \union {c}]
  /\ Goto(c, "done")
  /\ UNCHANGED <<day, entry, today, seen, applying, lapsed, faults>>

\* Commit returns an error although the transaction was committed.
CommitReplyLost(c) ==
  /\ pc[c] = "commit"
  /\ faults < MaxFaults /\ faults' = faults + 1
  /\ Entries(c)
  /\ Goto(c, "release")
  /\ Lapse(c)
  /\ UNCHANGED <<day, entry, today, seen, redis>>

Serve(c) ==
  \/ Begin(c)
  \/ Hydrate(c) \/ HydrateFails(c) \/ Store(c)
  \/ Load(c) \/ ResetDay(c) \/ Zero(c) \/ Reserve(c) \/ Exceeded(c)
  \/ LockSender(c) \/ LockReceiver(c) \/ EntryFails(c)
  \/ Commit(c) \/ CommitReplyLost(c)
  \/ Release(c)

-----------------------------------------------------------------------------
(* ApplyRemoteIncrement, run by the one subscriber of each replica.        *)

ApplyRemoteIncrement(r, c) ==
  /\ c \in inbox[r] /\ applying[r] = NoCall
  /\ inbox' = [inbox EXCEPT ![r] = @ \ {c}]
  /\ LET k == <<r, User(c)>> IN
       \/ /\ date[k] = 0      \* a new entry, not hydrated
          /\ SetTotal(k, Amount[c])
          /\ date' = [date EXCEPT ![k] = day]
          /\ UNCHANGED applying
       \/ /\ date[k] = day
          /\ SetTotal(k, total[k] + Amount[c])
          /\ UNCHANGED <<date, applying>>
       \/ /\ date[k] \notin {0, day}   \* the date first, then the total
          /\ date' = [date EXCEPT ![k] = day]
          /\ applying' = [applying EXCEPT ![r] = c]
          /\ UNCHANGED <<total, stale>>
  /\ UNCHANGED <<ledger, txs, day, hydrated, pc, today, seen, lapsed, faults>>

FinishRemoteReset(r) ==
  /\ applying[r] # NoCall
  /\ LET c == applying[r]
         k == <<r, User(c)>> IN
       /\ SetTotal(k, Amount[c])
       /\ LapseBelow(k, Amount[c])
  /\ applying' = [applying EXCEPT ![r] = NoCall]
  /\ UNCHANGED <<ledger, txs, day, date, hydrated, pc, today, seen, inbox, faults>>

-----------------------------------------------------------------------------
\* A minute without a store.
GoesStale(k) ==
  /\ k \in hydrated \ stale
  /\ stale' = stale \union {k}
  /\ UNCHANGED <<ledger, txs, day, total, date, hydrated, pc, today, seen, redis, lapsed, faults>>

\* Calls that span midnight work with yesterday's date.
Midnight ==
  /\ day < MaxDays
  /\ day' = day + 1
  /\ spent' = [u \in Users |-> 0]
  /\ lapsed' = lapsed \union {User(c) : c \in {d \in Calls : InFlight(d)}}
  /\ UNCHANGED <<balance, posted, references, committed, txs, entry, pc, today, seen, redis, faults>>

Next ==
  \/ \E c \in Calls : Serve(c)
  \/ \E r \in Replicas :
       (\E c \in Calls : ApplyRemoteIncrement(r, c)) \/ FinishRemoteReset(r)
  \/ \E k \in Keys : GoesStale(k)
  \/ Midnight

Spec == Init /\ [][Next]_vars

-----------------------------------------------------------------------------
(* What is checked.                                                        *)

TypeOK ==
  /\ balance \in [Accounts -> Nat]
  /\ posted \in [Accounts -> Int]
  /\ spent \in [Users -> Nat]
  /\ references \subseteq {StoredReference(c) : c \in Calls}
  /\ committed \subseteq Calls
  /\ lock \in [Accounts -> Calls \union {NoCall}]
  /\ changed \in [Calls -> SUBSET Accounts]
  /\ day \in 1..MaxDays
  /\ total \in [Keys -> Nat]
  /\ date \in [Keys -> 0..MaxDays]
  /\ hydrated \subseteq Keys /\ stale \subseteq Keys
  /\ pc \in [Calls -> {"idle", "hydrate", "store", "load", "reset", "zero", "cas",
                       "sender", "receiver", "commit", "release", "done"}]
  /\ today \in [Calls -> 0..MaxDays]
  /\ seen \in [Calls -> Nat]
  /\ sBal \in [Calls -> Nat] /\ rBal \in [Calls -> Nat]
  /\ inbox \in [Replicas -> SUBSET Calls]
  /\ applying \in [Replicas -> Calls \union {NoCall}]
  /\ lapsed \subseteq Users
  /\ faults \in Nat

\* An account's balance is what it opened with and the entries posted to it,
\* whatever transfers cross each other in both directions: no update is lost.
\* (The code does not refuse a transfer from an account to itself, which posts
\* two entries that cancel out and raises the balance.)
Selfless(a) == \A c \in Calls : From[c] = To[c] => From[c] # a
BalanceIsPosted ==
  \A a \in Accounts : Selfless(a) => balance[a] = Opening[a] + posted[a]

Untangled == {a \in Accounts : Selfless(a)}
Atomic == INSTANCE AtomicTransfers WITH
  Transfers <- Calls \ Validations,
  Accounts <- Untangled,
  balance <- [a \in Untangled |-> balance[a]],
  made <- committed

\* Calls that lock, read and write two rows in steps of their own move money
\* like transfers that take place one at a time: each call once at the most,
\* with the amount still there when it is taken, and no validation at all.
TransfersAreAtomic == Atomic!Spec

\* A user whose calls one replica serves spends at most the daily limit, unless
\* the cache loses a reservation: by hydrating or resetting an entry under a
\* call in flight, by a rejected validation, or by a lost commit reply.
OneReplica(u) == \A c, d \in Calls : User(c) = u /\ User(d) = u => At[c] = At[d]
LimitHolds ==
  \A u \in Users \ lapsed :
    OneReplica(u) /\ SpentBefore[u] <= DailyLimit => spent[u] <= DailyLimit

\* "Go checks the database to ensure the transaction hasn't been processed":
\* a reference_id moves money once.
ReferenceUsedOnce ==
  \A c, d \in committed : Reference[c] = Reference[d] => c = d

=============================================================================
