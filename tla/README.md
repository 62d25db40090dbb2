# Paycif: TLA+ models of the money paths

TLA+ modules for the parts of Paycif that move money or promise work to be
done, and for the live-mode helper kept in the same repository, TLC configurations that check them on small instances, and TLAPS proofs of
their main invariants for every instance. Paths below are relative to `src/`.

    tlc -workers 2 -config PayoutIntent_full.cfg MCPayoutIntent.tla    # any run below
    tlapm PayoutIntentProofs.tla                                       # any *Proofs module

## 1. The system

Paycif lets a traveller pay a Thai PromptPay QR with a foreign card. The Flutter
app talks to a Go API; the API charges the card through Alchemy Pay (ACH), credits
the payment in PostgreSQL and pays the merchant. Everything that must survive a
request lives in PostgreSQL tables; processes share nothing else except a few Redis
channels. Several pods of each process may run at once.

| Component | State it keeps | Operations | What is hard | What makes it correct |
|---|---|---|---|---|
| **Payout intents** (`back-end/cmd/api/payment_handler.go`, `internal/usecase/reconciler.go`, `payment_orchestration_service.go`) | `payout_intents.status`, `transactions.reference_id` | create (idempotent by id), ACH webhook, reconciliation cycle in every pod, credit, payout | two kinds of settlers with two kinds of reference ids; webhooks repeated; unconditional status writes whose errors are dropped; crashes between commits | an intent is credited before it reads COMPLETED, is paid once, and is not left in the hands of a dead settler |
| **Outbox payouts** (`internal/adapter/queue/outbox_worker.go`, `cmd/api/payout_handler.go`) | `transaction_outbox`, `transactions.status/external_id`, `ledger_entries` | claim, reserve, call SQRIL, finalize or refund, retry with backoff, prune, SQRIL webhook | four transactions around an external call; replies lost; verdict before the external id is stored; refunds from three places | no overdraft, no refund beyond the debits, bounded tries, ledger and SQRIL agree, verdicts arrive |
| **Payload worker** (`cmd/payload-worker/main.go`) | the same `transaction_outbox` | drain PENDING rows to Redis | shares the table with the outbox worker | leaves claimed events alone |
| **Job queue** (`internal/adapter/queue/worker.go`, `enqueue.go`, `supabase/migrations/000029_create_job_queue.sql`) | `jobs.status/locked_at`, notifications of each connection | enqueue + NOTIFY, listen, dequeue (SKIP LOCKED), run, write result, reclaim | two goroutines per process both dequeue; lost notifications, lost results, crashes | one runner per job, final results, every job ends |
| **Accounting core** (`cmd/accounting-core/main.go`) | `payment_accounts.balance`, `ledger_entries`, an in-memory limit cache per replica | Transfer, ValidateTransaction, pre-hydration, increments over Redis | lock-free two-word entries, hydration under running calls, midnight, crossing transfers | no lost balance update, the daily limit, a reference moves money once |
| **Saved cards** (`supabase/functions/manage-payment-methods`, `get-saved-payment-methods`; KYC registration in `internal/usecase/kyc_service.go`) | Omise customers and their cards, `profiles.external_customer_id` and the preferred card, `payment_methods_cache` | add a card, delete a card, list with a cache of ten minutes and an automatic default | three awaited calls per request over three stores, none of them in a transaction; write errors dropped; a list fetched before a change stored after it | the cached list and the preference agree with the vault, an added card can be found |
| **Live mode helper** (`.agents/skills/impeccable/scripts/live-server.mjs`, `live-browser.js`, `live-poll.mjs`, `live/session-store.mjs` …) | `state.pendingEvents` with leases, `state.sseClients`, the exit timer, an append-only journal per session; the page's own state; wrappers in the source file | post an event, poll, reply, checkpoint, connect and disconnect, restart from the journal, accept, discard, complete | leases that run out; replies that name a session and not an event; restarts; pages loaded anew; the exit timer racing a reconnect | no event is lost, the journal and the queue agree, an ended session stays ended and leaves nothing in the source, every event is answered |
| FX engine (`cmd/fx-engine`), `fx_service.go` | rate cache, its own limit cache | rates, pre-validation | stale rates, fallback sources | a quote never uses an expired rate |
| PIN authentication (`supabase/functions/verify-pin` …, migration 000039) | `user_auth_secrets`, `used_nonces`, `user_device_bindings` | verify, change, reset, bind, revoke | failed-attempt counter read before and written after the check | resistance to guessing and replay, which is not among the functional properties stated here |
| Top-up limits (migrations 000001–000025) | `topup_reservations`, daily totals | reserve, commit, rollback | dropped again by 000025; only `reconcile-omise` still calls `process_inbound_transaction`, which needs the dropped table | – |
| KYC, screening (geo, VPN, IPQS, Cloudflare), `generate-promptpay` (formats a string), `payout-executor` (a deprecated mock), verify-service, mobile app | caches, screens | look-ups | third parties | – |

How they interact: the API writes intents and transactions; the outbox worker and
payload-worker poll `transaction_outbox`; SQRIL and ACH call back over HTTP; the API
enqueues jobs; accounting-core replicas tell each other of transfers over
`user_limit_updates`; the functions on saved cards and KYC write one profile row. In
live mode the page posts events to the helper and hears of replies over SSE, the agent
polls the helper and edits the source files. The modules below follow those seams: each models one set of
tables (or one cache) with *all* the processes that write it.

`PROJECT.json` lists every component with its status, and under `hazards` the lines
where each can go wrong.

## 2. Modules

| Module | Models | State ↔ code | Actions ↔ code |
|---|---|---|---|
| `PayoutPromise` | what settling an intent promises: absent → open → held → paid, one holder, one payout | `phase` | – (abstract) |
| `PayoutSaga` | what a payout through a provider promises while nothing is lost: executed only with the amount reserved, reserved once at a time, given back only with FAILED and only if the provider has no part in it or failed it; a return that fails is counted and not repeated | `reserved`, `provider`, `told`, `unreturned`, `broken` | – (abstract) |
| `AtomicTransfers` | what double entry promises: each transfer at one moment, at most once, with the money there | `balance`, `made` | – (abstract) |
| `JobLease` | what a queue that leases its jobs promises: one holder per job, who alone gives the result; only lost jobs go back; a job whose lease ran out under its holder is exempt from then on | `status`, `holders`, `lapsed` | – (abstract) |
| `PayoutIntent` | intents, ACH webhooks, reconcilers | `status` = `payout_intents.status`; `orderRefs`, `recRefs` = the two families of `transactions.reference_id`; `wpc`, `rpc`, `claim`, `current` = where handlers and pods stand and what they hold in local variables; `order` = ACH's orders | `Submit/ResubmitIntent`, `OpenOrder`, `NoCheckout` = HandleCreateIntent; `Webhook*` = HandleWebhook; `Reconciler*` = runReconciliationCycle; `WriteStatus` = UpdatePayoutIntentStatus with its dropped error |
| `OutboxPayout` | outbox workers, payload-worker, pruner, SQRIL webhook | `ostatus`, `retries` = `transaction_outbox`; `tstatus`, `external` = `transactions`; `balance`, `debits`, `refunds` = `ledger_entries`; `held`, `seen`, `event`, `outcome` = a worker's locals; `sqril` = SQRIL's own record (external) | `Claim`, `Check`, `Deduct`…, `Call`…, `RefundAfterError`, `Finalize`, `Record` = one event through processBatch; `PayloadBatch`, `Prune`, `SqrilWebhook` |
| `JobQueue` | enqueuers, listeners, reclaimers | `status`, `stale` = `jobs.status`, age of `locked_at`; `inbox` = unread notifications; `pc`, `job`, `failed` = goroutines; `overrun` = history | `Enqueue` (with trigger), `Listen`, `WaitForNotification`, `Dequeue`, `Process`, `Mark`, `Reclaim`, `ReclaimFails`, `Crash`… |
| `AccountingCore` | gRPC calls, limit caches, subscribers | `balance`, `posted`, `references` = tables; `lock`, `changed`, `sBal`, `rBal` = a serializable transaction; `total`, `date`, `hydrated`, `stale` = UserLimitEntry; `inbox`, `applying` = Redis subscriber | `Begin`, `Hydrate`, `Store`, `Load`, `ResetDay`, `Zero`, `Reserve` = CheckTransaction step by step; `LockSender`, `LockReceiver`, `Commit` = double entry; `Release`, `ApplyRemoteIncrement` |
| `SavedCards` | manage-payment-methods, get-saved-payment-methods, KYC registration | `vault`, `created` = Omise (external); `customer`, `preferred` = the profile row; `cache` = the row of `payment_methods_cache` while it is fresh; `apc`, `dpc`, `rpc`, `todo`, … = where each request stands and what it has read | `AddStart` … `AddInvalidate`, `DeleteStart` … `DeleteDone`, `ReadProfile` … `AutoSync` = one action per awaited call; `KycRegister`, `Expire`, `Kill*` |
| `LiveSession` | helper server, page, agent, journal | `queue` = `state.pendingEvents`; `tabs`, `exitTimer`; `phase`, `pending` = the fold of a session's journal; `agent`, `held`, `answer` = the chat agent; `page` = the browser's state; `source` = what a session left in the file; `owed`, `asked`, `crossed` = history | `Go`, `Emit`, `Accept`, `Discard`, `Checkpoint`, `Reload`, `Connect`, … = live-browser.js and the server's routes; `Poll`, `Reply`, `LeaseExpires`, `ExitTimerFires`, `Stop`, `Start` = live-server.mjs; `RunAccept`, `RunDiscard` = live-poll.mjs with live-accept.mjs; `CompleteDirectly` = live-complete.mjs |
| `OutboxHistory` | `OutboxPayout` with a history variable | `unreturned[e]`: how many refunds of e were rolled back | – |
| `MCPayoutHalves` | – | a variable that says which half of `PayoutIntent` runs | – |
| other `MC*` | – | the sets and functions the `.cfg` files use | – |
| `*Proofs` | – | – | theorems, one module per component, with its refinement; `PayoutPromiseProofs` for that of the intents, `OutboxHistoryProofs` for the ledger and the saga of the outbox |

Detailed modules are tied to the abstract ones by refinement mappings:

| Detailed | Abstract | Mapping |
|---|---|---|
| each half of `PayoutIntent` (`MCPayoutHalves`) | `PayoutPromise` (`KeepsPromise`) | `phase` from status, references and payouts |
| `OutboxHistory` | `PayoutSaga` (`KeepsSaga`) | `reserved[e]` = debits less refunds of e, made or rolled back; `unreturned` = the latter; `provider` = `sqril`, `told` = `tstatus`, `broken` = a fault happened |
| `AccountingCore` | `AtomicTransfers` (`TransfersAreAtomic`) | the balances of accounts no call transfers from to itself; `made` = `committed`; validations are no transfers |
| `JobQueue` | `JobLease` (`KeepsLease`) | `holders[j]` = the goroutines whose local `job` is j; `lapsed` = `overrun` |

Definitions marked `\* mutant` are plausible mistakes in the definition that
follows them; each checked property has one that violates it.

What the models keep is every status change, guard, early return, and the
boundaries of the database transactions. A transaction that only locks, reads and
writes rows is one step; anything between two commits can be interleaved with
everything else, lost, or cut off by a crash. Specific choices:

- **Intents.** ProcessPayment's outcome (KYC, breaker, database, duplicate) is a
  choice; only the duplicate reference is decided by the model. A reconciler's batch
  is any non-empty set of claimable intents (age, LIMIT 50, SKIP LOCKED). The 25 s
  deadline of a cycle appears as a lost status write. PayoutToPromptPay refuses only
  amounts that are not positive, which the request binding already refuses, so the
  branch that writes PAYMENT_SUCCESS_PAYOUT_PENDING cannot be reached today; the
  model keeps it as an ELSE branch, together with the fact that the value has 30
  characters and the column 20 (`back-end/schema.sql:143`, migration 000030:28).
  MoonPay, the fallback on-ramp, has no webhook. Quotes change nothing.
- **Outbox.** One event per transaction. Events that are no payouts are acknowledged
  without effect and left out. Backoff, LIMIT 10 and ORDER BY only choose among
  claimable rows. `settlement_status` is a function of `status`. SQRIL statuses other
  than SUCCESS and FAILED behave like PROCESSING. The serializable reservation is
  one step: it sums and debits behind the lock of the profile row. Two transactions of
  one user's ledger conflict if one waits for the row while the other commits, since
  each sums what the other inserts: the debit then fails (`DeductFails`), and so may the
  refund (`RefundConflicts`, which needs another worker with an event), and nothing
  repeats either transaction. Neither is a fault. SQRIL executes an idempotency key once: an assumption about it.
- **Jobs.** Ten minutes without an answer is `LockExpires`, also of a job some goroutine
  still has in hand: the reclaimer then gives it to a second one. `overrun` remembers
  these jobs; what is said of one runner and of final results exempts them, job by job.
  A notification wakes the listener and says nothing else. Any pending job may be
  dequeued next. A query that returns an error may have been done or not: the dequeue
  (`DequeueFails`) and the reclaiming UPDATE (`ReclaimFails`, which ends the tick).
- **Accounting core.** `total` and `date` are separate words: the two-step reset of a
  new day and the read–compare–swap loop are modelled step by step; loads of both
  words in one iteration are one step (a total read before another goroutine's reset
  can only fail the swap or refuse). Statements between FOR UPDATE and commit are one
  step since the rows are locked. PreHydrate is part of `Init`. Amounts are
  positive: the service does not check, and no caller in the repository sends others.
- **Saved cards.** Each awaited call is a step, so that other requests of the same user
  come in between. Supabase calls report errors in a value the functions do not look at:
  a failed write is a step that writes nothing. A customer is named after the card it
  was created with. `faults` counts killed invocations, dropped writes and lost replies
  of Omise; a refusal by Omise is no fault. KYC registration writes the email into the
  column that holds the customer id, after which each add-card is refused.
- **Live mode.** The phases that are neither new nor terminal are "active". There is one
  agent, and each of its polls takes one event. The page sends the generate event only
  after a screenshot, so its checkpoint (`Go`) and the event (`Emit`, or `Lost`) are two
  steps. A reply made while the server is down waits, or the agent completes the session
  in the journal itself (`CompleteDirectly`). A session is *crossed* from when an event
  of it is posted while an earlier one is unanswered: the server acknowledges the first
  queued event of the session a reply names, so that the properties exempt such
  sessions. Each kind of incident (crash, stop, interruption of the chat, failed script,
  lost journal write, exit button) happens at most once.
- **Tables.** Migrations 000047/000048 drop and redefine tables the Go code still
  uses; the models follow the columns the code reads and writes (`back-end/schema.sql`,
  migrations 000029, 000030).

## 3. Runs

| Run | Instance | Result |
|---|---|---|
| `PayoutIntent_full` | one intent and one refused, 2 orders, 2 handlers, 2 pods, 1 fault, fair | `CompletedIsCredited`, `PayoutsCovered`, `SettledUnlessFault` hold |
| `PayoutIntent_halves` | webhooks without reconcilers, and reconcilers without webhooks: 2 intents, 2 orders, 2 handlers, 2 pods, 3 faults | `WebhookHoldsIntent`, `PodHoldsBatch`; each half refines `PayoutPromise` (`KeepsPromise`) |
| `PayoutIntent_crash` | 1 intent, 1 pod, 1 fault, fair | **violates** `TakenIsSettled` |
| `PayoutIntent_double` | 1 intent, 1 pod, no fault | **violates** `NotProcessedTwice` |
| `OutboxPayout_full` | 2 payouts of one user who can afford either, 2 workers, RetryLimit 1, any error text, 2 faults, fair | `NeverOverdrawn`, `HeldByOne`, `NoExtraRefund`, `TriesBounded`, `PaidFromReserve`, `LedgerAgrees`, `EventEnds`, `VerdictArrives` hold; refines `PayoutSaga` (`KeepsSaga`) |
| `OutboxPayout_mangled` | 1 payout, error texts that are no JSON, no fault | **violates** `LedgerMatchesSqril` |
| `JobQueue_full` | 2 jobs, one of an unregistered type and one that may outlive its lock, 2 processes, 1 crash, loss, dequeue error or reclaim error, fair | `OneRunner`, `ResultIsFinal`, `DoneWasRun`, `EveryJobEnds` hold; refines `JobLease` (`KeepsLease`) |
| `JobQueue_dequeue_error` | 2 jobs, 1 process, 2 crashes or database errors, fair | **violates** `CrashedJobIsRetried` |
| `AccountingCore_full` | a transfer each way and a validation at one replica, one listening replica, 2 days, 1 lost commit reply | `BalanceIsPosted`, `LimitHolds` hold; refines `AtomicTransfers` (`TransfersAreAtomic`) |
| `AccountingCore_retry` | a transfer and its retry | **violates** `ReferenceUsedOnce` |
| `SavedCards_full` | 2 cards, 1 reader, 1 fault, fair | `CacheAgrees`, `PreferenceExists`, `AddedIsListed`, `EventuallyAccurate` hold |
| `LiveSession_full` | 2 sessions, up to 2 tabs, 1 incident, fair | `NothingIsLost`, `JournalMatchesQueue`, `EndedIsClean`, `ExitOnlyAlone`, `TerminalStays`, `EveryEventIsAnswered` hold |

The passing runs also check each module's `TypeOK`. `LedgerAgrees`, `KeepsSaga` and
`EventEnds` speak of behaviours without a fault, that is, without crashes and lost messages;
every refused call, serialization conflict, retry and verdict is covered. A refund that a
conflict or its error text rolls back is no exemption: `LedgerAgrees` says that the user
is then out of exactly that amount, once for each such refund (`unreturned`), and
`PayoutSaga` has a step for it (`Withhold`). `OutboxPayout_mangled` holds the same
behaviour against what the code's comments promise. `CacheAgrees`,
`PreferenceExists` and `AddedIsListed` speak of a user with one customer object and no
fault; they name the cards about which the code gives no guarantee (changed while a
reader was under way). `EventuallyAccurate` holds with faults too.

**What the violations say of the code** (`findings` in `PROJECT.json`):

1. A settler that dies, or loses its last status write, leaves an intent PROCESSING
   or RECONCILING for ever; the "stuck intents" query looks for neither.
2. The webhook refuses COMPLETED and PROCESSING but takes an intent a reconciler
   holds (RECONCILING), and credits it under another reference; and a reconciler
   resets the status unconditionally under a webhook. The payment is credited and
   paid twice. Each side alone keeps `PayoutPromise`; together they do not.
3. The refund after a failed provider call is rolled back when the error's text
   contains a quote, because the text is spliced into JSON; the retry debits again.
4. A dequeue error ends `processAvailableJobs`, and an error of the reclaiming UPDATE
   that was done all the same skips it: a job just unlocked then waits until some later
   job is enqueued.
5. The accounting core looks requests up by their reference id but stores
   `transfer_<uuid>`; a retry moves the money again.

Also seen while modelling, with no statement in the repository to hold against
them: a lost SQRIL reply makes the worker refund an executed payout; an
outbox row whose worker died stays PROCESSING; a refund that loses a serialization
conflict with another worker is not repeated, and the retry debits again; payload-worker marks payout
events PROCESSED without paying; a job that runs over ten minutes is run twice, and its later result overwrites the earlier;
a transfer to the same account creates money; the daily limit is lost by
hydrating under running calls, by refused validations and by resets at midnight
(`LimitHolds` lists these cases); each replica counts its own publications twice; two
add-cards that each find no customer leave one card in a customer nobody refers to; a
card deleted under a reader stays preferred; an accept posted again by a page loaded
anew reopens a completed session, and a discard posted before the generate is answered
may take its place in queue and journal.

**Bounds.** Two actors of each kind are enough for every pairwise interleaving,
and the properties speak of one row and at most two actors at a time. Faults are bounded
(`MaxFaults`): one fault anywhere already gives each
crash and each lost write; two let a crash follow a loss. In `JobQueue` the bound counts
crashes and database errors together, and `Slow` names the jobs that may outlive their
locks: one such job beside one that may not shows that it does the other no harm (the
theorems hold with every job slow, and any number of faults). `RetryLimit` is 1 instead
of 5 so that the limit is reached, `PayloadRetries` 1 instead of 3. In `SavedCards` a
second reader adds no case: readers only disturb adds and deletes, of which there are two
each. In `LiveSession` two sessions let the page start one while the other is still
being answered, and two tabs let one leave while the other stays. In `AccountingCore` the daily limit leaves room for one
of two transfers. Days are bounded by `MaxDays` = 2, one midnight.

**Fairness.** `PayoutIntent`: a request or cycle that has started runs to its end
unless it crashes; nothing obliges ACH to call or a cycle to claim. `OutboxPayout`:
workers poll (500 ms ticker), SQRIL decides and repeats its webhook until accepted
(an assumption on SQRIL). `JobQueue`: goroutines run, lost
connections are re-established (5 s retry), the reclaimer ticks (5 min) and time
passes. `SavedCards`: a request received runs to its end, and
the cache expires (`Date.now()` against CACHE_TTL_MS). `LiveSession`: the agent goes on
and polls again (its instructions make it loop), leases run out (`setTimeout`); nothing
makes the user or the page act. Nothing is assumed fair about crashes, faults, restarts
or enqueuing.

Runs set CHECK_DEADLOCK FALSE, since the models come to rest when their finite set of
payments, events, jobs, calls or cards is done; `LiveSession_full` checks for deadlock:
a helper can always be started again.

## 4. Proofs

All for arbitrary sets of intents, orders, handlers, pods, events, users, workers,
jobs, accounts, calls, cards, readers, sessions and tabs, and any fault bound.

- `PayoutIntentProofs`: `TypeCorrect` (`Spec => []TypeOK`) needs that a handler
  beyond "idle" has an order and a settling pod an intent. `CompletedIsAlwaysCredited`
  (`Spec => []CompletedIsCredited`): the invariant adds that a webhook in "payout" or
  "complete" has its order among the references, a reconciler there has an intent
  credited one way or the other, and that no claim remembers
  PAYMENT_SUCCESS_PAYOUT_PENDING — the one status that would let a reconciler skip
  the credit, and which cannot be stored. The property is not inductive without the
  last: the reconciler trusts what the claim read.
  `PayoutsAreCovered` (`Spec => []PayoutsCovered`) counts references: one is *spent* once
  no settler that wrote it is still about to pay. The unique reference gives each one
  settler (`OnePayerPerReference`), so a payout takes exactly one reference from unspent
  to spent, and payouts are at most the spent ones (`Covered`).
- `PayoutPromiseProofs`: webhooks without reconcilers, and reconcilers without
  webhooks, hold an intent exclusively (`WebhookLockHolds`, `PodClaimHolds`) and
  implement `PayoutPromise` (`WebhooksKeepPromise`, `ReconcilersKeepPromise`: each
  initial state maps to an initial state, each step to a step or a stutter). The
  invariants tie the status to the payouts made (`PhasesMeet`) and the payouts to
  where the one holder stands (`HandlerPaid`, `PodPaid`). Finding 2 is what happens
  to both invariants when the halves run together.
- `OutboxPayoutProofs`: the safety properties of `OutboxPayout_full` that hold with
  faults too. `TypeCorrect`;
  `NoOverdraft`; `OneHolder` (a held event is PROCESSING, and claimer, payload-worker
  and pruner only take other statuses); `NoDoubleRefund` and `PayoutsAreReserved`,
  both from `RefundInv`: each debit is answered for once, by a worker between
  deduction and verdict, by a verdict the webhook still has to bring, or by a refund
  already written; `TriesAreBounded`: a held event was claimed once more than its
  worker has seen, and until the worker debits it that claim is not used up.
- `OutboxHistoryProofs`: `LedgerAlwaysAgrees` (`HistorySpec => []LedgerAgrees`) and
  `OutboxKeepsSaga`. `LedgerAgrees` says nothing of an event while a worker has it, so it
  is far from inductive. The invariant `Sound` (in `HistoryInv`) says of every event where
  its amount is at any moment: but for what rolled back refunds left behind, one unit is out exactly while a worker is calling SQRIL or
  undoing that, while SQRIL's answer waits to be written down, and once it has been written
  down as anything but FAILED (`Charged`); SQRIL has the payout exactly if an answer waits
  or is written down; and an event whose answer is written down is claimable no more, so
  that no retry debits it again and no refund after an error gives back what SQRIL paid.
  Since a worker is alone with its event (`OneHolder`), its place alone decides (`HereMoves`),
  and other events do not notice (`OthersSound`). Nothing takes faults back (`Unbroken`),
  so only steps without one have to keep it. The same invariant gives each step of the
  outbox its step of `PayoutSaga` (`SagaHere`, `SagaVerdict`): the guards of the saga are
  what `Sound` says at the worker's place (`AtEvent`). `HistorySpec` implies `Spec`
  (`HistoryIsSpec`), which brings in the invariants of `OutboxPayoutProofs`.
- `JobQueueProofs`: `TypeCorrect`; `OneRunnerHolds` and `ResultsAreFinal`, for every
  job whose lock has not run out under a runner, and with no assumption on how long the
  other jobs take. The invariant adds that such a job, while in hand, is not stale: the
  reclaimer looks at the age of the lock, never at who runs the job. `DoneJobsWereRun`
  needs no exemption: what a goroutine knows of its job is in its own variables.
  `QueueKeepsLease` (`Spec => KeepsLease`) adds that a goroutine has a job exactly between
  its dequeue and its result (`HasJob`); that the reclaimer takes only lost or lapsed jobs
  is again the age of the lock.
- `AccountingCoreProofs`: `TypeCorrect` and `NoUpdateIsLost` (`[]BalanceIsPosted`).
  The invariant says that a call between its locks and its commit holds the lock of
  the rows it read and that they still say what it read. `DailyLimitHolds`
  (`[]LimitHolds`): for a user none of whose reservations was lost, the entry is never
  below what is due (spent today, plus reserved and not given back), so a reservation
  that fits under the limit keeps what is due under it, and a commit only moves its
  amount from reserved to spent. Amounts are summed as the cardinality of a set with one
  element per unit (`Units`), since a recursive sum cannot be unfolded in a proof.
  `TransfersTakePlaceAtOnce` (`Spec => TransfersAreAtomic`): by the same locks a commit
  writes what the balances are at that moment (`CommitIsTransfer`), and a call that reaches
  it is a transfer that has not committed before (`OnceEach`).
- `SavedCardsProofs`: `TypeCorrect`; `AddedCardsAreListed`, `CacheIsAccurate` and
  `PreferredCardExists`, by invariants that say what each request may still believe:
  which customer it has read, and which cards have changed since a reader fetched.
- `LiveSessionProofs`: all safety properties of `LiveSession_full` (`TypeCorrect`,
  `EventsAreKept`, `JournalIsTheQueue`, `EndsAreClean`, `EndsAreFinal`, `ExitsAreMeant`).
  The invariant `IInv` says per session what page, queue, journal, agent and source may
  be at once (`Placed`, `Ordered`, `Journalled`, `Ended`). Steps that touch no session's
  events are dealt with together (`Quiet`); the others are posts, replies, checkpoints,
  direct completions, and the server going down and coming back.

Only model-checked: liveness (`SettledUnlessFault`, `EventEnds`, `VerdictArrives`,
`EveryJobEnds`, `EventuallyAccurate`, `EveryEventIsAnswered`), which the provers here
cannot do. Every safety property and every refinement of a passing run is proved.

## 5. Not modelled, and the plan

Not modelled: formatting, logging, HTTP and signature checks, KYC and screening
look-ups (their verdict is a choice), QR parsing, card tokenisation, NFC document
verification, the app's screens, restarts of an accounting replica, several API
versions of one table. Of the accounting core: a transfer found to be done already
is published again (`main.go:688`) and counted again by the other replicas. Of saved
cards: a failed read of the profile or the cache. Of live mode: an accept or discard whose
script fails and whose result overrides `handled: true` (`live-accept.mjs:170`), the
`agent_error` of `live-complete` and its fallback to the journal on a reply that is not ok; steer, insert, prefetch and manual-edit events,
stream mode, the svelte-component preview, the restore of a session from the greeting of
an SSE connection, exact lease times; `live-resume` and `live-status` only read.

Most of the repository's JavaScript is no subject for these methods. Of some 90 600
lines of `.js`, `.mjs` and `.ts`, 88 000 are two identical copies of one vendored agent
skill (`.agents/skills` and `.github/skills`), and all but the live mode of it are
detectors, palettes, reports and DOM code: functions of files, or presentation. The
product's own core is in Go, with 2 500 lines of Supabase functions.

Plan, in this order:

1. Steer and insert events in `LiveSession`, and its stream mode.
2. `FxRates`: the FX engine's rate cache with its fallbacks, and its limit cache.
3. The app's reconciliation worker over the intents API, composed with `PayoutIntent`.
4. Restarts of accounting replicas.
