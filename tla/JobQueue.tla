------------------------------- MODULE JobQueue -------------------------------
(***************************************************************************)
(* The PostgreSQL job queue: Enqueue inserts a pending row and a trigger   *)
(* notifies the listening workers; a worker dequeues one row at a time,    *)
(* runs its processor and writes the result.  Every worker process has two *)
(* goroutines, the listener and the reclaimer that rescues jobs of crashed *)
(* workers, and both of them process jobs.                                 *)
(***************************************************************************)
EXTENDS Integers, FiniteSets

CONSTANTS
  Jobs,
  Registered,    \* jobs of a type some processor is registered for
  Workers,       \* worker processes
  NoJob,
  Slow,          \* bound: jobs a goroutine may have in hand longer than a lock lasts
  MaxFaults      \* bound: crashes and database errors

ASSUME JobAssumption == NoJob \notin Jobs /\ Registered \subseteq Jobs /\ Slow \subseteq Jobs
ASSUME BoundAssumption == MaxFaults \in Nat

VARIABLES
  status,    \* jobs.status, "none" before the insert
  stale,     \* processing jobs whose locked_at is older than 10 minutes
  inbox,     \* inbox[w]: notifications sent to w's connection and not yet read
  pc,        \* pc[t]: where goroutine t stands
  job,       \* job[t]: the job t has dequeued
  failed,    \* goroutines whose processor returned an error
  ran,       \* jobs a processor was started on
  overrun,   \* history: jobs whose lock ran out while a goroutine had them in hand
  crashes,   \* crashes, lost connections and lost result writes
  dbErrors   \* dequeue and reclaim queries that returned an error

vars == <<status, stale, inbox, pc, job, failed, ran, overrun, crashes, dbErrors>>

Listener(w) == <<w, "listener">>
Reclaimer(w) == <<w, "reclaimer">>
Threads == Workers \X {"listener", "reclaimer"}

\* Where a goroutine waits: a listener starts without a connection.
Home(t) == IF t[2] = "listener" THEN "down" ELSE "wait"

Init ==
  /\ status = [j \in Jobs |-> "none"]
  /\ stale = {}
  /\ inbox = [w \in Workers |-> 0]
  /\ pc = [t \in Threads |-> Home(t)]
  /\ job = [t \in Threads |-> NoJob]
  /\ failed = {}
  /\ ran = {}
  /\ overrun = {}
  /\ crashes = 0
  /\ dbErrors = 0

Running(j) == \E t \in Threads : job[t] = j

Faultable == crashes + dbErrors < MaxFaults

-----------------------------------------------------------------------------
\* EnqueueClient.Enqueue, with the AFTER INSERT trigger.  What a notification
\* says is not read: it wakes the listener, which dequeues what there is.
Notify == [w \in Workers |-> IF pc[Listener(w)] = "down" THEN inbox[w] ELSE inbox[w] + 1]

Enqueue(j) ==
  /\ status[j] = "none"
  /\ status' = [status EXCEPT ![j] = "pending"]
  /\ inbox' = Notify
  /\ UNCHANGED <<stale, pc, job, failed, ran, overrun, crashes, dbErrors>>

-----------------------------------------------------------------------------
(* listenAndProcess.                                                       *)

FirstWait == "wait"   \* mutant
\* LISTEN, then an initial check "just in case there are pending jobs".
First == "drain"

Listen(w) ==
  /\ pc[Listener(w)] = "down"
  /\ pc' = [pc EXCEPT ![Listener(w)] = First]
  /\ UNCHANGED <<status, stale, inbox, job, failed, ran, overrun, crashes, dbErrors>>

WaitForNotification(w) ==
  /\ pc[Listener(w)] = "wait"
  /\ inbox[w] > 0
  /\ inbox' = [inbox EXCEPT ![w] = @ - 1]
  /\ pc' = [pc EXCEPT ![Listener(w)] = "drain"]
  /\ UNCHANGED <<status, stale, job, failed, ran, overrun, crashes, dbErrors>>

\* The wait returns an error; Start reconnects.  Unread notifications are gone.
ConnectionLost(w) ==
  /\ pc[Listener(w)] = "wait"
  /\ Faultable /\ crashes' = crashes + 1
  /\ pc' = [pc EXCEPT ![Listener(w)] = "down"]
  /\ inbox' = [inbox EXCEPT ![w] = 0]
  /\ UNCHANGED <<status, stale, job, failed, ran, overrun, dbErrors>>

-----------------------------------------------------------------------------
(* processAvailableJobs, run by either goroutine.                          *)

Dequeuable == {"pending"}

Dequeue(t, j) ==
  /\ pc[t] = "drain"
  /\ status[j] \in Dequeuable
  /\ status' = [status EXCEPT ![j] = "processing"]
  /\ stale' = stale \ {j}
  /\ job' = [job EXCEPT ![t] = j]
  /\ pc' = [pc EXCEPT ![t] = "run"]
  /\ UNCHANGED <<inbox, failed, ran, overrun, crashes, dbErrors>>

\* pgx.ErrNoRows: back to waiting.
Drained(t) ==
  /\ pc[t] = "drain"
  /\ \A j \in Jobs : status[j] \notin Dequeuable
  /\ pc' = [pc EXCEPT ![t] = "wait"]
  /\ UNCHANGED <<status, stale, inbox, job, failed, ran, overrun, crashes, dbErrors>>

\* Any other error: back to waiting too, whether the UPDATE was done or not.
DequeueFails(t) ==
  /\ pc[t] = "drain"
  /\ Faultable /\ dbErrors' = dbErrors + 1
  /\ \/ UNCHANGED <<status, stale>>
     \/ \E j \in Jobs :
          /\ status[j] \in Dequeuable
          /\ status' = [status EXCEPT ![j] = "processing"]
          /\ stale' = stale \ {j}
  /\ pc' = [pc EXCEPT ![t] = "wait"]
  /\ UNCHANGED <<inbox, job, failed, ran, overrun, crashes>>

\* handleJob: the processor ran, or there is none for the type.
Process(t) ==
  /\ pc[t] = "run"
  /\ IF job[t] \in Registered
     THEN /\ ran' = ran \union {job[t]}
          /\ failed' \in {failed, failed \union {t}}
     ELSE /\ failed' = failed \union {t}
          /\ UNCHANGED ran
  /\ pc' = [pc EXCEPT ![t] = "mark"]
  /\ UNCHANGED <<status, stale, inbox, job, overrun, crashes, dbErrors>>

ResultError(t) == IF t \in failed THEN "error" ELSE "completed"   \* mutant
ResultIgnored(t) == "completed"   \* mutant
ResultStatus(t) == IF t \in failed THEN "failed" ELSE "completed"

\* markJobCompleted and markJobFailed update the row whatever it says now; a
\* lost update leaves it for the reclaimer.
Mark(t) ==
  /\ pc[t] = "mark"
  /\ \/ /\ status' = [status EXCEPT ![job[t]] = ResultStatus(t)]
        /\ stale' = stale \ {job[t]}
        /\ UNCHANGED crashes
     \/ /\ Faultable /\ crashes' = crashes + 1
        /\ UNCHANGED <<status, stale>>
  /\ pc' = [pc EXCEPT ![t] = "drain"]
  /\ job' = [job EXCEPT ![t] = NoJob]
  /\ failed' = failed \ {t}
  /\ UNCHANGED <<inbox, ran, overrun, dbErrors>>

-----------------------------------------------------------------------------
(* reclaimStuckJobs.                                                       *)

\* Ten minutes pass since the job was dequeued, also under a processor that is
\* still at work on it.
LockExpires(j) ==
  /\ status[j] = "processing" /\ j \notin stale
  /\ Running(j) => j \in Slow
  /\ stale' = stale \union {j}
  /\ overrun' = IF Running(j) THEN overrun \union {j} ELSE overrun
  /\ UNCHANGED <<status, inbox, pc, job, failed, ran, crashes, dbErrors>>

ExpiredOrNot == {j \in Jobs : status[j] = "processing"}   \* mutant
Expired == {j \in Jobs : status[j] = "processing" /\ j \in stale}

\* The reclaiming UPDATE: what has expired is pending again, whoever runs it.
ResetExpired ==
  /\ status' = [j \in Jobs |-> IF j \in Expired THEN "pending" ELSE status[j]]
  /\ stale' = stale \ Expired

\* A tick that finds something resets it and processes it right away.
Reclaim(w) ==
  /\ pc[Reclaimer(w)] = "wait"
  /\ Expired # {}
  /\ ResetExpired
  /\ pc' = [pc EXCEPT ![Reclaimer(w)] = "drain"]
  /\ UNCHANGED <<inbox, job, failed, ran, overrun, crashes, dbErrors>>

\* The UPDATE returns an error, done or not: the tick ends with "continue" and
\* processes nothing.
ReclaimFails(w) ==
  /\ pc[Reclaimer(w)] = "wait"
  /\ Faultable /\ dbErrors' = dbErrors + 1
  /\ ResetExpired \/ UNCHANGED <<status, stale>>
  /\ UNCHANGED <<inbox, pc, job, failed, ran, overrun, crashes>>

-----------------------------------------------------------------------------
\* The process dies, whatever its goroutines are doing, and is started again.
Crash(w) ==
  /\ Faultable /\ crashes' = crashes + 1
  /\ pc' = [t \in Threads |-> IF t[1] = w THEN Home(t) ELSE pc[t]]
  /\ job' = [t \in Threads |-> IF t[1] = w THEN NoJob ELSE job[t]]
  /\ failed' = {t \in failed : t[1] # w}
  /\ inbox' = [inbox EXCEPT ![w] = 0]
  /\ UNCHANGED <<status, stale, ran, overrun, dbErrors>>

Work(t) ==
  (\E j \in Jobs : Dequeue(t, j)) \/ Drained(t) \/ DequeueFails(t) \/ Process(t) \/ Mark(t)

Next ==
  \/ \E j \in Jobs : Enqueue(j) \/ LockExpires(j)
  \/ \E w \in Workers :
       Listen(w) \/ WaitForNotification(w) \/ ConnectionLost(w)
       \/ Reclaim(w) \/ ReclaimFails(w) \/ Crash(w)
  \/ \E t \in Threads : Work(t)

Spec == Init /\ [][Next]_vars

\* Goroutines run, connections come up, tickers tick and ten minutes pass.
FairSpec ==
  /\ Spec
  /\ \A t \in Threads : WF_vars(Work(t))
  /\ \A w \in Workers :
       WF_vars(Listen(w)) /\ WF_vars(WaitForNotification(w)) /\ WF_vars(Reclaim(w))
  /\ \A j \in Jobs : WF_vars(LockExpires(j))

-----------------------------------------------------------------------------
(* What is checked.                                                        *)

TypeOK ==
  /\ status \in [Jobs -> {"none", "pending", "processing", "completed", "failed"}]
  /\ stale \subseteq Jobs
  /\ inbox \in [Workers -> Nat]
  /\ pc \in [Threads -> {"down", "wait", "drain", "run", "mark"}]
  /\ job \in [Threads -> Jobs \union {NoJob}]
  /\ failed \subseteq Threads
  /\ ran \subseteq Jobs
  /\ overrun \subseteq Jobs
  /\ crashes \in Nat
  /\ dbErrors \in Nat

\* A job whose lock has never run out under its processor is in the hands of
\* one goroutine at a time, of all workers' listeners and reclaimers, and its
\* row says so: the unconditional UPDATEs of Mark never hit a row of someone
\* else, however late another job's worker is.
OneRunner ==
  \A t \in Threads : job[t] # NoJob /\ job[t] \notin overrun =>
    /\ status[job[t]] = "processing"
    /\ \A s \in Threads : job[s] = job[t] => s = t

\* A result is rewritten only where a processor outlived its lock: no crash,
\* lost write, dequeue or reclaim reopens or rewrites any other.
ResultIsFinal ==
  [][\A j \in Jobs \ overrun :
       status[j] \in {"completed", "failed"} => status'[j] = status[j]]_vars

Lease == INSTANCE JobLease WITH
  Runners <- Threads,
  holders <- [j \in Jobs |-> {t \in Threads : job[t] = j}],
  lapsed <- overrun

\* Rows, locks and reclaimer keep the promise of JobLease: only a goroutine
\* that has a job writes its result, and only a job whose goroutine is gone,
\* or has outlived its lock, goes back to pending.
KeepsLease == Lease!Spec

\* A completed job was run; only jobs nobody is registered for fail unrun.
DoneWasRun ==
  \A j \in Jobs :
    /\ status[j] = "completed" => j \in ran
    /\ status[j] = "failed" /\ j \notin ran => j \notin Registered

\* Every job enqueued gets its result, over crashes of the worker that had
\* it, lost notifications, lost result writes and processors that outlive their
\* locks.  (A dequeue or reclaim error may strand it: CrashedJobIsRetried.)
EveryJobEnds ==
  \A j \in Jobs :
    status[j] = "pending" ~> status[j] \in {"completed", "failed"} \/ dbErrors > 0

\* The README's promise for a worker that crashed mid-job: the job is unlocked
\* and tried again.
CrashedJobIsRetried ==
  \A j \in Jobs :
    status[j] = "processing" /\ ~Running(j) ~> Running(j) \/ status[j] \in {"completed", "failed"}

=============================================================================
