---------------------------- MODULE JobQueueProofs ----------------------------
(***************************************************************************)
(* Theorems about JobQueue, for any number of jobs and worker processes:   *)
(* its variables keep their types, and a job whose lock has not run out    *)
(* under its processor has one runner at a time and a final result.        *)
(***************************************************************************)
EXTENDS JobQueue, TLAPS

\* Each variable of the queue keeps its type, through every operation of both
\* goroutines and of the enqueuer.
THEOREM TypeCorrect == Spec => []TypeOK
<1>1. Init => TypeOK
  BY JobAssumption DEF Init, TypeOK, Home, Threads
<1>2. TypeOK /\ [Next]_vars => TypeOK'
  <2> SUFFICES ASSUME TypeOK, [Next]_vars PROVE TypeOK'
    OBVIOUS
  <2> USE JobAssumption DEF TypeOK
  <2>1. ASSUME NEW j \in Jobs, Enqueue(j) PROVE TypeOK'
    BY <2>1 DEF Enqueue, Notify
  <2>2. ASSUME NEW j \in Jobs, LockExpires(j) PROVE TypeOK'
    BY <2>2 DEF LockExpires
  <2>3. ASSUME NEW w \in Workers, Listen(w) PROVE TypeOK'
    BY <2>3 DEF Listen, First, Listener, Threads
  <2>4. ASSUME NEW w \in Workers, WaitForNotification(w) PROVE TypeOK'
    BY <2>4 DEF WaitForNotification, Listener, Threads
  <2>5. ASSUME NEW w \in Workers, ConnectionLost(w) PROVE TypeOK'
    BY <2>5 DEF ConnectionLost, Listener, Threads
  <2>6. ASSUME NEW w \in Workers, Reclaim(w) PROVE TypeOK'
    BY <2>6 DEF Reclaim, ResetExpired, Reclaimer, Threads
  <2>7. ASSUME NEW w \in Workers, Crash(w) PROVE TypeOK'
    BY <2>7 DEF Crash, Home, Threads
  <2>8. ASSUME NEW t \in Threads, Work(t) PROVE TypeOK'
    <3>1. ASSUME NEW j \in Jobs, Dequeue(t, j) PROVE TypeOK'
      BY <3>1 DEF Dequeue
    <3>2. CASE Drained(t)
      BY <3>2 DEF Drained
    <3>3. CASE DequeueFails(t)
      BY <3>3 DEF DequeueFails
    <3>4. CASE Process(t)
      BY <3>4 DEF Process
    <3>5. CASE Mark(t)
      BY <3>5 DEF Mark, ResultStatus
    <3> QED
      BY <2>8, <3>1, <3>2, <3>3, <3>4, <3>5 DEF Work
  <2>9. ASSUME NEW w \in Workers, ReclaimFails(w) PROVE TypeOK'
    BY <2>9 DEF ReclaimFails, ResetExpired
  <2>10. CASE UNCHANGED vars
    BY <2>10 DEF vars
  <2> QED
    BY <2>1, <2>2, <2>3, <2>4, <2>5, <2>6, <2>7, <2>8, <2>9, <2>10 DEF Next
<1> QED
  BY <1>1, <1>2, PTL DEF Spec

-----------------------------------------------------------------------------
(* One runner.  The invariant adds that a job in hand is not stale unless   *)
(* its lock ran out there: what the reclaimer looks at is locked_at, not    *)
(* who runs the job, and only the age of the lock keeps the two apart.      *)

InHandIsFresh ==
  \A t \in Threads : job[t] # NoJob /\ job[t] \notin overrun => job[t] \notin stale

Inv == TypeOK /\ OneRunner /\ InHandIsFresh

\* A row the dequeue finds pending is in nobody's hands but those of a
\* processor that has outlived its lock.
LEMMA PendingIsFree ==
  ASSUME OneRunner, NEW j \in Jobs \ overrun, status[j] \in Dequeuable
  PROVE  \A s \in Threads : job[s] # j
BY JobAssumption DEF OneRunner, Dequeuable

LEMMA InvStep ==
  ASSUME Inv, Next
  PROVE  OneRunner' /\ InHandIsFresh'
<1> USE JobAssumption DEF Inv, TypeOK, OneRunner, InHandIsFresh
<1>1. ASSUME NEW j \in Jobs, Enqueue(j) PROVE OneRunner' /\ InHandIsFresh'
  BY <1>1 DEF Enqueue
<1>2. ASSUME NEW j \in Jobs, LockExpires(j) PROVE OneRunner' /\ InHandIsFresh'
  BY <1>2 DEF LockExpires, Running
<1>3. ASSUME NEW w \in Workers, Listen(w) PROVE OneRunner' /\ InHandIsFresh'
  BY <1>3 DEF Listen
<1>4. ASSUME NEW w \in Workers, WaitForNotification(w) PROVE OneRunner' /\ InHandIsFresh'
  BY <1>4 DEF WaitForNotification
<1>5. ASSUME NEW w \in Workers, ConnectionLost(w) PROVE OneRunner' /\ InHandIsFresh'
  BY <1>5 DEF ConnectionLost
<1>6. ASSUME NEW w \in Workers, Reclaim(w) PROVE OneRunner' /\ InHandIsFresh'
  BY <1>6 DEF Reclaim, ResetExpired, Expired
<1>7. ASSUME NEW w \in Workers, Crash(w) PROVE OneRunner' /\ InHandIsFresh'
  BY <1>7 DEF Crash
<1>8. ASSUME NEW t \in Threads, Work(t) PROVE OneRunner' /\ InHandIsFresh'
  <2>1. ASSUME NEW j \in Jobs, Dequeue(t, j) PROVE OneRunner' /\ InHandIsFresh'
    <3>1. j \notin overrun => \A s \in Threads : job[s] # j
      BY <2>1, PendingIsFree DEF Dequeue
    <3> QED
      BY <2>1, <3>1 DEF Dequeue
  <2>2. CASE Drained(t)
    BY <2>2 DEF Drained
  <2>3. CASE DequeueFails(t)
    <3>1. CASE UNCHANGED <<status, stale>>
      BY <2>3, <3>1 DEF DequeueFails
    <3>2. CASE ~UNCHANGED <<status, stale>>
      <4>1. PICK j \in Jobs :
              /\ status[j] \in Dequeuable
              /\ status' = [status EXCEPT ![j] = "processing"]
              /\ stale' = stale \ {j}
        BY <2>3, <3>2 DEF DequeueFails
      <4>2. j \notin overrun => \A s \in Threads : job[s] # j
        BY <4>1, PendingIsFree
      <4> QED
        BY <2>3, <4>1, <4>2 DEF DequeueFails
    <3> QED
      BY <3>1, <3>2
  <2>4. CASE Process(t)
    BY <2>4 DEF Process
  <2>5. CASE Mark(t)
    BY <2>5 DEF Mark
  <2> QED
    BY <1>8, <2>1, <2>2, <2>3, <2>4, <2>5 DEF Work
<1>9. ASSUME NEW w \in Workers, ReclaimFails(w) PROVE OneRunner' /\ InHandIsFresh'
  BY <1>9 DEF ReclaimFails, ResetExpired, Expired
<1> QED
  BY <1>1, <1>2, <1>3, <1>4, <1>5, <1>6, <1>7, <1>8, <1>9 DEF Next

LEMMA InvHolds == Spec => []Inv
<1>1. Init => OneRunner /\ InHandIsFresh
  BY JobAssumption DEF Init, OneRunner, InHandIsFresh, Threads
<1>2. Inv /\ TypeOK' /\ [Next]_vars => Inv'
  <2> SUFFICES ASSUME Inv, TypeOK', [Next]_vars PROVE Inv'
    OBVIOUS
  <2>1. CASE Next
    BY <2>1, InvStep DEF Inv
  <2>2. CASE UNCHANGED vars
    BY <2>2 DEF vars, Inv, OneRunner, InHandIsFresh
  <2> QED
    BY <2>1, <2>2
<1> QED
  BY <1>1, <1>2, TypeCorrect, PTL DEF Spec, Inv

\* No two goroutines of any number of workers ever run the same job, and the
\* row of a running job stays processing, unless that job's lock has run out
\* under its processor: neither crashes nor database errors nor another job's
\* late worker take it away.
THEOREM OneRunnerHolds == Spec => []OneRunner
<1>1. Inv => OneRunner
  BY DEF Inv
<1> QED
  BY <1>1, InvHolds, PTL

\* The unconditional UPDATEs of markJobCompleted and markJobFailed touch a row
\* that already has its result only when a processor has outlived its lock on
\* that very job, and nothing else does: any other result is final.
THEOREM ResultsAreFinal == Spec => ResultIsFinal
<1> DEFINE Kept == \A j \in Jobs \ overrun :
                    status[j] \in {"completed", "failed"} => status'[j] = status[j]
<1>1. Inv /\ [Next]_vars => [Kept]_vars
  <2> SUFFICES ASSUME Inv, Next PROVE Kept
    OBVIOUS
  <2> USE JobAssumption DEF Inv, TypeOK, OneRunner
  <2>1. ASSUME NEW j \in Jobs, Enqueue(j) \/ LockExpires(j) PROVE Kept
    BY <2>1 DEF Enqueue, LockExpires
  <2>2. ASSUME NEW w \in Workers,
               Listen(w) \/ WaitForNotification(w) \/ ConnectionLost(w) \/ Crash(w)
        PROVE  Kept
    BY <2>2 DEF Listen, WaitForNotification, ConnectionLost, Crash
  <2>3. ASSUME NEW w \in Workers, Reclaim(w) \/ ReclaimFails(w) PROVE Kept
    BY <2>3 DEF Reclaim, ReclaimFails, ResetExpired, Expired
  <2>4. ASSUME NEW t \in Threads, Work(t) PROVE Kept
    BY <2>4 DEF Work, Dequeue, Drained, DequeueFails, Dequeuable, Process, Mark
  <2> QED
    BY <2>1, <2>2, <2>3, <2>4 DEF Next
<1>2. Spec => []Inv
  BY InvHolds
<1> QED
  BY <1>1, <1>2, PTL DEF Spec, ResultIsFinal

-----------------------------------------------------------------------------
(* Results are earned.  handleJob keeps the outcome in local variables: a   *)
(* goroutine about to write a result has run the job or found no processor, *)
(* and what it read of the queue before does not matter.                    *)

\* What a goroutine at "mark" knows of its job.
Earned(t) ==
  /\ t \notin failed => job[t] \in ran
  /\ job[t] \notin ran => job[t] \notin Registered

EarnInv ==
  /\ \A t \in Threads : pc[t] \in {"run", "mark"} => job[t] \in Jobs
  /\ \A t \in Threads : pc[t] = "mark" => Earned(t)
  /\ DoneWasRun

\* Steps that run nothing and write no result.
LEMMA NothingRuns ==
  ASSUME TypeOK, EarnInv, UNCHANGED ran,
         \A t \in Threads : pc'[t] \in {"run", "mark"} =>
           pc'[t] = pc[t] /\ job'[t] = job[t] /\ (t \in failed' <=> t \in failed),
         \A j \in Jobs : status'[j] \in {"completed", "failed"} => status'[j] = status[j]
  PROVE  EarnInv'
BY DEF EarnInv, Earned, DoneWasRun

LEMMA EarnStep ==
  ASSUME TypeOK, EarnInv, Next
  PROVE  EarnInv'
<1>1. ASSUME NEW j \in Jobs, Enqueue(j) \/ LockExpires(j) PROVE EarnInv'
  BY <1>1, NothingRuns DEF Enqueue, LockExpires, TypeOK
<1>2. ASSUME NEW w \in Workers, Listen(w) \/ WaitForNotification(w) \/ ConnectionLost(w) PROVE EarnInv'
  BY <1>2, NothingRuns DEF Listen, WaitForNotification, ConnectionLost, First, TypeOK
<1>3. ASSUME NEW w \in Workers, Reclaim(w) \/ ReclaimFails(w) PROVE EarnInv'
  BY <1>3, NothingRuns DEF Reclaim, ReclaimFails, ResetExpired, TypeOK
<1>4. ASSUME NEW w \in Workers, Crash(w) PROVE EarnInv'
  BY <1>4, NothingRuns DEF Crash, Home, TypeOK
<1>5. ASSUME NEW t \in Threads, NEW j \in Jobs, Dequeue(t, j) PROVE EarnInv'
  BY <1>5 DEF Dequeue, EarnInv, Earned, DoneWasRun, TypeOK
<1>6. ASSUME NEW t \in Threads, Drained(t) \/ DequeueFails(t) PROVE EarnInv'
  BY <1>6, NothingRuns DEF Drained, DequeueFails, TypeOK
<1>7. ASSUME NEW t \in Threads, Process(t) PROVE EarnInv'
  <2>1. /\ job[t] \in Jobs /\ pc' = [pc EXCEPT ![t] = "mark"]
        /\ UNCHANGED <<status, job>>
        /\ \A s \in Threads \ {t} : s \in failed' <=> s \in failed
    BY <1>7 DEF Process, EarnInv
  <2>2. /\ ran \subseteq ran'
        /\ job[t] \in Registered => job[t] \in ran'
        /\ job[t] \notin Registered => t \in failed'
    BY <1>7, <2>1 DEF Process, TypeOK
  <2>3. DoneWasRun'
    BY <2>1, <2>2 DEF EarnInv, DoneWasRun
  <2>4. ASSUME NEW s \in Threads, pc'[s] \in {"run", "mark"}
        PROVE  job'[s] \in Jobs /\ (pc'[s] = "mark" => Earned(s)')
    <3>1. CASE s = t
      BY <2>1, <2>2, <3>1 DEF Earned
    <3>2. CASE s # t
      BY <2>1, <2>2, <2>4, <3>2 DEF EarnInv, Earned, TypeOK
    <3> QED
      BY <3>1, <3>2
  <2> QED
    BY <2>3, <2>4 DEF EarnInv
<1>8. ASSUME NEW t \in Threads, Mark(t) PROVE EarnInv'
  <2>1. /\ job[t] \in Jobs /\ Earned(t)
        /\ pc' = [pc EXCEPT ![t] = "drain"] /\ job' = [job EXCEPT ![t] = NoJob]
        /\ failed' = failed \ {t} /\ UNCHANGED ran
        /\ status' = status \/ status' = [status EXCEPT ![job[t]] = ResultStatus(t)]
    BY <1>8 DEF Mark, EarnInv
  <2>2. DoneWasRun'
    BY <2>1 DEF EarnInv, DoneWasRun, Earned, ResultStatus, TypeOK
  <2>3. \A s \in Threads : pc'[s] \in {"run", "mark"} =>
          pc'[s] = pc[s] /\ job'[s] = job[s] /\ (s \in failed' <=> s \in failed)
    BY <2>1 DEF TypeOK
  <2> QED
    BY <2>1, <2>2, <2>3 DEF EarnInv, Earned
<1> QED
  BY <1>1, <1>2, <1>3, <1>4, <1>5, <1>6, <1>7, <1>8 DEF Next, Work

\* No job reads completed without having been run, and only jobs nobody is
\* registered for fail without: also when processors outlive their locks, jobs
\* are reclaimed under them and workers crash.
THEOREM DoneJobsWereRun == Spec => []DoneWasRun
<1>1. Init => EarnInv
  BY DEF Init, EarnInv, Earned, DoneWasRun, Home, Threads
<1>2. TypeOK /\ EarnInv /\ [Next]_vars => EarnInv'
  BY EarnStep, NothingRuns DEF vars
<1>3. EarnInv => DoneWasRun
  BY DEF EarnInv
<1> QED
  BY <1>1, <1>2, <1>3, TypeCorrect, PTL DEF Spec

-----------------------------------------------------------------------------
(* The queue leases its jobs.  A goroutine has a job from its dequeue to    *)
(* the writing of the result, and none while it looks for the next one.     *)

HasJob == \A t \in Threads : job[t] # NoJob <=> pc[t] \in {"run", "mark"}

LeaseInv == Inv /\ HasJob

Holders == [j \in Jobs |-> {t \in Threads : job[t] = j}]

LEMMA HasJobStep ==
  ASSUME TypeOK, HasJob, [Next]_vars
  PROVE  HasJob'
<1> USE DEF HasJob, TypeOK
<1>1. ASSUME NEW j \in Jobs, Enqueue(j) \/ LockExpires(j) PROVE HasJob'
  BY <1>1 DEF Enqueue, LockExpires
<1>2. ASSUME NEW w \in Workers,
             Listen(w) \/ WaitForNotification(w) \/ ConnectionLost(w) \/ Reclaim(w) \/ ReclaimFails(w)
      PROVE  HasJob'
  BY <1>2 DEF Listen, First, WaitForNotification, ConnectionLost, Reclaim, ReclaimFails
<1>3. ASSUME NEW w \in Workers, Crash(w) PROVE HasJob'
  BY <1>3 DEF Crash, Home
<1>4. ASSUME NEW t \in Threads, NEW j \in Jobs, Dequeue(t, j) PROVE HasJob'
  BY <1>4, JobAssumption DEF Dequeue
<1>5. ASSUME NEW t \in Threads, Drained(t) \/ DequeueFails(t) \/ Process(t) PROVE HasJob'
  BY <1>5 DEF Drained, DequeueFails, Process
<1>6. ASSUME NEW t \in Threads, Mark(t) PROVE HasJob'
  BY <1>6 DEF Mark
<1>7. CASE UNCHANGED vars
  BY <1>7 DEF vars
<1> QED
  BY <1>1, <1>2, <1>3, <1>4, <1>5, <1>6, <1>7 DEF Next, Work

\* What a job's holders are after a goroutine has taken or left one job.
LEMMA HoldersAfter ==
  ASSUME TypeOK, NEW t \in Threads, NEW j \in Jobs
  PROVE  /\ job[t] = NoJob /\ job' = [job EXCEPT ![t] = j] =>
              Holders' = [Holders EXCEPT ![j] = @ \union {t}]
         /\ job[t] = j /\ job' = [job EXCEPT ![t] = NoJob] =>
              Holders' = [Holders EXCEPT ![j] = @ \ {t}]
<1>1. ASSUME job[t] = NoJob, job' = [job EXCEPT ![t] = j]
      PROVE  Holders' = [Holders EXCEPT ![j] = @ \union {t}]
  <2>1. \A i \in Jobs : {s \in Threads : job'[s] = i} =
                        IF i = j THEN {s \in Threads : job[s] = i} \union {t} ELSE {s \in Threads : job[s] = i}
    BY <1>1, JobAssumption DEF TypeOK
  <2> QED
    BY <2>1 DEF Holders
<1>2. ASSUME job[t] = j, job' = [job EXCEPT ![t] = NoJob]
      PROVE  Holders' = [Holders EXCEPT ![j] = @ \ {t}]
  <2>1. \A i \in Jobs : {s \in Threads : job'[s] = i} =
                        IF i = j THEN {s \in Threads : job[s] = i} \ {t} ELSE {s \in Threads : job[s] = i}
    BY <1>2, JobAssumption DEF TypeOK
  <2> QED
    BY <2>1 DEF Holders
<1> QED
  BY <1>1, <1>2

\* The dequeue: the row was pending, so nobody has the job, or it has lapsed.
LEMMA LeaseTake ==
  ASSUME LeaseInv, NEW t \in Threads, NEW j \in Jobs, Dequeue(t, j)
  PROVE  Lease!Take(j, t)
<1>1. /\ status[j] = "pending" /\ job[t] = NoJob
      /\ status' = [status EXCEPT ![j] = "processing"]
      /\ job' = [job EXCEPT ![t] = j] /\ UNCHANGED overrun
  BY DEF Dequeue, Dequeuable, LeaseInv, HasJob
<1>2. Holders[j] = {} \/ j \in overrun
  BY PendingIsFree DEF Dequeue, LeaseInv, Inv, Holders
<1>3. \A i \in Jobs : t \notin Holders[i]
  BY <1>1, JobAssumption DEF Holders
<1>4. Holders' = [Holders EXCEPT ![j] = @ \union {t}]
  BY <1>1, HoldersAfter DEF LeaseInv, Inv
<1> QED
  BY <1>1, <1>2, <1>3, <1>4 DEF Lease!Take, Lease!Free, Holders

\* Holders only lose runners.
LEMMA LeaseLose ==
  ASSUME TypeOK, \A t \in Threads : job'[t] = job[t] \/ job'[t] = NoJob, UNCHANGED <<status, overrun>>
  PROVE  Lease!Lose
<1>1. /\ Holders' \in [Jobs -> SUBSET Threads]
      /\ \A j \in Jobs : Holders'[j] \subseteq Holders[j]
  BY JobAssumption DEF Holders
<1> QED
  BY <1>1 DEF Lease!Lose, Holders

\* The result is written by a goroutine that has the job, the only one unless
\* the job has lapsed, or is lost with it.
LEMMA LeaseEnds ==
  ASSUME LeaseInv, NEW t \in Threads, Mark(t), NEW j \in Jobs, job[t] = j
  PROVE  Lease!Finish(j, t) \/ Lease!Lose
<1> USE DEF LeaseInv, Inv
<1>1. job' = [job EXCEPT ![t] = NoJob] /\ UNCHANGED overrun
  BY DEF Mark
<1>2. t \in Holders[j]
  BY DEF Holders
<1>3. j \in overrun \/ (status[j] = "processing" /\ Holders[j] = {t})
  BY JobAssumption DEF OneRunner, Holders
<1>4. Holders' = [Holders EXCEPT ![j] = @ \ {t}]
  BY <1>1, HoldersAfter
<1>5. CASE status' = [status EXCEPT ![j] = ResultStatus(t)]
  BY <1>1, <1>2, <1>3, <1>4, <1>5 DEF Lease!Finish, Lease!Results, ResultStatus, Holders
<1>6. CASE UNCHANGED status
  BY <1>1, <1>6, LeaseLose DEF TypeOK
<1> QED
  BY <1>5, <1>6 DEF Mark

\* What the reclaiming UPDATE finds stale is in nobody's hands, or has lapsed.
LEMMA LeaseReset ==
  ASSUME LeaseInv, ResetExpired, UNCHANGED <<job, overrun>>
  PROVE  \E jobs \in SUBSET Jobs : Lease!GiveBack(jobs)
<1>1. \A j \in Expired : status[j] = "processing" /\ (Holders[j] = {} \/ j \in overrun)
  BY JobAssumption DEF Expired, Holders, LeaseInv, Inv, InHandIsFresh
<1>2. /\ Expired \in SUBSET Jobs /\ Holders' = Holders
      /\ status' = [j \in Jobs |-> IF j \in Expired THEN "pending" ELSE status[j]]
  BY DEF ResetExpired, Expired, Holders
<1>3. Lease!GiveBack(Expired)
  BY <1>1, <1>2 DEF Lease!GiveBack, Lease!Free, Holders
<1> QED
  BY <1>2, <1>3

\* A lock that runs out under a processor is a lease that lapses.
LEMMA LeaseLapse ==
  ASSUME LeaseInv, NEW j \in Jobs, LockExpires(j)
  PROVE  Lease!Lapse(j) \/ UNCHANGED <<status, Holders, overrun>>
<1>1. status[j] = "processing" /\ UNCHANGED <<status, Holders>>
  BY DEF LockExpires, Holders
<1>2. CASE Running(j)
  <2>1. Holders[j] # {} /\ overrun' = overrun \union {j}
    BY <1>2 DEF Running, Holders, LockExpires
  <2> QED
    BY <1>1, <2>1 DEF Lease!Lapse, Holders
<1>3. CASE ~Running(j)
  BY <1>1, <1>3 DEF LockExpires
<1> QED
  BY <1>2, <1>3

LEMMA LeaseStep ==
  ASSUME LeaseInv, [Next]_vars
  PROVE  [Lease!Next]_<<status, Holders, overrun>>
<1>1. ASSUME NEW j \in Jobs, Enqueue(j) PROVE Lease!Offer(j)
  BY <1>1 DEF Enqueue, Lease!Offer
<1>2. ASSUME NEW t \in Threads, DequeueFails(t)
      PROVE  (\E j \in Jobs : Lease!Strand(j)) \/ UNCHANGED <<status, Holders, overrun>>
  BY <1>2 DEF DequeueFails, Dequeuable, Lease!Strand, Holders
<1>3. CASE \/ \E w \in Workers : Listen(w) \/ WaitForNotification(w) \/ ConnectionLost(w)
           \/ \E t \in Threads : Drained(t) \/ Process(t)
           \/ UNCHANGED vars
  BY <1>3 DEF Listen, WaitForNotification, ConnectionLost, Drained, Process, vars, Holders
<1>4. ASSUME NEW w \in Workers, Crash(w) PROVE Lease!Lose
  BY <1>4, LeaseLose DEF LeaseInv, Inv, Crash
<1>5. ASSUME NEW w \in Workers, Reclaim(w) \/ ReclaimFails(w)
      PROVE  (\E jobs \in SUBSET Jobs : Lease!GiveBack(jobs)) \/ UNCHANGED <<status, Holders, overrun>>
  BY <1>5, LeaseReset DEF Reclaim, ReclaimFails, Holders
<1>6. ASSUME NEW t \in Threads, NEW j \in Jobs, Dequeue(t, j) PROVE Lease!Take(j, t)
  BY <1>6, LeaseTake
<1>7. ASSUME NEW t \in Threads, Mark(t)
      PROVE  (\E j \in Jobs : Lease!Finish(j, t)) \/ Lease!Lose
  <2>1. PICK j \in Jobs : job[t] = j
    BY <1>7 DEF Mark, LeaseInv, Inv, HasJob, TypeOK
  <2> QED
    BY <1>7, <2>1, LeaseEnds
<1>8. ASSUME NEW j \in Jobs, LockExpires(j)
      PROVE  Lease!Lapse(j) \/ UNCHANGED <<status, Holders, overrun>>
  BY <1>8, LeaseLapse
<1>9. ASSUME Next PROVE Lease!Next \/ UNCHANGED <<status, Holders, overrun>>
  <2>1. ASSUME NEW w \in Workers,
               \/ Listen(w) \/ WaitForNotification(w) \/ ConnectionLost(w)
               \/ Reclaim(w) \/ ReclaimFails(w) \/ Crash(w)
        PROVE  Lease!Next \/ UNCHANGED <<status, Holders, overrun>>
    BY <1>3, <1>4, <1>5, <2>1 DEF Lease!Next
  <2>2. ASSUME NEW t \in Threads, Work(t) PROVE Lease!Next \/ UNCHANGED <<status, Holders, overrun>>
    BY <1>2, <1>3, <1>6, <1>7, <2>2 DEF Work, Lease!Next
  <2>3. ASSUME NEW j \in Jobs, Enqueue(j) \/ LockExpires(j)
        PROVE  Lease!Next \/ UNCHANGED <<status, Holders, overrun>>
    BY <1>1, <1>8, <2>3 DEF Lease!Next
  <2> QED
    BY <1>9, <2>1, <2>2, <2>3 DEF Next
<1> QED
  BY <1>3, <1>9

\* Every step of the queue is a step of JobLease: the dequeue is exclusive, a
\* result comes from a goroutine that has the job, and what the reclaimer
\* resets is a job whose goroutine is gone or whose lock ran out under it.
THEOREM QueueKeepsLease == Spec => KeepsLease
<1>1. Init => Lease!Init
  BY JobAssumption DEF Init, Lease!Init, Threads
<1>2. Init => HasJob
  BY DEF Init, HasJob, Home, Threads
<1>3. TypeOK /\ HasJob /\ [Next]_vars => HasJob'
  BY HasJobStep
<1>4. Inv /\ HasJob /\ [Next]_vars => [Lease!Next]_(Lease!vars)
  BY LeaseStep DEF LeaseInv, Lease!vars, Holders
<1>5. Spec => []Inv
  BY InvHolds
<1> QED
  BY <1>1, <1>2, <1>3, <1>4, <1>5, TypeCorrect, PTL DEF Spec, KeepsLease, Lease!Spec

===============================================================================
