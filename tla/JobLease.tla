------------------------------- MODULE JobLease -------------------------------
(***************************************************************************)
(* What a queue that leases its jobs promises: a runner has a job to       *)
(* itself, it alone gives it its result, and a job whose runner is lost is *)
(* given back to the queue, and never taken out of a runner's hands.  A    *)
(* job whose lease has run out under its runner may be given to another,   *)
(* but still only who has it in hand gives it a result.                    *)
(***************************************************************************)
CONSTANTS Jobs, Runners

VARIABLES
  status,
  holders,   \* holders[j]: the runners that have job j in hand
  lapsed     \* jobs whose lease has run out under a runner

vars == <<status, holders, lapsed>>

Results == {"completed", "failed"}

Init ==
  /\ status = [j \in Jobs |-> "none"]
  /\ holders = [j \in Jobs |-> {}]
  /\ lapsed = {}

Free(j) == holders[j] = {} \/ j \in lapsed

Offer(j) ==
  /\ status[j] = "none"
  /\ status' = [status EXCEPT ![j] = "pending"]
  /\ UNCHANGED <<holders, lapsed>>

Take(j, r) ==
  /\ status[j] = "pending" /\ Free(j)
  /\ \A i \in Jobs : r \notin holders[i]
  /\ status' = [status EXCEPT ![j] = "processing"]
  /\ holders' = [holders EXCEPT ![j] = @ \union {r}]
  /\ UNCHANGED lapsed

Finish(j, r) ==
  /\ r \in holders[j]
  /\ j \in lapsed \/ (status[j] = "processing" /\ holders[j] = {r})
  /\ \E result \in Results : status' = [status EXCEPT ![j] = result]
  /\ holders' = [holders EXCEPT ![j] = @ \ {r}]
  /\ UNCHANGED lapsed

Lapse(j) ==
  /\ status[j] = "processing" /\ holders[j] # {}
  /\ lapsed' = lapsed \union {j}
  /\ UNCHANGED <<status, holders>>

\* A job nobody has in hand waits to be given back: its runner was lost ...
Lose ==
  /\ holders' \in [Jobs -> SUBSET Runners]
  /\ \A j \in Jobs : holders'[j] \subseteq holders[j]
  /\ UNCHANGED <<status, lapsed>>

\* ... or the answer to the runner that took it.
Strand(j) ==
  /\ status[j] = "pending"
  /\ status' = [status EXCEPT ![j] = "processing"]
  /\ UNCHANGED <<holders, lapsed>>

GiveBack(jobs) ==
  /\ \A j \in jobs : status[j] = "processing" /\ Free(j)
  /\ status' = [j \in Jobs |-> IF j \in jobs THEN "pending" ELSE status[j]]
  /\ UNCHANGED <<holders, lapsed>>

Next ==
  \/ Lose
  \/ \E j \in Jobs : Offer(j) \/ Lapse(j) \/ Strand(j) \/ \E r \in Runners : Take(j, r) \/ Finish(j, r)
  \/ \E jobs \in SUBSET Jobs : GiveBack(jobs)

Spec == Init /\ [][Next]_vars

=============================================================================
