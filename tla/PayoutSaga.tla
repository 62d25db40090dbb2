------------------------------ MODULE PayoutSaga ------------------------------
(***************************************************************************)
(* What a payout through an outside provider promises while nothing breaks *)
(* it: the provider executes it only with the amount reserved, the amount  *)
(* is reserved once at a time and given back only if the provider has no   *)
(* part in the payout or has failed it, and the user is told the truth.    *)
(* What it does not promise: an amount whose return fails is not returned  *)
(* later, and the payout may then be tried with a new reservation.         *)
(***************************************************************************)
EXTENDS Naturals

CONSTANT Payouts

VARIABLES
  reserved,   \* reserved[p]: how often the amount of p is set aside for it
  provider,   \* provider[p]: what the provider made of p
  told,       \* told[p]: what the user is told of p
  unreturned, \* unreturned[p]: how often it was taken and its return failed
  broken      \* the promise no longer binds

vars == <<reserved, provider, told, unreturned, broken>>

Verdicts == {"SUCCESS", "FAILED"}

Init ==
  /\ reserved = [p \in Payouts |-> 0]
  /\ provider = [p \in Payouts |-> "none"]
  /\ told = [p \in Payouts |-> "PENDING"]
  /\ unreturned = [p \in Payouts |-> 0]
  /\ broken = FALSE

Reserve(p) ==
  /\ provider[p] = "none" /\ reserved[p] = 0
  /\ reserved' = [reserved EXCEPT ![p] = 1]
  /\ UNCHANGED <<provider, told, unreturned>>

Refuse(p) ==
  /\ provider[p] = "none" /\ reserved[p] = 0
  /\ told' = [told EXCEPT ![p] = "FAILED"]
  /\ UNCHANGED <<reserved, provider, unreturned>>

Execute(p) ==
  /\ provider[p] = "none" /\ reserved[p] = 1
  /\ \E answer \in Verdicts \union {"PROCESSING"} : provider' = [provider EXCEPT ![p] = answer]
  /\ UNCHANGED <<reserved, told, unreturned>>

Decide(p) ==
  /\ provider[p] = "PROCESSING"
  /\ \E verdict \in Verdicts : provider' = [provider EXCEPT ![p] = verdict]
  /\ UNCHANGED <<reserved, told, unreturned>>

\* The user hears that the payout is under way, or was made.
Tell(p) ==
  /\ provider[p] # "none" /\ told[p] # "SUCCESS" /\ reserved[p] = 1
  /\ \E news \in {"PROCESSING", provider[p]} \ {"FAILED"} : told' = [told EXCEPT ![p] = news]
  /\ UNCHANGED <<reserved, provider, unreturned>>

\* FAILED comes with the money.
GiveBack(p) ==
  /\ provider[p] \in {"none", "FAILED"} /\ told[p] # "SUCCESS" /\ reserved[p] = 1
  /\ reserved' = [reserved EXCEPT ![p] = 0]
  /\ told' = [told EXCEPT ![p] = "FAILED"]
  /\ UNCHANGED <<provider, unreturned>>

\* The return fails: what was reserved is lost to the user, who hears nothing.
Withhold(p) ==
  /\ provider[p] = "none" /\ reserved[p] = 1
  /\ reserved' = [reserved EXCEPT ![p] = 0]
  /\ unreturned' = [unreturned EXCEPT ![p] = @ + 1]
  /\ UNCHANGED <<provider, told>>

Step(p) ==
  \/ Reserve(p) \/ Refuse(p) \/ Execute(p) \/ Decide(p)
  \/ Tell(p) \/ GiveBack(p) \/ Withhold(p)

Next == broken' \/ (UNCHANGED broken /\ \E p \in Payouts : Step(p))

Spec == Init /\ [][Next]_vars

=============================================================================
