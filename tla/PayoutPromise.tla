---------------------------- MODULE PayoutPromise ----------------------------
(***************************************************************************)
(* What the payout intents promise the user, whoever settles them: an      *)
(* intent is held by one settler at a time, is paid out at most once, and  *)
(* once paid out never becomes open again.                                 *)
(***************************************************************************)
CONSTANT Intents

VARIABLE phase   \* phase[i]: how far intent i has come

Phases == {"absent", "open", "held", "paid"}

Init == phase = [i \in Intents |-> "absent"]

Open(i) == phase[i] = "absent" /\ phase' = [phase EXCEPT ![i] = "open"]

\* A settler takes some of the open intents at once.
Hold(batch) ==
  /\ \A i \in batch : phase[i] = "open"
  /\ phase' = [i \in Intents |-> IF i \in batch THEN "held" ELSE phase[i]]

Drop(i) == phase[i] = "held" /\ phase' = [phase EXCEPT ![i] = "open"]

Pay(i) == phase[i] = "held" /\ phase' = [phase EXCEPT ![i] = "paid"]

Next ==
  \/ \E i \in Intents : Open(i) \/ Drop(i) \/ Pay(i)
  \/ \E batch \in SUBSET Intents : Hold(batch)

Spec == Init /\ [][Next]_phase

=============================================================================
