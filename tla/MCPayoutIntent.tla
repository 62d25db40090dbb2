--------------------------- MODULE MCPayoutIntent ---------------------------
(* Instances of PayoutIntent for TLC.                                      *)
EXTENDS PayoutIntent

CONSTANTS i1, i2, iBad, o1, o2, h1, h2, p1, p2

OneIntent == {i1}
TwoIntents == {i1, i2}
TwoAndRefused == {i1, iBad}
MCOrders == {o1, o2}
MCHandlers == {h1, h2}
MCPods == {p1, p2}
OnePod == {p1}

\* iBad's amount is refused by the request binding (gt=0).
MCAmount == [i \in Intents |-> IF i = iBad THEN 0 ELSE 100]

=============================================================================
