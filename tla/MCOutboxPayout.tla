--------------------------- MODULE MCOutboxPayout ---------------------------
(* Instances of OutboxPayout for TLC.                                      *)
EXTENDS OutboxHistory

CONSTANTS e1, e2, u1, w1, w2

OneEvent == {e1}
TwoEvents == {e1, e2}
OneUser == {u1}
OneWorker == {w1}
TwoWorkers == {w1, w2}

\* Two payouts of one user whose balance covers either, not both.
MCOwner == [e \in Events |-> u1]
MCAmount == [e \in Events |-> IF e = e1 THEN 1 ELSE 2]
MCOpening == [u \in Users |-> 2]

AnyText == {"plain", "mangled"}

=============================================================================
