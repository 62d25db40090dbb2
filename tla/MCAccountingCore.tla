-------------------------- MODULE MCAccountingCore --------------------------
(* Instances of AccountingCore for TLC.                                    *)
EXTENDS AccountingCore

CONSTANTS a1, a2, u1, r1, r2, c1, c2, v1

TwoAccounts == {a1, a2}
OneUser == {u1}
NoReplica == {}
OneReplicaOnly == {r1}
TwoReplicas == {r1, r2}

\* Two accounts of one user, who has spent 1 and received 1 today.
MCOwner == [a \in Accounts |-> u1]
MCOpening == [a \in Accounts |-> 3]
MCBefore == [u \in Users |-> 1]

\* A transfer each way, under different reference_ids, and a validation, of
\* which the daily limit of 4 leaves room for one.
MCCalls == {c1, c2, v1}
MCValidations == {v1}
MCReference == [c \in Calls |-> c]
MCFrom == [c \in Calls |-> IF c = c2 THEN a2 ELSE a1]
MCTo == [c \in Calls |-> IF c = c2 THEN a1 ELSE a2]
MCAmount == [c \in Calls |-> 2]
MCAt == [c \in Calls |-> r1]

\* A transfer and its retry under the same reference_id.
RetryCalls == {c1, c2}
NoCalls == {}
RetryReference == [c \in Calls |-> c1]
RetryFrom == [c \in Calls |-> a1]
RetryTo == [c \in Calls |-> a2]
RetryAmount == [c \in Calls |-> 1]

=============================================================================
