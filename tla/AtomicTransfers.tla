---------------------------- MODULE AtomicTransfers ----------------------------
(***************************************************************************)
(* What double entry promises of the balances: every transfer takes place  *)
(* at one moment, at most once, and only with the money there.  It is told *)
(* of the accounts in Accounts; the other end of a transfer may lie        *)
(* outside.                                                                *)
(***************************************************************************)
EXTENDS Integers

CONSTANTS Transfers, Accounts, From, To, Amount, Opening

VARIABLES
  balance,
  made       \* transfers that took place

vars == <<balance, made>>

Init ==
  /\ balance = [a \in Accounts |-> Opening[a]]
  /\ made = {}

Funded(t) == From[t] \in Accounts => balance[From[t]] >= Amount[t]

Transfer(t) ==
  /\ t \notin made /\ Funded(t)
  /\ balance' = [a \in Accounts |->
       balance[a] + (IF a = To[t] THEN Amount[t] ELSE 0) - (IF a = From[t] THEN Amount[t] ELSE 0)]
  /\ made' = made \union {t}

Next == \E t \in Transfers : Transfer(t)

Spec == Init /\ [][Next]_vars

=============================================================================
