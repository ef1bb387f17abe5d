-------------------------- MODULE WithdrawalAccount ---------------------------
(***************************************************************************)
(* What the ledger promises an affiliate and the affiliate's referrers of  *)
(* every house: a withdrawal happens at one instant.  At that instant its  *)
(* amount is backed by what the house earned once, and it takes the free   *)
(* withdrawal of its day or one of the extra ones that were granted, which *)
(* pays for no other.                                                      *)
(*                                                                         *)
(* WithdrawalLedger implements this module.                                *)
(***************************************************************************)
EXTENDS Naturals

CONSTANTS Houses, Amounts, Days, Extras

VARIABLES
  reserved,  \* what the living withdrawals of each house hold
  peak,      \* the most each house ever earned
  taken,     \* days whose free withdrawal is taken
  granted,   \* extra withdrawals granted for each house
  used       \* those that were used

vars == <<reserved, peak, taken, granted, used>>

Init ==
  /\ reserved = [h \in Houses |-> 0] /\ peak = [h \in Houses |-> 0]
  /\ taken = [h \in Houses |-> {}] /\ granted = [h \in Houses |-> {}]
  /\ used = {}

Earn(h) ==
  /\ \E amount \in Amounts : amount > peak[h] /\ peak' = [peak EXCEPT ![h] = amount]
  /\ UNCHANGED <<reserved, taken, granted, used>>

Grant(h, x) ==
  /\ \A k \in Houses : x \notin granted[k]
  /\ granted' = [granted EXCEPT ![h] = @ \cup {x}]
  /\ UNCHANGED <<reserved, peak, taken, used>>

Reserve(h) == \E amount \in Amounts :
  /\ reserved[h] + amount <= peak[h]
  /\ reserved' = [reserved EXCEPT ![h] = @ + amount]

WithdrawFree(h, day) ==
  /\ day \notin taken[h]
  /\ taken' = [taken EXCEPT ![h] = @ \cup {day}]
  /\ Reserve(h)
  /\ UNCHANGED <<peak, granted, used>>

WithdrawExtra(h, x) ==
  /\ x \in granted[h] \ used
  /\ used' = used \cup {x}
  /\ Reserve(h)
  /\ UNCHANGED <<peak, taken, granted>>

\* A withdrawal is refunded in part, or comes back; then its day may be free again,
\* but an extra one stays used.
GiveBack(h) ==
  /\ \E amount \in Amounts :
       amount <= reserved[h] /\ reserved' = [reserved EXCEPT ![h] = @ - amount]
  /\ \E day \in Days : taken' \in {taken, [taken EXCEPT ![h] = @ \ {day}]}
  /\ UNCHANGED <<peak, granted, used>>

Next == \E h \in Houses :
  \/ Earn(h) \/ GiveBack(h)
  \/ \E x \in Extras : Grant(h, x) \/ WithdrawExtra(h, x)
  \/ \E day \in Days : WithdrawFree(h, day)

Spec == Init /\ [][Next]_vars
===============================================================================
