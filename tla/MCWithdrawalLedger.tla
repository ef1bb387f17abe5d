------------------------- MODULE MCWithdrawalLedger --------------------------
(* Small instances of WithdrawalLedger for TLC. *)
EXTENDS WithdrawalLedger, TLC

Symmetry == Permutations(Rows) \cup Permutations(Releases) \cup Permutations(Callers)

\* Every house pays out from one real on.
MinOne == [h \in Houses |-> 1]
==============================================================================
