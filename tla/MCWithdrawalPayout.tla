------------------------- MODULE MCWithdrawalPayout --------------------------
(* Small instances of WithdrawalPayout for TLC. *)
EXTENDS WithdrawalPayout, TLC

\* Admins are interchangeable, and so are withdrawals.
Symmetry == Permutations(Withdrawals) \cup Permutations(Approvers)
==============================================================================
