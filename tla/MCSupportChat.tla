---------------------------- MODULE MCSupportChat ----------------------------
(* Small instances of SupportChat for TLC. *)
EXTENDS SupportChat, TLC

Symmetry == Permutations(Agents) \cup Permutations(Calls)
==============================================================================
