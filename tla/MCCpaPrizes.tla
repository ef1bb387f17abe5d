---------------------------- MODULE MCCpaPrizes ----------------------------
(* Small instances of CpaPrizes for TLC. *)
EXTENDS CpaPrizes, TLC

CONSTANTS c1, c2

\* One CPA a day.
CpaDays == (c1 :> 1) @@ (c2 :> 2)
BothFirstDay == (c1 :> 1) @@ (c2 :> 1)

Symmetry == Permutations(Evaluations) \cup Permutations(Connections)
            \cup Permutations(Editors) \cup Permutations(Handlers)
==============================================================================
