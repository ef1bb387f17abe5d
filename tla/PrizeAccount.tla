----------------------------- MODULE PrizeAccount -----------------------------
(***************************************************************************)
(* What the prizes of a rule promise an affiliate: awards are numbered and *)
(* given in one step, against CPAs that no other version of the rule has   *)
(* counted; an award is owed until it is paid or void, for good, and paid  *)
(* is credited once; a rule that owes or paid anything stays.              *)
(*                                                                         *)
(* The promise excepts CPAs while versions meet on one day, and awards two *)
(* requests were about at once.  CpaPrizes implements this module.         *)
(***************************************************************************)
EXTENDS Naturals, FiniteSets

CONSTANTS Cpas, Versions, Cycles, Prices

VARIABLES
  gone,      \* the rule and its versions
  orderly,   \* versions have not met so far
  price,     \* CPAs a prize of each version takes
  counted,   \* CPAs each version has given for
  award,     \* of each version and number: "none", "owed", "paid", "void"
  credits,   \* of each award
  disputed   \* awards two requests were about at once

vars == <<gone, orderly, price, counted, award, credits, disputed>>
awardVars == <<award, credits>>

Given(v) == {i \in Cycles : award[v][i] # "none"}

Init ==
  /\ gone = FALSE /\ orderly = TRUE
  /\ price \in [Versions -> Prices]
  /\ counted = [v \in Versions |-> {}]
  /\ award = [v \in Versions |-> [i \in Cycles |-> "none"]]
  /\ credits = [v \in Versions |-> [i \in Cycles |-> 0]]
  /\ disputed = {}

\* A version that has counted nothing may still set its price.
Reprice(v) ==
  /\ counted[v] = {} /\ Given(v) = {}
  /\ price' \in [Versions -> Prices] /\ \A w \in Versions \ {v} : price'[w] = price[w]
  /\ orderly' \in {orderly, FALSE}
  /\ UNCHANGED <<gone, counted, awardVars, disputed>>

\* Versions meet from here on.
Lapse ==
  /\ ~orderly'
  /\ UNCHANGED <<gone, price, counted, awardVars, disputed>>

\* More CPAs are counted, and awards given up to a number they pay for.
Award(v) == \E more \in SUBSET Cpas, n \in Cycles \cup {0} :
  /\ ~gone
  /\ orderly => \A w \in Versions \ {v} : more \cap counted[w] = {}
  /\ counted' = [counted EXCEPT ![v] = @ \cup more]
  /\ Given(v) \subseteq 1..n /\ n * price[v] <= Cardinality(counted'[v])
  /\ award' = [award EXCEPT ![v] =
                 [i \in Cycles |-> IF i \in (1..n) \ Given(v) THEN "owed" ELSE @[i]]]
  /\ UNCHANGED <<gone, orderly, price, credits, disputed>>

Become(v, i, standing) ==
  /\ award' = [award EXCEPT ![v][i] = standing]
  /\ credits' = [credits EXCEPT ![v][i] = IF standing = "paid" THEN @ + 1 ELSE @]
  /\ UNCHANGED <<gone, orderly, price, counted, disputed>>

Settle(v, i) ==
  /\ award[v][i] = "owed"
  /\ \E standing \in {"paid", "void"} : Become(v, i, standing)

Dispute(v, i) ==
  /\ i \in Given(v)
  /\ disputed' = disputed \cup {<<v, i>>}
  /\ UNCHANGED <<gone, orderly, price, counted, awardVars>>

\* Whichever of the requests is the last decides.
Overrule(v, i) ==
  /\ <<v, i>> \in disputed
  /\ \E standing \in {"owed", "paid", "void"} : Become(v, i, standing)

Remove ==
  /\ \A v \in Versions : Given(v) = {}
  /\ gone' = TRUE
  /\ UNCHANGED <<orderly, price, counted, awardVars, disputed>>

Next ==
  \/ Lapse \/ Remove
  \/ \E v \in Versions :
       \/ Reprice(v) \/ Award(v)
       \/ \E i \in Cycles : Settle(v, i) \/ Dispute(v, i) \/ Overrule(v, i)

Spec == Init /\ [][Next]_vars
===============================================================================
