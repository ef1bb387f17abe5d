---------------------------- MODULE LinkAllocation ----------------------------
(***************************************************************************)
(* What the pools promise the affiliates of a family of houses: a request  *)
(* is given a campaign once, in one step, at which nobody else holds it;   *)
(* and no step for one affiliate takes a campaign from another.  An admin  *)
(* may replace what a holder has by a campaign that is not the pool's.     *)
(*                                                                         *)
(* The promise is for as long as whoever allocates is alone.               *)
(* LinkPoolAssignment implements this module.                              *)
(***************************************************************************)
CONSTANTS
  Requests, Campaigns,
  Pooled,     \* the campaigns that only a pool gives
  HolderOf    \* of each request: an affiliate in a house

VARIABLES
  alone,      \* no allocation has met another one so far
  holders,    \* of each pooled campaign
  given       \* the campaigns each request was given

vars == <<alone, holders, given>>

Init ==
  /\ alone = TRUE
  /\ holders = [c \in Pooled |-> {}]
  /\ given = [r \in Requests |-> {}]

\* The holder may leave another campaign for this one.
Give(r, c, left) ==
  /\ given[r] = {} /\ given' = [given EXCEPT ![r] = {c}]
  /\ c \in Pooled => holders[c] \subseteq {HolderOf[r]}
  /\ holders' = [d \in Pooled |-> IF d = c THEN {HolderOf[r]}
                                  ELSE IF d = left THEN holders[d] \ {HolderOf[r]}
                                  ELSE holders[d]]

Replace(c) ==
  /\ holders' = [holders EXCEPT ![c] = {}]
  /\ UNCHANGED given

\* Two allocations may run from here on.
Lapse == alone /\ ~alone' /\ UNCHANGED <<holders, given>>

Next ==
  \/ /\ alone /\ alone'
     /\ \/ \E r \in Requests : \E c, left \in Campaigns : Give(r, c, left)
        \/ \E c \in Pooled : Replace(c)
  \/ Lapse
  \/ ~alone /\ ~alone'

Spec == Init /\ [][Next]_vars
===============================================================================
