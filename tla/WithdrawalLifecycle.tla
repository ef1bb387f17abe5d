------------------------- MODULE WithdrawalLifecycle -------------------------
(***************************************************************************)
(* What a withdrawal promises to the ledger and to the affiliate, whatever *)
(* admins, gateway, webhooks, cron and crashes do.  A withdrawal starts by *)
(* holding its amount ("open") and is then either "settled" (the amount    *)
(* stays deducted) or "released" (it returns to the affiliate), once and   *)
(* for all.  Money is sent at most once, never after the release.  At most *)
(* one credit, for money the recipient returned, is booked against money   *)
(* that was sent.                                                          *)
(*                                                                         *)
(* WithdrawalPayout implements this module.                                *)
(***************************************************************************)
EXTENDS Naturals

CONSTANTS Withdrawals, MaxCredit

VARIABLES
  phase,    \* "open", "settled" or "released"
  sent,     \* how often its money was sent
  credit    \* what was credited back

vars == <<phase, sent, credit>>

Init ==
  /\ phase = [w \in Withdrawals |-> "open"]
  /\ sent = [w \in Withdrawals |-> 0]
  /\ credit = [w \in Withdrawals |-> 0]

Send(w) ==
  /\ sent[w] = 0
  /\ phase[w] # "released"
  /\ sent' = [sent EXCEPT ![w] = 1]
  /\ UNCHANGED <<phase, credit>>

Settle(w) ==
  /\ phase[w] = "open"
  /\ phase' = [phase EXCEPT ![w] = "settled"]
  /\ UNCHANGED <<sent, credit>>

Release(w) ==
  /\ phase[w] = "open"
  /\ phase' = [phase EXCEPT ![w] = "released"]
  /\ UNCHANGED <<sent, credit>>

Credit(w) ==
  /\ sent[w] = 1
  /\ phase[w] # "released"
  /\ credit[w] = 0
  /\ \E amount \in 1..MaxCredit : credit' = [credit EXCEPT ![w] = amount]
  /\ UNCHANGED <<phase, sent>>

Next == \E w \in Withdrawals : Send(w) \/ Settle(w) \/ Release(w) \/ Credit(w)

Spec == Init /\ [][Next]_vars
==============================================================================
