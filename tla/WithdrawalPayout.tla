-------------------------- MODULE WithdrawalPayout ---------------------------
(***************************************************************************)
(* The life of a withdrawal of an internal affiliate after it was created: *)
(* approval and dispatch to the payment gateway, rejection, manual         *)
(* payment, the gateway's webhooks, the reconcile cron and crashes of the  *)
(* (single) API process.  Every compare-and-set of withdrawal.service.ts   *)
(* is one action; everything the service awaits between two of them lets   *)
(* the others in.  Rows of the external ledger never get here: every       *)
(* handler below first calls assertNotExternalWithdrawal.                  *)
(***************************************************************************)
EXTENDS Integers

CONSTANTS
  Withdrawals,        \* the withdrawal rows
  Approvers,          \* approveAndDispatch calls that can be in flight at once
  NoRef,              \* null, of gatewayId and of the event row's withdrawalId
  Gross,              \* originalAmount, in reais
  Fee,                \* withdrawalFee
  RefundUnit,         \* what one real is in the webhook's refundedAmount
  PartialRefunds,     \* may the recipient return only part of the money?
  EchoesCorrelation,  \* does the webhook carry our id (HeartPay) or not (Vorexy)?
  MaxAttempts,        \* POST attempts of the gateway client
  MaxCrashes,         \* bound on the crashes of the API process
  OtherEvents         \* webhook events that change no withdrawal

ASSUME PayoutAssumption ==
  /\ NoRef \notin Withdrawals
  /\ Gross \in Nat /\ Fee \in 0..Gross
  /\ RefundUnit \in Nat \ {0}
  /\ MaxAttempts \in Nat \ {0}
  /\ MaxCrashes \in Nat
  /\ {PartialRefunds, EchoesCorrelation} \subseteq BOOLEAN
  /\ OtherEvents \cap {"PayOutCompleted", "PayOutFailed", "PayOutRefunded"} = {}

VARIABLES
  status, gatewayId, refunded,    \* columns of WithdrawalRequest
  event,                          \* rows of GatewayWebhookEvent, by their eventKey
  approver,                       \* approveAndDispatch calls in flight
  handler,                        \* the webhook handler that inserted an event row
  reconcile,                      \* rows the running reconcile pass has yet to query
  payout, late, returned,         \* the gateway, and requests still on the wire
  notices,                        \* refund totals the gateway has announced
  doubt,                          \* history: POSTs of which an answer is missing
  dispatches, manual, crashes     \* history: POSTs begun, manual payments, crashes

rowVars == <<status, gatewayId, refunded>>
gatewayVars == <<payout, late, returned, notices, doubt>>
vars == <<rowVars, event, approver, handler, reconcile, gatewayVars,
          dispatches, manual, crashes>>

Net == Gross - Fee
Events == {"PayOutCompleted", "PayOutFailed", "PayOutRefunded"} \cup OtherEvents
Statuses ==
  {"PENDING", "APPROVED", "PROCESSING", "COMPLETED", "REJECTED", "FAILED"}
Open == {"PENDING", "APPROVED", "PROCESSING"}
\* Mutant: a webhook that overtakes the answer to the POST is not applied.
DispatchedProcessingOnly == {"PROCESSING"}
Dispatched == {"APPROVED", "PROCESSING"}

Call(pc, w, attempt, reply) ==
  [pc |-> pc, w |-> w, attempt |-> attempt, reply |-> reply]
Idle == Call("idle", NoRef, 0, "none")
NoHandler == [pc |-> "none", byId |-> FALSE, amount |-> 0]
NoRow == [status |-> "absent", withdrawal |-> NoRef]
Events0 == [e \in Events |-> NoRow]

\* Mutant: the refund is not clamped to originalAmount.
LeastOfUnclamped(m, n) == m
LeastOf(m, n) == IF m < n THEN m ELSE n

Calls == {Idle} \cup
  [pc : {"claimed", "posting", "replied"},
   w : Withdrawals,
   attempt : 0..MaxAttempts,
   reply : {"none", "ok", "conflict", "conflictRef", "error"}]
EventRows ==
  [status : {"absent", "received", "ignored", "orphan", "processed"},
   withdrawal : Withdrawals \cup {NoRef}]
Handlers ==
  [pc : {"none", "lookup", "apply", "finish"}, byId : BOOLEAN, amount : Nat]

TypeOK ==
  /\ status \in [Withdrawals -> Statuses]
  /\ gatewayId \in [Withdrawals -> Withdrawals \cup {NoRef}]
  /\ refunded \in [Withdrawals -> 0..Gross]
  /\ event \in [Withdrawals -> [Events -> EventRows]]
  /\ approver \in [Approvers -> Calls]
  /\ handler \in [Withdrawals -> [Events -> Handlers]]
  /\ reconcile \in SUBSET Withdrawals
  /\ payout \in [Withdrawals -> {"none", "pending", "completed", "failed"}]
  /\ late \in SUBSET Withdrawals
  /\ returned \in [Withdrawals -> 0..Net]
  /\ notices \in [Withdrawals -> SUBSET (0..Net)]
  /\ doubt \in [Withdrawals -> {"none", "missing", "gaveUp"}]
  /\ dispatches \in [Withdrawals -> Nat]
  /\ manual \in [Withdrawals -> BOOLEAN]
  /\ crashes \in 0..MaxCrashes

Init ==
  /\ status = [w \in Withdrawals |-> "PENDING"]
  /\ gatewayId = [w \in Withdrawals |-> NoRef]
  /\ refunded = [w \in Withdrawals |-> 0]
  /\ event = [w \in Withdrawals |-> Events0]
  /\ approver = [a \in Approvers |-> Idle]
  /\ handler = [w \in Withdrawals |-> [e \in Events |-> NoHandler]]
  /\ reconcile = {}
  /\ payout = [w \in Withdrawals |-> "none"]
  /\ late = {}
  /\ returned = [w \in Withdrawals |-> 0]
  /\ notices = [w \in Withdrawals |-> {}]
  /\ doubt = [w \in Withdrawals |-> "none"]
  /\ dispatches = [w \in Withdrawals |-> 0]
  /\ manual = [w \in Withdrawals |-> FALSE]
  /\ crashes = 0

------------------------------------------------------------------------------
(* approveAndDispatch *)

\* updateMany where {id, status in from} data {status: to}: a row in another
\* status is left alone.
SetStatus(w, from, to) ==
  status' = IF status[w] \in from THEN [status EXCEPT ![w] = to] ELSE status

\* Step 1: the compare-and-set that only one concurrent admin wins.
\* (Mutant: the compare-and-set asks for gatewayId alone.)
ClaimAnyStatus(a, w) ==
  /\ approver[a] = Idle
  /\ gatewayId[w] = NoRef
  /\ status' = [status EXCEPT ![w] = "APPROVED"]
  /\ approver' = [approver EXCEPT ![a] = Call("claimed", w, 0, "none")]
  /\ UNCHANGED <<gatewayId, refunded, event, handler, reconcile, gatewayVars,
                 dispatches, manual, crashes>>

Claim(a, w) ==
  /\ approver[a] = Idle
  /\ status[w] = "PENDING"
  /\ gatewayId[w] = NoRef
  /\ status' = [status EXCEPT ![w] = "APPROVED"]
  /\ approver' = [approver EXCEPT ![a] = Call("claimed", w, 0, "none")]
  /\ UNCHANGED <<gatewayId, refunded, event, handler, reconcile, gatewayVars,
                 dispatches, manual, crashes>>

\* The optimistic transition is undone, back to PENDING.
RollBackClaim(w) ==
  SetStatus(w, IF gatewayId[w] = NoRef THEN {"APPROVED"} ELSE {}, "PENDING")

EndApproval(a) == approver' = [approver EXCEPT ![a] = Idle]

\* confirmAmount is not the stored originalAmount.
ConfirmMismatch(a) ==
  /\ approver[a].pc = "claimed"
  /\ RollBackClaim(approver[a].w)
  /\ EndApproval(a)
  /\ UNCHANGED <<gatewayId, refunded, event, handler, reconcile, gatewayVars,
                 dispatches, manual, crashes>>

\* Mutant: a failed dispatch goes back to PENDING, to be tried again.
MarkFailedRetry(w) == SetStatus(w, Dispatched, "PENDING")

MarkFailed(w) == SetStatus(w, Dispatched, "FAILED")

\* The PIX key type is unknown, or nothing is left to send after the fee.
InvalidPayload(a) ==
  /\ approver[a].pc = "claimed"
  /\ MarkFailed(approver[a].w)
  /\ EndApproval(a)
  /\ UNCHANGED <<gatewayId, refunded, event, handler, reconcile, gatewayVars,
                 dispatches, manual, crashes>>

\* The gateway account cannot cover the payout, or is blocked.
InsufficientBalance(a) ==
  /\ approver[a].pc = "claimed"
  /\ Net > 0
  /\ RollBackClaim(approver[a].w)
  /\ EndApproval(a)
  /\ UNCHANGED <<gatewayId, refunded, event, handler, reconcile, gatewayVars,
                 dispatches, manual, crashes>>

\* The balance check passed, or failed open: the first POST leaves.
Dispatch(a) ==
  /\ approver[a].pc = "claimed"
  /\ Net > 0
  /\ approver' = [approver EXCEPT ![a] = Call("posting", @.w, 1, "none")]
  /\ dispatches' = [dispatches EXCEPT ![approver[a].w] = @ + 1]
  /\ UNCHANGED <<rowVars, event, handler, reconcile, gatewayVars, manual, crashes>>

Reply(a, reply) ==
  approver' = [approver EXCEPT ![a] = Call("replied", @.w, @.attempt, reply)]

\* The client gives up although it does not know what became of a request.
GiveUp(a) ==
  /\ Reply(a, "error")
  /\ doubt' = [doubt EXCEPT ![approver[a].w] = "gaveUp"]

\* The request reaches the gateway, which creates one payout per withdrawal
\* (Idempotency-Key, correlationID), and the answer comes back; a 2xx without
\* the gateway's reference counts as an error.
PostAccepted(a) ==
  LET w == approver[a].w IN
  /\ approver[a].pc = "posting"
  /\ payout' = IF payout[w] = "none" THEN [payout EXCEPT ![w] = "pending"] ELSE payout
  /\ \/ Reply(a, "ok") /\ UNCHANGED doubt
     \/ GiveUp(a)
  /\ UNCHANGED <<rowVars, event, handler, reconcile, late, returned, notices,
                 dispatches, manual, crashes>>

\* 409: an earlier attempt already created the payout.
PostConflict(a) ==
  /\ approver[a].pc = "posting"
  /\ payout[approver[a].w] # "none"
  /\ \E reply \in {"conflict", "conflictRef"} : Reply(a, reply)
  /\ UNCHANGED <<rowVars, event, handler, reconcile, gatewayVars, dispatches,
                 manual, crashes>>

\* A refusal that is not worth a retry, or a payout that failed on the spot.
PostRefused(a) ==
  LET w == approver[a].w IN
  /\ approver[a].pc = "posting"
  /\ payout[w] \in {"none", "failed"}
  /\ payout' \in {payout, [payout EXCEPT ![w] = "failed"]}
  /\ IF doubt[w] = "none" THEN Reply(a, "error") /\ UNCHANGED doubt ELSE GiveUp(a)
  /\ UNCHANGED <<rowVars, event, handler, reconcile, late, returned, notices,
                 dispatches, manual, crashes>>

\* Timeout or network error: the request may still reach the gateway.
PostLost(a) ==
  LET w == approver[a].w IN
  /\ approver[a].pc = "posting"
  /\ late' = late \cup {w}
  /\ IF approver[a].attempt < MaxAttempts
     THEN /\ approver' =
               [approver EXCEPT ![a] = Call("posting", w, @.attempt + 1, "none")]
          /\ doubt' = [doubt EXCEPT ![w] = "missing"]
     ELSE GiveUp(a)
  /\ UNCHANGED <<rowVars, event, handler, reconcile, payout, returned, notices,
                 dispatches, manual, crashes>>

RecordAccepted(a) ==
  LET w == approver[a].w
      won == status[w] = "APPROVED"
  IN
  /\ approver[a].pc = "replied"
  /\ approver[a].reply = "ok"
  /\ SetStatus(w, {"APPROVED"}, "PROCESSING")
  /\ gatewayId' = IF won THEN [gatewayId EXCEPT ![w] = w] ELSE gatewayId
  /\ EndApproval(a)
  /\ UNCHANGED <<refunded, event, handler, reconcile, gatewayVars, dispatches,
                 manual, crashes>>

\* 409: in flight, so PROCESSING, with the gateway's reference if it told us.
\* (Mutant: a failure like any other.)
RecordConflictFailed(a) ==
  /\ approver[a].pc = "replied"
  /\ approver[a].reply \in {"conflict", "conflictRef"}
  /\ MarkFailed(approver[a].w)
  /\ EndApproval(a)
  /\ UNCHANGED <<gatewayId, refunded, event, handler, reconcile, gatewayVars,
                 dispatches, manual, crashes>>

RecordConflict(a) ==
  LET w == approver[a].w
      won == status[w] = "APPROVED" /\ gatewayId[w] = NoRef
  IN
  /\ approver[a].pc = "replied"
  /\ approver[a].reply \in {"conflict", "conflictRef"}
  /\ status' = IF won THEN [status EXCEPT ![w] = "PROCESSING"] ELSE status
  /\ gatewayId' = IF won /\ approver[a].reply = "conflictRef"
                  THEN [gatewayId EXCEPT ![w] = w] ELSE gatewayId
  /\ EndApproval(a)
  /\ UNCHANGED <<refunded, event, handler, reconcile, gatewayVars, dispatches,
                 manual, crashes>>

RecordFailure(a) ==
  /\ approver[a].pc = "replied"
  /\ approver[a].reply = "error"
  /\ MarkFailed(approver[a].w)
  /\ EndApproval(a)
  /\ UNCHANGED <<gatewayId, refunded, event, handler, reconcile, gatewayVars,
                 dispatches, manual, crashes>>

------------------------------------------------------------------------------
(* The admin's other buttons *)

Reject(w) ==
  /\ status[w] = "PENDING"
  /\ status' = [status EXCEPT ![w] = "REJECTED"]
  /\ UNCHANGED <<gatewayId, refunded, event, approver, handler, reconcile,
                 gatewayVars, dispatches, manual, crashes>>

MarkPaidManually(w) ==
  /\ status[w] \in Open
  /\ status' = [status EXCEPT ![w] = "COMPLETED"]
  /\ manual' = [manual EXCEPT ![w] = TRUE]
  /\ UNCHANGED <<gatewayId, refunded, event, approver, handler, reconcile,
                 gatewayVars, dispatches, crashes>>

------------------------------------------------------------------------------
(* handleGatewayWebhookEvent *)

\* The gateway has this event to report; it may deliver it late, again, or never.
Emitted(w, e) ==
  CASE e = "PayOutCompleted" -> payout[w] = "completed"
    [] e = "PayOutFailed"    -> payout[w] = "failed"
    [] e = "PayOutRefunded"  -> notices[w] # {}
    [] OTHER                 -> payout[w] # "none"

\* The event row goes in first; its unique eventKey, (reference, event) without
\* the timestamp, turns every later delivery away.
InsertEvent(w, e, byId, amount) ==
  /\ event[w][e] = NoRow
  /\ event' = [event EXCEPT ![w][e] = [@ EXCEPT !.status = "received"]]
  /\ handler' = [handler EXCEPT ![w][e] =
                   [pc |-> "lookup", byId |-> byId, amount |-> amount]]

ReceiveWebhook(w, e) ==
  /\ Emitted(w, e)
  /\ \E amount \in IF e = "PayOutRefunded" THEN notices[w] ELSE {0} :
       InsertEvent(w, e, EchoesCorrelation, amount * RefundUnit)
  /\ UNCHANGED <<rowVars, approver, reconcile, gatewayVars, dispatches, manual, crashes>>

Advance(w, e, pc) ==
  handler' = [handler EXCEPT ![w][e] = [@ EXCEPT !.pc = pc]]

CloseEvent(w, e, outcome) ==
  /\ event' = [event EXCEPT ![w][e] = [@ EXCEPT !.status = outcome]]
  /\ handler' = [handler EXCEPT ![w][e] = NoHandler]

IgnoreEvent(w, e) ==
  /\ handler[w][e].pc = "lookup"
  /\ e \in OtherEvents
  /\ CloseEvent(w, e, "ignored")
  /\ UNCHANGED <<rowVars, approver, reconcile, gatewayVars, dispatches, manual, crashes>>

\* By the stored gatewayId, else by our own id if the payload carries it.
\* (Mutant: only the stored gatewayId counts.)
MatchesByRefOnly(w, e) == {x \in Withdrawals : gatewayId[x] = w}

\* (Mutant: any row with a gatewayId is taken.)
MatchesAnyRef(w, e) == {x \in Withdrawals : gatewayId[x] # NoRef}

Matches(w, e) ==
  LET byRef == {x \in Withdrawals : gatewayId[x] = w} IN
  IF byRef # {} THEN byRef ELSE IF handler[w][e].byId THEN {w} ELSE {}

LinkEvent(w, e) ==
  /\ handler[w][e].pc = "lookup"
  /\ e \notin OtherEvents
  /\ \E x \in Matches(w, e) : event' = [event EXCEPT ![w][e] = [@ EXCEPT !.withdrawal = x]]
  /\ Advance(w, e, "apply")
  /\ UNCHANGED <<rowVars, approver, reconcile, gatewayVars, dispatches, manual, crashes>>

OrphanEvent(w, e) ==
  /\ handler[w][e].pc = "lookup"
  /\ e \notin OtherEvents
  /\ Matches(w, e) = {}
  /\ CloseEvent(w, e, "orphan")
  /\ UNCHANGED <<rowVars, approver, reconcile, gatewayVars, dispatches, manual, crashes>>

ApplyCompleted(w) ==
  /\ handler[w]["PayOutCompleted"].pc = "apply"
  /\ SetStatus(event[w]["PayOutCompleted"].withdrawal, Dispatched, "COMPLETED")
  /\ Advance(w, "PayOutCompleted", "finish")
  /\ UNCHANGED <<gatewayId, refunded, event, approver, reconcile, gatewayVars,
                 dispatches, manual, crashes>>

ApplyFailed(w) ==
  /\ handler[w]["PayOutFailed"].pc = "apply"
  /\ SetStatus(event[w]["PayOutFailed"].withdrawal, Dispatched, "FAILED")
  /\ Advance(w, "PayOutFailed", "finish")
  /\ UNCHANGED <<gatewayId, refunded, event, approver, reconcile, gatewayVars,
                 dispatches, manual, crashes>>

\* The status stays; a row that is neither paid nor in flight takes no credit.
\* (Mutant: the whole originalAmount is credited, whatever came back.)
ApplyRefundedWhole(w) ==
  LET x == event[w]["PayOutRefunded"].withdrawal IN
  /\ handler[w]["PayOutRefunded"].pc = "apply"
  /\ refunded' = IF status[x] \in {"COMPLETED", "PROCESSING"}
                 THEN [refunded EXCEPT ![x] = Gross] ELSE refunded
  /\ Advance(w, "PayOutRefunded", "finish")
  /\ UNCHANGED <<status, gatewayId, event, approver, reconcile, gatewayVars,
                 dispatches, manual, crashes>>

\* (Mutant: any row takes the credit, one that was already released included.)
ApplyRefundedAnyStatus(w) ==
  LET x == event[w]["PayOutRefunded"].withdrawal IN
  /\ handler[w]["PayOutRefunded"].pc = "apply"
  /\ refunded' = [refunded EXCEPT
       ![x] = LeastOf(handler[w]["PayOutRefunded"].amount, Gross)]
  /\ Advance(w, "PayOutRefunded", "finish")
  /\ UNCHANGED <<status, gatewayId, event, approver, reconcile, gatewayVars,
                 dispatches, manual, crashes>>

ApplyRefunded(w) ==
  LET x == event[w]["PayOutRefunded"].withdrawal
      clampedRefund == LeastOf(handler[w]["PayOutRefunded"].amount, Gross)
  IN
  /\ handler[w]["PayOutRefunded"].pc = "apply"
  /\ refunded' = IF status[x] \in {"COMPLETED", "PROCESSING"}
                 THEN [refunded EXCEPT ![x] = clampedRefund] ELSE refunded
  /\ Advance(w, "PayOutRefunded", "finish")
  /\ UNCHANGED <<status, gatewayId, event, approver, reconcile, gatewayVars,
                 dispatches, manual, crashes>>

FinishEvent(w, e) ==
  /\ handler[w][e].pc = "finish"
  /\ CloseEvent(w, e, "processed")
  /\ UNCHANGED <<rowVars, approver, reconcile, gatewayVars, dispatches, manual, crashes>>

HandleEvent(w) ==
  \/ \E e \in Events : IgnoreEvent(w, e) \/ LinkEvent(w, e) \/ OrphanEvent(w, e)
  \/ ApplyCompleted(w)
  \/ ApplyFailed(w)
  \/ ApplyRefunded(w)
  \/ \E e \in Events : FinishEvent(w, e)

------------------------------------------------------------------------------
(* reconcileStuckProcessing *)

Stuck == {w \in Withdrawals : status[w] = "PROCESSING" /\ gatewayId[w] # NoRef}

\* A cron tick, unless the last pass is still running.  Which of the stuck rows
\* are older than the threshold is left open.
StartPass ==
  /\ reconcile = {}
  /\ reconcile' \in SUBSET Stuck \ {{}}
  /\ UNCHANGED <<rowVars, event, approver, handler, gatewayVars, dispatches,
                 manual, crashes>>

\* The query failed, the payout is still on its way, or the webhook's own
\* eventKey is already there.
SkipRow(w) ==
  /\ w \in reconcile
  /\ reconcile' = reconcile \ {w}
  /\ UNCHANGED <<rowVars, event, approver, handler, gatewayVars, dispatches,
                 manual, crashes>>

\* The gateway answers with a final status: the same handler, with our id.  That
\* the pass waits for the handler before its next row only rules steps out.
ReconcileRow(w) ==
  /\ w \in reconcile
  /\ \/ payout[w] = "completed" /\ InsertEvent(w, "PayOutCompleted", TRUE, 0)
     \/ payout[w] = "failed" /\ InsertEvent(w, "PayOutFailed", TRUE, 0)
  /\ reconcile' = reconcile \ {w}
  /\ UNCHANGED <<rowVars, approver, gatewayVars, dispatches, manual, crashes>>

------------------------------------------------------------------------------
(* The gateway and the API process *)

\* A request whose answer was lost arrives after all.
GatewayAcceptsLate(w) ==
  /\ w \in late
  /\ late' = late \ {w}
  /\ payout' = IF payout[w] = "none" THEN [payout EXCEPT ![w] = "pending"] ELSE payout
  /\ UNCHANGED <<rowVars, event, approver, handler, reconcile, returned, notices,
                 doubt, dispatches, manual, crashes>>

GatewaySettles(w) ==
  /\ payout[w] = "pending"
  /\ \E outcome \in {"completed", "failed"} :
       payout' = [payout EXCEPT ![w] = outcome]
  /\ UNCHANGED <<rowVars, event, approver, handler, reconcile, late, returned,
                 notices, doubt, dispatches, manual, crashes>>

\* The recipient returns money; the gateway announces the total so far.
RecipientReturns(w) ==
  /\ payout[w] = "completed"
  /\ \E total \in (returned[w] + 1)..Net :
       /\ PartialRefunds \/ total = Net
       /\ returned' = [returned EXCEPT ![w] = total]
       /\ notices' = [notices EXCEPT ![w] = @ \cup {total}]
  /\ UNCHANGED <<rowVars, event, approver, handler, reconcile, payout, late,
                 doubt, dispatches, manual, crashes>>

\* The process dies and restarts: rows survive, calls in flight do not.
Crash ==
  /\ crashes < MaxCrashes
  /\ crashes' = crashes + 1
  /\ approver' = [a \in Approvers |-> Idle]
  /\ handler' = [w \in Withdrawals |-> [e \in Events |-> NoHandler]]
  /\ reconcile' = {}
  /\ UNCHANGED <<rowVars, event, gatewayVars, dispatches, manual>>

------------------------------------------------------------------------------
Approve(a) ==
  \/ \E w \in Withdrawals : Claim(a, w)
  \/ ConfirmMismatch(a)
  \/ InvalidPayload(a)
  \/ InsufficientBalance(a)
  \/ Dispatch(a)

Post(a) == PostAccepted(a) \/ PostConflict(a) \/ PostRefused(a) \/ PostLost(a)

Record(a) == RecordAccepted(a) \/ RecordConflict(a) \/ RecordFailure(a)

Next ==
  \/ \E a \in Approvers : Approve(a) \/ Post(a) \/ Record(a)
  \/ \E w \in Withdrawals :
       \/ Reject(w)
       \/ MarkPaidManually(w)
       \/ \E e \in Events : ReceiveWebhook(w, e)
       \/ HandleEvent(w)
       \/ SkipRow(w)
       \/ ReconcileRow(w)
       \/ GatewayAcceptsLate(w)
       \/ GatewaySettles(w)
       \/ RecipientReturns(w)
  \/ StartPass
  \/ Crash

Spec == Init /\ [][Next]_vars

\* A handler that runs in a process that stays up gets to its end, and the cron
\* keeps ticking: passes take the oldest stuck rows first, every query that is
\* repeated is answered in the end.
Fairness ==
  \A w \in Withdrawals :
    /\ WF_vars(HandleEvent(w))
    /\ SF_vars(StartPass /\ w \in reconcile')
    /\ SF_vars(ReconcileRow(w))
    /\ WF_vars(SkipRow(w))

FairSpec == Spec /\ Fairness

------------------------------------------------------------------------------
(* What must hold *)

\* No POST was ever begun for a withdrawal that can still be rejected or that
\* was: the claim can only be undone by the call that holds it, and only before
\* it dispatches (approveAndDispatch against updateStatus and its own rollbacks).
UnsentWhileUndecided ==
  \A w \in Withdrawals :
    status[w] \in {"PENDING", "REJECTED"} => dispatches[w] = 0

\* However many admins approve, and whatever crashes, one call at most ever
\* sends the money of a withdrawal (the PENDING + gatewayId null compare-and-set).
SingleDispatch == \A w \in Withdrawals : dispatches[w] <= 1

\* A final event on record as processed has moved its withdrawal to a final
\* status that a paid or failed payout may have: no event is ticked off while
\* the row it speaks of is still waiting, rejected or back to PENDING.
ProcessedIsReflected ==
  \A w \in Withdrawals, e \in {"PayOutCompleted", "PayOutFailed"} :
    event[w][e].status = "processed" => status[w] \in {"COMPLETED", "FAILED"}

\* A withdrawal is only COMPLETED because the gateway paid it or because an
\* admin vouched for it (mark-paid), never through an event of another payout
\* or an answer that was not a payment.
CompletedIsPaid ==
  \A w \in Withdrawals :
    status[w] = "COMPLETED" => manual[w] \/ payout[w] = "completed"

\* FAILED gives the amount back to the affiliate, so the gateway has not paid it and
\* never will: a 409 is not a failure, nor is a payout that is still on its way. The
\* exception is a client that gave up without knowing what became of its request.
FailedIsUnpaid ==
  \A w \in Withdrawals :
    status[w] = "FAILED" /\ doubt[w] # "gaveUp" => payout[w] \notin {"pending", "completed"}

\* The credit is one total that the gateway announced and the recipient returned, as the
\* row takes it: in the unit of the webhook (reais or cents), clamped to originalAmount.
\* Notices that come twice, late or out of order never add up.
RefundIsBacked ==
  \A w \in Withdrawals : \E total \in notices[w] \cup {0} :
    total <= returned[w] /\ refunded[w] = LeastOf(total * RefundUnit, Gross)

Phase(w) ==
  IF status[w] \in Open THEN "open"
  ELSE IF status[w] = "COMPLETED" THEN "settled" ELSE "released"

\* The promise to the ledger: the amount is settled or released once, money is
\* sent at most once and never after the release, one credit at most.
Lifecycle == INSTANCE WithdrawalLifecycle WITH
  MaxCredit <- Gross,
  phase <- [w \in Withdrawals |-> Phase(w)],
  sent <- dispatches,
  credit <- refunded

LifecycleSpec == Lifecycle!Spec

\* Rows no pass can settle: the 409 after a missing answer carried no reference, so the
\* pass does not select it; or the process died with the event row inserted and not
\* applied, so the synthetic event is a duplicate.
Unreferenced(w) == gatewayId[w] = NoRef /\ doubt[w] = "missing"
CutOff(w) ==
  /\ crashes > 0
  /\ \E e \in {"PayOutCompleted", "PayOutFailed"} :
       event[w][e].status = "received" /\ handler[w][e] = NoHandler

\* The cron's promise: a withdrawal in PROCESSING whose payout is final at the gateway
\* leaves PROCESSING even if the webhook is lost, whatever calls, handlers and crashes
\* came before, but for the two kinds of rows above.
StuckIsReconciled ==
  \A w \in Withdrawals :
    (status[w] = "PROCESSING" /\ payout[w] \in {"completed", "failed"})
      ~> (status[w] # "PROCESSING" \/ Unreferenced(w) \/ CutOff(w))
==============================================================================
