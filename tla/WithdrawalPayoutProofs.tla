----------------------- MODULE WithdrawalPayoutProofs ------------------------
(***************************************************************************)
(* Proofs about WithdrawalPayout, for every set of withdrawals and admins, *)
(* any amounts, any number of attempts, crashes and events.                *)
(***************************************************************************)
EXTENDS WithdrawalPayout, TLAPS

\* What is sent is a natural number: the fee is a share of the gross amount.
LEMMA NetIsNat == Net \in 0..Gross
  BY PayoutAssumption DEF Net

\* The events that change a withdrawal are events.
LEMMA FinalEvents ==
  "PayOutCompleted" \in Events /\ "PayOutFailed" \in Events /\ "PayOutRefunded" \in Events
  BY DEF Events

------------------------------------------------------------------------------
(* Types: what each helper returns, then each action, then the theorem *)

\* The local state of a call in flight has its type.
LEMMA CallType ==
  ASSUME NEW pc \in {"claimed", "posting", "replied"},
         NEW w \in Withdrawals, NEW attempt \in 0..MaxAttempts,
         NEW reply \in {"none", "ok", "conflict", "conflictRef", "error"}
  PROVE  Call(pc, w, attempt, reply) \in Calls
  BY DEF Call, Calls

\* Ending a call leaves it idle.
LEMMA EndApprovalType ==
  ASSUME TypeOK, NEW a \in Approvers, EndApproval(a)
  PROVE  approver' \in [Approvers -> Calls]
  BY DEF TypeOK, EndApproval, Calls

\* A call in flight is about one of the withdrawals.
LEMMA CallInFlight ==
  ASSUME TypeOK, NEW a \in Approvers, approver[a].pc # "idle"
  PROVE  /\ approver[a].pc \in {"claimed", "posting", "replied"}
         /\ approver[a].w \in Withdrawals
         /\ approver[a].attempt \in 0..MaxAttempts
<1>1. approver[a] \in Calls
  BY DEF TypeOK
<1>2. Idle.pc = "idle"
  BY DEF Idle, Call
<1>. QED  BY <1>1, <1>2 DEF Calls

\* A call that takes an answer has its type.
LEMMA ReplyType ==
  ASSUME TypeOK, NEW a \in Approvers,
         NEW reply \in {"none", "ok", "conflict", "conflictRef", "error"},
         approver[a].pc = "posting", Reply(a, reply)
  PROVE  approver' \in [Approvers -> Calls]
<1>1. /\ approver[a].w \in Withdrawals
      /\ approver[a].attempt \in 0..MaxAttempts
  BY CallInFlight
<1>2. Call("replied", approver[a].w, approver[a].attempt, reply) \in Calls
  BY <1>1, CallType
<1>. QED  BY <1>2 DEF TypeOK, Reply

\* So has one that gives up, and the doubt it leaves behind.
LEMMA GiveUpType ==
  ASSUME TypeOK, NEW a \in Approvers, approver[a].pc = "posting", GiveUp(a)
  PROVE  /\ approver' \in [Approvers -> Calls]
         /\ doubt' \in [Withdrawals -> {"none", "missing", "gaveUp"}]
<1>1. approver' \in [Approvers -> Calls]
  BY ReplyType DEF GiveUp
<1>. QED  BY <1>1 DEF TypeOK, GiveUp

\* A compare-and-set writes a status.
LEMMA SetStatusType ==
  ASSUME TypeOK, NEW w, NEW from, NEW to \in Statuses, SetStatus(w, from, to)
  PROVE  status' \in [Withdrawals -> Statuses]
  BY DEF TypeOK, SetStatus

\* markFailed writes a status.
LEMMA MarkFailedType ==
  ASSUME TypeOK, NEW w, MarkFailed(w)
  PROVE  status' \in [Withdrawals -> Statuses]
  BY SetStatusType, "FAILED" \in Statuses DEF MarkFailed, Statuses

\* Undoing a claim writes a status.
LEMMA RollBackClaimType ==
  ASSUME TypeOK, NEW w, RollBackClaim(w)
  PROVE  status' \in [Withdrawals -> Statuses]
  BY SetStatusType, "PENDING" \in Statuses DEF RollBackClaim, Statuses

\* A handler that moves on has its type.
LEMMA AdvanceType ==
  ASSUME TypeOK, NEW w \in Withdrawals, NEW e \in Events,
         NEW pc \in {"none", "lookup", "apply", "finish"}, Advance(w, e, pc)
  PROVE  handler' \in [Withdrawals -> [Events -> Handlers]]
<1>1. handler[w][e] \in Handlers
  BY DEF TypeOK
<1>2. [handler[w][e] EXCEPT !.pc = pc] \in Handlers
  BY <1>1 DEF Handlers
<1>. QED  BY <1>2 DEF TypeOK, Advance

\* The null handler is a handler.
LEMMA NoHandlerType == NoHandler \in Handlers
  BY DEF NoHandler, Handlers

\* Closing an event keeps the types of its row and its handler.
LEMMA CloseEventType ==
  ASSUME TypeOK, NEW w \in Withdrawals, NEW e \in Events,
         NEW outcome \in {"ignored", "orphan", "processed"},
         CloseEvent(w, e, outcome)
  PROVE  /\ event' \in [Withdrawals -> [Events -> EventRows]]
         /\ handler' \in [Withdrawals -> [Events -> Handlers]]
<1>1. event[w][e] \in EventRows
  BY DEF TypeOK
<1>2. [event[w][e] EXCEPT !.status = outcome] \in EventRows
  BY <1>1 DEF EventRows
<1>. QED  BY <1>2, NoHandlerType DEF TypeOK, CloseEvent

\* Inserting an event keeps the types of its row and its handler.
LEMMA InsertEventType ==
  ASSUME TypeOK, NEW w \in Withdrawals, NEW e \in Events,
         NEW byId \in BOOLEAN, NEW amount \in Nat,
         InsertEvent(w, e, byId, amount)
  PROVE  /\ event' \in [Withdrawals -> [Events -> EventRows]]
         /\ handler' \in [Withdrawals -> [Events -> Handlers]]
<1>1. event[w][e] \in EventRows
  BY DEF TypeOK
<1>2. [event[w][e] EXCEPT !.status = "received"] \in EventRows
  BY <1>1 DEF EventRows
<1>3. [pc |-> "lookup", byId |-> byId, amount |-> amount] \in Handlers
  BY DEF Handlers
<1>. QED  BY <1>2, <1>3 DEF TypeOK, InsertEvent

\* Approvals keep the types.
LEMMA ApproveType ==
  ASSUME TypeOK, NEW a \in Approvers, Approve(a)
  PROVE  TypeOK'
<1>1. ASSUME NEW w \in Withdrawals, Claim(a, w) PROVE TypeOK'
  <2>1. Call("claimed", w, 0, "none") \in Calls
    BY CallType, PayoutAssumption
  <2>2. approver' \in [Approvers -> Calls]
    BY <1>1, <2>1 DEF TypeOK, Claim
  <2>3. status' \in [Withdrawals -> Statuses]
    BY <1>1 DEF TypeOK, Claim, Statuses
  <2>. QED  BY <1>1, <2>2, <2>3 DEF TypeOK, Claim, gatewayVars
<1>2. CASE ConfirmMismatch(a)
  <2>1. /\ status' \in [Withdrawals -> Statuses]
        /\ approver' \in [Approvers -> Calls]
    BY <1>2, RollBackClaimType, EndApprovalType DEF ConfirmMismatch
  <2>. QED  BY <1>2, <2>1 DEF TypeOK, ConfirmMismatch, gatewayVars
<1>3. CASE InvalidPayload(a)
  <2>1. /\ status' \in [Withdrawals -> Statuses]
        /\ approver' \in [Approvers -> Calls]
    BY <1>3, MarkFailedType, EndApprovalType DEF InvalidPayload
  <2>. QED  BY <1>3, <2>1 DEF TypeOK, InvalidPayload, gatewayVars
<1>4. CASE InsufficientBalance(a)
  <2>1. /\ status' \in [Withdrawals -> Statuses]
        /\ approver' \in [Approvers -> Calls]
    BY <1>4, RollBackClaimType, EndApprovalType DEF InsufficientBalance
  <2>. QED  BY <1>4, <2>1 DEF TypeOK, InsufficientBalance, gatewayVars
<1>5. CASE Dispatch(a)
  <2>1. approver[a].w \in Withdrawals
    BY <1>5, CallInFlight DEF Dispatch
  <2>2. Call("posting", approver[a].w, 1, "none") \in Calls
    BY <2>1, CallType, PayoutAssumption
  <2>3. approver' \in [Approvers -> Calls]
    BY <1>5, <2>2 DEF TypeOK, Dispatch
  <2>4. dispatches' \in [Withdrawals -> Nat]
    BY <1>5, <2>1 DEF TypeOK, Dispatch
  <2>. QED  BY <1>5, <2>3, <2>4 DEF TypeOK, Dispatch, rowVars, gatewayVars
<1>. QED  BY <1>1, <1>2, <1>3, <1>4, <1>5 DEF Approve

\* So do the POST and its answer.
LEMMA PostType ==
  ASSUME TypeOK, NEW a \in Approvers, Post(a)
  PROVE  TypeOK'
<1>1. CASE PostAccepted(a)
  <2>1. approver' \in [Approvers -> Calls]
    BY <1>1, ReplyType, GiveUpType DEF PostAccepted
  <2>2. payout' \in [Withdrawals -> {"none", "pending", "completed", "failed"}]
    BY <1>1 DEF TypeOK, PostAccepted
  <2>3. doubt' \in [Withdrawals -> {"none", "missing", "gaveUp"}]
    BY <1>1, GiveUpType DEF TypeOK, PostAccepted
  <2>. QED  BY <1>1, <2>1, <2>2, <2>3 DEF TypeOK, PostAccepted, rowVars
<1>2. CASE PostConflict(a)
  <2>1. approver' \in [Approvers -> Calls]
    BY <1>2, ReplyType DEF PostConflict
  <2>. QED  BY <1>2, <2>1 DEF TypeOK, PostConflict, rowVars, gatewayVars
<1>3. CASE PostRefused(a)
  <2>1. approver' \in [Approvers -> Calls]
    BY <1>3, ReplyType, GiveUpType DEF PostRefused
  <2>2. payout' \in [Withdrawals -> {"none", "pending", "completed", "failed"}]
    BY <1>3 DEF TypeOK, PostRefused
  <2>3. doubt' \in [Withdrawals -> {"none", "missing", "gaveUp"}]
    BY <1>3, GiveUpType DEF TypeOK, PostRefused
  <2>. QED  BY <1>3, <2>1, <2>2, <2>3 DEF TypeOK, PostRefused, rowVars
<1>4. CASE PostLost(a)
  <2>1. /\ approver[a].w \in Withdrawals
        /\ approver[a].attempt \in 0..MaxAttempts
    BY <1>4, CallInFlight DEF PostLost
  <2>2. late' \in SUBSET Withdrawals
    BY <1>4, <2>1 DEF TypeOK, PostLost
  <2>3. approver' \in [Approvers -> Calls]
    <3>1. CASE approver[a].attempt < MaxAttempts
      <4>1. Call("posting", approver[a].w, approver[a].attempt + 1, "none") \in Calls
        BY <3>1, <2>1, CallType, PayoutAssumption
      <4>. QED  BY <1>4, <3>1, <4>1 DEF TypeOK, PostLost
    <3>2. CASE ~(approver[a].attempt < MaxAttempts)
      BY <1>4, <3>2, GiveUpType DEF PostLost
    <3>. QED  BY <3>1, <3>2
  <2>4. doubt' \in [Withdrawals -> {"none", "missing", "gaveUp"}]
    BY <1>4, GiveUpType DEF TypeOK, PostLost
  <2>. QED  BY <1>4, <2>2, <2>3, <2>4 DEF TypeOK, PostLost, rowVars
<1>. QED  BY <1>1, <1>2, <1>3, <1>4 DEF Post

\* So does writing the answer down.
LEMMA RecordType ==
  ASSUME TypeOK, NEW a \in Approvers, Record(a)
  PROVE  TypeOK'
<1>1. CASE RecordAccepted(a)
  <2>1. /\ status' \in [Withdrawals -> Statuses]
        /\ approver' \in [Approvers -> Calls]
    BY <1>1, SetStatusType, EndApprovalType, "PROCESSING" \in Statuses
    DEF RecordAccepted, Statuses
  <2>2. gatewayId' \in [Withdrawals -> Withdrawals \cup {NoRef}]
    BY <1>1, CallInFlight DEF TypeOK, RecordAccepted
  <2>. QED  BY <1>1, <2>1, <2>2 DEF TypeOK, RecordAccepted, gatewayVars
<1>2. CASE RecordConflict(a)
  <2>1. approver' \in [Approvers -> Calls]
    BY <1>2, EndApprovalType DEF RecordConflict
  <2>2. status' \in [Withdrawals -> Statuses]
    BY <1>2 DEF TypeOK, RecordConflict, Statuses
  <2>3. gatewayId' \in [Withdrawals -> Withdrawals \cup {NoRef}]
    BY <1>2, CallInFlight DEF TypeOK, RecordConflict
  <2>. QED  BY <1>2, <2>1, <2>2, <2>3 DEF TypeOK, RecordConflict, gatewayVars
<1>3. CASE RecordFailure(a)
  <2>1. /\ status' \in [Withdrawals -> Statuses]
        /\ approver' \in [Approvers -> Calls]
    BY <1>3, MarkFailedType, EndApprovalType DEF RecordFailure
  <2>. QED  BY <1>3, <2>1 DEF TypeOK, RecordFailure, gatewayVars
<1>. QED  BY <1>1, <1>2, <1>3 DEF Record

\* The amount a refund notice carries is a natural number.
LEMMA NoticeAmount ==
  ASSUME TypeOK, NEW w \in Withdrawals, NEW amount \in notices[w] \cup {0}
  PROVE  /\ amount \in 0..Net
         /\ amount * RefundUnit \in Nat
<1>1. amount \in Nat /\ amount \in 0..Net
  BY NetIsNat DEF TypeOK
<1>2. RefundUnit \in Nat
  BY PayoutAssumption
<1>3. \A m, n \in Nat : m * n \in Nat
  OBVIOUS
<1>. QED  BY <1>1, <1>2, <1>3

\* The handler of one event keeps the types.
LEMMA HandleEventType ==
  ASSUME TypeOK, NEW w \in Withdrawals, HandleEvent(w)
  PROVE  TypeOK'
<1>1. ASSUME NEW e \in Events, IgnoreEvent(w, e) PROVE TypeOK'
  <2>1. /\ event' \in [Withdrawals -> [Events -> EventRows]]
        /\ handler' \in [Withdrawals -> [Events -> Handlers]]
    BY <1>1, CloseEventType DEF IgnoreEvent
  <2>. QED  BY <1>1, <2>1 DEF TypeOK, IgnoreEvent, rowVars, gatewayVars
<1>2. ASSUME NEW e \in Events, LinkEvent(w, e) PROVE TypeOK'
  <2>1. PICK x \in Matches(w, e) :
          event' = [event EXCEPT ![w][e] = [@ EXCEPT !.withdrawal = x]]
    BY <1>2 DEF LinkEvent
  <2>2. event[w][e] \in EventRows /\ x \in Withdrawals
    BY DEF TypeOK, Matches
  <2>3. [event[w][e] EXCEPT !.withdrawal = x] \in EventRows
    BY <2>2 DEF EventRows
  <2>4. event' \in [Withdrawals -> [Events -> EventRows]]
    BY <2>1, <2>3 DEF TypeOK
  <2>5. handler' \in [Withdrawals -> [Events -> Handlers]]
    BY <1>2, AdvanceType DEF LinkEvent
  <2>. QED  BY <1>2, <2>4, <2>5 DEF TypeOK, LinkEvent, rowVars, gatewayVars
<1>3. ASSUME NEW e \in Events, OrphanEvent(w, e) PROVE TypeOK'
  <2>1. /\ event' \in [Withdrawals -> [Events -> EventRows]]
        /\ handler' \in [Withdrawals -> [Events -> Handlers]]
    BY <1>3, CloseEventType DEF OrphanEvent
  <2>. QED  BY <1>3, <2>1 DEF TypeOK, OrphanEvent, rowVars, gatewayVars
<1>4. CASE ApplyCompleted(w)
  <2>1. status' \in [Withdrawals -> Statuses]
    BY <1>4, SetStatusType, "COMPLETED" \in Statuses DEF ApplyCompleted, Statuses
  <2>2. handler' \in [Withdrawals -> [Events -> Handlers]]
    BY <1>4, AdvanceType, FinalEvents DEF ApplyCompleted
  <2>. QED  BY <1>4, <2>1, <2>2 DEF TypeOK, ApplyCompleted, gatewayVars
<1>5. CASE ApplyFailed(w)
  <2>1. status' \in [Withdrawals -> Statuses]
    BY <1>5, SetStatusType, "FAILED" \in Statuses DEF ApplyFailed, Statuses
  <2>2. handler' \in [Withdrawals -> [Events -> Handlers]]
    BY <1>5, AdvanceType, FinalEvents DEF ApplyFailed
  <2>. QED  BY <1>5, <2>1, <2>2 DEF TypeOK, ApplyFailed, gatewayVars
<1>6. CASE ApplyRefunded(w)
  <2>1. handler[w]["PayOutRefunded"].amount \in Nat
    BY FinalEvents DEF TypeOK, Handlers
  <2>2. LeastOf(handler[w]["PayOutRefunded"].amount, Gross) \in 0..Gross
    BY <2>1, PayoutAssumption DEF LeastOf
  <2>3. refunded' \in [Withdrawals -> 0..Gross]
    BY <1>6, <2>2 DEF TypeOK, ApplyRefunded
  <2>4. handler' \in [Withdrawals -> [Events -> Handlers]]
    BY <1>6, AdvanceType, FinalEvents DEF ApplyRefunded
  <2>. QED  BY <1>6, <2>3, <2>4 DEF TypeOK, ApplyRefunded, gatewayVars
<1>7. ASSUME NEW e \in Events, FinishEvent(w, e) PROVE TypeOK'
  <2>1. /\ event' \in [Withdrawals -> [Events -> EventRows]]
        /\ handler' \in [Withdrawals -> [Events -> Handlers]]
    BY <1>7, CloseEventType DEF FinishEvent
  <2>. QED  BY <1>7, <2>1 DEF TypeOK, FinishEvent, rowVars, gatewayVars
<1>. QED  BY <1>1, <1>2, <1>3, <1>4, <1>5, <1>6, <1>7 DEF HandleEvent

\* Every step keeps the types.
LEMMA TypeStep ==
  ASSUME TypeOK, [Next]_vars
  PROVE  TypeOK'
<1>1. ASSUME NEW a \in Approvers, Approve(a) \/ Post(a) \/ Record(a) PROVE TypeOK'
  BY <1>1, ApproveType, PostType, RecordType
<1>2. ASSUME NEW w \in Withdrawals, HandleEvent(w) PROVE TypeOK'
  BY <1>2, HandleEventType
<1>3. ASSUME NEW w \in Withdrawals, Reject(w) PROVE TypeOK'
  <2>1. status' \in [Withdrawals -> Statuses]
    BY <1>3 DEF TypeOK, Reject, Statuses
  <2>. QED  BY <1>3, <2>1 DEF TypeOK, Reject, gatewayVars
<1>4. ASSUME NEW w \in Withdrawals, MarkPaidManually(w) PROVE TypeOK'
  <2>1. /\ status' \in [Withdrawals -> Statuses]
        /\ manual' \in [Withdrawals -> BOOLEAN]
    BY <1>4 DEF TypeOK, MarkPaidManually, Statuses
  <2>. QED  BY <1>4, <2>1 DEF TypeOK, MarkPaidManually, gatewayVars
<1>5. ASSUME NEW w \in Withdrawals, NEW e \in Events, ReceiveWebhook(w, e)
      PROVE TypeOK'
  <2>1. PICK amount \in notices[w] \cup {0} :
          InsertEvent(w, e, EchoesCorrelation, amount * RefundUnit)
    BY <1>5 DEF ReceiveWebhook
  <2>2. EchoesCorrelation \in BOOLEAN /\ amount * RefundUnit \in Nat
    BY NoticeAmount, PayoutAssumption
  <2>3. /\ event' \in [Withdrawals -> [Events -> EventRows]]
        /\ handler' \in [Withdrawals -> [Events -> Handlers]]
    BY <2>1, <2>2, InsertEventType
  <2>. QED  BY <1>5, <2>3 DEF TypeOK, ReceiveWebhook, rowVars, gatewayVars
<1>6. ASSUME NEW w \in Withdrawals, SkipRow(w) PROVE TypeOK'
  BY <1>6 DEF TypeOK, SkipRow, rowVars, gatewayVars
<1>7. ASSUME NEW w \in Withdrawals, ReconcileRow(w) PROVE TypeOK'
  <2>1. PICK e \in Events : InsertEvent(w, e, TRUE, 0)
    BY <1>7, FinalEvents DEF ReconcileRow
  <2>2. /\ event' \in [Withdrawals -> [Events -> EventRows]]
        /\ handler' \in [Withdrawals -> [Events -> Handlers]]
    BY <2>1, InsertEventType
  <2>. QED  BY <1>7, <2>2 DEF TypeOK, ReconcileRow, rowVars, gatewayVars
<1>8. ASSUME NEW w \in Withdrawals, GatewayAcceptsLate(w) PROVE TypeOK'
  BY <1>8 DEF TypeOK, GatewayAcceptsLate, rowVars
<1>9. ASSUME NEW w \in Withdrawals, GatewaySettles(w) PROVE TypeOK'
  BY <1>9 DEF TypeOK, GatewaySettles, rowVars
<1>10. ASSUME NEW w \in Withdrawals, RecipientReturns(w) PROVE TypeOK'
  <2>1. PICK total \in (returned[w] + 1)..Net :
          /\ returned' = [returned EXCEPT ![w] = total]
          /\ notices' = [notices EXCEPT ![w] = @ \cup {total}]
    BY <1>10 DEF RecipientReturns
  <2>2. total \in 0..Net
    BY NetIsNat DEF TypeOK
  <2>3. /\ returned' \in [Withdrawals -> 0..Net]
        /\ notices' \in [Withdrawals -> SUBSET (0..Net)]
    BY <2>1, <2>2 DEF TypeOK
  <2>. QED  BY <1>10, <2>3 DEF TypeOK, RecipientReturns, rowVars
<1>11. CASE StartPass
  BY <1>11 DEF TypeOK, StartPass, Stuck, rowVars, gatewayVars
<1>12. CASE Crash
  <2>1. approver' \in [Approvers -> Calls]
    BY <1>12 DEF Crash, Calls
  <2>2. handler' \in [Withdrawals -> [Events -> Handlers]]
    BY <1>12, NoHandlerType DEF Crash
  <2>3. crashes' \in 0..MaxCrashes
    BY <1>12, PayoutAssumption DEF TypeOK, Crash
  <2>. QED  BY <1>12, <2>1, <2>2, <2>3 DEF TypeOK, Crash, rowVars, gatewayVars
<1>13. CASE UNCHANGED vars
  BY <1>13 DEF TypeOK, vars, rowVars, gatewayVars
<1>. QED
  BY <1>1, <1>2, <1>3, <1>4, <1>5, <1>6, <1>7, <1>8, <1>9, <1>10, <1>11, <1>12, <1>13
  DEF Next

\* The columns, the event rows and the calls in flight keep their types in every
\* state that approvals, webhooks, the cron, the gateway and crashes can reach.
THEOREM TypeCorrect == Spec => []TypeOK
<1>1. Init => TypeOK
  <2>. SUFFICES ASSUME Init PROVE TypeOK
    OBVIOUS
  <2>1. event \in [Withdrawals -> [Events -> EventRows]]
    BY DEF Init, Events0, NoRow, EventRows
  <2>2. handler \in [Withdrawals -> [Events -> Handlers]]
    BY NoHandlerType DEF Init
  <2>3. approver \in [Approvers -> Calls]
    BY DEF Init, Calls
  <2>. QED  BY <2>1, <2>2, <2>3, NetIsNat, PayoutAssumption DEF Init, TypeOK, Statuses
<1>2. TypeOK /\ [Next]_vars => TypeOK'
  BY TypeStep
<1>. QED  BY <1>1, <1>2, PTL DEF Spec

------------------------------------------------------------------------------
(* What each helper does to each row, and the gateway's side *)

\* Advance moves one handler and no other, and keeps the amount it carries.
LEMMA AdvanceEffect ==
  ASSUME TypeOK, NEW w \in Withdrawals, NEW e \in Events,
         NEW pc \in {"none", "lookup", "apply", "finish"}, Advance(w, e, pc),
         NEW x \in Withdrawals, NEW f \in Events
  PROVE  /\ handler'[x][f].pc = IF x = w /\ f = e THEN pc ELSE handler[x][f].pc
         /\ handler'[x][f].amount = handler[x][f].amount
<1>1. handler[w][e] \in Handlers
  BY DEF TypeOK
<1>2. /\ [handler[w][e] EXCEPT !.pc = pc].pc = pc
      /\ [handler[w][e] EXCEPT !.pc = pc].amount = handler[w][e].amount
  BY <1>1 DEF Handlers
<1>. QED  BY <1>2 DEF TypeOK, Advance

\* CloseEvent writes the outcome of one event and ends its handler.
LEMMA CloseEventEffect ==
  ASSUME TypeOK, NEW w \in Withdrawals, NEW e \in Events, NEW outcome,
         CloseEvent(w, e, outcome),
         NEW x \in Withdrawals, NEW f \in Events
  PROVE  /\ event'[x][f].status = IF x = w /\ f = e THEN outcome ELSE event[x][f].status
         /\ event'[x][f].withdrawal = event[x][f].withdrawal
         /\ handler'[x][f] = IF x = w /\ f = e THEN NoHandler ELSE handler[x][f]
<1>1. event[w][e] \in EventRows
  BY DEF TypeOK
<1>2. /\ [event[w][e] EXCEPT !.status = outcome].status = outcome
      /\ [event[w][e] EXCEPT !.status = outcome].withdrawal = event[w][e].withdrawal
  BY <1>1 DEF EventRows
<1>. QED  BY <1>2 DEF TypeOK, CloseEvent

\* InsertEvent adds one row that was not there, and starts its handler.
LEMMA InsertEventEffect ==
  ASSUME TypeOK, NEW w \in Withdrawals, NEW e \in Events,
         NEW byId \in BOOLEAN, NEW amount,
         InsertEvent(w, e, byId, amount),
         NEW x \in Withdrawals, NEW f \in Events
  PROVE  /\ event[w][e].status = "absent"
         /\ event'[x][f].status = IF x = w /\ f = e THEN "received"
                                  ELSE event[x][f].status
         /\ event'[x][f].withdrawal = event[x][f].withdrawal
         /\ handler'[x][f].pc = IF x = w /\ f = e THEN "lookup" ELSE handler[x][f].pc
         /\ handler'[x][f].amount = IF x = w /\ f = e THEN amount
                                    ELSE handler[x][f].amount
<1>1. event[w][e] \in EventRows
  BY DEF TypeOK
<1>2. /\ [event[w][e] EXCEPT !.status = "received"].status = "received"
      /\ [event[w][e] EXCEPT !.status = "received"].withdrawal = event[w][e].withdrawal
  BY <1>1 DEF EventRows
<1>. QED  BY <1>2 DEF TypeOK, InsertEvent, NoRow

\* A final payout stays as it is, a payout does not vanish, notices are not taken back.
LEMMA GatewayStable ==
  ASSUME TypeOK, [Next]_vars, NEW x \in Withdrawals
  PROVE  /\ payout[x] \in {"completed", "failed"} => payout'[x] = payout[x]
         /\ payout[x] # "none" => payout'[x] # "none"
         /\ notices[x] \subseteq notices'[x]
<1>. DEFINE Stable ==
       /\ payout[x] \in {"completed", "failed"} => payout'[x] = payout[x]
       /\ payout[x] # "none" => payout'[x] # "none"
       /\ notices[x] \subseteq notices'[x]
<1>. SUFFICES Stable
  OBVIOUS
<1>1. CASE UNCHANGED <<payout, notices>>
  BY <1>1
<1>2. ASSUME NEW a \in Approvers, PostAccepted(a) \/ PostRefused(a) PROVE Stable
  BY <1>2 DEF TypeOK, PostAccepted, PostRefused
<1>3. ASSUME NEW w \in Withdrawals,
             GatewayAcceptsLate(w) \/ GatewaySettles(w) \/ RecipientReturns(w)
      PROVE Stable
  BY <1>3 DEF TypeOK, GatewayAcceptsLate, GatewaySettles, RecipientReturns
<1>4. ASSUME NEW a \in Approvers,
             Approve(a) \/ Record(a) \/ PostConflict(a) \/ PostLost(a)
      PROVE  UNCHANGED <<payout, notices>>
  BY <1>4 DEF Approve, Claim, ConfirmMismatch, InvalidPayload, InsufficientBalance,
     Dispatch, Record, RecordAccepted, RecordConflict, RecordFailure, PostConflict,
     PostLost, gatewayVars
<1>5. ASSUME NEW w \in Withdrawals,
             \/ Reject(w) \/ MarkPaidManually(w) \/ HandleEvent(w)
             \/ SkipRow(w) \/ ReconcileRow(w)
             \/ \E e \in Events : ReceiveWebhook(w, e)
      PROVE  UNCHANGED <<payout, notices>>
  BY <1>5
  DEF Reject, MarkPaidManually, HandleEvent, IgnoreEvent, LinkEvent, OrphanEvent,
     ApplyCompleted, ApplyFailed, ApplyRefunded, FinishEvent, SkipRow, ReconcileRow,
     ReceiveWebhook, gatewayVars
<1>6. ASSUME StartPass \/ Crash \/ UNCHANGED vars
      PROVE  UNCHANGED <<payout, notices>>
  BY <1>6 DEF StartPass, Crash, vars, gatewayVars
<1>. HIDE DEF Stable
<1>. QED
  BY <1>1, <1>2, <1>3, <1>4, <1>5, <1>6 DEF Next, Post

\* What the gateway has to report once, it has to report ever after.
LEMMA EmittedStable ==
  ASSUME TypeOK, [Next]_vars, NEW w \in Withdrawals, NEW e \in Events, Emitted(w, e)
  PROVE  Emitted(w, e)'
  BY GatewayStable DEF Emitted

\* References are the withdrawal's own; an event on record was emitted; a handler at
\* work has its row, and once linked it is about the withdrawal the event speaks of.
GatewayInv ==
  /\ \A w \in Withdrawals : gatewayId[w] \in {NoRef, w}
  /\ \A w \in Withdrawals : notices[w] # {} => payout[w] = "completed"
  /\ \A w \in Withdrawals, e \in Events : event[w][e].status # "absent" => Emitted(w, e)
  /\ \A w \in Withdrawals, e \in Events :
       handler[w][e].pc # "none" => event[w][e].status = "received"
  /\ \A w \in Withdrawals, e \in Events :
       handler[w][e].pc \in {"apply", "finish"} =>
         event[w][e].withdrawal = w /\ e \notin OtherEvents

\* LinkEvent finds the withdrawal the event speaks of and writes it into its row.
LEMMA LinkEventEffect ==
  ASSUME TypeOK, GatewayInv, NEW w \in Withdrawals, NEW e \in Events, LinkEvent(w, e),
         NEW x \in Withdrawals, NEW f \in Events
  PROVE  /\ event'[x][f].status = event[x][f].status
         /\ event'[x][f].withdrawal = IF x = w /\ f = e THEN w
                                      ELSE event[x][f].withdrawal
<1>1. PICK y \in Matches(w, e) :
        event' = [event EXCEPT ![w][e] = [@ EXCEPT !.withdrawal = y]]
  BY DEF LinkEvent
<1>2. y = w
  BY PayoutAssumption DEF Matches, GatewayInv
<1>3. event[w][e] \in EventRows
  BY DEF TypeOK
<1>4. /\ [event[w][e] EXCEPT !.withdrawal = w].status = event[w][e].status
      /\ [event[w][e] EXCEPT !.withdrawal = w].withdrawal = w
  BY <1>3 DEF EventRows
<1>. QED  BY <1>1, <1>2, <1>4 DEF TypeOK

\* Inserting an event that was emitted keeps GatewayInv.
LEMMA InsertKeeps ==
  ASSUME TypeOK, GatewayInv, NEW w \in Withdrawals, NEW e \in Events,
         NEW byId \in BOOLEAN, NEW amount,
         InsertEvent(w, e, byId, amount), Emitted(w, e),
         UNCHANGED <<gatewayId, gatewayVars>>
  PROVE  GatewayInv'
<1>1. \A x \in Withdrawals, f \in Events :
         /\ event'[x][f].status = IF x = w /\ f = e THEN "received"
                                  ELSE event[x][f].status
         /\ event'[x][f].withdrawal = event[x][f].withdrawal
         /\ handler'[x][f].pc = IF x = w /\ f = e THEN "lookup" ELSE handler[x][f].pc
  BY InsertEventEffect
<1>2. \A x \in Withdrawals, f \in Events : Emitted(x, f)' = Emitted(x, f)
  BY DEF Emitted, gatewayVars
<1>. QED  BY <1>1, <1>2 DEF GatewayInv, gatewayVars

\* Every step keeps GatewayInv.
LEMMA GatewayStep ==
  ASSUME TypeOK, GatewayInv, [Next]_vars
  PROVE  GatewayInv'
<1>0. /\ \A w \in Withdrawals, e \in Events : Emitted(w, e) => Emitted(w, e)'
      /\ \A w \in Withdrawals : payout[w] = "completed" => payout'[w] = "completed"
  BY EmittedStable, GatewayStable
<1>1. ASSUME NEW a \in Approvers, Approve(a) PROVE GatewayInv'
  BY <1>1, <1>0
  DEF Approve, Claim, ConfirmMismatch, InvalidPayload, InsufficientBalance, Dispatch,
      GatewayInv, gatewayVars, rowVars
<1>2. ASSUME NEW a \in Approvers, Post(a) PROVE GatewayInv'
  BY <1>2, <1>0
  DEF Post, PostAccepted, PostConflict, PostRefused, PostLost, GatewayInv, gatewayVars,
      rowVars
<1>3. ASSUME NEW a \in Approvers, Record(a) PROVE GatewayInv'
  <2>1. CASE RecordAccepted(a)
    BY <2>1, <1>0, CallInFlight
    DEF RecordAccepted, GatewayInv, gatewayVars, rowVars, TypeOK
  <2>2. CASE RecordConflict(a)
    BY <2>2, <1>0, CallInFlight
    DEF RecordConflict, GatewayInv, gatewayVars, rowVars, TypeOK
  <2>3. CASE RecordFailure(a)
    BY <2>3, <1>0 DEF RecordFailure, GatewayInv, gatewayVars, rowVars
  <2>. QED  BY <1>3, <2>1, <2>2, <2>3 DEF Record
<1>4. ASSUME NEW w \in Withdrawals, HandleEvent(w) PROVE GatewayInv'
  <2>1. ASSUME NEW e \in Events, IgnoreEvent(w, e) PROVE GatewayInv'
    BY <2>1, <1>0, CloseEventEffect, TypeOK
    DEF IgnoreEvent, GatewayInv, gatewayVars, rowVars, NoHandler
  <2>2. ASSUME NEW e \in Events, LinkEvent(w, e) PROVE GatewayInv'
    <3>1. \A x \in Withdrawals, f \in Events :
            /\ event'[x][f].status = event[x][f].status
            /\ event'[x][f].withdrawal = IF x = w /\ f = e THEN w
                                         ELSE event[x][f].withdrawal
      BY <2>2, LinkEventEffect
    <3>2. \A x \in Withdrawals, f \in Events :
            handler'[x][f].pc = IF x = w /\ f = e THEN "apply" ELSE handler[x][f].pc
      BY <2>2, AdvanceEffect DEF LinkEvent
    <3>. QED  BY <2>2, <3>1, <3>2, <1>0 DEF LinkEvent, GatewayInv, rowVars, gatewayVars
  <2>3. ASSUME NEW e \in Events, OrphanEvent(w, e) PROVE GatewayInv'
    BY <2>3, <1>0, CloseEventEffect, TypeOK
    DEF OrphanEvent, GatewayInv, gatewayVars, rowVars, NoHandler
  <2>4. CASE ApplyCompleted(w)
    BY <2>4, <1>0, AdvanceEffect, TypeOK, FinalEvents
    DEF ApplyCompleted, GatewayInv, gatewayVars, rowVars
  <2>5. CASE ApplyFailed(w)
    BY <2>5, <1>0, AdvanceEffect, TypeOK, FinalEvents
    DEF ApplyFailed, GatewayInv, gatewayVars, rowVars
  <2>6. CASE ApplyRefunded(w)
    BY <2>6, <1>0, AdvanceEffect, TypeOK, FinalEvents
    DEF ApplyRefunded, GatewayInv, gatewayVars, rowVars
  <2>7. ASSUME NEW e \in Events, FinishEvent(w, e) PROVE GatewayInv'
    BY <2>7, <1>0, CloseEventEffect, TypeOK
    DEF FinishEvent, GatewayInv, gatewayVars, rowVars, NoHandler
  <2>. QED  BY <1>4, <2>1, <2>2, <2>3, <2>4, <2>5, <2>6, <2>7 DEF HandleEvent
<1>5. ASSUME NEW w \in Withdrawals, Reject(w) PROVE GatewayInv'
  BY <1>5, <1>0 DEF Reject, GatewayInv, gatewayVars, rowVars
<1>6. ASSUME NEW w \in Withdrawals, MarkPaidManually(w) PROVE GatewayInv'
  BY <1>6, <1>0 DEF MarkPaidManually, GatewayInv, gatewayVars, rowVars
<1>7. ASSUME NEW w \in Withdrawals, NEW e \in Events, ReceiveWebhook(w, e)
      PROVE GatewayInv'
  BY <1>7, InsertKeeps, FinalEvents, PayoutAssumption
  DEF ReceiveWebhook, Emitted, gatewayVars, rowVars
<1>8. ASSUME NEW w \in Withdrawals, SkipRow(w) PROVE GatewayInv'
  BY <1>8, <1>0 DEF SkipRow, GatewayInv, gatewayVars, rowVars
<1>9. ASSUME NEW w \in Withdrawals, ReconcileRow(w) PROVE GatewayInv'
  BY <1>9, InsertKeeps, FinalEvents, PayoutAssumption
  DEF ReconcileRow, Emitted, gatewayVars, rowVars
<1>10. ASSUME NEW w \in Withdrawals, GatewayAcceptsLate(w) PROVE GatewayInv'
  BY <1>10, <1>0 DEF GatewayAcceptsLate, GatewayInv, gatewayVars, rowVars
<1>11. ASSUME NEW w \in Withdrawals, GatewaySettles(w) PROVE GatewayInv'
  BY <1>11, <1>0 DEF GatewaySettles, GatewayInv, gatewayVars, rowVars
<1>12. ASSUME NEW w \in Withdrawals, RecipientReturns(w) PROVE GatewayInv'
  BY <1>12, <1>0 DEF RecipientReturns, GatewayInv, gatewayVars, rowVars, TypeOK
<1>13. CASE StartPass
  BY <1>13, <1>0 DEF StartPass, GatewayInv, gatewayVars, rowVars
<1>14. CASE Crash
  BY <1>14, <1>0 DEF Crash, GatewayInv, gatewayVars, rowVars, NoHandler
<1>15. CASE UNCHANGED vars
  BY <1>15, <1>0 DEF vars, rowVars, GatewayInv, gatewayVars
<1>. QED
  BY <1>1, <1>2, <1>3, <1>4, <1>5, <1>6, <1>7, <1>8, <1>9, <1>10, <1>11, <1>12, <1>13,
     <1>14, <1>15
  DEF Next

\* In every reachable state webhooks and reconcile passes only work on events the
\* gateway emitted, and only for the withdrawal they speak of.
THEOREM GatewayFacts == Spec => []GatewayInv
<1>1. Init => GatewayInv
  BY DEF Init, GatewayInv, Events0, NoRow, NoHandler
<1>2. TypeOK /\ GatewayInv /\ [Next]_vars => GatewayInv'
  BY GatewayStep
<1>. QED  BY <1>1, <1>2, TypeCorrect, PTL DEF Spec

------------------------------------------------------------------------------
(* Approvals *)

\* One call per withdrawal; until its POST leaves nothing was sent, from then on one
\* POST was begun and the row is neither PENDING nor REJECTED; a payout has a POST.
ApprovalInv ==
  /\ \A a, b \in Approvers :
       approver[a].pc # "idle" /\ approver[b].pc # "idle" /\ approver[a].w = approver[b].w
         => a = b
  /\ \A a \in Approvers :
       approver[a].pc = "claimed" =>
         /\ dispatches[approver[a].w] = 0
         /\ status[approver[a].w] \in {"APPROVED", "COMPLETED"}
  /\ \A a \in Approvers :
       approver[a].pc \in {"posting", "replied"} =>
         /\ dispatches[approver[a].w] = 1
         /\ status[approver[a].w] \notin {"PENDING", "REJECTED"}
  /\ \A w \in Withdrawals : dispatches[w] \in {0, 1}
  /\ \A w \in Withdrawals : status[w] \in {"PENDING", "REJECTED"} => dispatches[w] = 0
  /\ \A w \in Withdrawals : payout[w] # "none" \/ w \in late => dispatches[w] = 1

\* Moving a call that posts within "posting" and "replied" keeps ApprovalInv.
LEMMA PostKeeps ==
  ASSUME TypeOK, ApprovalInv, NEW a \in Approvers, approver[a].pc = "posting",
         NEW call, approver' = [approver EXCEPT ![a] = call],
         call.pc \in {"posting", "replied"}, call.w = approver[a].w,
         UNCHANGED <<status, dispatches>>,
         \A w \in Withdrawals : payout'[w] # "none" \/ w \in late' =>
           payout[w] # "none" \/ w \in late \/ w = approver[a].w
  PROVE  ApprovalInv'
<1>1. \A b \in Approvers :
        /\ approver'[b].pc = IF b = a THEN call.pc ELSE approver[b].pc
        /\ approver'[b].w = approver[b].w
  BY DEF TypeOK
<1>2. approver[a].w \in Withdrawals
  BY CallInFlight
<1>. QED  BY <1>1, <1>2 DEF ApprovalInv

\* So does taking the answer, whatever it is.
LEMMA ReplyKeeps ==
  ASSUME TypeOK, ApprovalInv, NEW a \in Approvers, approver[a].pc = "posting",
         NEW reply, Reply(a, reply), UNCHANGED <<status, dispatches, late>>,
         \A w \in Withdrawals : payout'[w] # "none" =>
           payout[w] # "none" \/ w = approver[a].w
  PROVE  ApprovalInv'
<1>. DEFINE call == Call("replied", approver[a].w, approver[a].attempt, reply)
<1>1. call.pc = "replied" /\ call.w = approver[a].w
  BY DEF Call
<1>. QED  BY <1>1, PostKeeps DEF Reply

\* Every step keeps ApprovalInv.
LEMMA ApprovalStep ==
  ASSUME TypeOK, GatewayInv, ApprovalInv, [Next]_vars
  PROVE  ApprovalInv'
<1>0. \A a \in Approvers : approver[a].pc # "idle" =>
        /\ approver[a].pc \in {"claimed", "posting", "replied"}
        /\ approver[a].w \in Withdrawals
  BY CallInFlight

<1>1. ASSUME NEW a \in Approvers, Approve(a) PROVE ApprovalInv'
  <2>1. ASSUME NEW w \in Withdrawals, Claim(a, w) PROVE ApprovalInv'
    <3>1. \A b \in Approvers : approver'[b] = IF b = a THEN Call("claimed", w, 0, "none")
                                               ELSE approver[b]
      BY <2>1 DEF Claim, TypeOK
    <3>2. Call("claimed", w, 0, "none").pc = "claimed" /\ Call("claimed", w, 0, "none").w = w
      BY DEF Call
    <3>3. status[w] = "PENDING" /\ \A x \in Withdrawals :
            status'[x] = IF x = w THEN "APPROVED" ELSE status[x]
      BY <2>1 DEF Claim, TypeOK
    <3>4. UNCHANGED <<payout, late, dispatches>>
      BY <2>1 DEF Claim, gatewayVars
    <3>5. \A b \in Approvers \ {a} : approver[b].pc # "idle" => approver[b].w # w
      BY <3>3, <1>0 DEF ApprovalInv
    <3>. QED  BY <3>1, <3>2, <3>3, <3>4, <3>5, <1>0 DEF ApprovalInv
  <2>2. CASE ConfirmMismatch(a)
    BY <2>2, <1>0
    DEF ConfirmMismatch, TypeOK, ApprovalInv, gatewayVars, rowVars, RollBackClaim,
        SetStatus, EndApproval, Idle, Call
  <2>3. CASE InvalidPayload(a)
    BY <2>3, <1>0
    DEF InvalidPayload, TypeOK, ApprovalInv, gatewayVars, rowVars, MarkFailed,
        SetStatus, EndApproval, Idle, Call, Dispatched
  <2>4. CASE InsufficientBalance(a)
    BY <2>4, <1>0
    DEF InsufficientBalance, TypeOK, ApprovalInv, gatewayVars, rowVars, RollBackClaim,
        SetStatus, EndApproval, Idle, Call
  <2>5. CASE Dispatch(a)
    BY <2>5, <1>0 DEF Dispatch, TypeOK, ApprovalInv, gatewayVars, rowVars, Call, Idle
  <2>. QED  BY <1>1, <2>1, <2>2, <2>3, <2>4, <2>5 DEF Approve
<1>2. ASSUME NEW a \in Approvers, Post(a) PROVE ApprovalInv'
  <2>1. CASE PostAccepted(a)
    <3>1. \A x \in Withdrawals :
        payout'[x] # "none" => payout[x] # "none" \/ x = approver[a].w
      BY <2>1 DEF PostAccepted, TypeOK
    <3>. QED  BY <2>1, <3>1, ReplyKeeps DEF PostAccepted, GiveUp, rowVars
  <2>2. CASE PostConflict(a)
    BY <2>2, <1>0
    DEF PostConflict, TypeOK, ApprovalInv, gatewayVars, rowVars, Reply, Call
  <2>3. CASE PostRefused(a)
    <3>1. Reply(a, "error") /\ UNCHANGED <<status, dispatches, late>>
      BY <2>3 DEF PostRefused, GiveUp, rowVars
    <3>2. \A x \in Withdrawals :
            payout'[x] # "none" => payout[x] # "none" \/ x = approver[a].w
      BY <2>3 DEF PostRefused, TypeOK
    <3>. QED  BY <2>3, <3>1, <3>2, ReplyKeeps DEF PostRefused
  <2>4. CASE PostLost(a)
    <3>1. CASE approver[a].attempt < MaxAttempts
      <4>. DEFINE call == Call("posting", approver[a].w, approver[a].attempt + 1, "none")
      <4>1. call.pc = "posting" /\ call.w = approver[a].w
        BY DEF Call
      <4>. QED  BY <2>4, <3>1, <4>1, PostKeeps DEF PostLost, rowVars
    <3>2. CASE ~(approver[a].attempt < MaxAttempts)
      <4>. DEFINE call == Call("replied", approver[a].w, approver[a].attempt, "error")
      <4>1. call.pc = "replied" /\ call.w = approver[a].w
        BY DEF Call
      <4>. QED  BY <2>4, <3>2, <4>1, PostKeeps DEF PostLost, GiveUp, Reply, rowVars
    <3>. QED  BY <3>1, <3>2
  <2>. QED  BY <1>2, <2>1, <2>2, <2>3, <2>4 DEF Post
<1>3. ASSUME NEW a \in Approvers, Record(a) PROVE ApprovalInv'
  <2>1. CASE RecordAccepted(a)
    BY <2>1, <1>0
    DEF RecordAccepted, TypeOK, ApprovalInv, gatewayVars, rowVars, SetStatus,
        EndApproval, Idle, Call
  <2>2. CASE RecordConflict(a)
    BY <2>2, <1>0
    DEF RecordConflict, TypeOK, ApprovalInv, gatewayVars, rowVars, SetStatus,
        EndApproval, Idle, Call
  <2>3. CASE RecordFailure(a)
    BY <2>3, <1>0
    DEF RecordFailure, TypeOK, ApprovalInv, gatewayVars, rowVars, MarkFailed, SetStatus,
        EndApproval, Idle, Call, Dispatched
  <2>. QED  BY <1>3, <2>1, <2>2, <2>3 DEF Record
<1>4. ASSUME NEW w \in Withdrawals, HandleEvent(w) PROVE ApprovalInv'
  <2>1. ASSUME NEW e \in Events, IgnoreEvent(w, e) PROVE ApprovalInv'
    BY <2>1, <1>0 DEF IgnoreEvent, TypeOK, ApprovalInv, gatewayVars, rowVars
  <2>2. ASSUME NEW e \in Events, LinkEvent(w, e) PROVE ApprovalInv'
    BY <2>2, <1>0 DEF LinkEvent, TypeOK, ApprovalInv, gatewayVars, rowVars
  <2>3. ASSUME NEW e \in Events, OrphanEvent(w, e) PROVE ApprovalInv'
    BY <2>3, <1>0 DEF OrphanEvent, TypeOK, ApprovalInv, gatewayVars, rowVars
  <2>4. CASE ApplyCompleted(w)
    BY <2>4, <1>0, FinalEvents
    DEF ApplyCompleted, TypeOK, ApprovalInv, gatewayVars, rowVars, SetStatus,
        Dispatched, GatewayInv, Emitted
  <2>5. CASE ApplyFailed(w)
    <3>1. dispatches[w] = 1 /\ event[w]["PayOutFailed"].withdrawal = w
      BY <2>5, FinalEvents DEF ApplyFailed, ApprovalInv, GatewayInv, Emitted
    <3>. QED
      BY <2>5, <3>1, <1>0
      DEF ApplyFailed, TypeOK, ApprovalInv, gatewayVars, SetStatus, Dispatched
  <2>6. CASE ApplyRefunded(w)
    BY <2>6, <1>0 DEF ApplyRefunded, TypeOK, ApprovalInv, gatewayVars, rowVars
  <2>7. ASSUME NEW e \in Events, FinishEvent(w, e) PROVE ApprovalInv'
    BY <2>7, <1>0 DEF FinishEvent, TypeOK, ApprovalInv, gatewayVars, rowVars
  <2>. QED  BY <1>4, <2>1, <2>2, <2>3, <2>4, <2>5, <2>6, <2>7 DEF HandleEvent
<1>5. ASSUME NEW w \in Withdrawals, Reject(w) PROVE ApprovalInv'
  BY <1>5, <1>0 DEF Reject, TypeOK, ApprovalInv, gatewayVars, rowVars
<1>6. ASSUME NEW w \in Withdrawals, MarkPaidManually(w) PROVE ApprovalInv'
  BY <1>6, <1>0 DEF MarkPaidManually, TypeOK, ApprovalInv, gatewayVars, rowVars, Open
<1>7. ASSUME NEW w \in Withdrawals, NEW e \in Events, ReceiveWebhook(w, e)
      PROVE ApprovalInv'
  BY <1>7, <1>0 DEF ReceiveWebhook, TypeOK, ApprovalInv, gatewayVars, rowVars
<1>8. ASSUME NEW w \in Withdrawals, SkipRow(w) PROVE ApprovalInv'
  BY <1>8, <1>0 DEF SkipRow, TypeOK, ApprovalInv, gatewayVars, rowVars
<1>9. ASSUME NEW w \in Withdrawals, ReconcileRow(w) PROVE ApprovalInv'
  BY <1>9, <1>0 DEF ReconcileRow, TypeOK, ApprovalInv, gatewayVars, rowVars
<1>10. ASSUME NEW w \in Withdrawals, GatewayAcceptsLate(w) PROVE ApprovalInv'
  BY <1>10, <1>0 DEF GatewayAcceptsLate, TypeOK, ApprovalInv, gatewayVars, rowVars
<1>11. ASSUME NEW w \in Withdrawals, GatewaySettles(w) PROVE ApprovalInv'
  BY <1>11, <1>0 DEF GatewaySettles, TypeOK, ApprovalInv, gatewayVars, rowVars
<1>12. ASSUME NEW w \in Withdrawals, RecipientReturns(w) PROVE ApprovalInv'
  BY <1>12, <1>0 DEF RecipientReturns, TypeOK, ApprovalInv, gatewayVars, rowVars
<1>13. CASE StartPass
  BY <1>13, <1>0 DEF StartPass, TypeOK, ApprovalInv, gatewayVars, rowVars
<1>14. CASE Crash
  BY <1>14, <1>0 DEF Crash, TypeOK, ApprovalInv, gatewayVars, rowVars, Call, Idle
<1>15. CASE UNCHANGED vars
  BY <1>15, <1>0 DEF vars, rowVars, TypeOK, ApprovalInv, gatewayVars, rowVars
<1>. QED
  BY <1>1, <1>2, <1>3, <1>4, <1>5, <1>6, <1>7, <1>8, <1>9, <1>10, <1>11, <1>12, <1>13,
     <1>14, <1>15
  DEF Next

\* The compare-and-set of approveAndDispatch makes its caller the only one at work on
\* the row, until it ends or crashes.
THEOREM ApprovalFacts == Spec => []ApprovalInv
<1>1. Init => ApprovalInv
  BY DEF Init, ApprovalInv, Idle, Call
<1>2. TypeOK /\ GatewayInv /\ ApprovalInv /\ [Next]_vars => ApprovalInv'
  BY ApprovalStep
<1>. QED  BY <1>1, <1>2, TypeCorrect, GatewayFacts, PTL DEF Spec

------------------------------------------------------------------------------
(* Outcomes *)

\* No operation of the service leaves COMPLETED, REJECTED or FAILED.
LEMMA FinalStable ==
  ASSUME TypeOK, [Next]_vars, NEW x \in Withdrawals,
         status[x] \in {"COMPLETED", "REJECTED", "FAILED"}
  PROVE  status'[x] = status[x]

<1>1. ASSUME NEW a \in Approvers, Approve(a) PROVE status'[x] = status[x]
  <2>1. ASSUME NEW w \in Withdrawals, Claim(a, w) PROVE status'[x] = status[x]
    BY <2>1 DEF Claim, TypeOK, SetStatus, Dispatched
  <2>2. CASE ConfirmMismatch(a)
    BY <2>2 DEF ConfirmMismatch, TypeOK, SetStatus, Dispatched, RollBackClaim
  <2>3. CASE InvalidPayload(a)
    BY <2>3 DEF InvalidPayload, TypeOK, SetStatus, Dispatched, MarkFailed
  <2>4. CASE InsufficientBalance(a)
    BY <2>4 DEF InsufficientBalance, TypeOK, SetStatus, Dispatched, RollBackClaim
  <2>5. CASE Dispatch(a)
    BY <2>5 DEF Dispatch, rowVars
  <2>. QED  BY <1>1, <2>1, <2>2, <2>3, <2>4, <2>5 DEF Approve
<1>2. ASSUME NEW a \in Approvers, Post(a) PROVE status'[x] = status[x]
  BY <1>2
  DEF Post, PostAccepted, PostConflict, PostRefused, PostLost, rowVars
<1>3. ASSUME NEW a \in Approvers, Record(a) PROVE status'[x] = status[x]
  <2>1. CASE RecordAccepted(a)
    BY <2>1 DEF RecordAccepted, TypeOK, SetStatus, Dispatched
  <2>2. CASE RecordConflict(a)
    BY <2>2 DEF RecordConflict, TypeOK, SetStatus, Dispatched
  <2>3. CASE RecordFailure(a)
    BY <2>3 DEF RecordFailure, TypeOK, SetStatus, Dispatched, MarkFailed
  <2>. QED  BY <1>3, <2>1, <2>2, <2>3 DEF Record
<1>4. ASSUME NEW w \in Withdrawals, HandleEvent(w) PROVE status'[x] = status[x]
  <2>1. ASSUME NEW e \in Events, IgnoreEvent(w, e) PROVE status'[x] = status[x]
    BY <2>1 DEF IgnoreEvent, rowVars
  <2>2. ASSUME NEW e \in Events, LinkEvent(w, e) PROVE status'[x] = status[x]
    BY <2>2 DEF LinkEvent, rowVars
  <2>3. ASSUME NEW e \in Events, OrphanEvent(w, e) PROVE status'[x] = status[x]
    BY <2>3 DEF OrphanEvent, rowVars
  <2>4. CASE ApplyCompleted(w)
    BY <2>4 DEF ApplyCompleted, TypeOK, SetStatus, Dispatched
  <2>5. CASE ApplyFailed(w)
    BY <2>5 DEF ApplyFailed, TypeOK, SetStatus, Dispatched
  <2>6. CASE ApplyRefunded(w)
    BY <2>6 DEF ApplyRefunded, rowVars
  <2>7. ASSUME NEW e \in Events, FinishEvent(w, e) PROVE status'[x] = status[x]
    BY <2>7 DEF FinishEvent, rowVars
  <2>. QED  BY <1>4, <2>1, <2>2, <2>3, <2>4, <2>5, <2>6, <2>7 DEF HandleEvent
<1>5. ASSUME NEW w \in Withdrawals, Reject(w) PROVE status'[x] = status[x]
  BY <1>5 DEF Reject, TypeOK, SetStatus, Dispatched
<1>6. ASSUME NEW w \in Withdrawals, MarkPaidManually(w) PROVE status'[x] = status[x]
  BY <1>6 DEF MarkPaidManually, TypeOK, SetStatus, Dispatched, Open
<1>7. ASSUME NEW w \in Withdrawals, NEW e \in Events, ReceiveWebhook(w, e)
      PROVE status'[x] = status[x]
  BY <1>7 DEF ReceiveWebhook, rowVars
<1>8. ASSUME NEW w \in Withdrawals, SkipRow(w) PROVE status'[x] = status[x]
  BY <1>8 DEF SkipRow, rowVars
<1>9. ASSUME NEW w \in Withdrawals, ReconcileRow(w) PROVE status'[x] = status[x]
  BY <1>9 DEF ReconcileRow, rowVars
<1>10. ASSUME NEW w \in Withdrawals, GatewayAcceptsLate(w) PROVE status'[x] = status[x]
  BY <1>10 DEF GatewayAcceptsLate, rowVars
<1>11. ASSUME NEW w \in Withdrawals, GatewaySettles(w) PROVE status'[x] = status[x]
  BY <1>11 DEF GatewaySettles, rowVars
<1>12. ASSUME NEW w \in Withdrawals, RecipientReturns(w) PROVE status'[x] = status[x]
  BY <1>12 DEF RecipientReturns, rowVars
<1>13. CASE StartPass
  BY <1>13 DEF StartPass, rowVars
<1>14. CASE Crash
  BY <1>14 DEF Crash, rowVars
<1>15. CASE UNCHANGED vars
  BY <1>15 DEF vars, rowVars
<1>. QED
  BY <1>1, <1>2, <1>3, <1>4, <1>5, <1>6, <1>7, <1>8, <1>9, <1>10, <1>11, <1>12, <1>13,
     <1>14, <1>15
  DEF Next

\* An applied final event left its row COMPLETED or FAILED; COMPLETED rows were paid.
OutcomeInv ==
  /\ \A w \in Withdrawals, e \in {"PayOutCompleted", "PayOutFailed"} :
       handler[w][e].pc = "finish" => status[w] \in {"COMPLETED", "FAILED"}
  /\ ProcessedIsReflected
  /\ CompletedIsPaid

\* An event about to be applied is about a row whose POST was begun.
LEMMA AppliedEvent ==
  ASSUME TypeOK, GatewayInv, ApprovalInv, NEW w \in Withdrawals, NEW e \in Events,
         handler[w][e].pc = "apply"
  PROVE  /\ event[w][e].withdrawal = w
         /\ Emitted(w, e)
         /\ payout[w] # "none"
         /\ dispatches[w] = 1
         /\ status[w] \in {"APPROVED", "PROCESSING", "COMPLETED", "FAILED"}
<1>1. event[w][e].withdrawal = w /\ e \notin OtherEvents /\ Emitted(w, e)
  BY DEF GatewayInv
<1>2. payout[w] \in {"completed", "failed"}
  BY <1>1 DEF GatewayInv, Emitted, Events
<1>3. dispatches[w] = 1
  BY <1>2 DEF ApprovalInv
<1>4. status[w] \in Statuses \ {"PENDING", "REJECTED"}
  BY <1>3 DEF TypeOK, ApprovalInv
<1>. QED  BY <1>1, <1>2, <1>3, <1>4 DEF Statuses

\* Every step keeps OutcomeInv.
LEMMA OutcomeStep ==
  ASSUME TypeOK, GatewayInv, ApprovalInv, OutcomeInv, [Next]_vars
  PROVE  OutcomeInv'
<1>0. \A w \in Withdrawals :
        /\ status[w] \in {"COMPLETED", "FAILED"} => status'[w] = status[w]
        /\ payout[w] = "completed" => payout'[w] = "completed"
  BY FinalStable, GatewayStable

<1>1. ASSUME NEW a \in Approvers, Approve(a) PROVE OutcomeInv'
  <2>1. ASSUME NEW w \in Withdrawals, Claim(a, w) PROVE OutcomeInv'
    BY <2>1, <1>0
    DEF Claim, OutcomeInv, ProcessedIsReflected, CompletedIsPaid, TypeOK, rowVars
  <2>2. CASE ConfirmMismatch(a)
    BY <2>2, <1>0
    DEF ConfirmMismatch, OutcomeInv, ProcessedIsReflected, CompletedIsPaid, TypeOK,
        SetStatus, Dispatched, RollBackClaim
  <2>3. CASE InvalidPayload(a)
    BY <2>3, <1>0
    DEF InvalidPayload, OutcomeInv, ProcessedIsReflected, CompletedIsPaid, TypeOK,
        SetStatus, Dispatched, MarkFailed
  <2>4. CASE InsufficientBalance(a)
    BY <2>4, <1>0
    DEF InsufficientBalance, OutcomeInv, ProcessedIsReflected, CompletedIsPaid, TypeOK,
        SetStatus, Dispatched, RollBackClaim
  <2>5. CASE Dispatch(a)
    BY <2>5, <1>0
    DEF Dispatch, OutcomeInv, ProcessedIsReflected, CompletedIsPaid, TypeOK, rowVars
  <2>. QED  BY <1>1, <2>1, <2>2, <2>3, <2>4, <2>5 DEF Approve
<1>2. ASSUME NEW a \in Approvers, Post(a) PROVE OutcomeInv'
  <2>1. CASE PostAccepted(a)
    BY <2>1, <1>0
    DEF PostAccepted, OutcomeInv, ProcessedIsReflected, CompletedIsPaid, TypeOK, rowVars
  <2>2. CASE PostConflict(a)
    BY <2>2, <1>0
    DEF PostConflict, OutcomeInv, ProcessedIsReflected, CompletedIsPaid, TypeOK, rowVars
  <2>3. CASE PostRefused(a)
    BY <2>3, <1>0
    DEF PostRefused, OutcomeInv, ProcessedIsReflected, CompletedIsPaid, TypeOK, rowVars
  <2>4. CASE PostLost(a)
    BY <2>4, <1>0
    DEF PostLost, OutcomeInv, ProcessedIsReflected, CompletedIsPaid, TypeOK, rowVars
  <2>. QED  BY <1>2, <2>1, <2>2, <2>3, <2>4 DEF Post
<1>3. ASSUME NEW a \in Approvers, Record(a) PROVE OutcomeInv'
  <2>1. CASE RecordAccepted(a)
    BY <2>1, <1>0
    DEF RecordAccepted, OutcomeInv, ProcessedIsReflected, CompletedIsPaid, TypeOK,
        SetStatus, Dispatched
  <2>2. CASE RecordConflict(a)
    BY <2>2, <1>0
    DEF RecordConflict, OutcomeInv, ProcessedIsReflected, CompletedIsPaid, TypeOK,
        rowVars
  <2>3. CASE RecordFailure(a)
    BY <2>3, <1>0
    DEF RecordFailure, OutcomeInv, ProcessedIsReflected, CompletedIsPaid, TypeOK,
        SetStatus, Dispatched, MarkFailed
  <2>. QED  BY <1>3, <2>1, <2>2, <2>3 DEF Record
<1>4. ASSUME NEW w \in Withdrawals, HandleEvent(w) PROVE OutcomeInv'
  <2>1. ASSUME NEW e \in Events, IgnoreEvent(w, e) PROVE OutcomeInv'
    BY <2>1, <1>0, CloseEventEffect, TypeOK, FinalEvents
    DEF IgnoreEvent, OutcomeInv, ProcessedIsReflected, CompletedIsPaid, NoHandler,
        rowVars
  <2>2. ASSUME NEW e \in Events, LinkEvent(w, e) PROVE OutcomeInv'
    BY <2>2, <1>0, LinkEventEffect, AdvanceEffect, TypeOK, FinalEvents
    DEF LinkEvent, OutcomeInv, ProcessedIsReflected, CompletedIsPaid, rowVars
  <2>3. ASSUME NEW e \in Events, OrphanEvent(w, e) PROVE OutcomeInv'
    BY <2>3, <1>0, CloseEventEffect, TypeOK, FinalEvents
    DEF OrphanEvent, OutcomeInv, ProcessedIsReflected, CompletedIsPaid, NoHandler,
        rowVars
  <2>4. CASE ApplyCompleted(w)
    <3>1. /\ event[w]["PayOutCompleted"].withdrawal = w
          /\ Emitted(w, "PayOutCompleted")
          /\ status[w] \in {"APPROVED", "PROCESSING", "COMPLETED", "FAILED"}
      BY <2>4, AppliedEvent, FinalEvents DEF ApplyCompleted
    <3>2. \A x \in Withdrawals :
            status'[x] = IF x = w /\ status[w] \in Dispatched THEN "COMPLETED"
                         ELSE status[x]
      BY <2>4, <3>1 DEF ApplyCompleted, SetStatus, TypeOK
    <3>3. \A x \in Withdrawals, e \in Events :
            handler'[x][e].pc = IF x = w /\ e = "PayOutCompleted" THEN "finish"
                                ELSE handler[x][e].pc
      BY <2>4, AdvanceEffect, FinalEvents DEF ApplyCompleted
    <3>. QED
      BY <2>4, <3>1, <3>2, <3>3, <1>0, FinalEvents
      DEF ApplyCompleted, OutcomeInv, ProcessedIsReflected, CompletedIsPaid, Dispatched,
          Emitted
  <2>5. CASE ApplyFailed(w)
    <3>1. /\ event[w]["PayOutFailed"].withdrawal = w
          /\ Emitted(w, "PayOutFailed")
          /\ status[w] \in {"APPROVED", "PROCESSING", "COMPLETED", "FAILED"}
      BY <2>5, AppliedEvent, FinalEvents DEF ApplyFailed
    <3>2. \A x \in Withdrawals :
            status'[x] = IF x = w /\ status[w] \in Dispatched THEN "FAILED"
                         ELSE status[x]
      BY <2>5, <3>1 DEF ApplyFailed, SetStatus, TypeOK
    <3>3. \A x \in Withdrawals, e \in Events :
            handler'[x][e].pc = IF x = w /\ e = "PayOutFailed" THEN "finish"
                                ELSE handler[x][e].pc
      BY <2>5, AdvanceEffect, FinalEvents DEF ApplyFailed
    <3>. QED
      BY <2>5, <3>1, <3>2, <3>3, <1>0, FinalEvents
      DEF ApplyFailed, OutcomeInv, ProcessedIsReflected, CompletedIsPaid, Dispatched,
          Emitted
  <2>6. CASE ApplyRefunded(w)
    <3>1. \A x \in Withdrawals, e \in Events :
            handler'[x][e].pc = IF x = w /\ e = "PayOutRefunded" THEN "finish"
                                ELSE handler[x][e].pc
      BY <2>6, AdvanceEffect, FinalEvents DEF ApplyRefunded
    <3>. QED
      BY <2>6, <3>1, <1>0, FinalEvents
      DEF ApplyRefunded, OutcomeInv, ProcessedIsReflected, CompletedIsPaid
  <2>7. ASSUME NEW e \in Events, FinishEvent(w, e) PROVE OutcomeInv'
    BY <2>7, <1>0, CloseEventEffect, TypeOK, FinalEvents
    DEF FinishEvent, OutcomeInv, ProcessedIsReflected, CompletedIsPaid, NoHandler,
        rowVars
  <2>. QED  BY <1>4, <2>1, <2>2, <2>3, <2>4, <2>5, <2>6, <2>7 DEF HandleEvent
<1>5. ASSUME NEW w \in Withdrawals, Reject(w) PROVE OutcomeInv'
  BY <1>5, <1>0
  DEF Reject, OutcomeInv, ProcessedIsReflected, CompletedIsPaid, TypeOK, rowVars
<1>6. ASSUME NEW w \in Withdrawals, MarkPaidManually(w) PROVE OutcomeInv'
  BY <1>6, <1>0
  DEF MarkPaidManually, OutcomeInv, ProcessedIsReflected, CompletedIsPaid, TypeOK, Open
<1>7. ASSUME NEW w \in Withdrawals, NEW e \in Events, ReceiveWebhook(w, e)
      PROVE OutcomeInv'
  BY <1>7, <1>0, InsertEventEffect, TypeOK, FinalEvents, PayoutAssumption
  DEF ReceiveWebhook, OutcomeInv, ProcessedIsReflected, CompletedIsPaid, rowVars
<1>8. ASSUME NEW w \in Withdrawals, SkipRow(w) PROVE OutcomeInv'
  BY <1>8, <1>0
  DEF SkipRow, OutcomeInv, ProcessedIsReflected, CompletedIsPaid, TypeOK, rowVars
<1>9. ASSUME NEW w \in Withdrawals, ReconcileRow(w) PROVE OutcomeInv'
  <2>1. PICK e \in Events, byId \in BOOLEAN : InsertEvent(w, e, byId, 0)
    BY <1>9, FinalEvents DEF ReconcileRow
  <2>2. \A x \in Withdrawals, f \in Events :
          /\ event'[x][f].status = IF x = w /\ f = e THEN "received"
                                   ELSE event[x][f].status
          /\ handler'[x][f].pc = IF x = w /\ f = e THEN "lookup" ELSE handler[x][f].pc
    BY <2>1, InsertEventEffect
  <2>. QED
    BY <1>9, <2>2, <1>0, FinalEvents
    DEF ReconcileRow, OutcomeInv, ProcessedIsReflected, CompletedIsPaid, rowVars
<1>10. ASSUME NEW w \in Withdrawals, GatewayAcceptsLate(w) PROVE OutcomeInv'
  BY <1>10, <1>0
  DEF GatewayAcceptsLate, OutcomeInv, ProcessedIsReflected, CompletedIsPaid, TypeOK,
      rowVars
<1>11. ASSUME NEW w \in Withdrawals, GatewaySettles(w) PROVE OutcomeInv'
  BY <1>11, <1>0
  DEF GatewaySettles, OutcomeInv, ProcessedIsReflected, CompletedIsPaid, TypeOK, rowVars
<1>12. ASSUME NEW w \in Withdrawals, RecipientReturns(w) PROVE OutcomeInv'
  BY <1>12, <1>0
  DEF RecipientReturns, OutcomeInv, ProcessedIsReflected, CompletedIsPaid, TypeOK,
      rowVars
<1>13. CASE StartPass
  BY <1>13, <1>0
  DEF StartPass, OutcomeInv, ProcessedIsReflected, CompletedIsPaid, TypeOK, rowVars
<1>14. CASE Crash
  BY <1>14, <1>0, FinalEvents
  DEF Crash, OutcomeInv, ProcessedIsReflected, CompletedIsPaid, NoHandler, rowVars
<1>15. CASE UNCHANGED vars
  BY <1>15, <1>0
  DEF vars, gatewayVars, OutcomeInv, ProcessedIsReflected, CompletedIsPaid, TypeOK,
      rowVars
<1>. QED
  BY <1>1, <1>2, <1>3, <1>4, <1>5, <1>6, <1>7, <1>8, <1>9, <1>10, <1>11, <1>12, <1>13,
     <1>14, <1>15
  DEF Next

\* In every reachable state final events are reflected and COMPLETED rows were paid.
THEOREM OutcomeFacts == Spec => []OutcomeInv
<1>1. Init => OutcomeInv
  BY FinalEvents
  DEF Init, OutcomeInv, ProcessedIsReflected, CompletedIsPaid, Events0, NoRow, NoHandler
<1>2. TypeOK /\ GatewayInv /\ ApprovalInv /\ OutcomeInv /\ [Next]_vars => OutcomeInv'
  BY OutcomeStep
<1>. QED  BY <1>1, <1>2, TypeCorrect, GatewayFacts, ApprovalFacts, PTL DEF Spec

------------------------------------------------------------------------------
(* Credits *)

\* Before its one refund event is applied a row has no credit; notices announce what
\* was returned; a handler carries one of them, in the unit of the webhook.
CreditInv ==
  /\ \A w \in Withdrawals, total \in Nat :
      total \in notices[w] => total \in 1..returned[w]
  /\ \A w \in Withdrawals :
       event[w]["PayOutRefunded"].status = "absent" => refunded[w] = 0
  /\ \A w \in Withdrawals :
       handler[w]["PayOutRefunded"].pc \in {"lookup", "apply"} => refunded[w] = 0
  /\ \A w \in Withdrawals :
       handler[w]["PayOutRefunded"].pc # "none" =>
         /\ handler[w]["PayOutRefunded"].amount > 0
         /\ \E total \in notices[w] :
              handler[w]["PayOutRefunded"].amount = total * RefundUnit
  /\ RefundIsBacked

\* A step that leaves credits and refund events alone keeps CreditInv.
LEMMA CreditKeeps ==
  ASSUME TypeOK, TypeOK', CreditInv, UNCHANGED <<refunded, returned, notices>>,
         \A w \in Withdrawals :
           /\ event'[w]["PayOutRefunded"].status = "absent" =>
                event[w]["PayOutRefunded"].status = "absent"
           /\ handler'[w]["PayOutRefunded"].pc \in {"lookup", "apply"} =>
                handler[w]["PayOutRefunded"].pc \in {"lookup", "apply"}
           /\ handler'[w]["PayOutRefunded"].pc # "none" =>
                /\ handler[w]["PayOutRefunded"].pc # "none"
                /\ handler'[w]["PayOutRefunded"].amount =
                     handler[w]["PayOutRefunded"].amount
  PROVE  CreditInv'
  BY DEF CreditInv, RefundIsBacked

\* Every step keeps CreditInv.
LEMMA CreditStep ==
  ASSUME TypeOK, GatewayInv, ApprovalInv, CreditInv, [Next]_vars
  PROVE  CreditInv'
<1>0. TypeOK'
  BY TypeStep

<1>1. ASSUME NEW a \in Approvers, Approve(a) PROVE CreditInv'
  BY <1>1, <1>0, CreditKeeps
  DEF Approve, Claim, ConfirmMismatch, InvalidPayload, InsufficientBalance, Dispatch,
      rowVars, gatewayVars
<1>2. ASSUME NEW a \in Approvers, Post(a) PROVE CreditInv'
  BY <1>2, <1>0, CreditKeeps
  DEF Post, PostAccepted, PostConflict, PostRefused, PostLost, rowVars, gatewayVars
<1>3. ASSUME NEW a \in Approvers, Record(a) PROVE CreditInv'
  BY <1>3, <1>0, CreditKeeps
  DEF Record, RecordAccepted, RecordConflict, RecordFailure, rowVars, gatewayVars
<1>4. ASSUME NEW w \in Withdrawals, HandleEvent(w) PROVE CreditInv'
  <2>1. ASSUME NEW e \in Events, IgnoreEvent(w, e) PROVE CreditInv'
    BY <2>1, <1>0, CreditKeeps, CloseEventEffect, FinalEvents
    DEF IgnoreEvent, NoHandler, rowVars, gatewayVars
  <2>2. ASSUME NEW e \in Events, LinkEvent(w, e) PROVE CreditInv'
    BY <2>2, <1>0, CreditKeeps, LinkEventEffect, AdvanceEffect, FinalEvents
    DEF LinkEvent, rowVars, gatewayVars
  <2>3. ASSUME NEW e \in Events, OrphanEvent(w, e) PROVE CreditInv'
    BY <2>3, <1>0, CreditKeeps, CloseEventEffect, FinalEvents
    DEF OrphanEvent, NoHandler, rowVars, gatewayVars
  <2>4. CASE ApplyCompleted(w)
    BY <2>4, <1>0, CreditKeeps, AdvanceEffect, FinalEvents
    DEF ApplyCompleted, rowVars, gatewayVars
  <2>5. CASE ApplyFailed(w)
    BY <2>5, <1>0, CreditKeeps, AdvanceEffect, FinalEvents
    DEF ApplyFailed, rowVars, gatewayVars
  <2>6. CASE ApplyRefunded(w)
    <3>. DEFINE amount == handler[w]["PayOutRefunded"].amount
    <3>1. event[w]["PayOutRefunded"].withdrawal = w
      BY <2>6, AppliedEvent, FinalEvents DEF ApplyRefunded
    <3>2. \A x \in Withdrawals :
            /\ handler'[x]["PayOutRefunded"].pc =
                 IF x = w THEN "finish" ELSE handler[x]["PayOutRefunded"].pc
            /\ handler'[x]["PayOutRefunded"].amount = handler[x]["PayOutRefunded"].amount
      BY <2>6, AdvanceEffect, FinalEvents DEF ApplyRefunded
    <3>3. PICK total \in notices[w] : amount = total * RefundUnit
      BY <2>6 DEF ApplyRefunded, CreditInv
    <3>4. total <= returned[w]
      BY NetIsNat DEF CreditInv, TypeOK
    <3>5. \A x \in Withdrawals :
            \/ refunded'[x] = refunded[x]
            \/ x = w /\ refunded'[x] = LeastOf(amount, Gross)
      BY <2>6, <3>1 DEF ApplyRefunded, TypeOK
    <3>6. event[w]["PayOutRefunded"].status # "absent"
      BY <2>6, FinalEvents DEF ApplyRefunded, GatewayInv
    <3>7. UNCHANGED <<event, returned, notices>>
      BY <2>6 DEF ApplyRefunded, gatewayVars
    <3>8. RefundIsBacked'
      BY <3>3, <3>4, <3>5, <3>7 DEF CreditInv, RefundIsBacked
    <3>9. \A x \in Withdrawals : handler'[x]["PayOutRefunded"].pc # "none" =>
            /\ handler[x]["PayOutRefunded"].pc # "none"
            /\ handler'[x]["PayOutRefunded"].amount = handler[x]["PayOutRefunded"].amount
      BY <2>6, <3>2 DEF ApplyRefunded
    <3>10. \A x \in Withdrawals :
             handler'[x]["PayOutRefunded"].pc \in {"lookup", "apply"} => x # w
      BY <3>2
    <3>. QED  BY <3>2, <3>5, <3>6, <3>7, <3>8, <3>9, <3>10 DEF CreditInv
  <2>7. ASSUME NEW e \in Events, FinishEvent(w, e) PROVE CreditInv'
    BY <2>7, <1>0, CreditKeeps, CloseEventEffect, FinalEvents
    DEF FinishEvent, NoHandler, rowVars, gatewayVars
  <2>. QED  BY <1>4, <2>1, <2>2, <2>3, <2>4, <2>5, <2>6, <2>7 DEF HandleEvent
<1>5. ASSUME NEW w \in Withdrawals, Reject(w) PROVE CreditInv'
  BY <1>5, <1>0, CreditKeeps DEF Reject, rowVars, gatewayVars
<1>6. ASSUME NEW w \in Withdrawals, MarkPaidManually(w) PROVE CreditInv'
  BY <1>6, <1>0, CreditKeeps DEF MarkPaidManually, rowVars, gatewayVars
<1>7. ASSUME NEW w \in Withdrawals, NEW e \in Events, ReceiveWebhook(w, e)
      PROVE CreditInv'
  <2>1. PICK amount \in IF e = "PayOutRefunded" THEN notices[w] ELSE {0} :
          InsertEvent(w, e, EchoesCorrelation, amount * RefundUnit)
    BY <1>7 DEF ReceiveWebhook
  <2>. DEFINE sum == amount * RefundUnit
  <2>2. \A x \in Withdrawals :
          /\ event[w][e].status = "absent"
          /\ event'[x]["PayOutRefunded"].status =
               IF x = w /\ "PayOutRefunded" = e THEN "received"
               ELSE event[x]["PayOutRefunded"].status
          /\ handler'[x]["PayOutRefunded"].pc =
               IF x = w /\ "PayOutRefunded" = e THEN "lookup"
               ELSE handler[x]["PayOutRefunded"].pc
          /\ handler'[x]["PayOutRefunded"].amount =
               IF x = w /\ "PayOutRefunded" = e THEN sum
               ELSE handler[x]["PayOutRefunded"].amount
    BY <2>1, InsertEventEffect, FinalEvents, PayoutAssumption
  <2>3. CASE e = "PayOutRefunded"
    <3>1. amount \in 1..returned[w] /\ returned[w] \in Nat /\ RefundUnit \in Nat \ {0}
      BY <2>3, NetIsNat, PayoutAssumption DEF CreditInv, TypeOK
    <3>2. \A m, n \in Nat \ {0} : m * n > 0
      OBVIOUS
    <3>3. sum > 0
      BY <3>1, <3>2
    <3>4. \E total \in notices[w] : sum = total * RefundUnit
      BY <2>3
    <3>. HIDE DEF sum
    <3>. QED
      BY <1>7, <2>2, <2>3, <3>3, <3>4
      DEF ReceiveWebhook, CreditInv, RefundIsBacked, rowVars, gatewayVars
  <2>4. CASE e # "PayOutRefunded"
    BY <1>7, <1>0, <2>2, <2>4, CreditKeeps DEF ReceiveWebhook, rowVars, gatewayVars
  <2>. QED  BY <2>3, <2>4
<1>8. ASSUME NEW w \in Withdrawals, SkipRow(w) PROVE CreditInv'
  BY <1>8, <1>0, CreditKeeps DEF SkipRow, rowVars, gatewayVars
<1>9. ASSUME NEW w \in Withdrawals, ReconcileRow(w) PROVE CreditInv'
  <2>1. PICK e \in {"PayOutCompleted", "PayOutFailed"}, byId \in BOOLEAN :
          InsertEvent(w, e, byId, 0)
    BY <1>9 DEF ReconcileRow
  <2>2. \A x \in Withdrawals :
          /\ event'[x]["PayOutRefunded"].status = event[x]["PayOutRefunded"].status
          /\ handler'[x]["PayOutRefunded"].pc = handler[x]["PayOutRefunded"].pc
          /\ handler'[x]["PayOutRefunded"].amount = handler[x]["PayOutRefunded"].amount
    BY <2>1, InsertEventEffect, FinalEvents
  <2>. QED  BY <1>9, <1>0, <2>2, CreditKeeps DEF ReconcileRow, rowVars, gatewayVars
<1>10. ASSUME NEW w \in Withdrawals, GatewayAcceptsLate(w) PROVE CreditInv'
  BY <1>10, <1>0, CreditKeeps DEF GatewayAcceptsLate, rowVars, gatewayVars
<1>11. ASSUME NEW w \in Withdrawals, GatewaySettles(w) PROVE CreditInv'
  BY <1>11, <1>0, CreditKeeps DEF GatewaySettles, rowVars, gatewayVars
<1>12. ASSUME NEW w \in Withdrawals, RecipientReturns(w) PROVE CreditInv'
  <2>1. PICK total \in (returned[w] + 1)..Net :
          /\ returned' = [returned EXCEPT ![w] = total]
          /\ notices' = [notices EXCEPT ![w] = @ \cup {total}]
    BY <1>12 DEF RecipientReturns
  <2>2. \A x \in Withdrawals : returned[x] \in Nat /\ refunded[x] \in Nat
    BY NetIsNat, PayoutAssumption DEF TypeOK
  <2>3. total \in Nat /\ total > returned[w]
    BY <2>1, <2>2, NetIsNat
  <2>4. \A x \in Withdrawals : returned'[x] = IF x = w THEN total ELSE returned[x]
    BY <2>1 DEF TypeOK
  <2>5. \A x \in Withdrawals :
          notices'[x] = IF x = w THEN notices[x] \cup {total} ELSE notices[x]
    BY <2>1 DEF TypeOK
  <2>6. \A x \in Withdrawals : handler[x]["PayOutRefunded"].amount \in Nat
    BY FinalEvents DEF TypeOK, Handlers
  <2>7. UNCHANGED <<refunded, event, handler>>
    BY <1>12 DEF RecipientReturns, rowVars
  <2>8. \A x \in Withdrawals : notices[x] \subseteq notices'[x]
    BY <2>5
  <2>9. RefundIsBacked'
    <3>1. SUFFICES ASSUME NEW x \in Withdrawals
                   PROVE  \E n \in notices'[x] \cup {0} :
                            n <= returned'[x] /\ refunded'[x] = LeastOf(n * RefundUnit, Gross)
      BY DEF RefundIsBacked
    <3>2. PICK n \in notices[x] \cup {0} :
            n <= returned[x] /\ refunded[x] = LeastOf(n * RefundUnit, Gross)
      BY DEF CreditInv, RefundIsBacked
    <3>3. n \in Nat
      BY NetIsNat DEF TypeOK
    <3>4. n <= returned'[x]
      BY <2>2, <2>3, <2>4, <3>2, <3>3
    <3>. QED  BY <2>7, <2>8, <3>2, <3>4
  <2>10. \A x \in Withdrawals, n \in Nat : n \in notices'[x] => n \in 1..returned'[x]
    <3>. SUFFICES ASSUME NEW x \in Withdrawals, NEW n \in Nat, n \in notices'[x]
                  PROVE  n \in 1..returned'[x]
      OBVIOUS
    <3>1. CASE x = w /\ n = total
      BY <2>2, <2>3, <2>4, <3>1
    <3>2. CASE ~(x = w /\ n = total)
      <4>1. n \in 1..returned[x]
        BY <2>5, <3>2 DEF CreditInv
      <4>. QED  BY <2>2, <2>3, <2>4, <4>1
    <3>. QED  BY <3>1, <3>2
  <2>. QED  BY <2>7, <2>8, <2>9, <2>10 DEF CreditInv
<1>13. CASE StartPass
  BY <1>13, <1>0, CreditKeeps DEF StartPass, rowVars, gatewayVars
<1>14. CASE Crash
  BY <1>14, <1>0, CreditKeeps, FinalEvents DEF Crash, NoHandler, rowVars, gatewayVars
<1>15. CASE UNCHANGED vars
  BY <1>15, <1>0, CreditKeeps DEF vars, rowVars, gatewayVars
<1>. QED
  BY <1>1, <1>2, <1>3, <1>4, <1>5, <1>6, <1>7, <1>8, <1>9, <1>10, <1>11, <1>12, <1>13,
     <1>14, <1>15
  DEF Next

\* PayOutRefunded is applied once per withdrawal, to a row without a credit.
THEOREM CreditFacts == Spec => []CreditInv
<1>1. Init => CreditInv
  <2>. SUFFICES ASSUME Init PROVE CreditInv
    OBVIOUS
  <2>1. 0 <= 0 /\ LeastOf(0 * RefundUnit, Gross) = 0
    BY PayoutAssumption DEF LeastOf
  <2>2. RefundIsBacked
    BY <2>1 DEF Init, RefundIsBacked
  <2>. QED  BY <2>2, FinalEvents DEF Init, CreditInv, Events0, NoRow, NoHandler
<1>2. TypeOK /\ GatewayInv /\ ApprovalInv /\ CreditInv /\ [Next]_vars => CreditInv'
  BY CreditStep
<1>. QED  BY <1>1, <1>2, TypeCorrect, GatewayFacts, ApprovalFacts, PTL DEF Spec

------------------------------------------------------------------------------
(* The refinement of WithdrawalLifecycle *)

\* A step of the abstract specification, or a stutter.
LStep == [Lifecycle!Next]_(Lifecycle!vars)

\* Steps within one phase are stutters.
LEMMA LifecycleStutter ==
  ASSUME TypeOK, TypeOK', UNCHANGED <<dispatches, refunded>>,
         \A w \in Withdrawals : Phase(w)' = Phase(w)
  PROVE  UNCHANGED Lifecycle!vars
  BY DEF Lifecycle!vars, TypeOK

\* So are steps that leave status, POSTs and credits alone.
LEMMA SameStatus ==
  ASSUME TypeOK, TypeOK', UNCHANGED <<status, dispatches, refunded>>
  PROVE  UNCHANGED Lifecycle!vars
  BY LifecycleStutter DEF Phase

\* A move of an open row settles it, releases it or keeps it open.
LEMMA StatusMove ==
  ASSUME TypeOK, TypeOK', UNCHANGED <<dispatches, refunded>>,
         NEW w \in Withdrawals, NEW to \in Statuses,
         status[w] \in Open, status' = [status EXCEPT ![w] = to]
  PROVE  LStep
<1>1. \A x \in Withdrawals : status'[x] = IF x = w THEN to ELSE status[x]
  BY DEF TypeOK
<1>2. CASE to \in Open
  BY <1>1, <1>2, LifecycleStutter DEF Phase, LStep
<1>3. CASE to = "COMPLETED"
  <2>1. /\ Phase(w) = "open"
        /\ \A x \in Withdrawals : Phase(x)' = IF x = w THEN "settled" ELSE Phase(x)
    BY <1>1, <1>3 DEF Phase, Open
  <2>2. Lifecycle!Settle(w)
    BY <2>1 DEF Lifecycle!Settle
  <2>. QED  BY <2>2 DEF LStep, Lifecycle!Next
<1>4. CASE to \in {"REJECTED", "FAILED"}
  <2>1. /\ Phase(w) = "open"
        /\ \A x \in Withdrawals : Phase(x)' = IF x = w THEN "released" ELSE Phase(x)
    BY <1>1, <1>4 DEF Phase, Open
  <2>2. Lifecycle!Release(w)
    BY <2>1 DEF Lifecycle!Release
  <2>. QED  BY <2>2 DEF LStep, Lifecycle!Next
<1>. QED  BY <1>2, <1>3, <1>4 DEF Statuses, Open

\* So does a compare-and-set from open statuses, if it finds its row in one.
LEMMA SetStatusMove ==
  ASSUME TypeOK, TypeOK', UNCHANGED <<dispatches, refunded>>,
         NEW w \in Withdrawals, NEW from \in SUBSET Open, NEW to \in Statuses,
         SetStatus(w, from, to)
  PROVE  LStep
<1>1. CASE status[w] \in from
  BY <1>1, StatusMove DEF SetStatus
<1>2. CASE status[w] \notin from
  BY <1>2, SameStatus DEF SetStatus, LStep
<1>. QED  BY <1>1, <1>2

\* The first POST is the abstract Send.
LEMMA DispatchSends ==
  ASSUME TypeOK, ApprovalInv, NEW a \in Approvers, Dispatch(a)
  PROVE  LStep
<1>1. PICK w \in Withdrawals : w = approver[a].w
  BY CallInFlight DEF Dispatch
<1>2. dispatches[w] = 0 /\ status[w] \in {"APPROVED", "COMPLETED"}
  BY <1>1 DEF ApprovalInv, Dispatch
<1>3. \A x \in Withdrawals : dispatches'[x] = IF x = w THEN 1 ELSE dispatches[x]
  BY <1>1, <1>2 DEF Dispatch, TypeOK
<1>4. Phase(w) # "released" /\ \A x \in Withdrawals : Phase(x)' = Phase(x)
  BY <1>2 DEF Dispatch, rowVars, Phase, Open
<1>5. refunded' = refunded
  BY DEF Dispatch, rowVars
<1>6. Lifecycle!Send(w)
  BY <1>2, <1>3, <1>4, <1>5 DEF Lifecycle!Send, Dispatch, TypeOK
<1>. QED  BY <1>6 DEF LStep, Lifecycle!Next

\* Applying PayOutRefunded is the abstract Credit, or nothing.
LEMMA RefundCredits ==
  ASSUME TypeOK, TypeOK', GatewayInv, ApprovalInv, CreditInv,
         NEW w \in Withdrawals, ApplyRefunded(w)
  PROVE  LStep
<1>. DEFINE amount == handler[w]["PayOutRefunded"].amount
<1>1. /\ event[w]["PayOutRefunded"].withdrawal = w
      /\ dispatches[w] = 1 /\ payout[w] # "none" /\ Emitted(w, "PayOutRefunded")
  BY AppliedEvent, FinalEvents DEF ApplyRefunded
<1>2. CASE status[w] \in {"COMPLETED", "PROCESSING"}
  <2>1. refunded' = [refunded EXCEPT ![w] = LeastOf(amount, Gross)]
    BY <1>1, <1>2 DEF ApplyRefunded
  <2>2. refunded[w] = 0 /\ amount > 0 /\ amount \in Nat
    BY FinalEvents DEF ApplyRefunded, CreditInv, TypeOK, Handlers
  <2>3. Gross > 0
    <3>1. PICK total \in notices[w] : TRUE
      BY <1>1 DEF Emitted
    <3>2. total \in 1..returned[w] /\ returned[w] \in 0..Net
      BY <3>1, NetIsNat DEF CreditInv, TypeOK
    <3>. QED  BY <3>2, NetIsNat, PayoutAssumption
  <2>4. LeastOf(amount, Gross) \in 1..Gross
    BY <2>2, <2>3, PayoutAssumption DEF LeastOf
  <2>5. status' = status /\ dispatches' = dispatches
    BY DEF ApplyRefunded
  <2>6. /\ Phase(w) # "released" /\ dispatches[w] = 1
        /\ \A x \in Withdrawals : Phase(x)' = Phase(x)
    BY <1>1, <1>2, <2>5 DEF Phase, Open
  <2>7. Lifecycle!Credit(w)
    BY <2>1, <2>2, <2>4, <2>5, <2>6 DEF Lifecycle!Credit
  <2>. QED  BY <2>7 DEF LStep, Lifecycle!Next
<1>3. CASE status[w] \notin {"COMPLETED", "PROCESSING"}
  <2>1. UNCHANGED <<status, dispatches, refunded>>
    BY <1>1, <1>3 DEF ApplyRefunded
  <2>. QED  BY <2>1, SameStatus DEF LStep
<1>. QED  BY <1>2, <1>3

\* Every step is a step of WithdrawalLifecycle or a stutter.
LEMMA LifecycleStep ==
  ASSUME TypeOK, GatewayInv, ApprovalInv, CreditInv, [Next]_vars
  PROVE  LStep
<1>0. TypeOK'
  BY TypeStep

<1>1. ASSUME NEW a \in Approvers, Approve(a) PROVE LStep
  <2>1. ASSUME NEW w \in Withdrawals, Claim(a, w) PROVE LStep
    BY <2>1, <1>0, StatusMove, "APPROVED" \in Statuses DEF Claim, Statuses, Open
  <2>2. CASE ConfirmMismatch(a)
    BY <2>2, <1>0, SetStatusMove, CallInFlight
    DEF ConfirmMismatch, RollBackClaim, Open, Statuses
  <2>3. CASE InvalidPayload(a)
    BY <2>3, <1>0, SetStatusMove, CallInFlight
    DEF InvalidPayload, MarkFailed, Dispatched, Open, Statuses
  <2>4. CASE InsufficientBalance(a)
    BY <2>4, <1>0, SetStatusMove, CallInFlight
    DEF InsufficientBalance, RollBackClaim, Open, Statuses
  <2>5. CASE Dispatch(a)
    BY <2>5, DispatchSends
  <2>. QED  BY <1>1, <2>1, <2>2, <2>3, <2>4, <2>5 DEF Approve
<1>2. ASSUME NEW a \in Approvers, Post(a) PROVE LStep
  BY <1>2, <1>0, SameStatus
  DEF Post, PostAccepted, PostConflict, PostRefused, PostLost, LStep, rowVars
<1>3. ASSUME NEW a \in Approvers, Record(a) PROVE LStep
  <2>1. CASE RecordAccepted(a)
    BY <2>1, <1>0, SetStatusMove, CallInFlight DEF RecordAccepted, Open, Statuses
  <2>2. CASE RecordConflict(a)
    BY <2>2, <1>0, StatusMove, SameStatus, CallInFlight
    DEF RecordConflict, Open, Statuses, LStep
  <2>3. CASE RecordFailure(a)
    BY <2>3, <1>0, SetStatusMove, CallInFlight
    DEF RecordFailure, MarkFailed, Dispatched, Open, Statuses
  <2>. QED  BY <1>3, <2>1, <2>2, <2>3 DEF Record
<1>4. ASSUME NEW w \in Withdrawals, HandleEvent(w) PROVE LStep
  <2>1. ASSUME NEW e \in Events, IgnoreEvent(w, e) PROVE LStep
    BY <2>1, <1>0, SameStatus DEF IgnoreEvent, LStep, rowVars
  <2>2. ASSUME NEW e \in Events, LinkEvent(w, e) PROVE LStep
    BY <2>2, <1>0, SameStatus DEF LinkEvent, LStep, rowVars
  <2>3. ASSUME NEW e \in Events, OrphanEvent(w, e) PROVE LStep
    BY <2>3, <1>0, SameStatus DEF OrphanEvent, LStep, rowVars
  <2>4. CASE ApplyCompleted(w)
    BY <2>4, <1>0, SetStatusMove, AppliedEvent, FinalEvents
    DEF ApplyCompleted, Dispatched, Open, Statuses
  <2>5. CASE ApplyFailed(w)
    BY <2>5, <1>0, SetStatusMove, AppliedEvent, FinalEvents
    DEF ApplyFailed, Dispatched, Open, Statuses
  <2>6. CASE ApplyRefunded(w)
    BY <2>6, <1>0, RefundCredits
  <2>7. ASSUME NEW e \in Events, FinishEvent(w, e) PROVE LStep
    BY <2>7, <1>0, SameStatus DEF FinishEvent, LStep, rowVars
  <2>. QED  BY <1>4, <2>1, <2>2, <2>3, <2>4, <2>5, <2>6, <2>7 DEF HandleEvent
<1>5. ASSUME NEW w \in Withdrawals, Reject(w) PROVE LStep
  BY <1>5, <1>0, StatusMove DEF Reject, Open, Statuses
<1>6. ASSUME NEW w \in Withdrawals, MarkPaidManually(w) PROVE LStep
  BY <1>6, <1>0, StatusMove DEF MarkPaidManually, Open, Statuses
<1>7. ASSUME NEW w \in Withdrawals, NEW e \in Events, ReceiveWebhook(w, e)
      PROVE LStep
  BY <1>7, <1>0, SameStatus DEF ReceiveWebhook, LStep, rowVars
<1>8. ASSUME NEW w \in Withdrawals, SkipRow(w) PROVE LStep
  BY <1>8, <1>0, SameStatus DEF SkipRow, LStep, rowVars
<1>9. ASSUME NEW w \in Withdrawals, ReconcileRow(w) PROVE LStep
  BY <1>9, <1>0, SameStatus DEF ReconcileRow, LStep, rowVars
<1>10. ASSUME NEW w \in Withdrawals, GatewayAcceptsLate(w) PROVE LStep
  BY <1>10, <1>0, SameStatus DEF GatewayAcceptsLate, LStep, rowVars
<1>11. ASSUME NEW w \in Withdrawals, GatewaySettles(w) PROVE LStep
  BY <1>11, <1>0, SameStatus DEF GatewaySettles, LStep, rowVars
<1>12. ASSUME NEW w \in Withdrawals, RecipientReturns(w) PROVE LStep
  BY <1>12, <1>0, SameStatus DEF RecipientReturns, LStep, rowVars
<1>13. CASE StartPass
  BY <1>13, <1>0, SameStatus DEF StartPass, LStep, rowVars
<1>14. CASE Crash
  BY <1>14, <1>0, SameStatus DEF Crash, LStep, rowVars
<1>15. CASE UNCHANGED vars
  BY <1>15, <1>0, SameStatus DEF vars, rowVars, LStep
<1>. QED
  BY <1>1, <1>2, <1>3, <1>4, <1>5, <1>6, <1>7, <1>8, <1>9, <1>10, <1>11, <1>12, <1>13,
     <1>14, <1>15
  DEF Next

\* withdrawal.service.ts implements WithdrawalLifecycle: whatever admins, webhooks, the
\* cron, the gateway and crashes do, a withdrawal is settled or released once, its money
\* is sent at most once and never after the release, and it is credited at most once.
THEOREM ImplementsLifecycle == Spec => LifecycleSpec
<1>1. Init => Lifecycle!Init
  <2>. SUFFICES ASSUME Init PROVE Lifecycle!Init
    OBVIOUS
  <2>1. \A w \in Withdrawals : Phase(w) = "open"
    BY DEF Init, Phase, Open
  <2>. QED  BY <2>1 DEF Init, Lifecycle!Init
<1>2. TypeOK /\ GatewayInv /\ ApprovalInv /\ CreditInv /\ [Next]_vars
        => [Lifecycle!Next]_(Lifecycle!vars)
  BY LifecycleStep DEF LStep
<1>. QED
  BY <1>1, <1>2, TypeCorrect, GatewayFacts, ApprovalFacts, CreditFacts, PTL
  DEF Spec, LifecycleSpec, Lifecycle!Spec

------------------------------------------------------------------------------
(* Failures; the properties *)

\* No answer is missing before a POST was begun, or while no request is on its way; who
\* gives up posts no more; a call that is sure of its failure left nothing to pay.
DoubtInv ==
  /\ \A w \in Withdrawals : dispatches[w] = 0 => doubt[w] = "none"
  /\ \A w \in late : doubt[w] # "none"
  /\ \A a \in Approvers : approver[a].pc = "posting" => doubt[approver[a].w] # "gaveUp"
  /\ \A a \in Approvers :
       approver[a].pc = "replied" /\ approver[a].reply = "error" =>
         \/ doubt[approver[a].w] = "gaveUp"
         \/ doubt[approver[a].w] = "none" /\ payout[approver[a].w] \in {"none", "failed"}

\* A FAILED row nobody gave up on: its payout failed, or there is none and no request
\* left that could create one.
FailureInv ==
  /\ DoubtInv
  /\ \A w \in Withdrawals :
       status[w] = "FAILED" /\ doubt[w] # "gaveUp" /\ payout[w] # "failed" =>
         /\ payout[w] = "none" /\ w \notin late
         /\ \A a \in Approvers : approver[a].pc = "posting" => approver[a].w # w

\* A POST of withdrawal w goes on as "call": it touches no other withdrawal, leaves a
\* doubt with each request on the wire, and fails only what it is sure of or gives up.
PostsSafely(a, w, call) ==
  /\ approver[a].pc = "posting" /\ w = approver[a].w
  /\ approver' = [approver EXCEPT ![a] = call]
  /\ call.pc \in {"posting", "replied"} /\ call.w = w
  /\ UNCHANGED <<status, dispatches>>
  /\ late' \subseteq late \cup {w}
  /\ \A x \in Withdrawals \ {w} : payout'[x] = payout[x] /\ doubt'[x] = doubt[x]
  /\ payout[w] = "failed" => payout'[w] = "failed"
  /\ w \in late' => doubt'[w] # "none"
  /\ call.pc = "posting" => doubt'[w] # "gaveUp"
  /\ call.pc = "replied" /\ call.reply = "error" =>
       \/ doubt'[w] = "gaveUp"
       \/ doubt'[w] = "none" /\ payout'[w] \in {"none", "failed"}

\* Such a POST keeps FailureInv.
LEMMA PostDoubt ==
  ASSUME TypeOK, ApprovalInv, FailureInv,
         NEW a \in Approvers, NEW w \in Withdrawals, NEW call, PostsSafely(a, w, call)
  PROVE  FailureInv'
<1>1. \A b \in Approvers : approver'[b] = IF b = a THEN call ELSE approver[b]
  BY DEF TypeOK, PostsSafely
<1>2. \A b \in Approvers \ {a} : approver[b].pc # "idle" => approver[b].w # w
  BY DEF ApprovalInv, PostsSafely
<1>3. \A b \in Approvers \ {a} : approver[b].pc # "idle" => approver[b].w \in Withdrawals
  BY CallInFlight
<1>4. dispatches[w] = 1
  BY DEF ApprovalInv, PostsSafely
<1>5. status[w] = "FAILED" => payout[w] = "failed"
  BY DEF FailureInv, DoubtInv, PostsSafely
<1>6. late' \subseteq Withdrawals
  BY DEF TypeOK, PostsSafely
<1>7. DoubtInv'
  BY <1>1, <1>2, <1>3, <1>4, <1>6 DEF FailureInv, DoubtInv, PostsSafely
<1>8. ASSUME NEW x \in Withdrawals, x # w,
             status[x] = "FAILED", doubt[x] # "gaveUp", payout[x] # "failed"
      PROVE  /\ payout'[x] = "none" /\ x \notin late'
             /\ \A b \in Approvers : approver'[b].pc = "posting" => approver'[b].w # x
  BY <1>8, <1>1 DEF FailureInv, PostsSafely
<1>. QED  BY <1>5, <1>7, <1>8 DEF FailureInv, PostsSafely

\* Every step keeps FailureInv.
LEMMA FailureStep ==
  ASSUME TypeOK, GatewayInv, ApprovalInv, FailureInv, [Next]_vars
  PROVE  FailureInv'
<1>0. \A a \in Approvers : approver[a].pc # "idle" =>
        /\ approver[a].pc \in {"claimed", "posting", "replied"}
        /\ approver[a].w \in Withdrawals
  BY CallInFlight

<1>1. ASSUME NEW a \in Approvers, Approve(a) PROVE FailureInv'
  <2>1. ASSUME NEW w \in Withdrawals, Claim(a, w) PROVE FailureInv'
    BY <2>1, <1>0
    DEF Claim, TypeOK, ApprovalInv, FailureInv, DoubtInv, gatewayVars, rowVars,
        Call, Idle
  <2>2. CASE ConfirmMismatch(a)
    BY <2>2, <1>0
    DEF ConfirmMismatch, TypeOK, ApprovalInv, FailureInv, DoubtInv, gatewayVars,
        rowVars, RollBackClaim, SetStatus, EndApproval, Idle, Call
  <2>3. CASE InvalidPayload(a)
    BY <2>3, <1>0
    DEF InvalidPayload, TypeOK, ApprovalInv, FailureInv, DoubtInv, gatewayVars,
        rowVars, MarkFailed, SetStatus, EndApproval, Idle, Call, Dispatched
  <2>4. CASE InsufficientBalance(a)
    BY <2>4, <1>0
    DEF InsufficientBalance, TypeOK, ApprovalInv, FailureInv, DoubtInv,
        gatewayVars, rowVars, RollBackClaim, SetStatus, EndApproval, Idle, Call
  <2>5. CASE Dispatch(a)
    <3>1. PICK w \in Withdrawals : w = approver[a].w
      BY <2>5, <1>0 DEF Dispatch
    <3>2. dispatches[w] = 0 /\ status[w] # "FAILED" /\ doubt[w] = "none"
      BY <2>5, <3>1 DEF Dispatch, ApprovalInv, FailureInv, DoubtInv
    <3>3. /\ \A b \in Approvers : approver'[b] =
               IF b = a THEN Call("posting", w, 1, "none") ELSE approver[b]
          /\ \A x \in Withdrawals : dispatches'[x] = IF x = w THEN 1 ELSE dispatches[x]
      BY <2>5, <3>1, <3>2 DEF Dispatch, TypeOK
    <3>4. Call("posting", w, 1, "none").pc = "posting" /\ Call("posting", w, 1, "none").w = w
      BY DEF Call
    <3>5. UNCHANGED <<status, payout, late, doubt>>
      BY <2>5 DEF Dispatch, rowVars, gatewayVars
    <3>6. DoubtInv'
      BY <3>2, <3>3, <3>4, <3>5 DEF FailureInv, DoubtInv
    <3>. QED  BY <3>2, <3>3, <3>4, <3>5, <3>6 DEF FailureInv
  <2>. QED  BY <1>1, <2>1, <2>2, <2>3, <2>4, <2>5 DEF Approve
<1>2. ASSUME NEW a \in Approvers, Post(a) PROVE FailureInv'
  <2>1. PICK w \in Withdrawals : w = approver[a].w
    BY <1>2, <1>0 DEF Post, PostAccepted, PostConflict, PostRefused, PostLost
  <2>2. /\ approver[a].pc = "posting" /\ doubt[w] # "gaveUp"
        /\ w \in late => doubt[w] # "none"
    BY <1>2, <2>1
    DEF Post, PostAccepted, PostConflict, PostRefused, PostLost, FailureInv, DoubtInv
  <2>3. UNCHANGED <<status, dispatches>>
    BY <1>2 DEF Post, PostAccepted, PostConflict, PostRefused, PostLost, rowVars
  <2>t. /\ payout \in [Withdrawals -> {"none", "pending", "completed", "failed"}]
        /\ doubt \in [Withdrawals -> {"none", "missing", "gaveUp"}]
    BY DEF TypeOK
  <2>4. CASE PostAccepted(a)
    <3>1. PICK reply \in {"ok", "error"} :
            Reply(a, reply) /\ (reply = "error" => doubt'[w] = "gaveUp")
      BY <2>1, <2>4, <2>t DEF PostAccepted, GiveUp
    <3>2. \A x \in Withdrawals :
            doubt'[x] = doubt[x] \/ (x = w /\ doubt'[x] = "gaveUp")
      BY <2>1, <2>4, <2>t DEF PostAccepted, GiveUp
    <3>3. /\ late' = late
          /\ \A x \in Withdrawals :
               payout'[x] = payout[x] \/ (x = w /\ payout[x] = "none")
      BY <2>1, <2>4, <2>t DEF PostAccepted
    <3>. DEFINE call == Call("replied", w, approver[a].attempt, reply)
    <3>4. approver' = [approver EXCEPT ![a] = call]
      BY <2>1, <3>1 DEF Reply
    <3>5. call.pc = "replied" /\ call.w = w /\ call.reply = reply
      BY DEF Call
    <3>. HIDE DEF call
    <3>6. PostsSafely(a, w, call)
      BY <2>1, <2>2, <2>3, <3>1, <3>2, <3>3, <3>4, <3>5 DEF PostsSafely
    <3>. QED  BY <3>6, PostDoubt
  <2>5. CASE PostConflict(a)
    <3>1. PICK reply \in {"conflict", "conflictRef"} : Reply(a, reply)
      BY <2>5 DEF PostConflict
    <3>2. UNCHANGED <<payout, late, doubt>>
      BY <2>5 DEF PostConflict, gatewayVars
    <3>. DEFINE call == Call("replied", w, approver[a].attempt, reply)
    <3>3. approver' = [approver EXCEPT ![a] = call]
      BY <2>1, <3>1 DEF Reply
    <3>4. call.pc = "replied" /\ call.w = w /\ call.reply = reply
      BY DEF Call
    <3>. HIDE DEF call
    <3>5. PostsSafely(a, w, call)
      BY <2>1, <2>2, <2>3, <3>1, <3>2, <3>3, <3>4 DEF PostsSafely
    <3>. QED  BY <3>5, PostDoubt
  <2>6. CASE PostRefused(a)
    <3>1. Reply(a, "error") /\ late' = late
      BY <2>6 DEF PostRefused, GiveUp
    <3>2. /\ doubt[w] # "none" => doubt'[w] = "gaveUp"
          /\ \A x \in Withdrawals :
               doubt'[x] = doubt[x] \/ (x = w /\ doubt'[x] = "gaveUp")
      BY <2>1, <2>6, <2>t DEF PostRefused, GiveUp
    <3>3. /\ payout'[w] \in {"none", "failed"} /\ (payout[w] = "failed" => payout'[w] = "failed")
          /\ \A x \in Withdrawals : payout'[x] = payout[x] \/ x = w
      BY <2>1, <2>6, <2>t DEF PostRefused
    <3>. DEFINE call == Call("replied", w, approver[a].attempt, "error")
    <3>4. approver' = [approver EXCEPT ![a] = call]
      BY <2>1, <3>1 DEF Reply
    <3>5. call.pc = "replied" /\ call.w = w
      BY DEF Call
    <3>. HIDE DEF call
    <3>6. PostsSafely(a, w, call)
      BY <2>1, <2>2, <2>3, <3>1, <3>2, <3>3, <3>4, <3>5 DEF PostsSafely
    <3>. QED  BY <3>6, PostDoubt
  <2>7. CASE PostLost(a)
    <3>1. payout' = payout /\ late' = late \cup {w}
      BY <2>1, <2>7 DEF PostLost
    <3>2. CASE approver[a].attempt < MaxAttempts
      <4>. DEFINE call == Call("posting", w, approver[a].attempt + 1, "none")
      <4>1. /\ approver' = [approver EXCEPT ![a] = call]
            /\ doubt' = [doubt EXCEPT ![w] = "missing"]
        BY <2>1, <2>7, <3>2 DEF PostLost
      <4>2. call.pc = "posting" /\ call.w = w
        BY DEF Call
      <4>3. \A x \in Withdrawals : doubt'[x] = IF x = w THEN "missing" ELSE doubt[x]
        BY <4>1 DEF TypeOK
      <4>. HIDE DEF call
      <4>4. PostsSafely(a, w, call)
        BY <2>1, <2>2, <2>3, <3>1, <4>1, <4>2, <4>3 DEF PostsSafely
      <4>. QED  BY <4>4, PostDoubt
    <3>3. CASE ~(approver[a].attempt < MaxAttempts)
      <4>. DEFINE call == Call("replied", w, approver[a].attempt, "error")
      <4>1. /\ approver' = [approver EXCEPT ![a] = call]
            /\ doubt' = [doubt EXCEPT ![w] = "gaveUp"]
        BY <2>1, <2>7, <3>3 DEF PostLost, GiveUp, Reply
      <4>2. call.pc = "replied" /\ call.w = w
        BY DEF Call
      <4>3. \A x \in Withdrawals : doubt'[x] = IF x = w THEN "gaveUp" ELSE doubt[x]
        BY <4>1 DEF TypeOK
      <4>. HIDE DEF call
      <4>4. PostsSafely(a, w, call)
        BY <2>1, <2>2, <2>3, <3>1, <4>1, <4>2, <4>3 DEF PostsSafely
      <4>. QED  BY <4>4, PostDoubt
    <3>. QED  BY <3>2, <3>3
  <2>. QED  BY <1>2, <2>4, <2>5, <2>6, <2>7 DEF Post
<1>3. ASSUME NEW a \in Approvers, Record(a) PROVE FailureInv'
  <2>1. CASE RecordAccepted(a)
    BY <2>1, <1>0
    DEF RecordAccepted, TypeOK, ApprovalInv, FailureInv, DoubtInv, gatewayVars,
        rowVars, SetStatus, EndApproval, Idle, Call
  <2>2. CASE RecordConflict(a)
    BY <2>2, <1>0
    DEF RecordConflict, TypeOK, ApprovalInv, FailureInv, DoubtInv, gatewayVars,
        rowVars, SetStatus, EndApproval, Idle, Call
  <2>3. CASE RecordFailure(a)
    BY <2>3, <1>0
    DEF RecordFailure, TypeOK, ApprovalInv, FailureInv, DoubtInv, gatewayVars,
        rowVars, MarkFailed, SetStatus, EndApproval, Idle, Call, Dispatched
  <2>. QED  BY <1>3, <2>1, <2>2, <2>3 DEF Record
<1>4. ASSUME NEW w \in Withdrawals, HandleEvent(w) PROVE FailureInv'
  <2>1. ASSUME NEW e \in Events, IgnoreEvent(w, e) PROVE FailureInv'
    BY <2>1, <1>0
    DEF IgnoreEvent, TypeOK, ApprovalInv, FailureInv, DoubtInv, gatewayVars,
        rowVars
  <2>2. ASSUME NEW e \in Events, LinkEvent(w, e) PROVE FailureInv'
    BY <2>2, <1>0
    DEF LinkEvent, TypeOK, ApprovalInv, FailureInv, DoubtInv, gatewayVars,
        rowVars
  <2>3. ASSUME NEW e \in Events, OrphanEvent(w, e) PROVE FailureInv'
    BY <2>3, <1>0
    DEF OrphanEvent, TypeOK, ApprovalInv, FailureInv, DoubtInv, gatewayVars,
        rowVars
  <2>4. CASE ApplyCompleted(w)
    BY <2>4, <1>0, AppliedEvent, FinalEvents
    DEF ApplyCompleted, TypeOK, ApprovalInv, FailureInv, DoubtInv, gatewayVars,
        rowVars, SetStatus, Dispatched, Emitted
  <2>5. CASE ApplyFailed(w)
    <3>1. payout[w] = "failed" /\ event[w]["PayOutFailed"].withdrawal = w
      BY <2>5, AppliedEvent, FinalEvents DEF ApplyFailed, Emitted
    <3>2. \A x \in Withdrawals : status'[x] = status[x] \/ x = w
      BY <2>5, <3>1 DEF ApplyFailed, SetStatus, TypeOK
    <3>. QED
      BY <2>5, <1>0, <3>1, <3>2
      DEF ApplyFailed, FailureInv, DoubtInv, gatewayVars
  <2>6. CASE ApplyRefunded(w)
    BY <2>6, <1>0
    DEF ApplyRefunded, TypeOK, ApprovalInv, FailureInv, DoubtInv, gatewayVars,
        rowVars
  <2>7. ASSUME NEW e \in Events, FinishEvent(w, e) PROVE FailureInv'
    BY <2>7, <1>0
    DEF FinishEvent, TypeOK, ApprovalInv, FailureInv, DoubtInv, gatewayVars,
        rowVars
  <2>. QED  BY <1>4, <2>1, <2>2, <2>3, <2>4, <2>5, <2>6, <2>7 DEF HandleEvent
<1>5. ASSUME NEW w \in Withdrawals, Reject(w) PROVE FailureInv'
  BY <1>5, <1>0
  DEF Reject, TypeOK, ApprovalInv, FailureInv, DoubtInv, gatewayVars, rowVars
<1>6. ASSUME NEW w \in Withdrawals, MarkPaidManually(w) PROVE FailureInv'
  BY <1>6, <1>0
  DEF MarkPaidManually, TypeOK, ApprovalInv, FailureInv, DoubtInv, gatewayVars,
      rowVars, Open
<1>7. ASSUME NEW w \in Withdrawals, NEW e \in Events, ReceiveWebhook(w, e)
      PROVE FailureInv'
  BY <1>7, <1>0
  DEF ReceiveWebhook, TypeOK, ApprovalInv, FailureInv, DoubtInv, gatewayVars,
      rowVars
<1>8. ASSUME NEW w \in Withdrawals, SkipRow(w) PROVE FailureInv'
  BY <1>8, <1>0
  DEF SkipRow, TypeOK, ApprovalInv, FailureInv, DoubtInv, gatewayVars, rowVars
<1>9. ASSUME NEW w \in Withdrawals, ReconcileRow(w) PROVE FailureInv'
  BY <1>9, <1>0
  DEF ReconcileRow, TypeOK, ApprovalInv, FailureInv, DoubtInv, gatewayVars,
      rowVars
<1>10. ASSUME NEW w \in Withdrawals, GatewayAcceptsLate(w) PROVE FailureInv'
  BY <1>10, <1>0
  DEF GatewayAcceptsLate, TypeOK, ApprovalInv, FailureInv, DoubtInv, gatewayVars,
      rowVars
<1>11. ASSUME NEW w \in Withdrawals, GatewaySettles(w) PROVE FailureInv'
  BY <1>11, <1>0
  DEF GatewaySettles, TypeOK, ApprovalInv, FailureInv, DoubtInv, gatewayVars,
      rowVars
<1>12. ASSUME NEW w \in Withdrawals, RecipientReturns(w) PROVE FailureInv'
  BY <1>12, <1>0
  DEF RecipientReturns, TypeOK, ApprovalInv, FailureInv, DoubtInv, gatewayVars,
      rowVars
<1>13. CASE StartPass
  BY <1>13, <1>0
  DEF StartPass, TypeOK, ApprovalInv, FailureInv, DoubtInv, gatewayVars, rowVars
<1>14. CASE Crash
  BY <1>14, <1>0
  DEF Crash, TypeOK, ApprovalInv, FailureInv, DoubtInv, gatewayVars, rowVars,
      Call, Idle
<1>15. CASE UNCHANGED vars
  BY <1>15, <1>0
  DEF vars, rowVars, TypeOK, ApprovalInv, FailureInv, DoubtInv, gatewayVars,
      rowVars
<1>. QED
  BY <1>1, <1>2, <1>3, <1>4, <1>5, <1>6, <1>7, <1>8, <1>9, <1>10, <1>11, <1>12, <1>13,
     <1>14, <1>15
  DEF Next

\* Whatever answers are lost, a FAILED row was not paid and will not be, unless the
\* client gave up on a request it knows nothing of.
THEOREM FailedWasNotPaid == Spec => []FailedIsUnpaid
<1>1. Init => FailureInv
  BY DEF Init, FailureInv, DoubtInv, Idle, Call
<1>2. TypeOK /\ GatewayInv /\ ApprovalInv /\ FailureInv /\ [Next]_vars => FailureInv'
  BY FailureStep
<1>3. FailureInv => FailedIsUnpaid
  BY DEF FailureInv, FailedIsUnpaid
<1>. QED  BY <1>1, <1>2, <1>3, TypeCorrect, GatewayFacts, ApprovalFacts, PTL DEF Spec

\* approveAndDispatch rolls back to PENDING, and updateStatus rejects, only rows whose
\* money was not sent.
THEOREM DecidedBeforeSent == Spec => []UnsentWhileUndecided
<1>1. ApprovalInv => UnsentWhileUndecided
  BY DEF ApprovalInv, UnsentWhileUndecided
<1>. QED  BY <1>1, ApprovalFacts, PTL

\* However many admins approve, one call at most sends a withdrawal's money.
THEOREM SentOnce == Spec => []SingleDispatch
<1>1. \A n \in {0, 1} : n <= 1
  OBVIOUS
<1>2. ApprovalInv => SingleDispatch
  BY <1>1 DEF ApprovalInv, SingleDispatch
<1>. QED  BY <1>2, ApprovalFacts, PTL

\* A final webhook event marked processed has left its withdrawal COMPLETED or FAILED.
THEOREM EventsReflected == Spec => []ProcessedIsReflected
<1>1. OutcomeInv => ProcessedIsReflected
  BY DEF OutcomeInv
<1>. QED  BY <1>1, OutcomeFacts, PTL

\* COMPLETED comes from a payment of the gateway or from the mark-paid button.
THEOREM PaidWhenCompleted == Spec => []CompletedIsPaid
<1>1. OutcomeInv => CompletedIsPaid
  BY DEF OutcomeInv
<1>. QED  BY <1>1, OutcomeFacts, PTL

\* The credit is one announced total that came back, in the unit the webhook carries
\* and clamped to originalAmount: in reais that is the total itself and leaves the fee
\* alone, in cents it is the lesser of a hundred times the total and the whole amount.
THEOREM RefundsBacked == Spec => []RefundIsBacked
<1>1. CreditInv => RefundIsBacked
  BY DEF CreditInv
<1>. QED  BY <1>1, CreditFacts, PTL
==============================================================================
