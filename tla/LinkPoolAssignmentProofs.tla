----------------------- MODULE LinkPoolAssignmentProofs -----------------------
(***************************************************************************)
(* Theorems about LinkPoolAssignment, for any requests, houses, sheets,    *)
(* locks and campaigns.                                                    *)
(***************************************************************************)
EXTENDS LinkPoolAssignment, TLAPS

\* A call that tries rows has one at hand.
LEMMA RowAtHand ==
  ASSUME TypeOK, NEW a \in Actors, call[a].pc \in Trying
  PROVE  Row(a) \in call[a].rows /\ Row(a) \in Campaigns
<1>1. CallOK(call[a]) BY DEF TypeOK
<1>2. call[a].rows # {} BY <1>1 DEF CallOK
<1>3. Row(a) \in call[a].rows BY <1>2 DEF Row
<1>4. call[a].rows \subseteq Campaigns BY <1>1 DEF CallOK, CallType
<1> QED BY <1>3, <1>4

\* The fields of a call.
LEMMA CallFields ==
  ASSUME NEW pc, NEW r, NEW rows, NEW own, NEW existing, NEW late
  PROVE  LET c == Call(pc, r, rows, own, existing, late) IN
         /\ c.pc = pc /\ c.request = r /\ c.rows = rows
         /\ c.own = own /\ c.existing = existing /\ c.late = late
BY DEF Call

\* Which calls are well formed.
LEMMA CallTyped ==
  ASSUME NEW pc \in {"idle", "lock"} \cup Inside, NEW r \in Requests \cup {None},
         NEW rows \in SUBSET Campaigns, NEW own \in LinkIds \cup {None},
         NEW existing \in LinkIds \cup {None}, NEW late \in BOOLEAN,
         pc # "idle" => r # None, pc \in Trying => rows # {}
  PROVE  CallOK(Call(pc, r, rows, own, existing, late))
BY DEF Call, CallOK, CallType

\* One call moves on, the others stay: the calls keep their form.
LEMMA CallMoves ==
  ASSUME TypeOK, NEW a \in Actors, NEW c, CallOK(c), call' = [call EXCEPT ![a] = c]
  PROVE  /\ call' \in [Actors -> CallType] /\ \A b \in Actors : CallOK(call'[b])
         /\ call'[a] = c /\ \A b \in Actors \ {a} : call'[b] = call[b]
<1>1. c \in CallType BY DEF CallOK
<1>2. call \in [Actors -> CallType] /\ \A b \in Actors : CallOK(call[b]) BY DEF TypeOK
<1> QED BY <1>1, <1>2

------------------------------------------------------------------------------
(* Types *)

LEMMA InitTyped == Init => TypeOK
BY PoolAssumption, CallTyped
   DEF Init, TypeOK, Idle, Call, CallOK, CallType, NoLink, LinkType, NoBatch, Batch,
       BatchType, NoApproval, Approval, ApprovalType, Inside, Trying

\* The calls after a step of a call.
LEMMA CallStepTyped ==
  ASSUME TypeOK, NEW a \in Actors, TryAssign(a) \/ Overrun(a)
  PROVE  call' \in [Actors -> CallType] /\ \A b \in Actors : CallOK(call'[b])
<1> DEFINE r == call[a].request
<1>1. CallOK(call[a]) /\ call[a] \in CallType BY DEF TypeOK, CallOK
<1>2. /\ r \in Requests \cup {None} /\ call[a].rows \in SUBSET Campaigns
      /\ call[a].own \in LinkIds \cup {None} /\ call[a].existing \in LinkIds \cup {None}
      /\ call[a].late \in BOOLEAN /\ call[a].pc \in {"idle", "lock"} \cup Inside
  BY <1>1 DEF CallType
<1>3. CallOK(Idle) BY CallTyped DEF Idle, Inside, Trying
<1>4. ASSUME Finish(a), call[a].pc # "idle"
      PROVE  call' \in [Actors -> CallType] /\ \A b \in Actors : CallOK(call'[b])
  <2>1. CallOK(Call("release", r, {}, None, None, call[a].late))
    <3>1. r # None BY <1>1, <1>4 DEF CallOK
    <3> QED BY <3>1, <1>2, CallTyped DEF Inside, Trying
  <2> QED BY <2>1, <1>4, CallMoves DEF Finish
<1>5. ASSUME NEW pc \in Inside, GoTo(a, pc), call[a].pc # "idle",
             call[a].pc \in Trying \/ pc \notin Trying
      PROVE  call' \in [Actors -> CallType] /\ \A b \in Actors : CallOK(call'[b])
  <2>1. CallOK(Call(pc, r, call[a].rows, call[a].own, call[a].existing, call[a].late))
    <3>1. r # None /\ (pc \in Trying => call[a].rows # {}) BY <1>1, <1>5 DEF CallOK
    <3>2. pc # "idle" BY DEF Inside
    <3> QED BY <3>1, <3>2, <1>2, CallTyped
  <2> QED BY <2>1, <1>5, CallMoves DEF GoTo
<1>6. ASSUME NextRow(a), call[a].pc \in Trying
      PROVE  call' \in [Actors -> CallType] /\ \A b \in Actors : CallOK(call'[b])
  <2>0. call[a].pc # "idle" BY <1>6 DEF Trying
  <2>1. CASE call[a].rows = {Row(a)} BY <2>1, <2>0, <1>4, <1>6 DEF NextRow
  <2>2. CASE call[a].rows # {Row(a)}
    <3>1. call[a].rows \ {Row(a)} # {} BY <2>2, <1>6, RowAtHand
    <3>2. r # None BY <1>1, <2>0 DEF CallOK
    <3>3. CallOK(Call("row", r, call[a].rows \ {Row(a)}, call[a].own, None, call[a].late))
      BY <3>1, <3>2, <1>2, CallTyped DEF Inside
    <3> QED BY <3>3, <2>2, <1>6, CallMoves DEF NextRow
  <2> QED BY <2>1, <2>2
<1>7. ASSUME call' = [call EXCEPT ![a] = Idle]
      PROVE  call' \in [Actors -> CallType] /\ \A b \in Actors : CallOK(call'[b])
  BY <1>3, <1>7, CallMoves
<1>8. CASE Acquire(a) BY <1>5, <1>8 DEF Acquire, Inside, Trying
<1>9. CASE TurnAway(a) BY <1>7, <1>9 DEF TurnAway
<1>10. CASE ReadRows(a)
  <2> DEFINE rows == IF a \in Houses THEN batch[a].rows ELSE FreeRows(SheetOfCall(a))
  <2>1. CASE rows = {} BY <2>1, <1>10, <1>4 DEF ReadRows
  <2>2. CASE rows # {}
    <3>1. rows \in SUBSET Campaigns BY DEF FreeRows, TypeOK, BatchType
    <3>2. r # None BY <1>10, <1>1 DEF CallOK, ReadRows
    <3>3. CallOK(Call("own", r, rows, None, None, call[a].late))
      BY <2>2, <3>1, <3>2, <1>2, CallTyped DEF Inside
    <3>4. call' = [call EXCEPT ![a] = Call("own", r, rows, None, None, call[a].late)]
      BY <2>2, <1>10 DEF ReadRows
    <3> QED BY <3>3, <3>4, CallMoves
  <2> QED BY <2>1, <2>2
<1>11. CASE FindOwn(a)
  <2>1. PICK i \in Found(LinkIdsOf(r)) :
          call' = [call EXCEPT ![a] = Call("row", r, call[a].rows, i, None, call[a].late)]
    BY <1>11 DEF FindOwn
  <2>2. i \in LinkIds \cup {None} BY DEF Found, LinkIdsOf
  <2>3. r # None BY <1>11, <1>1 DEF CallOK, FindOwn
  <2>4. call[a].rows # {} BY <1>11, <1>1 DEF CallOK, FindOwn, Trying
  <2>5. CallOK(Call("row", r, call[a].rows, i, None, call[a].late))
    BY <2>2, <2>3, <2>4, <1>2, CallTyped DEF Inside
  <2> QED BY <2>1, <2>5, CallMoves
<1>111. CASE Begin(a)
  <2>1. PICK i \in Found(LinkIdsOf(r)) :
          call' = [call EXCEPT ![a] =
                     Call("write", r, call[a].rows, call[a].own, i, call[a].late)]
    BY <1>111 DEF Begin
  <2>2. i \in LinkIds \cup {None} BY DEF Found, LinkIdsOf
  <2>3. r # None BY <1>111, <1>1 DEF CallOK, Begin
  <2>4. call[a].rows # {} BY <1>111, <1>1 DEF CallOK, Begin, Trying
  <2>5. CallOK(Call("write", r, call[a].rows, call[a].own, i, call[a].late))
    BY <2>2, <2>3, <2>4, <1>2, CallTyped DEF Inside
  <2> QED BY <2>1, <2>5, CallMoves
<1>12. CASE CheckRow(a)
  BY <1>5, <1>6, <1>12 DEF CheckRow, Inside, Trying
<1>13. CASE Commit(a)
  <2>1. call' = [call EXCEPT ![a] = Call("mark", r, {Row(a)}, None, None, call[a].late)]
    BY <1>13 DEF Commit
  <2>2. r # None BY <1>13, <1>1 DEF CallOK, Commit
  <2>3. Row(a) \in Campaigns BY <1>13, RowAtHand DEF Commit, Trying
  <2>4. CallOK(Call("mark", r, {Row(a)}, None, None, call[a].late))
    BY <2>2, <2>3, <1>2, CallTyped DEF Inside
  <2> QED BY <2>1, <2>4, CallMoves
<1>14. CASE Collide(a) BY <1>6, <1>14 DEF Collide, Trying
<1>15. CASE Fail(a) BY <1>4, <1>15 DEF Fail
<1>16. CASE MarkRow(a) BY <1>4, <1>16 DEF MarkRow
<1>17. CASE Release(a) BY <1>7, <1>17 DEF Release
<1>18. CASE Overrun(a)
  <2> DEFINE c == call[a]
  <2>1. call' = [call EXCEPT ![a] = Call(c.pc, r, c.rows, c.own, c.existing, TRUE)]
    BY <1>18 DEF Overrun
  <2>2. c.pc \in Inside /\ r # None /\ (c.pc \in Trying => c.rows # {})
    BY <1>18, <1>1 DEF CallOK, Overrun, Inside
  <2>3. CallOK(Call(c.pc, r, c.rows, c.own, c.existing, TRUE))
    BY <2>2, <1>2, CallTyped DEF Inside
  <2> QED BY <2>1, <2>3, CallMoves
<1> QED BY <1>8, <1>9, <1>10, <1>11, <1>111, <1>12, <1>13, <1>14, <1>15, <1>16, <1>17, <1>18
        DEF TryAssign

\* The links after one is written.
LEMMA LinkTyped ==
  ASSUME TypeOK, NEW r \in Requests, NEW c \in Campaigns, NEW i \in LinkIds \cup {None},
         SetLink(r, c, i)
  PROVE  \E j \in LinkIds :
           /\ link' = [link EXCEPT ![j] =
                         [user |-> UserOf[r], house |-> HouseOf[r], campaign |-> c]]
           /\ i # None => j = i
           /\ i = None => link[j] = NoLink
<1>1. CASE i = None
  <2>1. Unused # {} BY <1>1 DEF SetLink
  <2> DEFINE j == CHOOSE k \in Unused : TRUE
  <2>2. j \in Unused BY <2>1
  <2>3. j \in LinkIds /\ link[j] = NoLink BY <2>2 DEF Unused
  <2>4. link' = [link EXCEPT ![j] =
                   [user |-> UserOf[r], house |-> HouseOf[r], campaign |-> c]]
    BY <1>1 DEF SetLink
  <2> QED BY <1>1, <2>3, <2>4
<1>2. CASE i # None
  BY <1>2 DEF SetLink
<1> QED BY <1>1, <1>2

LEMMA LinksTyped ==
  ASSUME TypeOK, NEW r \in Requests, NEW c \in Campaigns, NEW i \in LinkIds \cup {None},
         SetLink(r, c, i)
  PROVE  link' \in [LinkIds -> LinkType]
<1>1. PICK j \in LinkIds : link' = [link EXCEPT ![j] =
                           [user |-> UserOf[r], house |-> HouseOf[r], campaign |-> c]]
  BY LinkTyped
<1>2. [user |-> UserOf[r], house |-> HouseOf[r], campaign |-> c] \in LinkType
  BY PoolAssumption DEF LinkType
<1> QED BY <1>1, <1>2 DEF TypeOK

\* The request of a call under way.
LEMMA RequestOfCall ==
  ASSUME TypeOK, NEW a \in Actors, call[a].pc # "idle"
  PROVE  /\ call[a].request \in Requests /\ HouseOfCall(a) \in Houses
         /\ LockOfCall(a) \in Locks /\ SheetOfCall(a) \in Sheets
<1>1. CallOK(call[a]) BY DEF TypeOK
<1>2. call[a].request \in Requests BY <1>1 DEF CallOK, CallType
<1> QED BY <1>2, PoolAssumption DEF HouseOfCall, LockOfCall, SheetOfCall

\* The batches after a scheduler's step.
LEMMA BatchTyped ==
  ASSUME TypeOK, NEW h \in Houses, NEW on \in BOOLEAN, NEW todo \in SUBSET Requests,
         NEW rows \in SUBSET Campaigns, NEW marks \in SUBSET Campaigns,
         batch' = [batch EXCEPT ![h] = Batch(on, todo, rows, marks)]
  PROVE  /\ batch' \in [Houses -> BatchType]
         /\ batch'[h].rows = rows /\ batch'[h].marks = marks
         /\ \A g \in Houses \ {h} : batch'[g] = batch[g]
BY DEF TypeOK, Batch, BatchType

LEMMA BatchFields ==
  ASSUME TypeOK, NEW h \in Houses
  PROVE  /\ batch[h].on \in BOOLEAN /\ batch[h].todo \in SUBSET Requests
         /\ batch[h].rows \in SUBSET Campaigns /\ batch[h].marks \in SUBSET Campaigns
BY DEF TypeOK, BatchType

\* A step of a call keeps the types.
LEMMA TryAssignTyped ==
  ASSUME TypeOK, NEW a \in Actors, TryAssign(a) \/ Overrun(a)
  PROVE  TypeOK'
<1>1. call' \in [Actors -> CallType] /\ \A b \in Actors : CallOK(call'[b])
  BY CallStepTyped
<1> USE RequestOfCall, RowAtHand, BatchTyped, BatchFields, LinksTyped
<1>2. CASE Acquire(a)
  BY <1>1, <1>2 DEF Acquire, TypeOK, counters
<1>3. CASE TurnAway(a) \/ FindOwn(a) \/ CheckRow(a) \/ Begin(a) \/ Collide(a) \/ Fail(a)
  BY <1>1, <1>3 DEF TurnAway, FindOwn, CheckRow, Begin, Collide, Fail, TypeOK, counters
<1>4. CASE ReadRows(a)
  <2>1. batch' \in [Houses -> BatchType]
    BY <1>4 DEF ReadRows, TypeOK
  <2> QED BY <1>1, <1>4, <2>1 DEF ReadRows, TypeOK, counters
<1>5. CASE Commit(a)
  <2>1. call[a].existing \in LinkIds \cup {None} BY DEF TypeOK, CallType
  <2>2. Row(a) \in Campaigns /\ call[a].request \in Requests
    BY <1>5 DEF Commit, Trying
  <2>3. link' \in [LinkIds -> LinkType] BY <1>5, <2>1, <2>2 DEF Commit
  <2>4. status' \in [Requests -> {"none", "PENDING", "FULFILLED", "REJECTED"}]
    BY <1>5, <2>2 DEF Commit, TypeOK
  <2>5. served' \in [Requests -> SUBSET Campaigns]
    BY <1>5, <2>2 DEF Commit, TypeOK
  <2> QED BY <1>1, <1>5, <2>3, <2>4, <2>5 DEF Commit, TypeOK, counters
<1>6. CASE MarkRow(a)
  <2>1. Row(a) \in Campaigns BY <1>6 DEF MarkRow, Trying
  <2>2. SheetOfCall(a) \in Sheets BY <1>6 DEF MarkRow
  <2>3. batch' \in [Houses -> BatchType] BY <1>6, <2>1 DEF MarkRow, TypeOK
  <2>4. marked' \in [Sheets -> SUBSET Campaigns] BY <1>6, <2>1, <2>2 DEF MarkRow, TypeOK
  <2> QED BY <1>1, <1>6, <2>3, <2>4 DEF MarkRow, TypeOK, counters
<1>7. CASE Release(a)
  <2>1. lock' \in [Locks -> Actors \cup {None}] BY <1>7 DEF Release, TypeOK
  <2> QED BY <1>1, <1>7, <2>1 DEF Release, TypeOK, counters
<1>8. CASE Overrun(a)
  <2>1. lock' \in [Locks -> Actors \cup {None}] BY <1>8 DEF Overrun, TypeOK
  <2>2. overruns' \in Nat BY <1>8 DEF Overrun, TypeOK
  <2> QED BY <1>1, <1>8, <2>1, <2>2 DEF Overrun, TypeOK
<1> QED BY <1>2, <1>3, <1>4, <1>5, <1>6, <1>7, <1>8 DEF TryAssign

\* A step of an admin, a scheduler, Redis or the process keeps the types.
LEMMA OthersTyped ==
  ASSUME TypeOK, Next, ~ \E a \in Actors : TryAssign(a) \/ Overrun(a)
  PROVE  TypeOK'
<1>1. ASSUME NEW r \in Requests, CreateRequest(r)
      PROVE  TypeOK'
  <2>1. r \in Direct => r \in Actors BY DEF Actors
  <2>2. CallOK(Call("lock", r, {}, None, None, FALSE))
    BY CallTyped, PoolAssumption DEF Inside, Trying
  <2>3. call' \in [Actors -> CallType] /\ \A b \in Actors : CallOK(call'[b])
    BY <1>1, <2>1, <2>2, CallMoves DEF CreateRequest, TypeOK
  <2> QED BY <1>1, <2>3 DEF CreateRequest, TypeOK, counters
<1>2. ASSUME NEW r \in Requests, Reject(r)
      PROVE  TypeOK'
  BY <1>2 DEF Reject, TypeOK, counters
<1>3. ASSUME NEW r \in Requests, NEW c \in Manual, CheckApproval(r, c)
      PROVE  TypeOK'
  <2>1. approval' \in ApprovalType /\ approval'.request # None /\ approval'.campaign # None
    BY <1>3, PoolAssumption DEF CheckApproval, Approval, ApprovalType
  <2>2. approvals' \in Nat BY <1>3 DEF CheckApproval, TypeOK
  <2> QED BY <1>3, <2>1, <2>2 DEF CheckApproval, TypeOK
<1>4. CASE CloseApproval
  <2>1. /\ approval.request \in Requests /\ approval.campaign \in Manual
        /\ approval.request # None /\ approval.campaign # None
    BY <1>4 DEF CloseApproval, TypeOK, ApprovalType
  <2>2. approval' \in ApprovalType /\ approval'.request # None /\ approval'.campaign # None
    BY <1>4, <2>1 DEF CloseApproval, Approval, ApprovalType
  <2> QED BY <1>4, <2>2 DEF CloseApproval, TypeOK, counters
<1>5. CASE FindApproved
  <2>1. /\ approval.request \in Requests /\ approval.campaign \in Manual
        /\ approval.request # None /\ approval.campaign # None
    BY <1>5 DEF FindApproved, TypeOK, ApprovalType
  <2>2. NoApproval \in ApprovalType /\ NoApproval.pc = "idle"
    BY DEF NoApproval, Approval, ApprovalType
  <2>3. ASSUME NEW i \in Found(LinkIdsOf(approval.request)),
               approval' = Approval("save", approval.request, approval.campaign, i)
        PROVE  approval' \in ApprovalType /\ approval'.request # None /\ approval'.campaign # None
    BY <2>1, <2>3 DEF Approval, ApprovalType, Found, LinkIdsOf
  <2>4. /\ approval' \in ApprovalType
        /\ approval'.pc # "idle" => approval'.request # None /\ approval'.campaign # None
    BY <1>5, <2>2, <2>3 DEF FindApproved
  <2> QED BY <1>5, <2>4 DEF FindApproved, TypeOK, counters
<1>6. CASE SaveApproved
  <2>1. /\ approval.request \in Requests /\ approval.campaign \in Campaigns
        /\ approval.existing \in LinkIds \cup {None}
    BY <1>6, PoolAssumption DEF SaveApproved, TypeOK, ApprovalType
  <2>2. link' \in [LinkIds -> LinkType]
    BY <1>6, <2>1, LinksTyped DEF SaveApproved, TypeOK
  <2>3. approval' \in ApprovalType /\ approval'.pc = "idle"
    BY <1>6 DEF SaveApproved, NoApproval, Approval, ApprovalType
  <2> QED BY <1>6, <2>2, <2>3 DEF SaveApproved, TypeOK, counters
<1>7. ASSUME NEW h \in Houses, StartPass(h)
      PROVE  TypeOK'
  <2>1. PendingOf(h) \in SUBSET Requests /\ FreeRows(SheetOf[h]) \in SUBSET Campaigns
    BY DEF PendingOf, FreeRows
  <2>2. batch' \in [Houses -> BatchType] BY <1>7, <2>1 DEF StartPass, Batch, BatchType, TypeOK
  <2> QED BY <1>7, <2>2 DEF StartPass, TypeOK, counters
<1>8. ASSUME NEW h \in Houses, NextPending(h)
      PROVE  TypeOK'
  <2>1. PICK r \in batch[h].todo :
          /\ call' = [call EXCEPT ![h] = Call("lock", r, {}, None, None, FALSE)]
          /\ batch' = [batch EXCEPT ![h] =
                         Batch(batch[h].on, batch[h].todo \ {r}, batch[h].rows, batch[h].marks)]
    BY <1>8 DEF NextPending, TypeOK
  <2>2. r \in Requests /\ h \in Actors BY BatchFields DEF Actors
  <2>3. CallOK(Call("lock", r, {}, None, None, FALSE))
    BY <2>2, CallTyped, PoolAssumption DEF Inside, Trying
  <2>4. call' \in [Actors -> CallType] /\ \A b \in Actors : CallOK(call'[b])
    BY <2>1, <2>2, <2>3, CallMoves
  <2>5. batch' \in [Houses -> BatchType] BY <2>1, BatchFields, BatchTyped
  <2> QED BY <1>8, <2>4, <2>5 DEF NextPending, TypeOK, counters
<1>9. ASSUME NEW h \in Houses, EndPass(h)
      PROVE  TypeOK'
  <2>1. batch' \in [Houses -> BatchType]
    BY <1>9 DEF EndPass, NoBatch, Batch, BatchType, TypeOK
  <2>2. marked' \in [Sheets -> SUBSET Campaigns]
    <3>1. SheetOf[h] \in Sheets BY PoolAssumption
    <3>2. batch[h].marks \in SUBSET Campaigns BY BatchFields
    <3>3. \/ marked' = [marked EXCEPT ![SheetOf[h]] = @ \cup batch[h].marks]
          \/ marked' = [marked EXCEPT ![SheetOf[h]] = @]
      BY <1>9 DEF EndPass
    <3> QED BY <3>1, <3>2, <3>3 DEF TypeOK
  <2> QED BY <1>9, <2>1, <2>2 DEF EndPass, TypeOK, counters
<1>10. ASSUME NEW k \in Locks, Expire(k)
       PROVE  TypeOK'
  BY <1>10 DEF Expire, TypeOK, counters
<1>11. CASE Crash
  <2>1. CallOK(Idle) BY CallTyped DEF Idle, Inside, Trying
  <2>2. call' \in [Actors -> CallType] /\ \A b \in Actors : CallOK(call'[b])
    BY <1>11, <2>1 DEF Crash, CallOK
  <2>3. batch' \in [Houses -> BatchType]
    BY <1>11 DEF Crash, NoBatch, Batch, BatchType
  <2>4. approval' \in ApprovalType /\ approval'.pc = "idle"
    BY <1>11 DEF Crash, NoApproval, Approval, ApprovalType
  <2>5. crashes' \in Nat BY <1>11 DEF Crash, TypeOK
  <2> QED BY <1>11, <2>2, <2>3, <2>4, <2>5 DEF Crash, TypeOK
<1> QED BY <1>1, <1>2, <1>3, <1>4, <1>5, <1>6, <1>7, <1>8, <1>9, <1>10, <1>11 DEF Next

\* The variables of LinkPoolAssignment hold what the schema, the sheet, Redis and
\* the running calls can hold; a call that tries rows always has a row left.
THEOREM TypeCorrect == Spec => []TypeOK
<1>1. TypeOK /\ [Next]_vars => TypeOK'
  <2>1. ASSUME TypeOK, Next PROVE TypeOK' BY <2>1, TryAssignTyped, OthersTyped
  <2>2. ASSUME TypeOK, UNCHANGED vars PROVE TypeOK'
    BY <2>2 DEF TypeOK, vars, counters
  <2> QED BY <2>1, <2>2
<1> QED BY InitTyped, <1>1, PTL DEF Spec

------------------------------------------------------------------------------
(* The lock *)

\* A step of a call leaves the other calls alone, and does not change the request of
\* a call inside the lock, nor whether it is late.
LEMMA CallStep ==
  ASSUME TypeOK, NEW a \in Actors, TryAssign(a)
  PROVE  /\ call[a].pc # "idle"
         /\ \A b \in Actors \ {a} : call'[b] = call[b]
         /\ call'[a].pc \in Inside => /\ call'[a].request = call[a].request
                                     /\ call'[a].late = call[a].late
         /\ call'[a].pc \in Inside => call[a].pc \in Inside \/ Acquire(a)
         /\ call'[a].late => call[a].late
<1> DEFINE Moves(c) == call' = [call EXCEPT ![a] = c]
<1> DEFINE Done ==
      /\ \A b \in Actors \ {a} : call'[b] = call[b]
      /\ call'[a].pc \in Inside => /\ call'[a].request = call[a].request
                                  /\ call'[a].late = call[a].late
      /\ call'[a].late => call[a].late
<1>0. call \in [Actors -> CallType] BY DEF TypeOK
<1>1. ASSUME NEW pc, NEW rows, NEW own, NEW existing,
             Moves(Call(pc, call[a].request, rows, own, existing, call[a].late))
      PROVE  Done
  BY <1>0, <1>1, CallFields
<1>2. ASSUME Moves(Idle) PROVE Done
  BY <1>0, <1>2 DEF Idle, Call, Inside
<1>3. Finish(a) => Done BY <1>1 DEF Finish
<1>4. \A pc : GoTo(a, pc) => Done BY <1>1 DEF GoTo
<1>5. NextRow(a) => Done BY <1>1, <1>3 DEF NextRow
<1> HIDE DEF Done
<1>6. CASE Acquire(a) BY <1>4, <1>6 DEF Acquire, Done
<1>7. CASE TurnAway(a)
  <2>1. Moves(Idle) BY <1>7 DEF TurnAway
  <2>2. call'[a].pc \notin Inside BY <2>1, <1>0 DEF Idle, Call, Inside
  <2>3. call[a].pc # "idle" BY <1>7 DEF TurnAway
  <2> QED BY <1>2, <2>1, <2>2, <2>3 DEF Done
<1>8. CASE ReadRows(a)
  <2>1. call[a].pc \in Inside BY <1>8 DEF ReadRows, Inside
  <2>2. Done BY <1>1, <1>3, <1>8 DEF ReadRows
  <2> QED BY <2>1, <2>2 DEF Done, Inside
<1>9. CASE FindOwn(a)
  <2>1. call[a].pc \in Inside BY <1>9 DEF FindOwn, Inside
  <2>2. Done BY <1>1, <1>9 DEF FindOwn
  <2> QED BY <2>1, <2>2 DEF Done, Inside
<1>10. CASE CheckRow(a)
  <2>1. call[a].pc \in Inside BY <1>10 DEF CheckRow, Inside
  <2>2. Done BY <1>4, <1>5, <1>10 DEF CheckRow
  <2> QED BY <2>1, <2>2 DEF Done, Inside
<1>11. CASE Begin(a)
  <2>1. call[a].pc \in Inside BY <1>11 DEF Begin, Inside
  <2>2. Done BY <1>1, <1>11 DEF Begin
  <2> QED BY <2>1, <2>2 DEF Done, Inside
<1>12. CASE Commit(a)
  <2>1. call[a].pc \in Inside BY <1>12 DEF Commit, Inside
  <2>2. Done BY <1>1, <1>12 DEF Commit
  <2> QED BY <2>1, <2>2 DEF Done, Inside
<1>13. CASE Collide(a)
  <2>1. call[a].pc \in Inside BY <1>13 DEF Collide, Inside
  <2>2. Done BY <1>5, <1>13 DEF Collide
  <2> QED BY <2>1, <2>2 DEF Done, Inside
<1>14. CASE Fail(a)
  <2>1. call[a].pc \in Inside BY <1>14 DEF Fail, Inside
  <2>2. Done BY <1>3, <1>14 DEF Fail
  <2> QED BY <2>1, <2>2 DEF Done, Inside
<1>15. CASE MarkRow(a)
  <2>1. call[a].pc \in Inside BY <1>15 DEF MarkRow, Inside
  <2>2. Done BY <1>3, <1>15 DEF MarkRow
  <2> QED BY <2>1, <2>2 DEF Done, Inside
<1>16. CASE Release(a)
  <2>1. call[a].pc \in Inside BY <1>16 DEF Release, Inside
  <2>2. Done BY <1>2, <1>16 DEF Release
  <2> QED BY <2>1, <2>2 DEF Done, Inside
<1> QED BY <1>6, <1>7, <1>8, <1>9, <1>10, <1>11, <1>12, <1>13, <1>14, <1>15, <1>16
        DEF TryAssign

\* A new call starts outside the lock and on time.
LEMMA CallStarts ==
  ASSUME TypeOK, Next, ~ \E a \in Actors : TryAssign(a) \/ Overrun(a)
  PROVE  \A b \in Actors :
           call'[b] = call[b] \/ (call'[b].pc \in {"idle", "lock"} /\ ~call'[b].late)
<1>1. ASSUME NEW a \in Actors, NEW r,
             call' = [call EXCEPT ![a] = Call("lock", r, {}, None, None, FALSE)]
      PROVE  \A b \in Actors :
               call'[b] = call[b] \/ (call'[b].pc \in {"idle", "lock"} /\ ~call'[b].late)
  BY <1>1 DEF TypeOK, Call
<1>2. ASSUME NEW r \in Requests, CreateRequest(r)
      PROVE  \A b \in Actors :
               call'[b] = call[b] \/ (call'[b].pc \in {"idle", "lock"} /\ ~call'[b].late)
  BY <1>1, <1>2 DEF CreateRequest, Actors
<1>3. ASSUME NEW h \in Houses, NextPending(h)
      PROVE  \A b \in Actors :
               call'[b] = call[b] \/ (call'[b].pc \in {"idle", "lock"} /\ ~call'[b].late)
  BY <1>1, <1>3 DEF NextPending, Actors
<1>4. CASE Crash BY <1>4 DEF Crash, Idle, Call
<1>5. CASE UNCHANGED call BY <1>5
<1> QED BY <1>2, <1>3, <1>4, <1>5
        DEF Next, Reject, CheckApproval, CloseApproval, FindApproved, SaveApproved,
            StartPass, EndPass, Expire

\* The lock of a house of the family.
LEMMA GuardsStep ==
  ASSUME TypeOK, LockGuards, [Next]_vars
  PROVE  LockGuards'
<1>1. ASSUME NEW a \in Actors, TryAssign(a)
      PROVE  LockGuards'
  <2> SUFFICES ASSUME NEW b \in Actors, call'[b].pc \in Inside, ~call'[b].late
               PROVE  lock'[LockOfCall(b)'] = b
    BY DEF LockGuards
  <2>1. CASE Acquire(a)
    <3>1. LockOfCall(a) \in Locks BY <2>1, RequestOfCall DEF Acquire
    <3>2. lock' = [lock EXCEPT ![LockOfCall(a)] = a] /\ lock[LockOfCall(a)] = None
      BY <2>1 DEF Acquire
    <3>3. CASE b = a
      <4>1. LockOfCall(b)' = LockOfCall(a)
        BY <3>3, <1>1, CallStep DEF LockOfCall, HouseOfCall
      <4> QED BY <4>1, <3>1, <3>2, <3>3 DEF TypeOK
    <3>4. CASE b # a
      <4>1. call'[b] = call[b] BY <3>4, <1>1, CallStep
      <4>2. LockOfCall(b)' = LockOfCall(b) BY <4>1 DEF LockOfCall, HouseOfCall
      <4>3. lock[LockOfCall(b)] = b BY <4>1 DEF LockGuards
      <4>4. b # None BY PoolAssumption DEF Actors
      <4> QED BY <4>2, <4>3, <4>4, <3>1, <3>2 DEF TypeOK
    <3> QED BY <3>3, <3>4
  <2>2. CASE Release(a)
    <3>1. b # a
      <4>1. call' = [call EXCEPT ![a] = Idle] BY <2>2 DEF Release
      <4>2. call'[a].pc = "idle" BY <4>1 DEF Idle, Call, TypeOK
      <4> QED BY <4>2 DEF Inside
    <3>2. call'[b] = call[b] BY <3>1, <1>1, CallStep
    <3>3. LockOfCall(b)' = LockOfCall(b) BY <3>2 DEF LockOfCall, HouseOfCall
    <3>4. lock[LockOfCall(b)] = b BY <3>2 DEF LockGuards
    <3>5. LockOfCall(a) \in Locks BY <2>2, RequestOfCall DEF Release
    <3>6. \/ lock' = lock
          \/ lock' = [lock EXCEPT ![LockOfCall(a)] = None] /\ lock[LockOfCall(a)] = a
      BY <2>2, <3>5 DEF Release, TypeOK
    <3>7. ASSUME lock' = [lock EXCEPT ![LockOfCall(a)] = None], lock[LockOfCall(a)] = a
          PROVE  lock'[LockOfCall(b)] = b
      <4>1. LockOfCall(b) # LockOfCall(a) BY <3>1, <3>4, <3>7
      <4>2. LockOfCall(b) \in Locks BY <3>2, RequestOfCall DEF Inside
      <4> QED BY <4>1, <4>2, <3>4, <3>7 DEF TypeOK
    <3> QED BY <3>3, <3>4, <3>6, <3>7
  <2>3. CASE ~Acquire(a) /\ ~Release(a)
    <3>1. lock' = lock
      BY <2>3, <1>1 DEF TryAssign, TurnAway, ReadRows, FindOwn, CheckRow, Begin, Commit,
                        Collide, Fail, MarkRow
    <3>2. /\ call[b].pc \in Inside /\ ~call[b].late
          /\ call'[b].request = call[b].request
      BY <2>3, <1>1, CallStep
    <3>3. LockOfCall(b)' = LockOfCall(b) BY <3>2 DEF LockOfCall, HouseOfCall
    <3> QED BY <3>1, <3>2, <3>3 DEF LockGuards
  <2> QED BY <2>1, <2>2, <2>3
<1>2. ASSUME NEW a \in Actors, Overrun(a)
      PROVE  LockGuards'
  <2> SUFFICES ASSUME NEW b \in Actors, call'[b].pc \in Inside, ~call'[b].late
               PROVE  lock'[LockOfCall(b)'] = b
    BY DEF LockGuards
  <2> DEFINE c == call[a]
  <2>1. call' = [call EXCEPT ![a] = Call(c.pc, c.request, c.rows, c.own, c.existing, TRUE)]
    BY <1>2 DEF Overrun
  <2>2. b # a BY <2>1 DEF TypeOK, Call
  <2>3. call'[b] = call[b] BY <2>1, <2>2 DEF TypeOK
  <2>4. LockOfCall(b)' = LockOfCall(b) BY <2>3 DEF LockOfCall, HouseOfCall
  <2>5. lock[LockOfCall(b)] = b BY <2>3 DEF LockGuards
  <2>6. lock' = [lock EXCEPT ![LockOfCall(a)] = None] /\ lock[LockOfCall(a)] = a
    BY <1>2 DEF Overrun
  <2> QED BY <2>2, <2>4, <2>5, <2>6 DEF TypeOK
<1>3. ASSUME Next, ~ \E a \in Actors : TryAssign(a) \/ Overrun(a)
      PROVE  LockGuards'
  <2> SUFFICES ASSUME NEW b \in Actors, call'[b].pc \in Inside, ~call'[b].late
               PROVE  lock'[LockOfCall(b)'] = b
    BY DEF LockGuards
  <2>1. call'[b] = call[b] BY <1>3, CallStarts DEF Inside
  <2>2. LockOfCall(b)' = LockOfCall(b) BY <2>1 DEF LockOfCall, HouseOfCall
  <2>3. lock[LockOfCall(b)] = b BY <2>1 DEF LockGuards
  <2>4. ASSUME NEW k \in Locks, Expire(k)
        PROVE  lock'[LockOfCall(b)] = b
    <3>1. LockOfCall(b) # k BY <2>1, <2>3, <2>4 DEF Expire
    <3>2. lock' = [lock EXCEPT ![k] = None] BY <2>4 DEF Expire
    <3> QED BY <3>1, <3>2, <2>3 DEF TypeOK
  <2>5. lock' = lock \/ \E k \in Locks : Expire(k)
    BY <1>3 DEF Next, CreateRequest, Reject, CheckApproval, CloseApproval, FindApproved,
                SaveApproved, StartPass, NextPending, EndPass, Crash
  <2> QED BY <2>2, <2>3, <2>4, <2>5
<1>4. CASE UNCHANGED vars
  BY <1>4 DEF vars, LockGuards, LockOfCall, HouseOfCall
<1> QED BY <1>1, <1>2, <1>3, <1>4

\* No crash, failure or end of another call takes the lock of a family from the call
\* that holds it; only its TTL does (SET NX EX, the token compared before DEL).
THEOREM LockIsKept == Spec => []LockGuards
<1>1. Init => LockGuards BY DEF Init, LockGuards, Idle, Call, Inside
<1>2. TypeOK /\ LockGuards /\ [Next]_vars => LockGuards' BY GuardsStep
<1> QED BY <1>1, <1>2, TypeCorrect, PTL DEF Spec

------------------------------------------------------------------------------
(* What is marked in a sheet *)

\* How a call reaches a point of tryAssign.
LEMMA CallTarget ==
  ASSUME TypeOK, NEW a \in Actors, TryAssign(a)
  PROVE  /\ call'[a].pc = "mark" => Commit(a)
         /\ call'[a].pc = "write" => Begin(a)
         /\ call'[a].pc = "begin" => CheckRow(a) /\ ~Conflict(a)
         /\ call'[a].pc = "row" => FindOwn(a) \/ CheckRow(a) \/ Collide(a)
         /\ call'[a].pc = "own" => ReadRows(a)
         /\ call'[a].pc = "read" => Acquire(a)
<1>0. call \in [Actors -> CallType] BY DEF TypeOK
<1>1. Finish(a) => call'[a].pc = "release" BY <1>0 DEF Finish, Call
<1>2. \A pc : GoTo(a, pc) => call'[a].pc = pc BY <1>0 DEF GoTo, Call
<1>3. NextRow(a) => call'[a].pc \in {"row", "release"} BY <1>0, <1>1 DEF NextRow, Call
<1>4. CASE Acquire(a) BY <1>2, <1>4 DEF Acquire
<1>5. CASE TurnAway(a) \/ Release(a)
  BY <1>0, <1>5 DEF TurnAway, Release, Idle, Call
<1>6. CASE ReadRows(a)
  BY <1>0, <1>1, <1>6 DEF ReadRows, Call
<1>7. CASE FindOwn(a)
  <2>1. PICK i : call' = [call EXCEPT ![a] = Call("row", call[a].request, call[a].rows, i,
                                                   None, call[a].late)]
    BY <1>7 DEF FindOwn
  <2>2. call'[a].pc = "row" BY <2>1, <1>0 DEF Call
  <2> QED BY <2>2, <1>7
<1>8. CASE CheckRow(a) BY <1>2, <1>3, <1>8 DEF CheckRow
<1>9. CASE Begin(a)
  <2>1. PICK i : call' = [call EXCEPT ![a] = Call("write", call[a].request, call[a].rows,
                                                   call[a].own, i, call[a].late)]
    BY <1>9 DEF Begin
  <2>2. call'[a].pc = "write" BY <2>1, <1>0 DEF Call
  <2> QED BY <2>2, <1>9
<1>10. CASE Commit(a) BY <1>0, <1>10 DEF Commit, Call
<1>11. CASE Collide(a) BY <1>3, <1>11 DEF Collide
<1>12. CASE Fail(a) \/ MarkRow(a) BY <1>1, <1>12 DEF Fail, MarkRow
<1> QED BY <1>4, <1>5, <1>6, <1>7, <1>8, <1>9, <1>10, <1>11, <1>12 DEF TryAssign

\* What Commit leaves behind.
LEMMA CommitStep ==
  ASSUME TypeOK, NEW a \in Actors, Commit(a)
  PROVE  /\ call[a].request \in Requests
         /\ call'[a].request = call[a].request /\ Row(a)' = Row(a)
         /\ status'[call[a].request] = "FULFILLED"
         /\ served'[call[a].request] = served[call[a].request] \cup {Row(a)}
         /\ \A r \in Requests \ {call[a].request} :
              status'[r] = status[r] /\ served'[r] = served[r]
<1> DEFINE c == Row(a)
<1>1. call[a].request \in Requests BY RequestOfCall DEF Commit
<1>2. call' = [call EXCEPT ![a] = Call("mark", call[a].request, {c}, None, None, call[a].late)]
  BY DEF Commit
<1>3. call'[a].request = call[a].request /\ call'[a].rows = {c} BY <1>2 DEF TypeOK, Call
<1>4. Row(a)' = CHOOSE d \in {c} : TRUE BY <1>3 DEF Row
<1>5. Row(a)' = c BY <1>4
<1>6. /\ status' = [status EXCEPT ![call[a].request] = "FULFILLED"]
      /\ served' = [served EXCEPT ![call[a].request] = served[call[a].request] \cup {c}]
  BY DEF Commit
<1> HIDE DEF c
<1>7. /\ status'[call[a].request] = "FULFILLED"
      /\ served'[call[a].request] = served[call[a].request] \cup {c}
      /\ \A r \in Requests \ {call[a].request} :
           status'[r] = status[r] /\ served'[r] = served[r]
  BY <1>1, <1>6 DEF TypeOK
<1> QED BY <1>1, <1>3, <1>5, <1>7 DEF c

\* What has been given stays given.
LEMMA ServedGrows ==
  ASSUME TypeOK, [Next]_vars
  PROVE  \A r \in Requests : served[r] \subseteq served'[r]
<1>1. ASSUME NEW a \in Actors, Commit(a)
      PROVE  \A r \in Requests : served[r] \subseteq served'[r]
  BY <1>1, CommitStep
<1>2. CASE UNCHANGED served BY <1>2
<1> QED BY <1>1, <1>2
        DEF Next, TryAssign, Overrun, CreateRequest, Reject, CheckApproval, CloseApproval,
            FindApproved, SaveApproved, StartPass, NextPending, EndPass, Expire, Crash,
            Acquire, TurnAway, ReadRows, FindOwn, CheckRow, Begin, Collide, Fail, MarkRow,
            Release, vars

Given == UNION {served[r] : r \in Requests}

\* A call about to mark a row, or a batch with rows to mark, has given them.
MarksAreGiven ==
  /\ \A a \in Actors : call[a].pc = "mark" => Row(a) \in served[call[a].request]
  /\ \A h \in Houses : batch[h].marks \subseteq Given
  /\ \A h \in Houses : marked[SheetOf[h]] \subseteq Given

LEMMA MarksStep ==
  ASSUME TypeOK, MarksAreGiven, [Next]_vars
  PROVE  MarksAreGiven'
<1>1. \A r \in Requests : served[r] \subseteq served'[r] BY ServedGrows
<1>2. Given \subseteq Given' BY <1>1 DEF Given
<1>3. ASSUME NEW a \in Actors, call'[a].pc = "mark"
      PROVE  Row(a)' \in served'[call'[a].request]
  <2>1. CASE TryAssign(a)
    <3>1. Commit(a) BY <2>1, <1>3, CallTarget
    <3> QED BY <3>1, CommitStep
  <2>2. CASE call'[a].pc = "mark" /\ call[a].pc = "mark" /\ call'[a].rows = call[a].rows
                                 /\ call'[a].request = call[a].request
    <3>1. Row(a)' = Row(a) BY <2>2 DEF Row
    <3>2. Row(a) \in served[call[a].request] BY <2>2 DEF MarksAreGiven
    <3>3. call[a].request \in Requests BY <2>2, RequestOfCall
    <3> QED BY <3>1, <3>2, <3>3, <2>2, <1>1
  <2>3. CASE \E b \in Actors \ {a} : TryAssign(b)
    <3>1. call'[a] = call[a] BY <2>3, CallStep
    <3> QED BY <3>1, <2>2, <1>3
  <2>4. CASE \E b \in Actors : Overrun(b)
    <3>1. PICK b \in Actors : Overrun(b) BY <2>4
    <3> DEFINE c == call[b]
    <3>2. call' = [call EXCEPT ![b] = Call(c.pc, c.request, c.rows, c.own, c.existing, TRUE)]
      BY <3>1 DEF Overrun
    <3>3. /\ call'[a].pc = call[a].pc /\ call'[a].rows = call[a].rows
          /\ call'[a].request = call[a].request
      BY <3>2 DEF TypeOK, Call
    <3> QED BY <3>3, <2>2, <1>3
  <2>5. CASE Next /\ ~ \E b \in Actors : TryAssign(b) \/ Overrun(b)
    <3>1. call'[a] = call[a] BY <2>5, <1>3, CallStarts
    <3> QED BY <3>1, <2>2, <1>3
  <2>6. CASE UNCHANGED vars BY <2>6, <2>2, <1>3 DEF vars
  <2> QED BY <2>1, <2>3, <2>4, <2>5, <2>6
<1>4. ASSUME NEW a \in Actors, MarkRow(a)
      PROVE  /\ \A h \in Houses : batch'[h].marks \subseteq Given'
             /\ \A h \in Houses : marked'[SheetOf[h]] \subseteq Given'
  <2>1. Row(a) \in Given /\ Row(a) \in Campaigns
    <3>1. Row(a) \in served[call[a].request] BY <1>4 DEF MarkRow, MarksAreGiven
    <3>2. call[a].request \in Requests BY <1>4, RequestOfCall DEF MarkRow
    <3> QED BY <3>1, <3>2, <1>4, RowAtHand DEF Given, MarkRow, Trying
  <2>2. CASE a \in Houses
    <3>1. /\ batch' = [batch EXCEPT ![a] = Batch(batch[a].on, batch[a].todo,
                          batch[a].rows \ {Row(a)}, batch[a].marks \cup {Row(a)})]
          /\ marked' = marked
      BY <2>2, <1>4 DEF MarkRow
    <3>2. /\ batch'[a].marks = batch[a].marks \cup {Row(a)}
          /\ \A g \in Houses \ {a} : batch'[g] = batch[g]
      BY <2>2, <3>1 DEF TypeOK, Batch
    <3> QED BY <3>1, <3>2, <2>1, <1>2 DEF MarksAreGiven
  <2>3. CASE a \notin Houses
    <3>1. /\ \/ marked' = [marked EXCEPT ![SheetOfCall(a)] = @ \cup {Row(a)}]
             \/ marked' = marked
          /\ batch' = batch
      BY <2>3, <1>4 DEF MarkRow, TypeOK
    <3>2. \A s \in Sheets : marked'[s] \subseteq marked[s] \cup {Row(a)}
      BY <3>1 DEF TypeOK
    <3>3. \A h \in Houses : SheetOf[h] \in Sheets BY PoolAssumption
    <3> QED BY <3>1, <3>2, <3>3, <2>1, <1>2 DEF MarksAreGiven
  <2> QED BY <2>2, <2>3
<1>5. ASSUME NEW g \in Houses, EndPass(g)
      PROVE  /\ \A h \in Houses : batch'[h].marks \subseteq Given'
             /\ \A h \in Houses : marked'[SheetOf[h]] \subseteq Given'
  <2>1. batch' = [batch EXCEPT ![g] = NoBatch] BY <1>5 DEF EndPass
  <2>2. \A h \in Houses : batch'[h].marks \subseteq batch[h].marks
    BY <2>1 DEF TypeOK, NoBatch, Batch
  <2>3. \/ marked' = [marked EXCEPT ![SheetOf[g]] = @ \cup batch[g].marks]
        \/ marked' = [marked EXCEPT ![SheetOf[g]] = @]
    BY <1>5 DEF EndPass
  <2>4. \A s \in Sheets : marked'[s] \subseteq marked[s] \cup batch[g].marks
    BY <2>3 DEF TypeOK
  <2>5. \A h \in Houses : SheetOf[h] \in Sheets BY PoolAssumption
  <2> QED BY <2>2, <2>4, <2>5, <1>2 DEF MarksAreGiven
<1>6. ASSUME marked' = marked, \A h \in Houses : batch'[h].marks \subseteq batch[h].marks
      PROVE  /\ \A h \in Houses : batch'[h].marks \subseteq Given'
             /\ \A h \in Houses : marked'[SheetOf[h]] \subseteq Given'
  BY <1>2, <1>6 DEF MarksAreGiven
<1>7. ASSUME NEW g \in Houses, NEW on, NEW todo, NEW rows,
             \/ batch' = [batch EXCEPT ![g] = Batch(on, todo, rows, {})]
             \/ batch' = [batch EXCEPT ![g] = Batch(on, todo, rows, batch[g].marks)]
      PROVE  \A h \in Houses : batch'[h].marks \subseteq batch[h].marks
  BY <1>7 DEF TypeOK, Batch
<1>8. ASSUME NEW a \in Actors, ReadRows(a)
      PROVE  marked' = marked /\ \A h \in Houses : batch'[h].marks \subseteq batch[h].marks
  BY <1>7, <1>8 DEF ReadRows
<1>9. ASSUME NEW g \in Houses, StartPass(g) \/ NextPending(g)
      PROVE  marked' = marked /\ \A h \in Houses : batch'[h].marks \subseteq batch[h].marks
  BY <1>7, <1>9 DEF StartPass, NextPending
<1>10. ASSUME marked' = marked, batch' = batch
       PROVE  marked' = marked /\ \A h \in Houses : batch'[h].marks \subseteq batch[h].marks
  BY <1>10
<1>11. /\ \A h \in Houses : batch'[h].marks \subseteq Given'
       /\ \A h \in Houses : marked'[SheetOf[h]] \subseteq Given'
  <2>1. \/ \E a \in Actors : MarkRow(a) \/ ReadRows(a)
        \/ \E g \in Houses : EndPass(g) \/ StartPass(g) \/ NextPending(g)
        \/ Crash
        \/ marked' = marked /\ batch' = batch
    BY DEF Next, TryAssign, Overrun, CreateRequest, Reject, CheckApproval, CloseApproval,
           FindApproved, SaveApproved, Expire, Acquire, TurnAway, FindOwn, CheckRow, Begin,
           Commit, Collide, Fail, Release, vars
  <2>2. CASE Crash
    <3>1. marked' = marked /\ \A h \in Houses : batch'[h].marks \subseteq batch[h].marks
      BY <2>2 DEF Crash, NoBatch, Batch
    <3> QED BY <3>1, <1>6
  <2> QED BY <2>1, <2>2, <1>4, <1>5, <1>6, <1>8, <1>9, <1>10
<1> QED BY <1>3, <1>11 DEF MarksAreGiven

\* No race, failure or crash of a call or of a scheduler's pass marks a row nobody got:
\* rows are marked after the transaction, and a collision marks nothing.
THEOREM MarkedRowsAreGiven == Spec => []MarkedWasGiven
<1>1. Init => MarksAreGiven
  BY PoolAssumption
     DEF Init, MarksAreGiven, Idle, Call, NoBatch, Batch, Given
<1>2. TypeOK /\ MarksAreGiven /\ [Next]_vars => MarksAreGiven' BY MarksStep
<1>3. MarksAreGiven => MarkedWasGiven BY DEF MarksAreGiven, MarkedWasGiven, Given
<1> QED BY <1>1, <1>2, <1>3, TypeCorrect, PTL DEF Spec

------------------------------------------------------------------------------
(* One row per request, one house per campaign *)

\* All houses of the family assign under one lock key (BETANO_LOCK_KEY).
SharedLock == \A g, h \in Houses : LockOf[g] = LockOf[h]

Searching == {"read", "own", "row", "begin", "write"}

\* A call that lost its lock has been counted.
Timely == overruns = 0 => \A a \in Actors : ~call[a].late

LEMMA OverrunsGrow == TypeOK /\ [Next]_vars /\ overruns' = 0 =>
                        overruns = 0 /\ ~ \E a \in Actors : Overrun(a)
<1> SUFFICES ASSUME TypeOK, [Next]_vars, overruns' = 0
             PROVE  overruns = 0 /\ ~ \E a \in Actors : Overrun(a)
  OBVIOUS
<1>1. ASSUME NEW a \in Actors, Overrun(a) PROVE FALSE
  BY <1>1 DEF Overrun, TypeOK
<1>2. (\E a \in Actors : Overrun(a)) \/ overruns' = overruns
  BY DEF Next, TryAssign, CreateRequest, Reject, CheckApproval, CloseApproval,
         FindApproved, SaveApproved, StartPass, NextPending, EndPass, Expire, Crash,
         Acquire, TurnAway, ReadRows, FindOwn, CheckRow, Begin, Commit, Collide, Fail,
         MarkRow, Release, vars, counters
<1> QED BY <1>1, <1>2

LEMMA TimelyStep ==
  ASSUME TypeOK, Timely, [Next]_vars
  PROVE  Timely'
<1> SUFFICES ASSUME overruns' = 0, NEW b \in Actors
             PROVE  ~call'[b].late
  BY DEF Timely
<1>1. overruns = 0 /\ ~ \E a \in Actors : Overrun(a) BY OverrunsGrow
<1>2. ~call[b].late BY <1>1 DEF Timely
<1>3. ASSUME NEW a \in Actors, TryAssign(a) PROVE ~call'[b].late
  BY <1>2, <1>3, CallStep
<1>4. CASE Next /\ ~ \E a \in Actors : TryAssign(a) \/ Overrun(a)
  BY <1>2, <1>4, CallStarts
<1>5. CASE UNCHANGED vars BY <1>2, <1>5 DEF vars
<1> QED BY <1>1, <1>3, <1>4, <1>5

\* Two calls are never inside the lock of a family.
LEMMA OneCallInside ==
  ASSUME TypeOK, LockGuards, Timely, SharedLock, overruns = 0,
         NEW a \in Actors, NEW b \in Actors, call[a].pc \in Inside, call[b].pc \in Inside
  PROVE  a = b
<1>1. lock[LockOfCall(a)] = a /\ lock[LockOfCall(b)] = b BY DEF LockGuards, Timely
<1>2. HouseOfCall(a) \in Houses /\ HouseOfCall(b) \in Houses
  BY RequestOfCall DEF Inside
<1>3. LockOfCall(a) = LockOfCall(b) BY <1>2 DEF SharedLock, LockOfCall
<1> QED BY <1>1, <1>3

\* A call that searches was let in, or searched before, for the same request.
LEMMA SearchStep ==
  ASSUME TypeOK, [Next]_vars, ~ \E a \in Actors : Overrun(a),
         NEW b \in Actors, call'[b].pc \in Searching
  PROVE  \/ /\ call[b].pc \in Searching /\ call'[b].request = call[b].request
            /\ TryAssign(b) \/ call'[b] = call[b]
         \/ Acquire(b) /\ call'[b].request = call[b].request
<1>1. CASE TryAssign(b)
  <2>1. call'[b].request = call[b].request BY <1>1, CallStep DEF Searching, Inside
  <2>2. call[b].pc \in Searching \/ Acquire(b)
    BY <1>1, CallTarget
       DEF Searching, Begin, CheckRow, FindOwn, Collide, ReadRows, Acquire
  <2> QED BY <1>1, <2>1, <2>2
<1>2. ASSUME NEW a \in Actors \ {b}, TryAssign(a)
      PROVE  call'[b] = call[b]
  BY <1>2, CallStep
<1>3. CASE Next /\ ~ \E a \in Actors : TryAssign(a) \/ Overrun(a)
  BY <1>3, CallStarts DEF Searching
<1>4. CASE UNCHANGED vars BY <1>4 DEF vars
<1> QED BY <1>1, <1>2, <1>3, <1>4

\* Nothing was given for a request that is open, nor for one a call searches a row for.
NotYetServed ==
  /\ \A r \in Requests : status[r] \in {"none", "PENDING"} => served[r] = {}
  /\ overruns = 0 =>
       \A a \in Actors : call[a].pc \in Searching => served[call[a].request] = {}

OnceInv == TypeOK /\ LockGuards /\ Timely /\ NotYetServed /\ ServedOnce

LEMMA OnceStep ==
  ASSUME SharedLock, OnceInv, [Next]_vars
  PROVE  NotYetServed' /\ ServedOnce'
<1> USE DEF OnceInv
<1>1. overruns' = 0 => overruns = 0 /\ ~ \E a \in Actors : Overrun(a) BY OverrunsGrow
<1>2. ASSUME NEW a \in Actors, Commit(a)
      PROVE  NotYetServed' /\ ServedOnce'
  <2> DEFINE r == call[a].request
  <2>1. /\ r \in Requests /\ status'[r] = "FULFILLED"
        /\ served'[r] = served[r] \cup {Row(a)}
        /\ \A q \in Requests \ {r} : status'[q] = status[q] /\ served'[q] = served[q]
    BY <1>2, CommitStep
  <2>2. \A q \in Requests : status'[q] \in {"none", "PENDING"} => served'[q] = {}
    BY <2>1 DEF NotYetServed
  <2>3. ASSUME overruns' = 0
        PROVE  /\ \A q \in Requests : \A c, d \in served'[q] : c = d
               /\ \A b \in Actors : call'[b].pc \notin Searching
    <3>1. overruns = 0 /\ ~ \E b \in Actors : Overrun(b) BY <1>1, <2>3
    <3>2. served[r] = {} BY <1>2, <3>1 DEF NotYetServed, Commit, Searching
    <3>3. \A q \in Requests : \A c, d \in served'[q] : c = d
      BY <2>1, <3>1, <3>2 DEF ServedOnce
    <3>4. ASSUME NEW b \in Actors, call'[b].pc \in Searching
          PROVE  FALSE
      <4>1. CASE b = a
        <5>1. call'[a].pc = "mark" BY <1>2 DEF Commit, TypeOK, Call
        <5> QED BY <4>1, <5>1, <3>4 DEF Searching
      <4>2. CASE b # a
        <5>1. TryAssign(a) BY <1>2 DEF TryAssign
        <5>2. call'[b] = call[b] BY <4>2, <5>1, CallStep
        <5>3. call[a].pc \in Inside /\ call[b].pc \in Inside
          BY <1>2, <3>4, <5>2 DEF Commit, Inside, Searching
        <5> QED BY <5>3, <3>1, <4>2, OneCallInside
      <4> QED BY <4>1, <4>2
    <3> QED BY <3>3, <3>4
  <2> QED BY <2>2, <2>3 DEF NotYetServed, ServedOnce
<1>3. ASSUME ~ \E a \in Actors : Commit(a)
      PROVE  NotYetServed' /\ ServedOnce'
  <2>1. served' = served
    BY <1>3 DEF Next, TryAssign, Overrun, CreateRequest, Reject, CheckApproval,
         CloseApproval, FindApproved, SaveApproved, StartPass, NextPending, EndPass, Expire,
         Crash, Acquire, TurnAway, ReadRows, FindOwn, CheckRow, Begin, Collide, Fail,
         MarkRow, Release, vars
  <2>2. \A r \in Requests : status'[r] \in {"none", "PENDING"} => status[r] \in {"none", "PENDING"}
    <3>1. ASSUME NEW q \in Requests, CreateRequest(q) \/ Reject(q)
          PROVE  \A r \in Requests : status'[r] \in {"none", "PENDING"}
                                      => status[r] \in {"none", "PENDING"}
      BY <3>1 DEF CreateRequest, Reject, TypeOK
    <3>2. CASE CloseApproval BY <3>2 DEF CloseApproval, TypeOK
    <3>3. CASE status' = status BY <3>3
    <3> QED BY <1>3, <3>1, <3>2, <3>3
        DEF Next, TryAssign, Overrun, CheckApproval, FindApproved, SaveApproved, StartPass,
            NextPending, EndPass, Expire, Crash, Acquire, TurnAway, ReadRows, FindOwn,
            CheckRow, Begin, Collide, Fail, MarkRow, Release, vars
  <2>3. \A r \in Requests : status'[r] \in {"none", "PENDING"} => served'[r] = {}
    BY <2>1, <2>2 DEF NotYetServed
  <2>4. ASSUME overruns' = 0, NEW b \in Actors, call'[b].pc \in Searching
        PROVE  served'[call'[b].request] = {}
    <3>1. CASE call[b].pc \in Searching /\ call'[b].request = call[b].request
      BY <1>1, <2>1, <2>4, <3>1 DEF NotYetServed
    <3>2. CASE Acquire(b) /\ call'[b].request = call[b].request
      <4>1. status[call[b].request] = "PENDING" /\ call[b].request \in Requests
        BY <3>2, RequestOfCall DEF Acquire
      <4> QED BY <4>1, <3>2, <2>1 DEF NotYetServed
    <3> QED BY <1>1, <2>4, <3>1, <3>2, SearchStep
  <2>5. ServedOnce' BY <1>1, <2>1 DEF ServedOnce
  <2> QED BY <2>3, <2>4, <2>5 DEF NotYetServed
<1> QED BY <1>2, <1>3

LEMMA OnceInvariant ==
  ASSUME SharedLock
  PROVE  Spec => []OnceInv
<1>1. Init => OnceInv
  <2>1. Init => LockGuards BY DEF Init, LockGuards, Idle, Call, Inside
  <2>2. Init => Timely BY DEF Init, Timely, Idle, Call
  <2>3. Init => NotYetServed BY DEF Init, NotYetServed, Idle, Call, Searching
  <2>4. Init => ServedOnce BY DEF Init, ServedOnce
  <2> QED BY <2>1, <2>2, <2>3, <2>4, InitTyped DEF OnceInv
<1>2. OnceInv /\ TypeOK' /\ [Next]_vars => OnceInv'
  BY GuardsStep, TimelyStep, OnceStep DEF OnceInv
<1> QED BY <1>1, <1>2, TypeCorrect, PTL DEF Spec

\* While no call outlives its lock, a request takes one row at most, although its own
\* call, the scheduler and reprocessing may all try it: the status is read under the
\* lock, and the transaction closes the request before the lock is given up.
THEOREM RequestServedOnce ==
  ASSUME SharedLock
  PROVE  Spec => []ServedOnce
<1>1. OnceInv => ServedOnce BY DEF OnceInv
<1> QED BY <1>1, OnceInvariant, PTL

\* A link that a call or an approval found is the request's affiliate's, in its house.
OfOwner(i, r) == i # None => link[i].house = HouseOf[r] /\ link[i].user = UserOf[r]

FoundOwned ==
  /\ \A a \in Actors : call[a].pc \in {"row", "begin", "write"} =>
                          OfOwner(call[a].own, call[a].request)
  /\ \A a \in Actors : call[a].pc = "write" =>
                          OfOwner(call[a].existing, call[a].request)
  /\ approval.pc = "save" => OfOwner(approval.existing, approval.request)

\* A link once made keeps its affiliate and its house.
LEMMA OwnerStays ==
  ASSUME TypeOK, FoundOwned, [Next]_vars, NEW i \in LinkIds, link[i].house # None
  PROVE  link'[i].house = link[i].house /\ link'[i].user = link[i].user
<1>1. ASSUME NEW r \in Requests, NEW c \in Campaigns, NEW j \in LinkIds \cup {None},
             OfOwner(j, r), SetLink(r, c, j)
      PROVE  link'[i].house = link[i].house /\ link'[i].user = link[i].user
  <2>1. PICK k \in LinkIds :
          /\ link' = [link EXCEPT ![k] =
                        [user |-> UserOf[r], house |-> HouseOf[r], campaign |-> c]]
          /\ j # None => k = j
          /\ j = None => link[k] = NoLink
    BY <1>1, LinkTyped
  <2>2. CASE k # i BY <2>1, <2>2 DEF TypeOK
  <2>3. CASE k = i
    <3>1. j = i BY <2>1, <2>3 DEF NoLink
    <3>2. link[i].house = HouseOf[r] /\ link[i].user = UserOf[r] BY <3>1, <1>1, PoolAssumption DEF OfOwner
    <3> QED BY <2>1, <2>3, <3>2 DEF TypeOK
  <2> QED BY <2>2, <2>3
<1>2. ASSUME NEW a \in Actors, Commit(a)
      PROVE  link'[i].house = link[i].house /\ link'[i].user = link[i].user
  <2>1. Row(a) \in Campaigns /\ call[a].request \in Requests
    BY <1>2, RowAtHand, RequestOfCall DEF Commit, Trying
  <2>2. call[a].existing \in LinkIds \cup {None} BY DEF TypeOK, CallType
  <2>3. OfOwner(call[a].existing, call[a].request) BY <1>2 DEF Commit, FoundOwned
  <2> QED BY <2>1, <2>2, <2>3, <1>1, <1>2 DEF Commit
<1>3. CASE SaveApproved
  <2>1. /\ approval.campaign \in Campaigns /\ approval.request \in Requests
        /\ approval.existing \in LinkIds \cup {None}
    BY <1>3, PoolAssumption DEF SaveApproved, TypeOK, ApprovalType
  <2>2. OfOwner(approval.existing, approval.request) BY <1>3 DEF SaveApproved, FoundOwned
  <2>3. link' = link \/ SetLink(approval.request, approval.campaign, approval.existing)
    BY <1>3 DEF SaveApproved
  <2> QED BY <2>1, <2>2, <2>3, <1>1
<1>4. CASE link' = link BY <1>4
<1> QED BY <1>2, <1>3, <1>4
        DEF Next, TryAssign, Overrun, CreateRequest, Reject, CheckApproval, CloseApproval,
            FindApproved, StartPass, NextPending, EndPass, Expire, Crash, Acquire, TurnAway,
            ReadRows, FindOwn, CheckRow, Begin, Collide, Fail, MarkRow, Release, vars

LEMMA FoundStays ==
  ASSUME TypeOK, FoundOwned, [Next]_vars, NEW r \in Requests,
         NEW i \in LinkIds \cup {None}, OfOwner(i, r)
  PROVE  OfOwner(i, r)'
<1>1. CASE i = None BY <1>1 DEF OfOwner
<1>2. CASE i # None
  <2>1. link[i].house = HouseOf[r] /\ HouseOf[r] # None /\ link[i].user = UserOf[r]
    BY <1>2, PoolAssumption DEF OfOwner
  <2> QED BY <2>1, <1>2, OwnerStays DEF OfOwner
<1> QED BY <1>1, <1>2

\* What a findFirst for a request finds is a link of its affiliate in its house.
LEMMA FoundIsOwned ==
  ASSUME TypeOK, NEW r \in Requests, NEW i \in Found(LinkIdsOf(r))
  PROVE  i \in LinkIds \cup {None} /\ OfOwner(i, r)
BY PoolAssumption DEF Found, LinkIdsOf, OfOwner

\* Where the links a call has found come from.
LEMMA CallFinds ==
  ASSUME TypeOK, NEW a \in Actors, TryAssign(a)
  PROVE  /\ call'[a].pc \in {"row", "begin", "write"} =>
              \/ call[a].pc \in {"row", "begin", "write"} /\ call'[a].own = call[a].own
              \/ FindOwn(a) /\ call'[a].own \in Found(LinkIdsOf(call[a].request))
         /\ call'[a].pc = "write" =>
              Begin(a) /\ call'[a].existing \in Found(LinkIdsOf(call[a].request))
<1>0. call \in [Actors -> CallType] BY DEF TypeOK
<1>1. NextRow(a) /\ call'[a].pc = "row" => call'[a].own = call[a].own
  BY <1>0 DEF NextRow, Finish, Call
<1>2. GoTo(a, "begin") => call'[a].own = call[a].own BY <1>0 DEF GoTo, Call
<1>3. ASSUME FindOwn(a) PROVE call'[a].own \in Found(LinkIdsOf(call[a].request))
  <2>1. PICK i \in Found(LinkIdsOf(call[a].request)) :
          call' = [call EXCEPT ![a] = Call("row", call[a].request, call[a].rows, i,
                                            None, call[a].late)]
    BY <1>3 DEF FindOwn
  <2> QED BY <2>1, <1>0 DEF Call
<1>4. ASSUME Begin(a)
      PROVE  /\ call'[a].own = call[a].own
             /\ call'[a].existing \in Found(LinkIdsOf(call[a].request))
  <2>1. PICK i \in Found(LinkIdsOf(call[a].request)) :
          call' = [call EXCEPT ![a] = Call("write", call[a].request, call[a].rows,
                                            call[a].own, i, call[a].late)]
    BY <1>4 DEF Begin
  <2> QED BY <2>1, <1>0 DEF Call
<1>5. CASE call'[a].pc = "row"
  <2>1. CASE FindOwn(a) BY <1>3, <1>5, <2>1
  <2>2. CASE CheckRow(a) BY <1>1, <1>5, <2>2, CallTarget, <1>0 DEF CheckRow, GoTo, Call
  <2>3. CASE Collide(a) BY <1>1, <1>5, <2>3 DEF Collide
  <2> QED BY <1>5, <2>1, <2>2, <2>3, CallTarget
<1>6. CASE call'[a].pc = "begin"
  <2>1. CheckRow(a) /\ ~Conflict(a) BY <1>6, CallTarget
  <2>2. GoTo(a, "begin") /\ call[a].pc = "row" BY <2>1 DEF CheckRow
  <2> QED BY <2>2, <1>2, <1>6
<1>7. CASE call'[a].pc = "write"
  BY <1>4, <1>7, CallTarget DEF Begin
<1> QED BY <1>5, <1>6, <1>7

LEMMA FoundStep ==
  ASSUME TypeOK, FoundOwned, [Next]_vars
  PROVE  FoundOwned'
<1>1. ASSUME NEW a \in Actors, call'[a].pc \in {"row", "begin", "write"}
      PROVE  /\ OfOwner(call[a].own, call[a].request)'
             /\ call'[a].pc = "write" => OfOwner(call[a].existing, call[a].request)'
  <2>1. CASE TryAssign(a)
    <3>1. /\ call'[a].request = call[a].request /\ call[a].request \in Requests
      BY <1>1, <2>1, CallStep, RequestOfCall DEF Inside
    <3>2. /\ call'[a].own \in LinkIds \cup {None}
          /\ OfOwner(call'[a].own, call[a].request)
      <4>1. CASE call[a].pc \in {"row", "begin", "write"} /\ call'[a].own = call[a].own
        BY <4>1 DEF FoundOwned, TypeOK, CallType
      <4>2. CASE call'[a].own \in Found(LinkIdsOf(call[a].request))
        BY <4>2, <3>1, FoundIsOwned
      <4> QED BY <4>1, <4>2, <1>1, <2>1, CallFinds
    <3>3. call'[a].pc = "write" =>
            /\ call'[a].existing \in LinkIds \cup {None}
            /\ OfOwner(call'[a].existing, call[a].request)
      BY <2>1, <3>1, CallFinds, FoundIsOwned
    <3> QED BY <3>1, <3>2, <3>3, FoundStays DEF OfOwner
  <2>2. CASE /\ call'[a].pc = call[a].pc /\ call'[a].request = call[a].request
             /\ call'[a].own = call[a].own /\ call'[a].existing = call[a].existing
    <3>1. /\ call[a].request \in Requests /\ call[a].own \in LinkIds \cup {None}
          /\ call[a].existing \in LinkIds \cup {None}
      BY <1>1, <2>2, RequestOfCall DEF TypeOK, CallType
    <3>2. OfOwner(call[a].own, call[a].request) BY <1>1, <2>2 DEF FoundOwned
    <3>3. call[a].pc = "write" => OfOwner(call[a].existing, call[a].request)
      BY DEF FoundOwned
    <3> QED BY <2>2, <3>1, <3>2, <3>3, FoundStays DEF OfOwner
  <2>3. ASSUME NEW b \in Actors, TryAssign(b), b # a
        PROVE  call'[a] = call[a]
    BY <2>3, CallStep
  <2>4. ASSUME NEW b \in Actors, Overrun(b)
        PROVE  /\ call'[a].pc = call[a].pc /\ call'[a].request = call[a].request
               /\ call'[a].own = call[a].own /\ call'[a].existing = call[a].existing
    <3> DEFINE c == call[b]
    <3>1. call' = [call EXCEPT ![b] = Call(c.pc, c.request, c.rows, c.own, c.existing, TRUE)]
      BY <2>4 DEF Overrun
    <3> QED BY <3>1 DEF TypeOK, Call
  <2>5. CASE Next /\ ~ \E b \in Actors : TryAssign(b) \/ Overrun(b)
    <3>1. call'[a] = call[a] BY <1>1, <2>5, CallStarts
    <3> QED BY <3>1, <2>2
  <2>6. CASE UNCHANGED vars BY <2>2, <2>6 DEF vars
  <2> QED BY <2>1, <2>2, <2>3, <2>4, <2>5, <2>6
<1>2. ASSUME approval'.pc = "save"
      PROVE  OfOwner(approval.existing, approval.request)'
  <2>1. CASE approval' = approval
    <3>1. approval.request \in Requests /\ approval.existing \in LinkIds \cup {None}
      BY <1>2, <2>1 DEF TypeOK, ApprovalType
    <3>2. OfOwner(approval.existing, approval.request) BY <1>2, <2>1 DEF FoundOwned
    <3> QED BY <2>1, <3>1, <3>2, FoundStays DEF OfOwner
  <2>2. CASE FindApproved
    <3>1. PICK i \in Found(LinkIdsOf(approval.request)) :
            approval' = Approval("save", approval.request, approval.campaign, i)
      BY <1>2, <2>2 DEF FindApproved, NoApproval, Approval
    <3>2. approval'.existing = i /\ approval'.request = approval.request
      BY <3>1 DEF Approval
    <3>3. approval.request \in Requests BY <2>2 DEF FindApproved, TypeOK, ApprovalType
    <3> QED BY <3>2, <3>3, FoundIsOwned, FoundStays DEF OfOwner
  <2>3. ASSUME NEW r \in Requests, NEW c \in Manual, CheckApproval(r, c)
        PROVE  FALSE
    BY <1>2, <2>3 DEF CheckApproval, Approval
  <2>4. CASE CloseApproval BY <1>2, <2>4 DEF CloseApproval, Approval
  <2>5. CASE SaveApproved \/ Crash
    BY <1>2, <2>5 DEF SaveApproved, Crash, NoApproval, Approval
  <2> QED BY <2>1, <2>2, <2>3, <2>4, <2>5
          DEF Next, TryAssign, Overrun, CreateRequest, Reject, StartPass, NextPending,
              EndPass, Expire, Acquire, TurnAway, ReadRows, FindOwn, CheckRow, Begin, Commit,
              Collide, Fail, MarkRow, Release, vars
<1> QED BY <1>1, <1>2 DEF FoundOwned, OfOwner

\* While no call is late, the row a call is about to write is no other link's.
RowIsFree ==
  overruns = 0 =>
    \A a \in Actors : call[a].pc \in {"begin", "write"} /\ Row(a) \notin Manual =>
      \A i \in LinkIds \ {call[a].own} : link[i].campaign # Row(a)

HouseInv == OnceInv /\ FoundOwned /\ RowIsFree /\ OneHousePerCampaign

\* Links change by a transaction of a call or by an approval, whose campaign is not
\* the pool's.
LEMMA LinkStep ==
  ASSUME TypeOK, [Next]_vars, ~ \E a \in Actors : Commit(a)
  PROVE  \/ link' = link
         \/ \E c \in Manual : \E k \in LinkIds :
               /\ link'[k].campaign = c
               /\ \A i \in LinkIds \ {k} : link'[i] = link[i]
<1>1. CASE SaveApproved
  <2> DEFINE r == approval.request
             c == approval.campaign
  <2>1. c \in Manual /\ c \in Campaigns /\ r \in Requests
        /\ approval.existing \in LinkIds \cup {None}
    BY <1>1, PoolAssumption DEF SaveApproved, TypeOK, ApprovalType
  <2>2. ASSUME SetLink(r, c, approval.existing)
        PROVE  \E k \in LinkIds : link'[k].campaign = c
                                /\ \A i \in LinkIds \ {k} : link'[i] = link[i]
    <3>1. PICK k \in LinkIds : link' = [link EXCEPT ![k] =
                           [user |-> UserOf[r], house |-> HouseOf[r], campaign |-> c]]
      BY <2>1, <2>2, LinkTyped
    <3> QED BY <3>1 DEF TypeOK
  <2> QED BY <1>1, <2>1, <2>2 DEF SaveApproved
<1> QED BY <1>1
        DEF Next, TryAssign, Overrun, CreateRequest, Reject, CheckApproval, CloseApproval,
            FindApproved, StartPass, NextPending, EndPass, Expire, Crash, Acquire, TurnAway,
            ReadRows, FindOwn, CheckRow, Begin, Collide, Fail, MarkRow, Release, vars

\* From the check of a row to its transaction the call keeps the row.
LEMMA RowStays ==
  ASSUME TypeOK, NEW a \in Actors, TryAssign(a), call'[a].pc \in {"begin", "write"}
  PROVE  /\ link' = link /\ Row(a)' = Row(a) /\ call'[a].own = call[a].own
         /\ \/ call[a].pc = "row" /\ ~Conflict(a)
            \/ call[a].pc = "begin"
<1>0. call \in [Actors -> CallType] BY DEF TypeOK
<1>1. CASE call'[a].pc = "begin"
  <2>1. CheckRow(a) /\ ~Conflict(a) BY <1>1, CallTarget
  <2>2. GoTo(a, "begin") /\ call[a].pc = "row" /\ link' = link BY <2>1 DEF CheckRow
  <2>3. call'[a].rows = call[a].rows /\ call'[a].own = call[a].own
    BY <2>2, <1>0 DEF GoTo, Call
  <2> QED BY <2>1, <2>2, <2>3 DEF Row
<1>2. CASE call'[a].pc = "write"
  <2>1. Begin(a) BY <1>2, CallTarget
  <2>2. PICK i : call' = [call EXCEPT ![a] = Call("write", call[a].request, call[a].rows,
                                                   call[a].own, i, call[a].late)]
    BY <2>1 DEF Begin
  <2>3. call'[a].rows = call[a].rows /\ call'[a].own = call[a].own
    BY <2>2, <1>0 DEF Call
  <2> QED BY <2>1, <2>3 DEF Begin, Row
<1> QED BY <1>1, <1>2

LEMMA FreeStep ==
  ASSUME SharedLock, HouseInv, [Next]_vars
  PROVE  RowIsFree'
<1> USE DEF HouseInv, OnceInv
<1> SUFFICES ASSUME overruns' = 0, NEW b \in Actors, call'[b].pc \in {"begin", "write"},
                    Row(b)' \notin Manual,
                    NEW i \in LinkIds, i # call'[b].own
             PROVE  link'[i].campaign # Row(b)'
  BY DEF RowIsFree
<1>1. overruns = 0 /\ ~ \E a \in Actors : Overrun(a) BY OverrunsGrow
<1>2. CASE TryAssign(b)
  <2>1. /\ link' = link /\ Row(b)' = Row(b) /\ call'[b].own = call[b].own
        /\ (call[b].pc = "row" /\ ~Conflict(b)) \/ call[b].pc = "begin"
    BY <1>2, RowStays
  <2> QED BY <1>1, <2>1 DEF RowIsFree, Conflict
<1>3. CASE ~TryAssign(b)
  <2>1. call'[b] = call[b]
    <3>1. call'[b].pc \in Searching BY DEF Searching
    <3>2. ~Acquire(b) BY <1>3 DEF TryAssign
    <3> QED BY <1>1, <1>3, <3>1, <3>2, SearchStep
  <2>2. Row(b)' = Row(b) BY <2>1 DEF Row
  <2>3. link[i].campaign # Row(b) BY <1>1, <2>1, <2>2 DEF RowIsFree
  <2>4. ~ \E a \in Actors : Commit(a)
    <3> SUFFICES ASSUME NEW a \in Actors, Commit(a) PROVE FALSE
      OBVIOUS
    <3>1. call[a].pc \in Inside /\ call[b].pc \in Inside BY <2>1 DEF Commit, Inside
    <3>2. a = b BY <1>1, <3>1, OneCallInside
    <3> QED BY <1>3, <3>2 DEF TryAssign
  <2> QED BY <2>2, <2>3, <2>4, LinkStep
<1> QED BY <1>2, <1>3

\* At the commit only the link that is written has the campaign.
LEMMA CommitAlone ==
  ASSUME HouseInv, NEW a \in Actors, Commit(a), overruns = 0, Row(a) \notin Manual,
         NEW i \in LinkIds, link[i].campaign = Row(a)
  PROVE  i = call[a].existing
<1> USE DEF HouseInv, OnceInv
<1>1. i = call[a].own BY DEF RowIsFree, Commit
<1>2. link[i].house = HouseOf[call[a].request]
  BY <1>1, PoolAssumption DEF FoundOwned, OfOwner, Commit
<1>3. ~Taken(Row(a), HouseOf[call[a].request], call[a].existing) BY DEF Commit
<1> QED BY <1>2, <1>3 DEF Taken

LEMMA OneHouseStep ==
  ASSUME SharedLock, HouseInv, [Next]_vars
  PROVE  OneHousePerCampaign'
<1> USE DEF HouseInv, OnceInv
<1> SUFFICES ASSUME overruns' = 0, NEW i \in LinkIds, NEW j \in LinkIds,
                    link'[i].campaign = link'[j].campaign,
                    link'[i].campaign \notin Manual \cup {None}
             PROVE  i = j
  BY DEF OneHousePerCampaign
<1>1. overruns = 0 BY OverrunsGrow
<1>2. ASSUME NEW a \in Actors, Commit(a)
      PROVE  i = j
  <2> DEFINE r == call[a].request
             c == Row(a)
  <2>1. c \in Campaigns /\ r \in Requests
    BY <1>2, RowAtHand, RequestOfCall DEF Commit, Trying
  <2>2. call[a].existing \in LinkIds \cup {None} BY DEF TypeOK, CallType
  <2>3. PICK k \in LinkIds :
          /\ link' = [link EXCEPT ![k] =
                        [user |-> UserOf[r], house |-> HouseOf[r], campaign |-> c]]
          /\ call[a].existing # None => k = call[a].existing
    BY <1>2, <2>1, <2>2, LinkTyped DEF Commit
  <2>4. link'[k].campaign = c /\ \A l \in LinkIds \ {k} : link'[l] = link[l]
    BY <2>3 DEF TypeOK
  <2>5. ASSUME NEW l \in LinkIds, link'[l].campaign = c, c \notin Manual
        PROVE  l = k
    <3>1. CASE link[l].campaign = c
      <4>1. l = call[a].existing BY <3>1, <2>5, <1>1, <1>2, CommitAlone
      <4>2. l # None BY PoolAssumption
      <4> QED BY <4>1, <4>2, <2>3
    <3>2. CASE link[l].campaign # c BY <3>2, <2>4, <2>5
    <3> QED BY <3>1, <3>2
  <2>6. CASE link'[i].campaign = c BY <2>5, <2>6
  <2>7. CASE link'[i].campaign # c
    <3>1. link'[i] = link[i] /\ link'[j] = link[j] BY <2>4, <2>7
    <3> QED BY <3>1, <1>1 DEF OneHousePerCampaign
  <2> QED BY <2>6, <2>7
<1>3. ASSUME ~ \E a \in Actors : Commit(a)
      PROVE  i = j
  <2>1. CASE link' = link BY <1>1, <2>1 DEF OneHousePerCampaign
  <2>2. ASSUME NEW c \in Manual, NEW k \in LinkIds, link'[k].campaign = c,
               \A l \in LinkIds \ {k} : link'[l] = link[l]
        PROVE  i = j
    <3>1. i # k /\ j # k BY <2>2
    <3> QED BY <1>1, <2>2, <3>1 DEF OneHousePerCampaign
  <2> QED BY <1>3, <2>1, <2>2, LinkStep
<1> QED BY <1>2, <1>3

\* The inductive invariant of the houses.
LEMMA HouseInvariant ==
  ASSUME SharedLock
  PROVE  Spec => []HouseInv
<1>1. Init /\ OnceInv => HouseInv
  <2>1. Init => FoundOwned
    BY DEF Init, FoundOwned, OfOwner, Idle, Call, NoApproval, Approval
  <2>2. Init => RowIsFree BY DEF Init, RowIsFree, Idle, Call
  <2>3. Init => OneHousePerCampaign BY DEF Init, OneHousePerCampaign, NoLink
  <2> QED BY <2>1, <2>2, <2>3 DEF HouseInv
<1>2. HouseInv /\ OnceInv' /\ [Next]_vars => HouseInv'
  BY FoundStep, FreeStep, OneHouseStep DEF HouseInv, OnceInv
<1> QED BY <1>1, <1>2, OnceInvariant, PTL DEF Spec

\* While no call outlives its lock, no campaign of the pool is an active link in two
\* houses of the family, or of two affiliates: the check across houses runs before the
\* transaction, but under the lock the houses share, and what admins give by hand is
\* not in the pool.
THEOREM CampaignInOneHouse ==
  ASSUME SharedLock
  PROVE  Spec => []OneHousePerCampaign
<1>1. HouseInv => OneHousePerCampaign BY DEF HouseInv
<1> QED BY <1>1, HouseInvariant, PTL

------------------------------------------------------------------------------
(* tryAssign is atomic *)

\* A step of the allocation, or none.
AStep == [Allocation!Next]_(Allocation!vars)

Pooled == Campaigns \ Manual

\* Writing a link moves its owner from the campaign it had to the one it gets.
LEMMA HoldersStep ==
  ASSUME TypeOK, OneHousePerCampaign, overruns = 0,
         NEW k \in LinkIds, NEW o \in LinkType, o.campaign \in Campaigns,
         link' = [link EXCEPT ![k] = o],
         link[k] = NoLink \/ (link[k].user = o.user /\ link[k].house = o.house),
         NEW d \in Pooled, d # o.campaign
  PROVE  HoldersOf(d)' = IF d = link[k].campaign
                           THEN HoldersOf(d) \ {[user |-> o.user, house |-> o.house]}
                           ELSE HoldersOf(d)
<1>1. /\ link'[k] = o /\ \A i \in LinkIds \ {k} : link'[i] = link[i]
      /\ d # None
  BY PoolAssumption DEF TypeOK, Pooled
<1>2. CASE d = link[k].campaign
  <2>1. link[k] # NoLink /\ link[k].user = o.user /\ link[k].house = o.house
    BY <1>1, <1>2 DEF NoLink
  <2>2. \A i \in LinkIds : link[i].campaign = d => i = k
    BY <1>1, <1>2 DEF OneHousePerCampaign, Pooled
  <2>3. HoldersOf(d) \subseteq {[user |-> o.user, house |-> o.house]}
    BY <2>1, <2>2 DEF HoldersOf
  <2>4. \A i \in LinkIds : link'[i].campaign # d
    BY <1>1, <2>2
  <2>5. HoldersOf(d)' = {}
    BY <2>4 DEF HoldersOf
  <2>. QED  BY <1>2, <2>3, <2>5
<1>3. CASE d # link[k].campaign
  <2>1. \A i \in LinkIds : /\ link'[i].campaign = d <=> link[i].campaign = d
                           /\ link[i].campaign = d => link'[i] = link[i]
    BY <1>1, <1>3
  <2>. QED  BY <1>3, <2>1 DEF HoldersOf
<1>. QED  BY <1>2, <1>3

\* The transaction is the assignment.
LEMMA GiveStep ==
  ASSUME HouseInv, overruns = 0, NEW a \in Actors, Commit(a)
  PROVE  AStep
<1>. USE DEF HouseInv, OnceInv
<1>0. /\ Row(a) \in Campaigns /\ call[a].request \in Requests
      /\ call[a].existing \in LinkIds \cup {None}
      /\ OfOwner(call[a].existing, call[a].request)
  BY RowAtHand, RequestOfCall DEF Commit, Trying, TypeOK, CallType, FoundOwned
<1>1. PICK r \in Requests, c \in Campaigns, e \in LinkIds \cup {None} :
        r = call[a].request /\ c = Row(a) /\ e = call[a].existing /\ OfOwner(e, r)
  BY <1>0
<1>. DEFINE o == [user |-> UserOf[r], house |-> HouseOf[r], campaign |-> c]
<1>2. PICK k \in LinkIds :
        /\ link' = [link EXCEPT ![k] = o]
        /\ e # None => k = e
        /\ e = None => link[k] = NoLink
  BY <1>1, LinkTyped DEF Commit
<1>3. /\ o \in LinkType /\ o.campaign = c /\ o.user = UserOf[r] /\ o.house = HouseOf[r]
  BY <1>1, PoolAssumption DEF LinkType
<1>4. link'[k] = o /\ \A i \in LinkIds \ {k} : link'[i] = link[i]
  BY <1>2 DEF TypeOK
<1>5. link[k] = NoLink \/ (link[k].user = o.user /\ link[k].house = o.house)
  BY <1>1, <1>2, <1>3 DEF OfOwner
<1>6. served[r] = {} /\ served' = [served EXCEPT ![r] = {c}]
  <2>1. served[r] = {}
    BY <1>1 DEF Commit, NotYetServed, Searching
  <2>2. served' = [served EXCEPT ![r] = served[r] \cup {c}]
    BY <1>1 DEF Commit
  <2>. QED  BY <2>1, <2>2
<1>7. OwnerOf[r] = [user |-> o.user, house |-> o.house]
  BY <1>1, <1>3 DEF OwnerOf
<1>. HIDE DEF o
<1>8. ASSUME c \in Pooled
      PROVE  HoldersOf(c) \subseteq {OwnerOf[r]} /\ HoldersOf(c)' = {OwnerOf[r]}
  <2>1. ASSUME NEW i \in LinkIds, link[i].campaign = c
        PROVE  i = k /\ link[i].user = o.user /\ link[i].house = o.house
    <3>1. i = e
      BY <1>1, <1>8, <2>1, CommitAlone DEF Pooled
    <3>2. i # None
      BY PoolAssumption
    <3>. QED  BY <1>1, <1>2, <1>3, <3>1, <3>2 DEF OfOwner
  <2>2. \A i \in LinkIds : link'[i].campaign = c <=> i = k
    BY <1>3, <1>4, <2>1
  <2>3. HoldersOf(c)' = {[user |-> o.user, house |-> o.house]}
    BY <1>4, <2>2 DEF HoldersOf
  <2>. QED  BY <1>7, <2>1, <2>3 DEF HoldersOf
<1>9. \A d \in Pooled : d # c =>
        HoldersOf(d)' = IF d = link[k].campaign THEN HoldersOf(d) \ {OwnerOf[r]}
                        ELSE HoldersOf(d)
  <2>. SUFFICES ASSUME NEW d \in Pooled, d # c
                PROVE  HoldersOf(d)' = IF d = link[k].campaign THEN HoldersOf(d) \ {OwnerOf[r]}
                                       ELSE HoldersOf(d)
    OBVIOUS
  <2>1. HoldersOf(d)' = IF d = link[k].campaign
                          THEN HoldersOf(d) \ {[user |-> o.user, house |-> o.house]}
                          ELSE HoldersOf(d)
    BY <1>2, <1>3, <1>5, HoldersStep
  <2>. QED  BY <1>7, <2>1
<1>10. PICK left \in Campaigns :
         left = IF link[k].campaign \in Campaigns THEN link[k].campaign ELSE c
  OBVIOUS
<1>11. \A d \in Pooled :
         HoldersOf(d)' = IF d = c THEN {OwnerOf[r]}
                         ELSE IF d = left THEN HoldersOf(d) \ {OwnerOf[r]}
                         ELSE HoldersOf(d)
  BY <1>8, <1>9, <1>10 DEF Pooled
<1>12. Allocation!Give(r, c, left)
  BY <1>6, <1>8, <1>11 DEF Allocation!Give, Pooled
<1>13. overruns' = 0
  BY DEF Commit, counters
<1>. QED  BY <1>1, <1>10, <1>12, <1>13 DEF AStep, Allocation!Next

\* An approval by hand replaces what its affiliate has in the house.
LEMMA ReplaceStep ==
  ASSUME HouseInv, overruns = 0, SaveApproved, link' # link
  PROVE  AStep
<1>. USE DEF HouseInv, OnceInv
<1>1. PICK r \in Requests, c \in Manual, e \in LinkIds \cup {None} :
        OfOwner(e, r) /\ SetLink(r, c, e)
  BY PoolAssumption DEF SaveApproved, TypeOK, ApprovalType, FoundOwned
<1>0. c \in Campaigns /\ served' = served /\ overruns' = 0
  BY PoolAssumption DEF SaveApproved, counters
<1>. DEFINE o == [user |-> UserOf[r], house |-> HouseOf[r], campaign |-> c]
<1>2. PICK k \in LinkIds :
        /\ link' = [link EXCEPT ![k] = o]
        /\ e # None => k = e
        /\ e = None => link[k] = NoLink
  BY <1>0, <1>1, LinkTyped
<1>3. /\ o \in LinkType /\ o.campaign = c /\ o.user = UserOf[r] /\ o.house = HouseOf[r]
  BY <1>0, <1>1, PoolAssumption DEF LinkType
<1>4. link[k] = NoLink \/ (link[k].user = o.user /\ link[k].house = o.house)
  BY <1>0, <1>1, <1>2, <1>3 DEF OfOwner
<1>. HIDE DEF o
<1>5. \A d \in Pooled :
        HoldersOf(d)' = IF d = link[k].campaign
                          THEN HoldersOf(d) \ {[user |-> o.user, house |-> o.house]}
                          ELSE HoldersOf(d)
  BY <1>0, <1>1, <1>2, <1>3, <1>4, HoldersStep DEF Pooled
<1>6. CASE link[k].campaign \in Pooled
  <2>0. PICK d \in Pooled : d = link[k].campaign
    BY <1>6
  <2>1. link[k] # NoLink
    BY <1>6, PoolAssumption DEF NoLink, Pooled
  <2>2. \A i \in LinkIds : link[i].campaign = d => i = k
    BY <2>0, PoolAssumption DEF OneHousePerCampaign, Pooled
  <2>3. HoldersOf(d) \subseteq {[user |-> o.user, house |-> o.house]}
    BY <1>4, <2>1, <2>2 DEF HoldersOf
  <2>4. \A x \in Pooled : HoldersOf(x)' = IF x = d THEN {} ELSE HoldersOf(x)
    BY <1>5, <2>0, <2>3
  <2>5. Allocation!Replace(d)
    BY <1>0, <1>1, <2>4 DEF Allocation!Replace, Pooled
  <2>. QED  BY <1>0, <1>1, <2>5 DEF AStep, Allocation!Next, Pooled
<1>7. CASE link[k].campaign \notin Pooled
  <2>1. \A x \in Pooled : HoldersOf(x)' = HoldersOf(x)
    BY <1>5, <1>7
  <2>. QED  BY <1>0, <1>1, <2>1 DEF AStep, Allocation!vars, Pooled
<1>. QED  BY <1>6, <1>7

\* The pools of a family implement LinkAllocation: until a call outlives its lock,
\* tryAssign takes effect at the commit of its transaction, whatever calls, schedulers,
\* restarts and admins do around it.
THEOREM ImplementsAllocation ==
  ASSUME SharedLock
  PROVE  Spec => AllocationSpec
<1>1. Init => Allocation!Init
  <2>. SUFFICES ASSUME Init PROVE Allocation!Init
    OBVIOUS
  <2>1. \A c \in Pooled : HoldersOf(c) = {}
    BY PoolAssumption DEF Init, HoldersOf, NoLink, Pooled
  <2>. QED  BY <2>1 DEF Init, Allocation!Init, Pooled
<1>2. HouseInv /\ HouseInv' /\ [Next]_vars => AStep
  <2>. SUFFICES ASSUME HouseInv, HouseInv', [Next]_vars PROVE AStep
    OBVIOUS
  <2>. USE DEF HouseInv, OnceInv
  <2>1. ASSUME link' = link, served' = served PROVE \A c \in Pooled : HoldersOf(c)' = HoldersOf(c)
    BY <2>1 DEF HoldersOf
  <2>2. CASE overruns # 0
    <3>1. overruns' # 0
      BY <2>2, OverrunsGrow
    <3>. QED  BY <2>2, <3>1 DEF AStep, Allocation!Next
  <2>3. ASSUME overruns = 0, NEW a \in Actors, Commit(a) PROVE AStep
    BY <2>3, GiveStep
  <2>4. ASSUME overruns = 0, SaveApproved, link' # link PROVE AStep
    BY <2>4, ReplaceStep
  <2>5. ASSUME link' = link, served' = served PROVE AStep
    <3>1. \A c \in Pooled : HoldersOf(c)' = HoldersOf(c)
      BY <2>1, <2>5
    <3>2. CASE overruns' = 0
      <4>1. overruns = 0
        BY <3>2, OverrunsGrow
      <4>. QED  BY <2>5, <3>1, <3>2, <4>1 DEF AStep, Allocation!vars, Pooled
    <3>3. CASE overruns' # 0 /\ overruns = 0
      <4>1. Allocation!Lapse
        BY <2>5, <3>1, <3>3 DEF Allocation!Lapse, Pooled
      <4>. QED  BY <4>1 DEF AStep, Allocation!Next
    <3>. QED  BY <2>2, <3>2, <3>3
  <2>6. \/ \E a \in Actors : Commit(a)
        \/ SaveApproved /\ link' # link
        \/ link' = link /\ served' = served
    BY DEF Next, TryAssign, Overrun, CreateRequest, Reject, CheckApproval, CloseApproval,
           FindApproved, SaveApproved, StartPass, NextPending, EndPass, Expire, Crash, Acquire,
           TurnAway, ReadRows, FindOwn, CheckRow, Begin, Collide, Fail, MarkRow, Release, vars
  <2>. QED  BY <2>2, <2>3, <2>4, <2>5, <2>6
<1>. QED  BY <1>1, <1>2, HouseInvariant, PTL DEF Spec, AllocationSpec, Allocation!Spec, AStep
==============================================================================
