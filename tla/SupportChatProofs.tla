-------------------------- MODULE SupportChatProofs --------------------------
(***************************************************************************)
(* Theorems about SupportChat, for any conversations, agents, capacity and *)
(* number of calls in flight.                                              *)
(***************************************************************************)
EXTENDS SupportChat, FiniteSetTheorems, TLAPS

\* A call as the invariant knows it.
ValidCall ==
  {call \in CallType :
     /\ call.pc \in {"check", "write", "pick", "assign", "save"} => call.conv # 0
     /\ call.pc \in {"check", "write"} => call.next # "none"
     /\ call.pc \in {"assign", "save"} => call.agent # None}

LEMMA CallsValid == TypeOK => calls \in [Calls -> ValidCall]
BY DEF TypeOK, ValidCall

\* A step of one call that leaves the rest of the state well typed.
LEMMA BecomeTyped ==
  ASSUME TypeOK, NEW k \in Calls, NEW call \in ValidCall, Become(k, call)
  PROVE  /\ calls' \in [Calls -> CallType]
         /\ \A j \in Calls :
              /\ calls'[j].pc \in {"check", "write", "pick", "assign", "save"} => calls'[j].conv # 0
              /\ calls'[j].pc \in {"check", "write"} => calls'[j].next # "none"
              /\ calls'[j].pc \in {"assign", "save"} => calls'[j].agent # None
<1>1. calls' \in [Calls -> ValidCall] BY CallsValid DEF Become
<1> QED BY <1>1 DEF ValidCall

LEMMA PlainCallsValid ==
  /\ Idle \in ValidCall
  /\ \A n \in Nat : Drain(n) \in ValidCall
  /\ \A ids \in SUBSET Conversations, pc \in {"close", "expire", "retire"} :
       Call(pc, 0, "none", ids, 0) \in ValidCall
  /\ \A c \in Conversations, n \in Nat : Call("pick", c, "none", {}, n) \in ValidCall
BY DEF Idle, Drain, Call, ValidCall, CallType, Conversations

\* What one call holds.
LEMMA CallFacts ==
  ASSUME TypeOK, NEW k \in Calls
  PROVE  /\ calls[k] \in ValidCall
         /\ calls[k].left \in Nat /\ calls[k].ids \in SUBSET Conversations
         /\ calls[k].pc \in {"check", "write", "pick", "assign", "save"} =>
              calls[k].conv \in Conversations
         /\ calls[k].pc \in {"check", "write"} =>
              calls[k].next \in {"WAITING", "OPEN", "WAITING_USER"}
         /\ calls[k].pc \in {"assign", "save"} => calls[k].agent \in Agents
BY CallsValid DEF ValidCall, CallType, Conversations
------------------------------------------------------------------------------
(* Types *)

LEMMA InitTyped == Init => TypeOK
<1>1. ASSUME Init PROVE calls \in [Calls -> ValidCall] BY <1>1, PlainCallsValid DEF Init
<1>2. ASSUME Init
      PROVE  /\ status \in [Conversations -> {"none", "WAITING", "OPEN", "WAITING_USER", "CLOSED"}]
             /\ agent \in [Conversations -> Agents \cup {None}]
             /\ availability \in [Agents -> {"none", "online", "offline"}]
             /\ hours \in BOOLEAN /\ crossed \subseteq Conversations
             /\ putBack \in BOOLEAN /\ crashes \in Nat
  BY <1>2 DEF Init
<1> QED BY <1>1, <1>2 DEF TypeOK, ValidCall

LEMMA StartTyped == ASSUME TypeOK, NEW k \in Calls, Start(k) PROVE TypeOK'
<1> USE PlainCallsValid, SupportAssumption
<1>1. CASE FindWaiting(k)
  BY <1>1, BecomeTyped DEF FindWaiting, Begin, Waiting, TypeOK
<1>2. CASE StartDrain(k)
  BY <1>2, BecomeTyped DEF StartDrain, Begin, TypeOK
<1>3. ASSUME NEW a \in Agents, GoOnline(k, a) PROVE TypeOK'
  BY <1>3, BecomeTyped DEF GoOnline, Begin, TypeOK
<1>4. ASSUME NEW a \in Agents, CloseAll(k, a) PROVE TypeOK'
  BY <1>4, BecomeTyped DEF CloseAll, Begin, Load, TypeOK
<1>5. ASSUME NEW ids \in SUBSET Conversations, FindTimedOut(k, ids) PROVE TypeOK'
  BY <1>5, BecomeTyped DEF FindTimedOut, Begin, TypeOK
<1>6. ASSUME NEW c \in Conversations, CreateConversation(k, c) PROVE TypeOK'
  BY <1>6, BecomeTyped DEF CreateConversation, Begin, TypeOK
<1>7. ASSUME NEW c \in Conversations, CloseConversation(k, c) PROVE TypeOK'
  BY <1>7, BecomeTyped DEF CloseConversation, Begin, TypeOK
<1>8. ASSUME NEW c \in Conversations, NEW role \in {"AGENT", "AFFILIATE"},
             ReadForMessage(k, c, role)
      PROVE TypeOK'
  <2> DEFINE next == StatusAfter(status[c], role)
  <2>1. next \in {"WAITING", "OPEN", "WAITING_USER"}
    BY <1>8 DEF ReadForMessage, StatusAfter, TypeOK
  <2>2. Call("check", c, next, {}, 0) \in ValidCall
    <3> HIDE DEF next
    <3> QED BY <2>1 DEF Call, ValidCall, CallType, Conversations
  <2> QED BY <1>8, <2>2, BecomeTyped DEF ReadForMessage, Begin, TypeOK
<1>9. ASSUME NEW c \in Conversations, NEW a \in Agents, AssignByHand(k, c, a) PROVE TypeOK'
  <2>1. ByHand(c, a) \in CallType /\ c # 0 /\ a # None
    BY DEF ByHand, CallType, Conversations
  <2>2. ByHand(c, a) \in ValidCall BY <2>1 DEF ByHand, ValidCall
  <2> QED BY <1>9, <2>2, BecomeTyped DEF AssignByHand, Begin, TypeOK
<1> QED BY <1>1, <1>2, <1>3, <1>4, <1>5, <1>6, <1>7, <1>8, <1>9 DEF Start

LEMMA ProceedTyped == ASSUME TypeOK, NEW k \in Calls, Proceed(k) PROVE TypeOK'
<1> USE PlainCallsValid, SupportAssumption
<1> DEFINE call == calls[k]
<1>0. /\ call \in ValidCall /\ call.left \in Nat /\ call.ids \in SUBSET Conversations
      /\ call.pc \in {"check", "write", "pick", "assign", "save"} => call.conv \in Conversations
      /\ call.pc \in {"check", "write"} => call.next \in {"WAITING", "OPEN", "WAITING_USER"}
      /\ call.pc \in {"assign", "save"} => call.agent \in Agents
  BY CallFacts
<1>1. CASE CheckMessage(k)
  <2>1. call.pc = "check" BY <1>1 DEF CheckMessage
  <2>2. [call EXCEPT !.pc = "write"] \in ValidCall
    BY <1>0, <2>1 DEF ValidCall, CallType
  <2> QED BY <1>1, <2>2, BecomeTyped DEF CheckMessage, TypeOK
<1>2. CASE WriteMessage(k)
  <2>1. call.pc = "write" BY <1>2 DEF WriteMessage
  <2>2. putBack' \in BOOLEAN BY <1>2 DEF WriteMessage
  <2> QED BY <1>2, <1>0, <2>1, <2>2, BecomeTyped DEF WriteMessage, TypeOK
<1>3. ASSUME NEW ids \in SUBSET Conversations, CloseThose(ids)
      PROVE  /\ status' \in [Conversations -> {"none", "WAITING", "OPEN", "WAITING_USER", "CLOSED"}]
             /\ crossed' \subseteq Conversations
  BY <1>3 DEF CloseThose, TypeOK
<1>4. CASE CommitClose(k)
  BY <1>4, <1>0, <1>3, BecomeTyped DEF CommitClose, TypeOK
<1>5. CASE Retire(k)
  <2>1. call.ids \cap Waiting \in SUBSET Conversations BY DEF Waiting
  <2> QED BY <1>5, <1>3, <2>1, BecomeTyped DEF Retire, TypeOK
<1>6. CASE NextWaiting(k)
  BY <1>6, <1>0, BecomeTyped DEF NextWaiting, Waiting, TypeOK
<1>7. CASE PickAgent(k)
  <2>1. call.pc = "pick" BY <1>7 DEF PickAgent
  <2>2. ASSUME NEW a \in Below
        PROVE  [call EXCEPT !.pc = "assign", !.agent = a] \in ValidCall
    <3>1. a \in Agents BY DEF Below
    <3> QED BY <1>0, <2>1, <3>1 DEF ValidCall, CallType
  <2> QED BY <1>7, <2>2, BecomeTyped DEF PickAgent, TypeOK
<1>8. CASE CheckAssign(k)
  <2>1. call.pc = "assign" BY <1>8 DEF CheckAssign
  <2>2. ASSUME NEW n \in Nat PROVE [call EXCEPT !.pc = "save", !.left = n] \in ValidCall
    BY <1>0, <2>1 DEF ValidCall, CallType
  <2>3. PICK taken \in BOOLEAN :
          Become(k, IF status[call.conv] # "CLOSED" /\ HasRoom(call.conv, call.agent)
                    THEN [call EXCEPT !.pc = "save",
                                      !.left = IF taken THEN DrainLimit + 1 ELSE @]
                    ELSE Idle)
    BY <1>8 DEF CheckAssign
  <2>4. (IF taken THEN DrainLimit + 1 ELSE call.left) \in Nat BY <1>0
  <2>5. [call EXCEPT !.pc = "save", !.left = IF taken THEN DrainLimit + 1 ELSE @] \in ValidCall
    <3> DEFINE n == IF taken THEN DrainLimit + 1 ELSE call.left
    <3>1. n \in Nat BY <2>4
    <3>2. [call EXCEPT !.pc = "save", !.left = n] \in ValidCall BY <2>2, <3>1
    <3> QED BY <3>2
  <2> QED BY <1>8, <2>3, <2>5, BecomeTyped DEF CheckAssign, TypeOK
<1>9. CASE CommitAssign(k)
  <2>1. call.pc = "save" BY <1>9 DEF CommitAssign
  <2>2. call.left # 0 => Drain(call.left - 1) \in ValidCall BY <1>0
  <2> QED BY <1>9, <1>0, <2>1, <2>2, BecomeTyped DEF CommitAssign, TypeOK
<1>10. CASE Fail(k) BY <1>10, BecomeTyped DEF Fail, TypeOK
<1>11. ASSUME NEW c \in Conversations, Expire(k, c) PROVE TypeOK'
  <2>1. call.pc = "expire" BY <1>11 DEF Expire
  <2>2. [call EXCEPT !.ids = @ \ {c}] \in ValidCall
    BY <1>0, <2>1 DEF ValidCall, CallType
  <2>3. {c} \cap {d \in Conversations : status[d] = "WAITING_USER"} \in SUBSET Conversations
    OBVIOUS
  <2> QED BY <1>11, <2>2, <2>3, <1>3, BecomeTyped DEF Expire, TypeOK
<1> QED BY <1>1, <1>2, <1>4, <1>5, <1>6, <1>7, <1>8, <1>9, <1>10, <1>11 DEF Proceed

LEMMA TypeStep == TypeOK /\ [Next]_vars => TypeOK'
<1> SUFFICES ASSUME TypeOK, [Next]_vars PROVE TypeOK' OBVIOUS
<1>1. CASE ChangeHours BY <1>1 DEF ChangeHours, TypeOK
<1>2. CASE Restart BY <1>2, PlainCallsValid DEF Restart, TypeOK, ValidCall
<1>3. ASSUME NEW a \in Agents, GoOffline(a) PROVE TypeOK' BY <1>3 DEF GoOffline, TypeOK
<1>4. ASSUME NEW k \in Calls, Start(k) PROVE TypeOK' BY <1>4, StartTyped
<1>5. ASSUME NEW k \in Calls, Proceed(k) PROVE TypeOK' BY <1>5, ProceedTyped
<1>6. CASE UNCHANGED vars BY <1>6 DEF vars, TypeOK
<1> QED BY <1>1, <1>2, <1>3, <1>4, <1>5, <1>6 DEF Next

\* The state and every call in flight keep their types.
THEOREM TypeCorrect == Spec => []TypeOK
<1> QED BY InitTyped, TypeStep, PTL DEF Spec
------------------------------------------------------------------------------
(* Agents, reopened conversations, load *)

\* A message about to set an active status found the conversation assigned.
AgentInv ==
  /\ ActiveHasAgent
  /\ \A k \in Calls : calls[k].pc \in {"check", "write"} /\ calls[k].next \in Active =>
       agent[calls[k].conv] # None

\* A conversation closed under a transaction that had checked it is known.
CrossInv == \A k \in Calls :
  calls[k].pc \in {"write", "save"} /\ status[calls[k].conv] = "CLOSED" =>
    calls[k].conv \in crossed

\* Calls past their check that will make a conversation of agent a active, and all the
\* conversations agent a has or will have from them.
Pending(a) == {k \in Calls :
  \/ calls[k].pc = "save" /\ calls[k].agent = a
  \/ calls[k].pc = "write" /\ calls[k].next \in Active /\ agent[calls[k].conv] = a}
Claims(a) == Load(a) \cup {calls[k].conv : k \in Pending(a)}

Unassigned ==
  /\ \A c \in Conversations : status[c] = "WAITING" => agent[c] = None
  /\ \A k \in Calls : calls[k].pc \in {"check", "write"} /\ calls[k].next \in Active =>
       status[calls[k].conv] \notin {"none", "WAITING"}

ClaimInv ==
  /\ \A c \in Conversations : status[c] = "none" => agent[c] = None
  /\ ~putBack => Unassigned
  /\ ~putBack => \A a \in Agents : Cardinality(Claims(a)) < Capacity + Cardinality(Calls)

Inv == AgentInv /\ CrossInv /\ ClaimInv

LEMMA ClaimsFinite ==
  ASSUME TypeOK, NEW a \in Agents
  PROVE  /\ IsFiniteSet(Load(a)) /\ IsFiniteSet(Claims(a))
         /\ Cardinality(Load(a)) \in Nat /\ Cardinality(Claims(a)) \in Nat
         /\ Cardinality(Load(a)) <= Cardinality(Claims(a))
         /\ Cardinality(Calls) \in Nat
<1>1. IsFiniteSet(Conversations) BY SupportAssumption, FS_Interval DEF Conversations
<1>2. Load(a) \subseteq Conversations BY DEF Load
<1>3. Claims(a) \subseteq Conversations
  <2>1. ASSUME NEW k \in Pending(a) PROVE calls[k].conv \in Conversations
    BY CallFacts DEF Pending
  <2> QED BY <1>2, <2>1 DEF Claims
<1>4. Load(a) \subseteq Claims(a) BY DEF Claims
<1> QED BY <1>1, <1>2, <1>3, <1>4, SupportAssumption, FS_Subset, FS_CardinalityType

\* Where no agent claims more than before, the bound stays.
LEMMA ClaimsShrink ==
  ASSUME TypeOK, TypeOK', ClaimInv, ~putBack,
         \A a \in Agents : Claims(a)' \subseteq Claims(a)
  PROVE  \A a \in Agents : Cardinality(Claims(a)') < Capacity + Cardinality(Calls)
<1> SUFFICES ASSUME NEW a \in Agents
             PROVE  Cardinality(Claims(a)') < Capacity + Cardinality(Calls)
  OBVIOUS
<1>1. Cardinality(Claims(a)) < Capacity + Cardinality(Calls) BY DEF ClaimInv
<1>2. Cardinality(Claims(a)') <= Cardinality(Claims(a)) BY ClaimsFinite, FS_Subset
<1>3. Cardinality(Claims(a)') \in Nat BY ClaimsFinite, FS_Subset, FS_CardinalityType
<1> QED BY <1>1, <1>2, <1>3, ClaimsFinite, SupportAssumption

\* A call in flight that is not about to write.
Quiet(call) == call.pc \notin {"check", "write", "save"}

LEMMA QuietCalls == Quiet(Idle) /\ \A n \in Nat : Quiet(Drain(n))
BY DEF Quiet, Idle, Drain, Call

\* Conversations are closed, or nothing but a quiet call changes.
LEMMA CloseStep ==
  ASSUME TypeOK, TypeOK', Inv, NEW ids \in SUBSET Conversations, CloseThose(ids),
         UNCHANGED <<agent, putBack>>,
         NEW k \in Calls, NEW call \in ValidCall, Quiet(call), Become(k, call)
  PROVE  Inv'
<1>1. calls' \in [Calls -> ValidCall] /\ calls'[k] = call
      /\ \A j \in Calls : j # k => calls'[j] = calls[j]
  BY CallsValid DEF Become
<1>2. status' = [c \in Conversations |-> IF c \in ids THEN "CLOSED" ELSE status[c]]
      /\ crossed' = (crossed \ ids) \cup {c \in ids : Checked(c)}
  BY DEF CloseThose
<1>3. \A j \in Calls : calls'[j].pc \in {"check", "write", "save"} =>
        calls'[j] = calls[j] /\ calls[j].conv \in Conversations
  BY <1>1, CallFacts DEF Quiet
<1>4. \A c \in Conversations : status'[c] \in {"none", "WAITING"} \cup Active =>
        status'[c] = status[c]
  BY <1>2 DEF Active
<1>5. AgentInv'
  <2>1. ActiveHasAgent' BY <1>4 DEF Inv, AgentInv, ActiveHasAgent
  <2>2. \A j \in Calls : calls'[j].pc \in {"check", "write"} /\ calls'[j].next \in Active =>
          agent'[calls'[j].conv] # None
    BY <1>3 DEF Inv, AgentInv
  <2> QED BY <2>1, <2>2 DEF AgentInv, Active
<1>6. CrossInv'
  <2> SUFFICES ASSUME NEW j \in Calls, calls'[j].pc \in {"write", "save"},
                      status'[calls'[j].conv] = "CLOSED"
               PROVE  calls'[j].conv \in crossed'
    BY DEF CrossInv
  <2>1. calls'[j] = calls[j] /\ calls[j].conv \in Conversations BY <1>3
  <2>2. Checked(calls[j].conv) BY <2>1 DEF Checked
  <2> QED BY <1>2, <2>1, <2>2 DEF Inv, CrossInv
<1>7. ClaimInv'
  <2>1. \A c \in Conversations : status'[c] = "none" => agent'[c] = None
    BY <1>4 DEF Inv, ClaimInv
  <2>2. ASSUME ~putBack PROVE Unassigned'
    <3>1. \A c \in Conversations : status'[c] = "WAITING" => agent'[c] = None
      BY <1>4, <2>2 DEF Inv, ClaimInv, Unassigned
    <3>2. \A j \in Calls : calls'[j].pc \in {"check", "write"} /\ calls'[j].next \in Active =>
            status'[calls'[j].conv] \notin {"none", "WAITING"}
      BY <1>3, <1>4, <2>2 DEF Inv, ClaimInv, Unassigned
    <3> QED BY <3>1, <3>2 DEF Unassigned, Active
  <2>3. \A a \in Agents : Claims(a)' \subseteq Claims(a)
    <3> SUFFICES ASSUME NEW a \in Agents PROVE Claims(a)' \subseteq Claims(a) OBVIOUS
    <3>1. Load(a)' \subseteq Load(a) BY <1>4 DEF Load, Active
    <3>2. ASSUME NEW j \in Calls,
                 \/ calls'[j].pc = "save" /\ calls'[j].agent = a
                 \/ calls'[j].pc = "write" /\ calls'[j].next \in Active
                    /\ agent'[calls'[j].conv] = a
          PROVE  j \in Pending(a) /\ calls'[j].conv = calls[j].conv
      BY <1>3, <3>2 DEF Pending
    <3> QED BY <3>1, <3>2 DEF Claims, Pending, Active
  <2>4. ~putBack => \A a \in Agents : Cardinality(Claims(a)') < Capacity + Cardinality(Calls)
    BY <2>3, ClaimsShrink DEF Inv
  <2> QED BY <2>1, <2>2, <2>4 DEF ClaimInv
<1> QED BY <1>5, <1>6, <1>7 DEF Inv

LEMMA QuietStep ==
  ASSUME TypeOK, TypeOK', Inv, UNCHANGED <<status, agent, crossed, putBack>>,
         NEW k \in Calls, NEW call \in ValidCall, Quiet(call), Become(k, call)
  PROVE  Inv'
<1>1. CloseThose({}) BY DEF CloseThose, TypeOK
<1> QED BY <1>1, CloseStep

LEMMA InitInv == Init => Inv
<1> SUFFICES ASSUME Init PROVE Inv OBVIOUS
<1>1. TypeOK BY InitTyped
<1>2. /\ \A c \in Conversations : status[c] = "none" /\ agent[c] = None
      /\ \A k \in Calls : calls[k].pc = "idle"
  BY DEF Init, Idle, Call
<1>3. AgentInv /\ CrossInv BY <1>2 DEF AgentInv, CrossInv, ActiveHasAgent, Active
<1>4. Unassigned BY <1>2 DEF Unassigned
<1>5. ASSUME NEW a \in Agents PROVE Cardinality(Claims(a)) < Capacity + Cardinality(Calls)
  <2>1. Claims(a) = {} BY <1>2 DEF Claims, Pending, Load, Active
  <2> QED BY <2>1, <1>1, ClaimsFinite, FS_EmptySet, SupportAssumption
<1> QED BY <1>2, <1>3, <1>4, <1>5 DEF Inv, ClaimInv

\* A message is read for, or checked once more, with a status computed from a status the
\* conversation has or had.
LEMMA MessageStep ==
  ASSUME TypeOK, TypeOK', Inv, UNCHANGED <<status, agent, crossed, putBack>>,
         NEW k \in Calls, NEW call \in ValidCall, Become(k, call),
         call.conv \in Conversations,
         call.pc = "check" \/ (call.pc = "write" /\ status[call.conv] # "CLOSED"),
         call.next \in Active => agent[call.conv] # None,
         call.next \in Active /\ ~putBack => status[call.conv] \notin {"none", "WAITING"}
  PROVE  Inv'
<1>1. calls' \in [Calls -> ValidCall] /\ calls'[k] = call
      /\ \A j \in Calls : j # k => calls'[j] = calls[j]
  BY CallsValid DEF Become
<1>2. AgentInv' BY <1>1 DEF Inv, AgentInv, ActiveHasAgent, Active
<1>3. CrossInv' BY <1>1 DEF Inv, CrossInv
<1>4. ClaimInv'
  <2>1. \A c \in Conversations : status'[c] = "none" => agent'[c] = None
    BY DEF Inv, ClaimInv
  <2>2. ASSUME ~putBack PROVE Unassigned'
    BY <1>1, <2>2 DEF Inv, ClaimInv, Unassigned, Active
  <2>3. ASSUME ~putBack, NEW a \in Agents PROVE Claims(a)' \subseteq Claims(a)
    <3>1. Load(a)' = Load(a) BY DEF Load, Active
    <3>2. ASSUME NEW j \in Calls, j # k,
                 \/ calls'[j].pc = "save" /\ calls'[j].agent = a
                 \/ calls'[j].pc = "write" /\ calls'[j].next \in Active
                    /\ agent'[calls'[j].conv] = a
          PROVE  j \in Pending(a) /\ calls'[j].conv = calls[j].conv
      BY <1>1, <3>2 DEF Pending
    <3>3. ASSUME call.pc = "write", call.next \in Active, agent[call.conv] = a
          PROVE  call.conv \in Load(a)
      <4>1. status[call.conv] \in {"none", "WAITING", "OPEN", "WAITING_USER", "CLOSED"}
        BY DEF TypeOK
      <4> QED BY <4>1, <3>3, <2>3 DEF Load, Active
    <3> QED BY <3>1, <3>2, <3>3, <1>1 DEF Claims, Pending, Active
  <2>4. ~putBack => \A a \in Agents : Cardinality(Claims(a)') < Capacity + Cardinality(Calls)
    BY <2>3, ClaimsShrink DEF Inv
  <2> QED BY <2>1, <2>2, <2>4 DEF ClaimInv
<1> QED BY <1>2, <1>3, <1>4 DEF Inv

LEMMA ReadStep ==
  ASSUME TypeOK, TypeOK', Inv, NEW k \in Calls, NEW c \in Conversations,
         NEW role \in {"AGENT", "AFFILIATE"}, ReadForMessage(k, c, role)
  PROVE  Inv'
<1> DEFINE next == StatusAfter(status[c], role)
<1>1. /\ status[c] \in {"WAITING", "OPEN", "WAITING_USER"}
      /\ next \in {"WAITING", "OPEN", "WAITING_USER"}
      /\ next \in Active => status[c] \in Active
  BY DEF ReadForMessage, StatusAfter, TypeOK, Active
<1>2. Become(k, Call("check", c, next, {}, 0)) BY DEF ReadForMessage, Begin
<1> HIDE DEF next
<1>3. Call("check", c, next, {}, 0) \in ValidCall
  BY <1>1 DEF Call, ValidCall, CallType, Conversations
<1>4. next \in Active => agent[c] # None BY <1>1 DEF Inv, AgentInv, ActiveHasAgent
<1>5. Call("check", c, next, {}, 0).pc = "check" /\ Call("check", c, next, {}, 0).conv = c
      /\ Call("check", c, next, {}, 0).next = next
  BY DEF Call
<1>6. UNCHANGED <<status, agent, crossed, putBack>> BY DEF ReadForMessage
<1> QED BY <1>1, <1>2, <1>3, <1>4, <1>5, <1>6, MessageStep DEF Active

LEMMA CheckMessageStep ==
  ASSUME TypeOK, TypeOK', Inv, NEW k \in Calls, CheckMessage(k)
  PROVE  Inv'
<1>1. UNCHANGED <<status, agent, crossed, putBack>> BY DEF CheckMessage
<1>2. CASE status[calls[k].conv] = "CLOSED"
  BY <1>1, <1>2, QuietStep, QuietCalls, PlainCallsValid DEF CheckMessage
<1>3. CASE status[calls[k].conv] # "CLOSED"
  <2> DEFINE call == [calls[k] EXCEPT !.pc = "write"]
  <2>1. calls[k].pc = "check" /\ Become(k, call) BY <1>3 DEF CheckMessage
  <2>2. call \in ValidCall BY <2>1, CallFacts DEF ValidCall, CallType
  <2>3. call.pc = "write" /\ call.conv = calls[k].conv /\ call.next = calls[k].next
    BY CallFacts DEF ValidCall, CallType
  <2>4. calls[k].conv \in Conversations BY <2>1, CallFacts
  <2>5. calls[k].next \in Active => agent[calls[k].conv] # None
    BY <2>1 DEF Inv, AgentInv
  <2>6. calls[k].next \in Active /\ ~putBack => status[calls[k].conv] \notin {"none", "WAITING"}
    BY <2>1 DEF Inv, ClaimInv, Unassigned
  <2> HIDE DEF call
  <2> QED BY <1>1, <1>3, <2>1, <2>2, <2>3, <2>4, <2>5, <2>6, MessageStep
<1> QED BY <1>2, <1>3

LEMMA WriteMessageStep ==
  ASSUME TypeOK, TypeOK', Inv, NEW k \in Calls, WriteMessage(k)
  PROVE  Inv'
<1> DEFINE c == calls[k].conv
           n == calls[k].next
<1>1. calls[k].pc = "write" /\ c \in Conversations /\ n \in {"WAITING", "OPEN", "WAITING_USER"}
  BY CallFacts DEF WriteMessage
<1>2. /\ status' = [status EXCEPT ![c] = n] /\ agent' = agent /\ crossed' = crossed \ {c}
      /\ putBack' = (putBack \/ (n = "WAITING" /\ agent[c] # None))
  BY DEF WriteMessage
<1>3. calls'[k] = Idle /\ \A j \in Calls : j # k => calls'[j] = calls[j]
  BY CallsValid DEF WriteMessage, Become
<1>4. Idle.pc = "idle" BY DEF Idle, Call
<1>5. \A j \in Calls : calls'[j].pc \in {"check", "write", "save"} =>
        calls'[j] = calls[j] /\ calls[j].conv \in Conversations
  BY <1>3, <1>4, CallFacts
<1>6. status'[c] = n /\ \A d \in Conversations : d # c => status'[d] = status[d]
  BY <1>1, <1>2 DEF TypeOK
<1>7. n \in Active => agent[c] # None BY <1>1 DEF Inv, AgentInv
<1> HIDE DEF n, c
<1>8. AgentInv'
  <2>1. ActiveHasAgent' BY <1>2, <1>6, <1>7 DEF Inv, AgentInv, ActiveHasAgent, Active
  <2>2. \A j \in Calls : calls'[j].pc \in {"check", "write"} /\ calls'[j].next \in Active =>
          agent'[calls'[j].conv] # None
    BY <1>2, <1>5 DEF Inv, AgentInv
  <2> QED BY <2>1, <2>2 DEF AgentInv, Active
<1>9. CrossInv'
  BY <1>1, <1>2, <1>5, <1>6 DEF Inv, CrossInv
<1>10. ClaimInv'
  <2>1. \A d \in Conversations : status'[d] = "none" => agent'[d] = None
    BY <1>1, <1>2, <1>6 DEF Inv, ClaimInv
  <2>2. ASSUME ~putBack' PROVE Unassigned'
    <3>1. \A d \in Conversations : status'[d] = "WAITING" => agent'[d] = None
      BY <1>2, <1>6, <2>2 DEF Inv, ClaimInv, Unassigned
    <3>2. ASSUME NEW j \in Calls, calls'[j].pc \in {"check", "write"}, calls'[j].next \in Active
          PROVE  status'[calls'[j].conv] \notin {"none", "WAITING"}
      <4>1. calls'[j] = calls[j] /\ calls[j].conv \in Conversations BY <1>5, <3>2
      <4>2. agent[calls[j].conv] # None BY <4>1, <3>2 DEF Inv, AgentInv
      <4>3. status[calls[j].conv] \notin {"none", "WAITING"}
        BY <4>1, <3>2, <1>2, <2>2 DEF Inv, ClaimInv, Unassigned
      <4> QED BY <4>1, <4>2, <4>3, <1>1, <1>2, <1>6, <2>2
    <3> QED BY <3>1, <3>2 DEF Unassigned, Active
  <2>3. \A a \in Agents : Claims(a)' \subseteq Claims(a)
    <3> SUFFICES ASSUME NEW a \in Agents PROVE Claims(a)' \subseteq Claims(a) OBVIOUS
    <3>1. ASSUME NEW d \in Load(a)' PROVE d \in Claims(a)
      <4>1. d \in Conversations /\ agent[d] = a /\ status'[d] \in Active
        BY <1>2 DEF Load, Active
      <4>2. CASE d # c BY <4>1, <4>2, <1>6 DEF Claims, Load, Active
      <4>3. CASE d = c
        <5>1. k \in Pending(a) BY <4>1, <4>3, <1>1, <1>6 DEF Pending, c, n
        <5> QED BY <5>1, <4>3 DEF Claims, c
      <4> QED BY <4>2, <4>3
    <3>2. ASSUME NEW j \in Calls,
                 \/ calls'[j].pc = "save" /\ calls'[j].agent = a
                 \/ calls'[j].pc = "write" /\ calls'[j].next \in Active
                    /\ agent'[calls'[j].conv] = a
          PROVE  j \in Pending(a) /\ calls'[j].conv = calls[j].conv
      BY <1>2, <1>5, <3>2 DEF Pending
    <3> QED BY <3>1, <3>2 DEF Claims, Pending, Active
  <2>4. ~putBack' => \A a \in Agents : Cardinality(Claims(a)') < Capacity + Cardinality(Calls)
    BY <1>2, <2>3, ClaimsShrink DEF Inv
  <2> QED BY <2>1, <2>2, <2>4 DEF ClaimInv
<1> QED BY <1>8, <1>9, <1>10 DEF Inv

\* As many conversations are claimed beyond the load as there are calls.
LEMMA ClaimsBounded ==
  ASSUME TypeOK, NEW a \in Agents
  PROVE  Cardinality(Claims(a)) <= Cardinality(Load(a)) + Cardinality(Calls)
<1> DEFINE S == Pending(a)
           T == {calls[k].conv : k \in S}
           f == [k \in S |-> calls[k].conv]
<1>1. f \in Surjection(S, T) BY DEF Surjection
<1>2. S \subseteq Calls BY DEF Pending
<1>3. IsFiniteSet(S) /\ Cardinality(S) <= Cardinality(Calls) /\ Cardinality(S) \in Nat
  BY <1>2, SupportAssumption, FS_Subset, FS_CardinalityType
<1>4. IsFiniteSet(T) /\ Cardinality(T) <= Cardinality(S) BY <1>1, <1>3, FS_Surjection
<1>5. Cardinality(Load(a) \cup T)
        = Cardinality(Load(a)) + Cardinality(T) - Cardinality(Load(a) \cap T)
  BY <1>4, ClaimsFinite, FS_Union
<1>6. Cardinality(T) \in Nat BY <1>4, FS_CardinalityType
<1>7. Cardinality(Load(a) \cap T) \in Nat
  BY ClaimsFinite, FS_Intersection, FS_CardinalityType
<1>8. Claims(a) = Load(a) \cup T BY DEF Claims
<1> HIDE DEF S, T, f
<1> QED BY <1>3, <1>4, <1>5, <1>6, <1>7, <1>8, ClaimsFinite

LEMMA ClaimsBoundedAlways ==
  TypeOK => \A a \in Agents :
    /\ Cardinality(Claims(a)) <= Cardinality(Load(a)) + Cardinality(Calls)
    /\ Cardinality(Claims(a)) \in Nat
BY ClaimsBounded, ClaimsFinite

LEMMA ClaimsBoundedNext ==
  TypeOK' => \A a \in Agents :
    /\ Cardinality(Claims(a)') <= Cardinality(Load(a)') + Cardinality(Calls)
    /\ Cardinality(Claims(a)') \in Nat
<1>1. (TypeOK => \A a \in Agents :
         /\ Cardinality(Claims(a)) <= Cardinality(Load(a)) + Cardinality(Calls)
         /\ Cardinality(Claims(a)) \in Nat)'
  BY ClaimsBoundedAlways, PTL
<1> QED BY <1>1

LEMMA CheckAssignStep ==
  ASSUME TypeOK, TypeOK', Inv, NEW k \in Calls, CheckAssign(k)
  PROVE  Inv'
<1> DEFINE c == calls[k].conv
           b == calls[k].agent
<1>1. UNCHANGED <<status, agent, crossed, putBack>> BY DEF CheckAssign
<1>2. CASE Become(k, Idle) BY <1>1, <1>2, QuietStep, QuietCalls, PlainCallsValid
<1>3. CASE ~Become(k, Idle)
  <2>0. calls[k].pc = "assign" /\ c \in Conversations /\ b \in Agents
    BY CallFacts DEF CheckAssign
  <2>1. status[c] # "CLOSED" /\ HasRoom(c, b) BY <1>3 DEF CheckAssign
  <2>2. PICK m : Become(k, [calls[k] EXCEPT !.pc = "save", !.left = m])
    BY <1>3 DEF CheckAssign
  <2>3. /\ calls'[k].pc = "save" /\ calls'[k].conv = c /\ calls'[k].agent = b
        /\ \A j \in Calls : j # k => calls'[j] = calls[j]
    BY <2>2, CallsValid DEF Become, ValidCall, CallType
  <2> HIDE DEF c, b
  <2>4. AgentInv' BY <1>1, <2>3 DEF Inv, AgentInv, ActiveHasAgent, Active
  <2>5. CrossInv' BY <1>1, <2>1, <2>3 DEF Inv, CrossInv
  <2>6. ClaimInv'
    <3>1. \A d \in Conversations : status'[d] = "none" => agent'[d] = None
      BY <1>1 DEF Inv, ClaimInv
    <3>2. ~putBack' => Unassigned'
      BY <1>1, <2>3 DEF Inv, ClaimInv, Unassigned, Active
    <3>3. ASSUME ~putBack, NEW a \in Agents
          PROVE  Cardinality(Claims(a)') < Capacity + Cardinality(Calls)
      <4>1. Load(a)' = Load(a) BY <1>1 DEF Load, Active
      <4>2. CASE a = b /\ agent[c] # b
        <5>1. Cardinality(Load(a)) < Capacity BY <2>1, <4>2 DEF HasRoom
        <5>2. Cardinality(Claims(a)') <= Cardinality(Load(a)') + Cardinality(Calls)
          BY ClaimsBoundedNext
        <5>3. Cardinality(Claims(a)') \in Nat BY ClaimsBoundedNext
        <5> QED BY <5>1, <5>2, <5>3, <4>1, ClaimsFinite, SupportAssumption
      <4>3. CASE a # b \/ agent[c] = b
        <5>1. ASSUME NEW j \in Calls, j # k,
                     \/ calls'[j].pc = "save" /\ calls'[j].agent = a
                     \/ calls'[j].pc = "write" /\ calls'[j].next \in Active
                        /\ agent'[calls'[j].conv] = a
              PROVE  j \in Pending(a) /\ calls'[j].conv = calls[j].conv
          BY <1>1, <2>3, <5>1 DEF Pending
        <5>2. ASSUME a = b PROVE c \in Load(a)
          <6>1. status[c] \in {"none", "WAITING", "OPEN", "WAITING_USER", "CLOSED"}
            BY <2>0 DEF TypeOK
          <6>2. agent[c] = a /\ a # None BY <4>3, <5>2, SupportAssumption
          <6> QED BY <6>1, <6>2, <2>0, <2>1, <3>3 DEF Inv, ClaimInv, Unassigned, Load, Active
        <5>3. Claims(a)' \subseteq Claims(a)
          BY <4>1, <5>1, <5>2, <2>3 DEF Claims, Pending, Active
        <5>4. Cardinality(Claims(a)') <= Cardinality(Claims(a))
          BY <5>3, ClaimsFinite, FS_Subset
        <5>5. Cardinality(Claims(a)') \in Nat
          BY <5>3, ClaimsFinite, FS_Subset, FS_CardinalityType
        <5>6. Cardinality(Claims(a)) < Capacity + Cardinality(Calls)
          BY <3>3 DEF Inv, ClaimInv
        <5> QED BY <5>4, <5>5, <5>6, ClaimsFinite, SupportAssumption
      <4> QED BY <4>2, <4>3
    <3> QED BY <1>1, <3>1, <3>2, <3>3 DEF ClaimInv
  <2> QED BY <2>4, <2>5, <2>6 DEF Inv
<1> QED BY <1>2, <1>3

LEMMA CommitAssignStep ==
  ASSUME TypeOK, TypeOK', Inv, NEW k \in Calls, CommitAssign(k)
  PROVE  Inv'
<1> DEFINE c == calls[k].conv
           b == calls[k].agent
<1>1. calls[k].pc = "save" /\ c \in Conversations /\ b \in Agents
  BY CallFacts DEF CommitAssign
<1>2. /\ status' = [status EXCEPT ![c] = "OPEN"] /\ agent' = [agent EXCEPT ![c] = b]
      /\ crossed' = crossed \ {c} /\ putBack' = putBack
  BY DEF CommitAssign
<1>3. Quiet(calls'[k]) /\ \A j \in Calls : j # k => calls'[j] = calls[j]
  <2>1. CASE Become(k, Idle) BY <2>1, CallsValid, QuietCalls DEF Become
  <2>2. CASE ~Become(k, Idle)
    <3>1. Become(k, Drain(calls[k].left - 1)) /\ calls[k].left # 0
      BY <2>2 DEF CommitAssign
    <3>2. calls[k].left - 1 \in Nat BY <3>1, CallFacts
    <3> QED BY <3>1, <3>2, CallsValid, QuietCalls DEF Become
  <2> QED BY <2>1, <2>2
<1>4. \A j \in Calls : calls'[j].pc \in {"check", "write", "save"} =>
        calls'[j] = calls[j] /\ calls[j].conv \in Conversations
  BY <1>3, CallFacts DEF Quiet
<1>5. /\ status'[c] = "OPEN" /\ agent'[c] = b /\ b # None
      /\ \A d \in Conversations : d # c => status'[d] = status[d] /\ agent'[d] = agent[d]
  BY <1>1, <1>2, SupportAssumption DEF TypeOK
<1>6. k \in Pending(b) BY <1>1 DEF Pending
<1>7. c \in Claims(b) BY <1>6 DEF Claims
<1> HIDE DEF b, c
<1>8. AgentInv'
  <2>1. ActiveHasAgent' BY <1>5 DEF Inv, AgentInv, ActiveHasAgent, Active
  <2>2. \A j \in Calls : calls'[j].pc \in {"check", "write"} /\ calls'[j].next \in Active =>
          agent'[calls'[j].conv] # None
    BY <1>4, <1>5 DEF Inv, AgentInv
  <2> QED BY <2>1, <2>2 DEF AgentInv, Active
<1>9. CrossInv'
  BY <1>1, <1>2, <1>4, <1>5 DEF Inv, CrossInv
<1>10. ClaimInv'
  <2>1. \A d \in Conversations : status'[d] = "none" => agent'[d] = None
    BY <1>1, <1>5 DEF Inv, ClaimInv
  <2>2. ASSUME ~putBack PROVE Unassigned'
    <3>1. \A d \in Conversations : status'[d] = "WAITING" => agent'[d] = None
      BY <1>5, <2>2 DEF Inv, ClaimInv, Unassigned
    <3>2. ASSUME NEW j \in Calls, calls'[j].pc \in {"check", "write"}, calls'[j].next \in Active
          PROVE  status'[calls'[j].conv] \notin {"none", "WAITING"}
      BY <1>4, <1>5, <2>2, <3>2 DEF Inv, ClaimInv, Unassigned
    <3> QED BY <3>1, <3>2 DEF Unassigned, Active
  <2>3. \A a \in Agents : Claims(a)' \subseteq Claims(a)
    <3> SUFFICES ASSUME NEW a \in Agents PROVE Claims(a)' \subseteq Claims(a) OBVIOUS
    <3>1. ASSUME NEW d \in Load(a)' PROVE d \in Claims(a)
      <4>1. d \in Conversations /\ agent'[d] = a /\ status'[d] \in Active
        BY DEF Load, Active
      <4>2. CASE d # c BY <4>1, <4>2, <1>5 DEF Claims, Load, Active
      <4>3. CASE d = c BY <4>1, <4>3, <1>5, <1>7
      <4> QED BY <4>2, <4>3
    <3>2. ASSUME NEW j \in Calls,
                 \/ calls'[j].pc = "save" /\ calls'[j].agent = a
                 \/ calls'[j].pc = "write" /\ calls'[j].next \in Active
                    /\ agent'[calls'[j].conv] = a
          PROVE  calls'[j].conv \in Claims(a)
      <4>1. calls'[j] = calls[j] /\ calls[j].conv \in Conversations BY <1>4, <3>2
      <4>2. CASE j \in Pending(a) BY <4>1, <4>2 DEF Claims
      <4>3. CASE j \notin Pending(a)
        <5>1. calls[j].conv = c /\ a = b BY <4>1, <4>3, <3>2, <1>5 DEF Pending
        <5> QED BY <5>1, <4>1, <1>7
      <4> QED BY <4>2, <4>3
    <3> QED BY <3>1, <3>2 DEF Claims, Pending, Active
  <2>4. ~putBack => \A a \in Agents : Cardinality(Claims(a)') < Capacity + Cardinality(Calls)
    BY <2>3, ClaimsShrink DEF Inv
  <2> QED BY <1>2, <2>1, <2>2, <2>4 DEF ClaimInv
<1> QED BY <1>8, <1>9, <1>10 DEF Inv

LEMMA CreateStep ==
  ASSUME TypeOK, TypeOK', Inv, NEW k \in Calls, NEW c \in Conversations, CreateConversation(k, c)
  PROVE  Inv'
<1>1. /\ status[c] = "none" /\ status' = [status EXCEPT ![c] = "WAITING"]
      /\ UNCHANGED <<agent, crossed, putBack>>
  BY DEF CreateConversation
<1>2. calls'[k].pc = "pick" /\ \A j \in Calls : j # k => calls'[j] = calls[j]
  BY CallsValid DEF CreateConversation, Begin, Become, Call
<1>3. \A j \in Calls : calls'[j].pc \in {"check", "write", "save"} =>
        calls'[j] = calls[j] /\ calls[j].conv \in Conversations
  BY <1>2, CallFacts
<1>4. status'[c] = "WAITING" /\ \A d \in Conversations : d # c => status'[d] = status[d]
  BY <1>1 DEF TypeOK
<1>5. agent[c] = None BY <1>1 DEF Inv, ClaimInv
<1>6. AgentInv'
  <2>1. ActiveHasAgent' BY <1>1, <1>4 DEF Inv, AgentInv, ActiveHasAgent, Active
  <2>2. \A j \in Calls : calls'[j].pc \in {"check", "write"} /\ calls'[j].next \in Active =>
          agent'[calls'[j].conv] # None
    BY <1>1, <1>3 DEF Inv, AgentInv
  <2> QED BY <2>1, <2>2 DEF AgentInv, Active
<1>7. CrossInv' BY <1>1, <1>3, <1>4 DEF Inv, CrossInv
<1>8. ClaimInv'
  <2>1. \A d \in Conversations : status'[d] = "none" => agent'[d] = None
    BY <1>1, <1>4 DEF Inv, ClaimInv
  <2>2. ASSUME ~putBack PROVE Unassigned'
    <3>1. \A d \in Conversations : status'[d] = "WAITING" => agent'[d] = None
      BY <1>1, <1>4, <1>5, <2>2 DEF Inv, ClaimInv, Unassigned
    <3>2. ASSUME NEW j \in Calls, calls'[j].pc \in {"check", "write"}, calls'[j].next \in Active
          PROVE  status'[calls'[j].conv] \notin {"none", "WAITING"}
      <4>1. calls'[j] = calls[j] /\ calls[j].conv \in Conversations BY <1>3, <3>2
      <4>2. agent[calls[j].conv] # None BY <4>1, <3>2 DEF Inv, AgentInv
      <4>3. status[calls[j].conv] \notin {"none", "WAITING"}
        BY <4>1, <3>2, <2>2 DEF Inv, ClaimInv, Unassigned
      <4> QED BY <4>1, <4>2, <4>3, <1>4, <1>5
    <3> QED BY <3>1, <3>2 DEF Unassigned, Active
  <2>3. \A a \in Agents : Claims(a)' \subseteq Claims(a)
    <3> SUFFICES ASSUME NEW a \in Agents PROVE Claims(a)' \subseteq Claims(a) OBVIOUS
    <3>1. Load(a)' \subseteq Load(a) BY <1>1, <1>4 DEF Load, Active
    <3>2. ASSUME NEW j \in Calls,
                 \/ calls'[j].pc = "save" /\ calls'[j].agent = a
                 \/ calls'[j].pc = "write" /\ calls'[j].next \in Active
                    /\ agent'[calls'[j].conv] = a
          PROVE  j \in Pending(a) /\ calls'[j].conv = calls[j].conv
      BY <1>1, <1>3, <3>2 DEF Pending
    <3> QED BY <3>1, <3>2 DEF Claims, Pending, Active
  <2>4. ~putBack => \A a \in Agents : Cardinality(Claims(a)') < Capacity + Cardinality(Calls)
    BY <2>3, ClaimsShrink DEF Inv
  <2> QED BY <1>1, <2>1, <2>2, <2>4 DEF ClaimInv
<1> QED BY <1>6, <1>7, <1>8 DEF Inv

LEMMA RestartStep == ASSUME TypeOK, TypeOK', Inv, Restart PROVE Inv'
<1>1. UNCHANGED <<status, agent, crossed, putBack>> BY DEF Restart
<1>2. \A j \in Calls : calls'[j].pc = "idle" BY DEF Restart, Idle, Call
<1>3. AgentInv' BY <1>1, <1>2 DEF Inv, AgentInv, ActiveHasAgent, Active
<1>4. CrossInv' BY <1>2 DEF CrossInv
<1>5. \A a \in Agents : Claims(a)' \subseteq Claims(a)
  BY <1>1, <1>2 DEF Claims, Pending, Load, Active
<1>6. ~putBack => \A a \in Agents : Cardinality(Claims(a)') < Capacity + Cardinality(Calls)
  BY <1>5, ClaimsShrink DEF Inv
<1>7. ~putBack => Unassigned' BY <1>1, <1>2 DEF Inv, ClaimInv, Unassigned, Active
<1> QED BY <1>1, <1>3, <1>4, <1>6, <1>7 DEF Inv, ClaimInv

LEMMA InvStep == TypeOK /\ TypeOK' /\ Inv /\ [Next]_vars => Inv'
<1> SUFFICES ASSUME TypeOK, TypeOK', Inv, [Next]_vars PROVE Inv' OBVIOUS
<1> USE PlainCallsValid, QuietCalls, SupportAssumption
<1>0. \A call \in ValidCall :
        call.pc \in {"close", "expire", "retire", "pick", "assign"} => Quiet(call)
  BY DEF Quiet
<1>1. ASSUME NEW k \in Calls, Start(k) PROVE Inv'
  <2>1. CASE FindWaiting(k)
    <3>1. Call("retire", 0, "none", Waiting, 0) \in ValidCall BY DEF Waiting
    <3> QED BY <2>1, <3>1, QuietStep DEF FindWaiting, Begin, Quiet, Call
  <2>2. CASE StartDrain(k) BY <2>2, QuietStep DEF StartDrain, Begin
  <2>3. ASSUME NEW a \in Agents, GoOnline(k, a) PROVE Inv'
    BY <2>3, QuietStep DEF GoOnline, Begin
  <2>4. ASSUME NEW a \in Agents, CloseAll(k, a) PROVE Inv'
    <3>1. Call("close", 0, "none", Load(a), 0) \in ValidCall BY DEF Load
    <3> QED BY <2>4, <3>1, QuietStep DEF CloseAll, Begin, Quiet, Call
  <2>5. ASSUME NEW ids \in SUBSET Conversations, FindTimedOut(k, ids) PROVE Inv'
    BY <2>5, QuietStep DEF FindTimedOut, Begin, Quiet, Call
  <2>6. ASSUME NEW c \in Conversations, CreateConversation(k, c) PROVE Inv' BY <2>6, CreateStep
  <2>7. ASSUME NEW c \in Conversations, CloseConversation(k, c) PROVE Inv'
    BY <2>7, QuietStep DEF CloseConversation, Begin, Quiet, Call
  <2>8. ASSUME NEW c \in Conversations, NEW role \in {"AGENT", "AFFILIATE"},
               ReadForMessage(k, c, role)
        PROVE Inv'
    BY <2>8, ReadStep
  <2>9. ASSUME NEW c \in Conversations, NEW a \in Agents, AssignByHand(k, c, a) PROVE Inv'
    <3>1. ByHand(c, a) \in CallType /\ c # 0 /\ a # None
      BY DEF ByHand, CallType, Conversations
    <3>2. ByHand(c, a) \in ValidCall /\ Quiet(ByHand(c, a)) BY <3>1 DEF ByHand, ValidCall, Quiet
    <3> QED BY <2>9, <3>2, QuietStep DEF AssignByHand, Begin
  <2> QED BY <1>1, <2>1, <2>2, <2>3, <2>4, <2>5, <2>6, <2>7, <2>8, <2>9 DEF Start
<1>2. ASSUME NEW k \in Calls, Proceed(k) PROVE Inv'
  <2>0. calls[k] \in ValidCall /\ calls[k].ids \in SUBSET Conversations /\ calls[k].left \in Nat
        /\ (calls[k].pc = "pick" => calls[k].conv \in Conversations)
    BY CallFacts
  <2>1. CASE CheckMessage(k) BY <2>1, CheckMessageStep
  <2>2. CASE WriteMessage(k) BY <2>2, WriteMessageStep
  <2>3. CASE CommitClose(k) BY <2>0, <2>3, CloseStep DEF CommitClose
  <2>4. CASE Retire(k)
    <3>1. calls[k].ids \cap Waiting \in SUBSET Conversations BY DEF Waiting
    <3> QED BY <2>4, <3>1, CloseStep DEF Retire
  <2>5. CASE NextWaiting(k)
    <3>1. CASE Become(k, Idle) BY <2>5, <3>1, QuietStep DEF NextWaiting
    <3>2. CASE ~Become(k, Idle)
      <4>1. PICK c \in Conversations : Become(k, Call("pick", c, "none", {}, calls[k].left))
        BY <2>5, <3>2 DEF NextWaiting, Waiting
      <4>2. Call("pick", c, "none", {}, calls[k].left) \in ValidCall BY <2>0
      <4>3. Quiet(Call("pick", c, "none", {}, calls[k].left)) BY DEF Quiet, Call
      <4> QED BY <2>5, <4>1, <4>2, <4>3, QuietStep DEF NextWaiting
    <3> QED BY <3>1, <3>2
  <2>6. CASE PickAgent(k)
    <3>1. CASE Become(k, Idle) BY <2>6, <3>1, QuietStep DEF PickAgent
    <3>2. CASE ~Become(k, Idle)
      <4>1. PICK a \in Agents : Become(k, [calls[k] EXCEPT !.pc = "assign", !.agent = a])
        BY <2>6, <3>2 DEF PickAgent, Below
      <4>2. calls[k].pc = "pick" BY <2>6 DEF PickAgent
      <4> DEFINE call == [calls[k] EXCEPT !.pc = "assign", !.agent = a]
      <4>3. call \in ValidCall /\ call.pc = "assign"
        BY <2>0, <4>2 DEF ValidCall, CallType
      <4> HIDE DEF call
      <4>4. Quiet(call) BY <4>3 DEF Quiet
      <4>5. Become(k, call) BY <4>1 DEF call
      <4>6. UNCHANGED <<status, agent, crossed, putBack>> BY <2>6 DEF PickAgent
      <4> QED BY <4>3, <4>4, <4>5, <4>6, QuietStep
    <3> QED BY <3>1, <3>2
  <2>7. CASE CheckAssign(k) BY <2>7, CheckAssignStep
  <2>8. CASE CommitAssign(k) BY <2>8, CommitAssignStep
  <2>9. CASE Fail(k) BY <2>9, QuietStep DEF Fail
  <2>10. ASSUME NEW c \in Conversations, Expire(k, c) PROVE Inv'
    <3> DEFINE call == [calls[k] EXCEPT !.ids = @ \ {c}]
               ids == {c} \cap {d \in Conversations : status[d] = "WAITING_USER"}
    <3>1. calls[k].pc = "expire" BY <2>10 DEF Expire
    <3>2. call \in ValidCall /\ call.pc = "expire"
      BY <2>0, <3>1 DEF ValidCall, CallType
    <3>3. Become(k, Idle) \/ Become(k, call) BY <2>10 DEF Expire
    <3>4. CloseThose(ids) /\ ids \in SUBSET Conversations /\ UNCHANGED <<agent, putBack>>
      BY <2>10 DEF Expire
    <3> HIDE DEF call, ids
    <3>5. Quiet(call) BY <3>2 DEF Quiet
    <3> QED BY <3>2, <3>3, <3>4, <3>5, CloseStep
  <2> QED BY <1>2, <2>1, <2>2, <2>3, <2>4, <2>5, <2>6, <2>7, <2>8, <2>9, <2>10 DEF Proceed
<1>3. CASE Restart BY <1>3, RestartStep
<1>4. ASSUME UNCHANGED <<status, agent, calls, crossed, putBack>> PROVE Inv'
  <2>1. AgentInv' BY <1>4 DEF Inv, AgentInv, ActiveHasAgent, Active
  <2>2. CrossInv' BY <1>4 DEF Inv, CrossInv
  <2>3. ClaimInv' BY <1>4 DEF Inv, ClaimInv, Unassigned, Claims, Pending, Load, Active
  <2> QED BY <2>1, <2>2, <2>3 DEF Inv
<1> QED BY <1>1, <1>2, <1>3, <1>4 DEF Next, ChangeHours, GoOffline, vars

LEMMA Invariant == Spec => [](TypeOK /\ Inv)
<1> QED BY InitTyped, InitInv, TypeStep, InvStep, PTL DEF Spec

\* A conversation in progress has an agent, under any interleaving of messages,
\* assignments and closings.
THEOREM ActiveAssigned == Spec => []ActiveHasAgent
<1>1. Inv => ActiveHasAgent BY DEF Inv, AgentInv
<1> QED BY <1>1, Invariant, PTL

\* The capacity is passed by fewer conversations than there are calls in flight.
THEOREM LoadIsBounded == Spec => []LoadBounded
<1>1. TypeOK /\ Inv => LoadBounded
  <2> SUFFICES ASSUME TypeOK, Inv, ~putBack, NEW a \in Agents
               PROVE  Cardinality(Load(a)) < Capacity + Cardinality(Calls)
    BY DEF LoadBounded
  <2>1. Cardinality(Claims(a)) < Capacity + Cardinality(Calls) BY DEF Inv, ClaimInv
  <2> QED BY <2>1, ClaimsFinite, SupportAssumption
<1> QED BY <1>1, Invariant, PTL

\* Only a transaction that a close came in between reopens a conversation.
THEOREM ReopenedLate == Spec => ReopenedMidTransaction
<1>1. TypeOK /\ Inv /\ [Next]_vars =>
        [\A c \in Conversations :
           status[c] = "CLOSED" /\ status'[c] # "CLOSED" => c \in crossed]_vars
  <2> SUFFICES ASSUME TypeOK, Inv, Next, NEW c \in Conversations, status[c] = "CLOSED",
                      status'[c] # "CLOSED"
               PROVE  c \in crossed
    OBVIOUS
  <2>1. ASSUME NEW ids, CloseThose(ids) PROVE FALSE BY <2>1 DEF CloseThose
  <2>2. status' # status OBVIOUS
  <2>3. ASSUME NEW k \in Calls, WriteMessage(k) PROVE c \in crossed
    BY <2>3, CallFacts DEF WriteMessage, TypeOK, Inv, CrossInv
  <2>4. ASSUME NEW k \in Calls, CommitAssign(k) PROVE c \in crossed
    BY <2>4, CallFacts DEF CommitAssign, TypeOK, Inv, CrossInv
  <2>5. ASSUME NEW k \in Calls, NEW d \in Conversations, CreateConversation(k, d)
        PROVE  c \in crossed
    BY <2>5 DEF CreateConversation, TypeOK
  <2>6. ASSUME NEW k \in Calls, Start(k) PROVE c \in crossed
    BY <2>6, <2>2, <2>5 DEF Start, FindWaiting, StartDrain, GoOnline, CloseAll, FindTimedOut,
       CloseConversation, ReadForMessage, AssignByHand
  <2>7. ASSUME NEW k \in Calls, Proceed(k) PROVE c \in crossed
    BY <2>7, <2>1, <2>2, <2>3, <2>4 DEF Proceed, CheckMessage, CommitClose, Retire, NextWaiting,
       PickAgent, CheckAssign, Fail, Expire
  <2> QED BY <2>2, <2>6, <2>7 DEF Next, ChangeHours, Restart, GoOffline
<1> QED BY <1>1, Invariant, PTL DEF Spec, ReopenedMidTransaction
==============================================================================
