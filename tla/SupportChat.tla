----------------------------- MODULE SupportChat -----------------------------
(***************************************************************************)
(* The support chat: conversations that wait for an agent, are assigned to *)
(* the least busy one, answered, and closed by either side, by a timeout   *)
(* or at the end of a shift. Every operation reads, computes and writes by *)
(* id in a READ COMMITTED transaction, so calls interleave in between.     *)
(***************************************************************************)
EXTENDS Integers, FiniteSets

CONSTANTS
  MaxConversations,   \* bound on the conversations opened; numbered by createdAt
  Agents,
  Capacity,           \* SUPPORT_AGENT_MAX_CAPACITY
  DrainLimit,         \* iterations of assignWaitingConversations
  HoursMet,           \* values of isWithinBusinessHours
  Calls,              \* requests, socket events and cron ticks in flight
  None,
  MaxCrashes          \* bound on restarts of the API process

ASSUME SupportAssumption ==
  /\ MaxConversations \in Nat /\ Capacity \in Nat \ {0} /\ DrainLimit \in Nat
  /\ IsFiniteSet(Agents) /\ IsFiniteSet(Calls)
  /\ None \notin Agents
  /\ HoursMet \subseteq BOOLEAN
  /\ MaxCrashes \in Nat

Conversations == 1..MaxConversations
Active == {"OPEN", "WAITING_USER"}

VARIABLES
  status,        \* of each conversation; "none" before createConversation
  agent,         \* agentId
  availability,  \* SupportAgentAvailability: "none" without a row, "online", "offline"
  hours,         \* isWithinBusinessHours
  calls,         \* calls in flight
  crossed,       \* conversations closed while a transaction had them checked (history)
  putBack,       \* a message put an assigned conversation back to WAITING (history)
  crashes

vars == <<status, agent, availability, hours, calls, crossed, putBack, crashes>>

\* pc, the conversation and agent in hand, drainWaiting, the status a message will leave,
\* the conversations found to close, what is left of a drain.
Call(pc, c, next, ids, left) ==
  [pc |-> pc, conv |-> c, agent |-> None, byHand |-> FALSE, next |-> next, ids |-> ids,
   left |-> left]
Idle == Call("idle", 0, "none", {}, 0)
Drain(left) == Call("drain", 0, "none", {}, left)
ByHand(c, a) ==
  [pc |-> "assign", conv |-> c, agent |-> a, byHand |-> TRUE, next |-> "none", ids |-> {},
   left |-> 0]

CallType ==
  [pc : {"idle", "check", "write", "close", "expire", "retire", "drain", "pick", "assign", "save"},
   conv : Conversations \cup {0}, agent : Agents \cup {None}, byHand : BOOLEAN,
   next : {"none", "WAITING", "OPEN", "WAITING_USER"},
   ids : SUBSET Conversations, left : Nat]

TypeOK ==
  /\ status \in [Conversations -> {"none", "WAITING", "OPEN", "WAITING_USER", "CLOSED"}]
  /\ agent \in [Conversations -> Agents \cup {None}]
  /\ availability \in [Agents -> {"none", "online", "offline"}]
  /\ hours \in BOOLEAN
  /\ calls \in [Calls -> CallType]
  /\ \A k \in Calls :
       /\ calls[k].pc \in {"check", "write", "pick", "assign", "save"} => calls[k].conv # 0
       /\ calls[k].pc \in {"check", "write"} => calls[k].next # "none"
       /\ calls[k].pc \in {"assign", "save"} => calls[k].agent # None
  /\ crossed \subseteq Conversations
  /\ putBack \in BOOLEAN
  /\ crashes \in Nat

Init ==
  /\ status = [c \in Conversations |-> "none"]
  /\ agent = [c \in Conversations |-> None]
  /\ availability = [a \in Agents |-> "none"]
  /\ hours = TRUE
  /\ calls = [k \in Calls |-> Idle]
  /\ crossed = {} /\ putBack = FALSE /\ crashes = 0

Waiting == {c \in Conversations : status[c] = "WAITING"}
Load(a) == {c \in Conversations : agent[c] = a /\ status[c] \in Active}

Become(k, call) == calls' = [calls EXCEPT ![k] = call]
Begin(k, call) == calls[k].pc = "idle" /\ Become(k, call)
------------------------------------------------------------------------------
(* createConversation, setAgentAvailability, business hours *)

CreateConversation(k, c) ==
  /\ hours
  /\ status[c] = "none" /\ \A d \in 1..(c - 1) : status[d] # "none"
  /\ status' = [status EXCEPT ![c] = "WAITING"]
  /\ Begin(k, Call("pick", c, "none", {}, 0))
  /\ UNCHANGED <<agent, availability, hours, crossed, putBack, crashes>>

\* An agent's socket connects, or the agent says so; the queue is drained.
GoOnline(k, a) ==
  /\ availability' = [availability EXCEPT ![a] = "online"]
  /\ Begin(k, IF hours THEN Drain(DrainLimit) ELSE Idle)
  /\ UNCHANGED <<status, agent, hours, crossed, putBack, crashes>>

GoOffline(a) ==
  /\ availability[a] # "offline"
  /\ availability' = [availability EXCEPT ![a] = "offline"]
  /\ UNCHANGED <<status, agent, hours, calls, crossed, putBack, crashes>>

\* Shifts, weekends and the administrator's bypass.
ChangeHours ==
  /\ hours' = ~hours /\ hours' \in HoursMet
  /\ UNCHANGED <<status, agent, availability, calls, crossed, putBack, crashes>>
------------------------------------------------------------------------------
(* sendMessage *)

\* resolveStatusAfterMessage.
StatusAfter(current, role) ==
  CASE role = "AGENT" /\ current = "OPEN" -> "WAITING_USER"
    [] role = "AFFILIATE" /\ current = "WAITING_USER" -> "OPEN"
    [] OTHER -> current

ReadForMessage(k, c, role) ==
  /\ status[c] \notin {"none", "CLOSED"}
  /\ role = "AFFILIATE" => hours
  /\ Begin(k, Call("check", c, StatusAfter(status[c], role), {}, 0))
  /\ UNCHANGED <<status, agent, availability, hours, crossed, putBack, crashes>>

\* The status is read once more inside the transaction.
\* (Mutant: without it.)
CheckMessageNot(k) ==
  /\ calls[k].pc = "check"
  /\ Become(k, [calls[k] EXCEPT !.pc = "write"])
  /\ UNCHANGED <<status, agent, availability, hours, crossed, putBack, crashes>>
CheckMessage(k) ==
  /\ calls[k].pc = "check"
  /\ Become(k, IF status[calls[k].conv] = "CLOSED" THEN Idle
               ELSE [calls[k] EXCEPT !.pc = "write"])
  /\ UNCHANGED <<status, agent, availability, hours, crossed, putBack, crashes>>

\* The message and, by id alone, the status computed before.
WriteMessage(k) ==
  LET c == calls[k].conv IN
  /\ calls[k].pc = "write"
  /\ status' = [status EXCEPT ![c] = calls[k].next]
  /\ putBack' = (putBack \/ (calls[k].next = "WAITING" /\ agent[c] # None))
  /\ crossed' = crossed \ {c}
  /\ Become(k, Idle)
  /\ UNCHANGED <<agent, availability, hours, crashes>>
------------------------------------------------------------------------------
(* closeConversation, closeAllConversations, the crons that close *)

Checked(c) == \E k \in Calls : calls[k].pc \in {"write", "save"} /\ calls[k].conv = c

\* The conversations of ids are CLOSED.
CloseThose(ids) ==
  /\ status' = [c \in Conversations |-> IF c \in ids THEN "CLOSED" ELSE status[c]]
  /\ crossed' = (crossed \ ids) \cup {c \in ids : Checked(c)}

CloseConversation(k, c) ==
  /\ status[c] \notin {"none", "CLOSED"}
  /\ Begin(k, Call("close", 0, "none", {c}, 0))
  /\ UNCHANGED <<status, agent, availability, hours, crossed, putBack, crashes>>

CloseAll(k, a) ==
  /\ Load(a) # {}
  /\ Begin(k, Call("close", 0, "none", Load(a), 0))
  /\ UNCHANGED <<status, agent, availability, hours, crossed, putBack, crashes>>

\* By id, whatever the status by now; then the queue is drained.
\* (Mutant: the agent is taken off as well.)
CommitCloseAndFree(k) ==
  /\ calls[k].pc = "close"
  /\ CloseThose(calls[k].ids)
  /\ agent' = [c \in Conversations |-> IF c \in calls[k].ids THEN None ELSE agent[c]]
  /\ Become(k, IF hours THEN Drain(DrainLimit) ELSE Idle)
  /\ UNCHANGED <<availability, hours, putBack, crashes>>
CommitClose(k) ==
  /\ calls[k].pc = "close"
  /\ CloseThose(calls[k].ids)
  /\ Become(k, IF hours THEN Drain(DrainLimit) ELSE Idle)
  /\ UNCHANGED <<agent, availability, hours, putBack, crashes>>

\* autoCloseTimedOutConversations: those without an answer for an hour.
FindTimedOut(k, ids) ==
  /\ hours /\ ids # {}
  /\ ids \subseteq {c \in Conversations : status[c] = "WAITING_USER" /\ agent[c] # None}
  /\ Begin(k, Call("expire", 0, "none", ids, 0))
  /\ UNCHANGED <<status, agent, availability, hours, crossed, putBack, crashes>>

\* A transaction for each, where the status still is WAITING_USER.
Expire(k, c) ==
  /\ calls[k].pc = "expire" /\ c \in calls[k].ids
  /\ CloseThose({c} \cap {d \in Conversations : status[d] = "WAITING_USER"})
  /\ Become(k, IF calls[k].ids = {c} THEN Idle ELSE [calls[k] EXCEPT !.ids = @ \ {c}])
  /\ UNCHANGED <<agent, availability, hours, putBack, crashes>>

\* autoCloseWaitingConversations, at the end of a shift.
\* (Mutant: those that never had an agent.)
FindUnassigned(k) ==
  /\ Waiting # {}
  /\ Begin(k, Call("retire", 0, "none", {c \in Waiting : agent[c] = None}, 0))
  /\ UNCHANGED <<status, agent, availability, hours, crossed, putBack, crashes>>
FindWaiting(k) ==
  /\ Waiting # {}
  /\ Begin(k, Call("retire", 0, "none", Waiting, 0))
  /\ UNCHANGED <<status, agent, availability, hours, crossed, putBack, crashes>>

Retire(k) ==
  /\ calls[k].pc = "retire"
  /\ CloseThose(calls[k].ids \cap Waiting)
  /\ Become(k, Idle)
  /\ UNCHANGED <<agent, availability, hours, putBack, crashes>>
------------------------------------------------------------------------------
(* assignWaitingConversations, assignNextAvailableAgent, assignConversation *)

\* drainQueue, at the start of a shift.
StartDrain(k) ==
  /\ hours
  /\ Begin(k, Drain(DrainLimit))
  /\ UNCHANGED <<status, agent, availability, hours, crossed, putBack, crashes>>

\* The conversation that waits longest.
NextWaiting(k) ==
  /\ calls[k].pc = "drain"
  /\ IF calls[k].left = 0 \/ Waiting = {}
       THEN Become(k, Idle)
       ELSE \E c \in Waiting :
            /\ \A d \in Waiting : c <= d
            /\ Become(k, Call("pick", c, "none", {}, calls[k].left))
  /\ UNCHANGED <<status, agent, availability, hours, crossed, putBack, crashes>>

Below == {a \in Agents : availability[a] = "online" /\ Cardinality(Load(a)) < Capacity}

\* Of the agents online below their capacity one with the fewest conversations.
PickAgent(k) ==
  /\ calls[k].pc = "pick"
  /\ IF Below = {}
       THEN Become(k, Idle)
       ELSE \E a \in Below :
            /\ \A b \in Below : Cardinality(Load(a)) <= Cardinality(Load(b))
            /\ Become(k, [calls[k] EXCEPT !.pc = "assign", !.agent = a])
  /\ UNCHANGED <<status, agent, availability, hours, crossed, putBack, crashes>>

\* An administrator assigns.
AssignByHand(k, c, a) ==
  /\ status[c] # "none"
  /\ Begin(k, ByHand(c, a))
  /\ UNCHANGED <<status, agent, availability, hours, crossed, putBack, crashes>>

\* Only a new agent's conversations are counted.
\* (Mutant: one over.)
HasRoomOneOver(c, a) == agent[c] = a \/ Cardinality(Load(a)) <= Capacity
HasRoom(c, a) == agent[c] = a \/ Cardinality(Load(a)) < Capacity

\* What the transaction reads; ConversationClosedException or the limit end the call and
\* any drain it belongs to. A conversation taken from another agent by hand starts one.
CheckAssign(k) ==
  LET c == calls[k].conv
      taken == calls[k].byHand /\ agent[c] \notin {None, calls[k].agent}
  IN
  /\ calls[k].pc = "assign"
  /\ Become(k, IF status[c] # "CLOSED" /\ HasRoom(c, calls[k].agent)
                 THEN [calls[k] EXCEPT !.pc = "save",
                                       !.left = IF taken THEN DrainLimit + 1 ELSE @]
                 ELSE Idle)
  /\ UNCHANGED <<status, agent, availability, hours, crossed, putBack, crashes>>

\* By id; the upsert makes an agent without a row available.
\* (Mutant: drainWaiting is not looked at.)
CommitAssignDraining(k) ==
  LET c == calls[k].conv  a == calls[k].agent IN
  /\ calls[k].pc = "save"
  /\ status' = [status EXCEPT ![c] = "OPEN"]
  /\ agent' = [agent EXCEPT ![c] = a]
  /\ availability' = [availability EXCEPT ![a] = IF @ = "none" THEN "online" ELSE @]
  /\ Become(k, IF calls[k].byHand /\ ~hours
                 THEN Idle ELSE Drain(calls[k].left - 1))
  /\ crossed' = crossed \ {c}
  /\ UNCHANGED <<hours, putBack, crashes>>
CommitAssign(k) ==
  LET c == calls[k].conv  a == calls[k].agent IN
  /\ calls[k].pc = "save"
  /\ status' = [status EXCEPT ![c] = "OPEN"]
  /\ agent' = [agent EXCEPT ![c] = a]
  /\ availability' = [availability EXCEPT ![a] = IF @ = "none" THEN "online" ELSE @]
  /\ Become(k, IF calls[k].left = 0 \/ (calls[k].byHand /\ ~hours)
                 THEN Idle ELSE Drain(calls[k].left - 1))
  /\ crossed' = crossed \ {c}
  /\ UNCHANGED <<hours, putBack, crashes>>
------------------------------------------------------------------------------

\* A deadlock that Postgres breaks, or any other exception.
Fail(k) ==
  /\ calls[k].pc # "idle"
  /\ Become(k, Idle)
  /\ UNCHANGED <<status, agent, availability, hours, crossed, putBack, crashes>>

\* onModuleInit takes every agent offline, unless it fails itself.
Restart ==
  /\ crashes < MaxCrashes /\ crashes' = crashes + 1
  /\ calls' = [k \in Calls |-> Idle]
  /\ \/ availability' = [a \in Agents |-> IF availability[a] = "online" THEN "offline"
                                          ELSE availability[a]]
     \/ UNCHANGED availability
  /\ UNCHANGED <<status, agent, hours, crossed, putBack>>

Start(k) ==
  \/ FindWaiting(k) \/ StartDrain(k)
  \/ \E a \in Agents : GoOnline(k, a) \/ CloseAll(k, a)
  \/ \E ids \in SUBSET Conversations : FindTimedOut(k, ids)
  \/ \E c \in Conversations :
       \/ CreateConversation(k, c) \/ CloseConversation(k, c)
       \/ \E role \in {"AGENT", "AFFILIATE"} : ReadForMessage(k, c, role)
       \/ \E a \in Agents : AssignByHand(k, c, a)

Proceed(k) ==
  \/ CheckMessage(k) \/ WriteMessage(k) \/ CommitClose(k) \/ Retire(k) \/ NextWaiting(k)
  \/ PickAgent(k) \/ CheckAssign(k) \/ CommitAssign(k) \/ Fail(k)
  \/ \E c \in Conversations : Expire(k, c)

Next ==
  \/ ChangeHours \/ Restart
  \/ \E a \in Agents : GoOffline(a)
  \/ \E k \in Calls : Start(k) \/ Proceed(k)

Spec == Init /\ [][Next]_vars

\* A call runs to its end, or fails; the cron of the shift's end ticks on and its query
\* succeeds at some time (strong: other calls take its place in the model meanwhile).
FairSpec ==
  /\ Spec
  /\ \A k \in Calls : WF_vars(Proceed(k)) /\ SF_vars(FindWaiting(k)) /\ SF_vars(Retire(k))
------------------------------------------------------------------------------
(* Properties *)

\* A conversation in progress has an agent, although messages write a status they
\* computed before others assigned or closed the conversation.
ActiveHasAgent == \A c \in Conversations : status[c] \in Active => agent[c] # None

\* Counting and assigning are not one step, so calls at once pass the capacity together,
\* but never by more than the calls there are: not even when messages reopen what was
\* closed, unless one puts an assigned conversation back to WAITING.
LoadBounded == ~putBack =>
  \A a \in Agents : Cardinality(Load(a)) < Capacity + Cardinality(Calls)

\* A closed conversation comes back only if it was closed in the middle of a transaction
\* that had checked it: the second read of sendMessage keeps every other message out.
ReopenedMidTransaction == [][\A c \in Conversations :
  status[c] = "CLOSED" /\ status'[c] # "CLOSED" => c \in crossed]_vars

\* A conversation that waits is assigned or closed in the end, even one that a late
\* message put back to WAITING.
WaitingEnds == \A c \in Conversations : status[c] = "WAITING" ~> status[c] # "WAITING"
==============================================================================
