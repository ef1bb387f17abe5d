-------------------------- MODULE LinkPoolAssignment --------------------------
(***************************************************************************)
(* How affiliate links leave the pools: tryAssign of betano and            *)
(* betano-diario, called for a new request, by an admin's reprocessing and *)
(* by the scheduler of each house; the Redis lock with its TTL, the        *)
(* Postgres transaction and the Google Sheet it cannot include; and the    *)
(* admin who decides the same requests by hand, without the lock.          *)
(* A family is the houses whose campaigns must not clash.                  *)
(***************************************************************************)
EXTENDS Naturals

CONSTANTS
  Requests,            \* LinkRequests
  Users, Houses,       \* who asks, and for which house of the family
  UserOf, HouseOf,     \* of each request
  Direct,              \* requests for houses with autoAssignEnabled
  Sheets, SheetOf,     \* the sheet each house takes its rows from
  Locks, LockOf,       \* the lock key each house assigns under
  Campaigns,           \* rows of the sheets
  Manual,              \* campaigns admins give by hand
  LinkIds,             \* room for AffiliateLink rows
  None,                \* nobody, nothing
  MaxApprovals,        \* bound on approvals by hand
  MaxOverruns,         \* bound on calls that outlive their lock
  MaxCrashes           \* bound on restarts of the API process

ASSUME PoolAssumption ==
  /\ UserOf \in [Requests -> Users] /\ HouseOf \in [Requests -> Houses]
  /\ SheetOf \in [Houses -> Sheets] /\ LockOf \in [Houses -> Locks]
  /\ Manual \subseteq Campaigns
  /\ Direct \subseteq Requests /\ Requests \cap Houses = {}
  /\ None \notin Requests \cup Houses \cup LinkIds \cup Campaigns \cup Users
  /\ MaxApprovals \in Nat /\ MaxOverruns \in Nat /\ MaxCrashes \in Nat

VARIABLES
  status,      \* LinkRequest.status ("none": not created yet)
  link,        \* AffiliateLink rows: user, house, campaign
  marked,      \* rows of each sheet that carry a status and an e-mail
  lock,        \* holder of each Redis lock
  call,        \* tryAssign calls in flight: one per request, one per scheduler
  batch,       \* the running backfillPending of each house
  approval,    \* the running LinkRequestService.update of an admin
  served,      \* campaigns given for each request (history)
  approvals,   \* approvals begun
  overruns,    \* calls that lost their lock to its TTL (history)
  crashes

counters == <<approvals, overruns, crashes>>
vars == <<status, link, marked, lock, call, batch, approval, served, counters>>

\* A direct call is named by its request, a scheduler's by its house.
Actors == Direct \cup Houses

NoLink == [user |-> None, house |-> None, campaign |-> None]

\* pc, request, rows left to try, existingLink, the link found in the transaction,
\* and whether the lock ran out meanwhile.
Call(pc, r, rows, own, existing, late) ==
  [pc |-> pc, request |-> r, rows |-> rows, own |-> own, existing |-> existing, late |-> late]
Idle == Call("idle", None, {}, None, None, FALSE)

\* pending requests to come, rows free in memory, rows to mark in the sheet.
Batch(on, todo, rows, marks) == [on |-> on, todo |-> todo, rows |-> rows, marks |-> marks]
NoBatch == Batch(FALSE, {}, {}, {})

Approval(pc, r, c, i) == [pc |-> pc, request |-> r, campaign |-> c, existing |-> i]
NoApproval == Approval("idle", None, None, None)

Inside == {"read", "own", "row", "begin", "write", "mark", "release"}
Trying == {"own", "row", "begin", "write", "mark"}

HouseOfCall(a) == HouseOf[call[a].request]
LockOfCall(a) == LockOf[HouseOfCall(a)]
SheetOfCall(a) == SheetOf[HouseOfCall(a)]

LinkIdsOf(r) == {i \in LinkIds : link[i].user = UserOf[r] /\ link[i].house = HouseOf[r]}

\* Any of the rows a findFirst without an order may return.
Found(S) == IF S = {} THEN {None} ELSE S

FreeRows(s) == Campaigns \ marked[s]

LinkType == [user : Users \cup {None}, house : Houses \cup {None},
             campaign : Campaigns \cup {None}]
CallType == [pc : {"idle", "lock"} \cup Inside, request : Requests \cup {None},
             rows : SUBSET Campaigns, own : LinkIds \cup {None},
             existing : LinkIds \cup {None}, late : BOOLEAN]
BatchType == [on : BOOLEAN, todo : SUBSET Requests,
              rows : SUBSET Campaigns, marks : SUBSET Campaigns]
ApprovalType == [pc : {"idle", "close", "sync", "save"}, request : Requests \cup {None},
                 campaign : Manual \cup {None}, existing : LinkIds \cup {None}]

\* A call has a request, and while it tries rows it has a row left.
CallOK(c) ==
  /\ c \in CallType
  /\ c.pc # "idle" => c.request # None
  /\ c.pc \in Trying => c.rows # {}

TypeOK ==
  /\ status \in [Requests -> {"none", "PENDING", "FULFILLED", "REJECTED"}]
  /\ link \in [LinkIds -> LinkType]
  /\ marked \in [Sheets -> SUBSET Campaigns]
  /\ lock \in [Locks -> Actors \cup {None}]
  /\ call \in [Actors -> CallType] /\ \A a \in Actors : CallOK(call[a])
  /\ batch \in [Houses -> BatchType]
  /\ approval \in ApprovalType
  /\ approval.pc # "idle" => approval.request # None /\ approval.campaign # None
  /\ served \in [Requests -> SUBSET Campaigns]
  /\ approvals \in Nat /\ overruns \in Nat /\ crashes \in Nat

Init ==
  /\ status = [r \in Requests |-> "none"]
  /\ link = [i \in LinkIds |-> NoLink]
  /\ marked = [s \in Sheets |-> {}]
  /\ lock = [k \in Locks |-> None]
  /\ call = [a \in Actors |-> Idle]
  /\ batch = [h \in Houses |-> NoBatch]
  /\ approval = NoApproval
  /\ served = [r \in Requests |-> {}]
  /\ approvals = 0 /\ overruns = 0 /\ crashes = 0

------------------------------------------------------------------------------
(* Who calls tryAssign *)

\* create, which assigns at once if the house's rule says so (resolveAndAssign).
CreateRequest(r) ==
  /\ status[r] = "none"
  /\ status' = [status EXCEPT ![r] = "PENDING"]
  /\ call' = IF r \in Direct
               THEN [call EXCEPT ![r] = Call("lock", r, {}, None, None, FALSE)]
               ELSE call
  /\ UNCHANGED <<link, marked, lock, batch, approval, served, counters>>

PendingOf(h) == {r \in Requests : HouseOf[r] = h /\ status[r] = "PENDING"}

\* backfillPending: its pending requests and, once per cycle, the rows of the sheet.
\* (The scheduler's own lock: one pass per house.)
StartPass(h) ==
  /\ ~batch[h].on /\ PendingOf(h) # {}
  /\ batch' = [batch EXCEPT ![h] = Batch(TRUE, PendingOf(h), FreeRows(SheetOf[h]), {})]
  /\ UNCHANGED <<status, link, marked, lock, call, approval, served, counters>>

NextPending(h) == \E r \in batch[h].todo :
  /\ call[h] = Idle
  /\ call' = [call EXCEPT ![h] = Call("lock", r, {}, None, None, FALSE)]
  /\ batch' = [batch EXCEPT ![h] = Batch(@.on, @.todo \ {r}, @.rows, @.marks)]
  /\ UNCHANGED <<status, link, marked, lock, approval, served, counters>>

\* markRowsUsed at the end of the cycle; a failure is only logged.
EndPass(h) == \E written \in BOOLEAN :
  /\ batch[h].on /\ batch[h].todo = {} /\ call[h] = Idle
  /\ marked' = [marked EXCEPT ![SheetOf[h]] =
                  IF written THEN @ \cup batch[h].marks ELSE @]
  /\ batch' = [batch EXCEPT ![h] = NoBatch]
  /\ UNCHANGED <<status, link, lock, call, approval, served, counters>>

------------------------------------------------------------------------------
(* tryAssign *)

GoTo(a, pc) ==
  call' = [call EXCEPT ![a] = Call(pc, @.request, @.rows, @.own, @.existing, @.late)]
Finish(a) == call' = [call EXCEPT ![a] = Call("release", @.request, {}, None, None, @.late)]

\* SET NX EX 30, then the status of the request.
\* (Mutant: the status is not read again under the lock.)
AcquireUnchecked(a) ==
  /\ call[a].pc = "lock"
  /\ lock[LockOfCall(a)] = None
  /\ lock' = [lock EXCEPT ![LockOfCall(a)] = a]
  /\ GoTo(a, "read")
  /\ UNCHANGED <<status, link, marked, batch, approval, served, counters>>
Acquire(a) ==
  /\ call[a].pc = "lock" /\ status[call[a].request] = "PENDING"
  /\ lock[LockOfCall(a)] = None
  /\ lock' = [lock EXCEPT ![LockOfCall(a)] = a]
  /\ GoTo(a, "read")
  /\ UNCHANGED <<status, link, marked, batch, approval, served, counters>>

\* lock_busy after the last retry or without Redis; already_fulfilled under a lock
\* that is released at once.
TurnAway(a) ==
  /\ call[a].pc = "lock"
  /\ call' = [call EXCEPT ![a] = Idle]
  /\ UNCHANGED <<status, link, marked, lock, batch, approval, served, counters>>

\* The rows of the sheet, or those the scheduler read at the start of its cycle;
\* pool_empty ends the cycle.
ReadRows(a) ==
  LET rows == IF a \in Houses THEN batch[a].rows ELSE FreeRows(SheetOfCall(a)) IN
  /\ call[a].pc = "read"
  /\ IF rows = {}
       THEN /\ Finish(a)
            /\ batch' = IF a \in Houses
                          THEN [batch EXCEPT ![a] = Batch(@.on, {}, @.rows, @.marks)]
                          ELSE batch
       ELSE /\ call' = [call EXCEPT ![a] = Call("own", @.request, rows, None, None, @.late)]
            /\ UNCHANGED batch
  /\ UNCHANGED <<status, link, marked, lock, approval, served, counters>>

\* existingLink.
FindOwn(a) ==
  /\ call[a].pc = "own"
  /\ \E i \in Found(LinkIdsOf(call[a].request)) :
       call' = [call EXCEPT ![a] = Call("row", @.request, @.rows, i, None, @.late)]
  /\ UNCHANGED <<status, link, marked, lock, batch, approval, served, counters>>

\* The next row; which one comes first makes no difference.
Row(a) == CHOOSE c \in call[a].rows : TRUE

\* The row is skipped; after the last one, all_conflicts.
\* (Mutant: the loop has no end.)
NextRowForever(a) ==
  call' = [call EXCEPT ![a] =
             Call("row", @.request, @.rows \ {Row(a)}, @.own, None, @.late)]
NextRow(a) ==
  IF call[a].rows = {Row(a)}
    THEN Finish(a)
    ELSE call' = [call EXCEPT ![a] =
                    Call("row", @.request, @.rows \ {Row(a)}, @.own, None, @.late)]

\* The campaign is another active link's, in any house of the family.
\* (Mutant: only the links of the house itself.)
ConflictInHouse(a) == \E i \in LinkIds \ {call[a].own} :
  link[i].campaign = Row(a) /\ link[i].house = HouseOfCall(a)
Conflict(a) == \E i \in LinkIds \ {call[a].own} : link[i].campaign = Row(a)

CheckRow(a) ==
  /\ call[a].pc = "row"
  /\ IF Conflict(a) THEN NextRow(a) ELSE GoTo(a, "begin")
  /\ UNCHANGED <<status, link, marked, lock, batch, approval, served, counters>>

\* existing, inside the transaction.
Begin(a) ==
  /\ call[a].pc = "begin"
  /\ \E i \in Found(LinkIdsOf(call[a].request)) :
       call' = [call EXCEPT ![a] = Call("write", @.request, @.rows, @.own, i, @.late)]
  /\ UNCHANGED <<status, link, marked, lock, batch, approval, served, counters>>

\* uq_campaign_house_active.
Taken(c, h, i) == \E j \in LinkIds \ {i} : link[j].campaign = c /\ link[j].house = h

Unused == {i \in LinkIds : link[i] = NoLink}

\* Update of link i, or creation of one.
SetLink(r, c, i) ==
  /\ i = None => Unused # {}
  /\ link' = [link EXCEPT ![IF i = None THEN CHOOSE j \in Unused : TRUE ELSE i] =
                [user |-> UserOf[r], house |-> HouseOf[r], campaign |-> c]]

\* The transaction commits: the link, and the request whatever its status is by now.
Commit(a) ==
  LET r == call[a].request IN
  /\ call[a].pc = "write"
  /\ ~Taken(Row(a), HouseOf[r], call[a].existing)
  /\ SetLink(r, Row(a), call[a].existing)
  /\ status' = [status EXCEPT ![r] = "FULFILLED"]
  /\ served' = [served EXCEPT ![r] = @ \cup {Row(a)}]
  /\ call' = [call EXCEPT ![a] = Call("mark", r, {Row(a)}, None, None, @.late)]
  /\ UNCHANGED <<marked, lock, batch, approval, counters>>

\* P2002: the row is treated as unavailable.
\* (Mutant: the exception is swallowed and the row marked all the same.)
CollideUnseen(a) ==
  /\ call[a].pc = "write"
  /\ Taken(Row(a), HouseOfCall(a), call[a].existing)
  /\ GoTo(a, "mark")
  /\ UNCHANGED <<status, link, marked, lock, batch, approval, served, counters>>
Collide(a) ==
  /\ call[a].pc = "write"
  /\ Taken(Row(a), HouseOfCall(a), call[a].existing)
  /\ NextRow(a)
  /\ UNCHANGED <<status, link, marked, lock, batch, approval, served, counters>>

\* sheet_read_failed, or an exception of the transaction. (One of an earlier query
\* ends as this does.)
Fail(a) ==
  /\ call[a].pc = "write" \/ (call[a].pc = "read" /\ a \notin Houses)
  /\ Finish(a)
  /\ UNCHANGED <<status, link, marked, lock, batch, approval, served, counters>>

\* markRowUsed, which may fail; a scheduler keeps the row for the end of its cycle
\* and marks it in memory.
MarkRow(a) ==
  /\ call[a].pc = "mark"
  /\ Finish(a)
  /\ IF a \in Houses
       THEN /\ batch' = [batch EXCEPT ![a] =
                          Batch(@.on, @.todo, @.rows \ {Row(a)}, @.marks \cup {Row(a)})]
            /\ UNCHANGED marked
       ELSE /\ \E written \in BOOLEAN :
                 marked' = [marked EXCEPT ![SheetOfCall(a)] =
                              IF written THEN @ \cup {Row(a)} ELSE @]
            /\ UNCHANGED batch
  /\ UNCHANGED <<status, link, lock, approval, served, counters>>

\* Compare the token and delete; without Redis the key is left to its TTL.
\* (Mutant: delete.)
ReleaseAnyToken(a) == \E reached \in BOOLEAN :
  /\ call[a].pc = "release"
  /\ lock' = [lock EXCEPT ![LockOfCall(a)] = IF reached THEN None ELSE @]
  /\ call' = [call EXCEPT ![a] = Idle]
  /\ UNCHANGED <<status, link, marked, batch, approval, served, counters>>
Release(a) == \E reached \in BOOLEAN :
  /\ call[a].pc = "release"
  /\ lock' = [lock EXCEPT ![LockOfCall(a)] = IF reached /\ @ = a THEN None ELSE @]
  /\ call' = [call EXCEPT ![a] = Idle]
  /\ UNCHANGED <<status, link, marked, batch, approval, served, counters>>

TryAssign(a) ==
  \/ Acquire(a) \/ TurnAway(a) \/ ReadRows(a) \/ FindOwn(a) \/ CheckRow(a)
  \/ Begin(a) \/ Commit(a) \/ Collide(a) \/ Fail(a) \/ MarkRow(a) \/ Release(a)

------------------------------------------------------------------------------
(* Redis, the process *)

\* The TTL of a call that still runs.
Overrun(a) ==
  /\ overruns < MaxOverruns
  /\ call[a].pc \in Inside /\ lock[LockOfCall(a)] = a
  /\ lock' = [lock EXCEPT ![LockOfCall(a)] = None]
  /\ call' = [call EXCEPT ![a] = Call(@.pc, @.request, @.rows, @.own, @.existing, TRUE)]
  /\ overruns' = overruns + 1
  /\ UNCHANGED <<status, link, marked, batch, approval, served, approvals, crashes>>

\* The TTL of a call that a restart dropped.
\* (Mutant: SET NX without EX.)
NeverExpires(k) == FALSE /\ UNCHANGED vars
Expire(k) ==
  /\ lock[k] # None /\ call[lock[k]].pc \notin Inside
  /\ lock' = [lock EXCEPT ![k] = None]
  /\ UNCHANGED <<status, link, marked, call, batch, approval, served, counters>>

Crash ==
  /\ crashes < MaxCrashes
  /\ call' = [a \in Actors |-> Idle]
  /\ batch' = [h \in Houses |-> NoBatch]
  /\ approval' = NoApproval
  /\ crashes' = crashes + 1
  /\ UNCHANGED <<status, link, marked, lock, served, approvals, overruns>>

------------------------------------------------------------------------------
(* The admin's decisions, without the lock *)

\* update with status 'rejected', rejectRequest.
Reject(r) ==
  /\ status[r] # "none"
  /\ status' = [status EXCEPT ![r] = "REJECTED"]
  /\ UNCHANGED <<link, marked, lock, call, batch, approval, served, counters>>

\* update with status 'fulfilled': the campaign is nobody else's in the house.
CheckApproval(r, c) ==
  /\ approvals < MaxApprovals
  /\ approval = NoApproval /\ status[r] # "none"
  /\ \A i \in LinkIds : link[i].campaign = c /\ link[i].house = HouseOf[r]
                          => link[i].user = UserOf[r]
  /\ approval' = Approval("close", r, c, None)
  /\ approvals' = approvals + 1
  /\ UNCHANGED <<status, link, marked, lock, call, batch, served, overruns, crashes>>

CloseApproval ==
  /\ approval.pc = "close"
  /\ status' = [status EXCEPT ![approval.request] = "FULFILLED"]
  /\ approval' = Approval("sync", approval.request, approval.campaign, None)
  /\ UNCHANGED <<link, marked, lock, call, batch, served, counters>>

\* syncAffiliateLink: existing. The ceiling of the referrer may have thrown before.
FindApproved ==
  /\ approval.pc = "sync"
  /\ \/ \E i \in Found(LinkIdsOf(approval.request)) :
          approval' = Approval("save", approval.request, approval.campaign, i)
     \/ approval' = NoApproval
  /\ UNCHANGED <<status, link, marked, lock, call, batch, served, counters>>

\* syncAffiliateLink: update or create, unless the index refuses.
SaveApproved ==
  /\ approval.pc = "save"
  /\ IF Taken(approval.campaign, HouseOf[approval.request], approval.existing)
       THEN UNCHANGED link
       ELSE SetLink(approval.request, approval.campaign, approval.existing)
  /\ approval' = NoApproval
  /\ UNCHANGED <<status, marked, lock, call, batch, served, counters>>

Next ==
  \/ \E r \in Requests : CreateRequest(r) \/ Reject(r)
  \/ \E r \in Requests, c \in Manual : CheckApproval(r, c)
  \/ CloseApproval \/ FindApproved \/ SaveApproved
  \/ \E h \in Houses : StartPass(h) \/ NextPending(h) \/ EndPass(h)
  \/ \E a \in Actors : TryAssign(a) \/ Overrun(a)
  \/ \E k \in Locks : Expire(k)
  \/ Crash

Spec == Init /\ [][Next]_vars

LockFree(h) == lock[LockOf[h]] = None

\* Cron ticks and calls run on while the process is up and Redis drops the keys of
\* dead calls (weak). A scheduler's retries over six seconds, cycle after cycle, do not
\* always meet the lock of another call, and a transaction tried forever commits (strong).
FairSpec ==
  /\ Spec
  /\ \A h \in Houses :
       /\ WF_vars(StartPass(h)) /\ WF_vars(NextPending(h)) /\ WF_vars(EndPass(h))
       /\ SF_vars(StartPass(h) /\ LockFree(h)) /\ SF_vars(NextPending(h) /\ LockFree(h))
       /\ SF_vars(Acquire(h)) /\ SF_vars(Commit(h))
  /\ \A a \in Actors : WF_vars(TryAssign(a))
  /\ \A k \in Locks : WF_vars(Expire(k))

------------------------------------------------------------------------------
(* Properties *)

\* A call past SET NX holds the lock of its family until its TTL: no crash, no other
\* call's end takes it away.
LockGuards == \A a \in Actors :
  call[a].pc \in Inside /\ ~call[a].late => lock[LockOfCall(a)] = a

\* If no call outlived its lock, a campaign of the pool is an active link of one
\* affiliate in one house of the family, whatever admins give by hand meanwhile: the
\* check across houses is outside the transaction, and the index covers one house.
OneHousePerCampaign ==
  overruns = 0 =>
    \A i, j \in LinkIds :
      link[i].campaign = link[j].campaign /\ link[i].campaign \notin Manual \cup {None} => i = j

\* If no call outlived its lock, a request takes one row of a pool at most, although
\* its own call, the scheduler and an admin's reprocessing all try to serve it.
ServedOnce ==
  overruns = 0 => \A r \in Requests : \A c, d \in served[r] : c = d

\* A row marked in a sheet was given to somebody: no race, failure or crash loses a
\* free row (the other way round a row can be given and stay unmarked).
MarkedWasGiven == \A h \in Houses :
  marked[SheetOf[h]] \cup batch[h].marks \subseteq UNION {served[r] : r \in Requests}

\* The affiliate of each request, in its house; who holds a campaign.
OwnerOf == [r \in Requests |-> [user |-> UserOf[r], house |-> HouseOf[r]]]
HoldersOf(c) ==
  {[user |-> link[i].user, house |-> link[i].house] :
     i \in {j \in LinkIds : link[j].campaign = c}}

\* tryAssign is atomic until a call outlives its lock: however it interleaves with other
\* calls, schedulers, restarts and an admin's decisions, its transaction gives a campaign
\* nobody else holds to a request that had none, and takes none from another affiliate.
Allocation == INSTANCE LinkAllocation WITH
  Pooled <- Campaigns \ Manual,
  HolderOf <- OwnerOf,
  alone <- overruns = 0,
  holders <- [c \in Campaigns \ Manual |-> HoldersOf(c)],
  given <- served

AllocationSpec == Allocation!Spec

\* The pool of a house has nothing to give.
Exhausted(h) == \A c \in FreeRows(SheetOf[h]) : \E i \in LinkIds : link[i].campaign = c

\* A pending request is decided in the end, unless its pool runs out, even after a
\* crash that left the lock behind.
PendingIsServed == \A r \in Requests :
  status[r] = "PENDING" ~> (status[r] # "PENDING" \/ Exhausted(HouseOf[r]))
==============================================================================
