------------------------------ MODULE CpaPrizes ------------------------------
(***************************************************************************)
(* The prizes of one rule for one affiliate: the engine that turns counted *)
(* CPAs into awards, run by a cron and by hand; the admin who changes the  *)
(* rule, version by version, or removes it; and the awards' redemption.    *)
(* Rows of other affiliates and rules have other keys and never meet.      *)
(***************************************************************************)
EXTENDS Integers, FiniteSets

CONSTANTS
  MaxDay,              \* bound on the days that pass
  Cpas, CpaDay,        \* the affiliate's (or its downline's) CPAs, and their dates
  MaxVersion,          \* bound on the versions of the rule
  Metas,               \* values of cpaPerPrize
  Starts, Ends,        \* values of startDate and endDate (MaxDay: none)
  Evaluations,         \* evaluateRuleVersion calls in flight
  Connections,         \* of the pool to Postgres
  MaxDepth,            \* bound on an advisory lock's re-entries
  Editors,             \* admins who edit the rule
  Switchers,           \* admins who switch it on and off
  Handlers,            \* requests on awards in flight
  None,
  MaxDecisions,        \* bound on requests on awards
  MaxCrashes           \* bound on restarts of the API process

ASSUME PrizeAssumption ==
  /\ MaxDay \in Nat \ {0} /\ MaxVersion \in Nat \ {0}
  /\ IsFiniteSet(Cpas) /\ CpaDay \in [Cpas -> 1..MaxDay]
  /\ Metas \subseteq Nat \ {0} /\ Metas # {} 
  /\ Starts \subseteq 1..MaxDay /\ Ends \subseteq 1..MaxDay
  /\ None \notin Connections \cup Int
  /\ MaxDepth \in Nat /\ MaxDecisions \in Nat /\ MaxCrashes \in Nat

Days == 1..MaxDay
Versions == 1..MaxVersion
Cycles == 1..Cardinality(Cpas)

VARIABLES
  today,
  known,       \* CPAs in AffiliateData
  rule,        \* "active", "inactive", "archived", "deleted"
  last,        \* number of the version currentVersionId names
  version,     \* CpaPrizeRuleVersion: window, cpaPerPrize, supersededAt # null
  progress,    \* CpaPrizeProgress.awardsGenerated, None without a row
  award,       \* status of the CpaPrizeAward of each version and cycleIndex
  owner, depth, \* connection that holds each version's advisory lock, how often
  eval,        \* evaluations in flight
  edit,        \* edits of the rule in flight: what they saw
  handler,     \* requests on awards in flight
  credits,     \* credits of bonusBalance for each award
  counted,     \* CPAs each version has been given awards for (history)
  straddled,   \* an evaluation counted on a later day than its check (history)
  sameDay,     \* a version was applied on the day of the change (history)
  contended,   \* awards with two requests in flight at once (history)
  decisions, crashes

engineVars == <<progress, award, counted>>
ruleVars == <<rule, last, version, edit, sameDay>>
lockVars == <<owner, depth>>
redeemVars == <<handler, credits, contended, decisions>>
vars == <<today, known, ruleVars, engineVars, lockVars, eval, redeemVars, straddled, crashes>>

Statuses == {"AVAILABLE", "REDEMPTION_REQUESTED", "PAID", "CANCELLED", "REJECTED"}
Operations == {"redeem", "approve", "reject", "cancel"}

Awarded(v) == {i \in Cycles : award[v][i] # "none"}

\* window: [max(startDate, effectiveFromDate), endDate ?? now].
Version(from, to, meta, superseded) ==
  [from |-> from, to |-> to, meta |-> meta, superseded |-> superseded]
NoVersion == Version(1, 1, 1, FALSE)

\* pc, version, the day it was found in force, the CPAs counted, awards already given.
Evaluation(pc, v, day, seen, already) ==
  [pc |-> pc, version |-> v, day |-> day, seen |-> seen, already |-> already]
Idle == Evaluation("idle", 1, 1, {}, 0)

Edit(pc, v) == [pc |-> pc, version |-> v]
NoEdit == Edit("idle", 1)

Request(pc, op, v, i) == [pc |-> pc, op |-> op, version |-> v, cycle |-> i]
NoRequest == Request("idle", "redeem", 1, 1)

VersionType == [from : Nat, to : Nat, meta : Nat \ {0}, superseded : BOOLEAN]
EvaluationType == [pc : {"idle", "lock", "check", "count", "read", "write", "unlock"},
                   version : Versions, day : Days, seen : SUBSET Cpas, already : Nat]
EditType == [pc : {"idle", "save", "delete"}, version : Versions]
RequestType == [pc : {"idle", "write"}, op : Operations, version : Versions, cycle : Nat]

TypeOK ==
  /\ today \in Days /\ known \subseteq Cpas
  /\ rule \in {"active", "inactive", "archived", "deleted"}
  /\ last \in Versions
  /\ version \in [Versions -> VersionType]
  /\ progress \in [Versions -> Nat \cup {None}]
  /\ award \in [Versions -> [Cycles -> Statuses \cup {"none"}]]
  /\ owner \in [Versions -> Connections \cup {None}] /\ depth \in [Versions -> Nat]
  /\ \A v \in Versions : owner[v] # None => depth[v] > 0
  /\ eval \in [Evaluations -> EvaluationType]
  /\ edit \in [Editors -> EditType]
  /\ handler \in [Handlers -> RequestType]
  /\ credits \in [Versions -> [Cycles -> Nat]]
  /\ counted \in [Versions -> SUBSET Cpas]
  /\ straddled \in BOOLEAN /\ sameDay \in BOOLEAN
  /\ contended \subseteq Versions \X Cycles
  /\ decisions \in Nat /\ crashes \in Nat

\* createRule: version 1 counts from the start of the rule.
Init ==
  /\ today = 1 /\ known = {}
  /\ rule = "active" /\ last = 1
  /\ \E meta \in Metas :
       version = [v \in Versions |-> IF v = 1 THEN Version(1, MaxDay, meta, FALSE) ELSE NoVersion]
  /\ progress = [v \in Versions |-> None]
  /\ award = [v \in Versions |-> [i \in Cycles |-> "none"]]
  /\ owner = [v \in Versions |-> None] /\ depth = [v \in Versions |-> 0]
  /\ eval = [e \in Evaluations |-> Idle]
  /\ edit = [a \in Editors |-> NoEdit]
  /\ handler = [h \in Handlers |-> NoRequest]
  /\ credits = [v \in Versions |-> [i \in Cycles |-> 0]]
  /\ counted = [v \in Versions |-> {}]
  /\ straddled = FALSE /\ sameDay = FALSE /\ contended = {}
  /\ decisions = 0 /\ crashes = 0
------------------------------------------------------------------------------
(* The day, the affiliate data *)

Tomorrow ==
  /\ today < MaxDay
  /\ today' = today + 1
  /\ UNCHANGED <<known, ruleVars, engineVars, lockVars, eval, redeemVars, straddled, crashes>>

\* The sync brings a CPA, not before its date, or corrects it away.
Sync == \E c \in Cpas :
  /\ CpaDay[c] <= today
  /\ known' = IF c \in known THEN known \ {c} ELSE known \cup {c}
  /\ UNCHANGED <<today, ruleVars, engineVars, lockVars, eval, redeemVars, straddled, crashes>>

------------------------------------------------------------------------------
(* evaluateRuleVersion *)

Leave(e) == eval' = [eval EXCEPT ![e] = Evaluation("unlock", @.version, 1, {}, 0)]

\* recalculate, whatever the state of the rule; evaluateAllActiveRules by the cron.
StartRecalc(e) ==
  /\ eval[e].pc = "idle" /\ rule # "deleted"
  /\ eval' = [eval EXCEPT ![e] = Evaluation("lock", last, 1, {}, 0)]
  /\ UNCHANGED <<today, known, ruleVars, engineVars, lockVars, redeemVars, straddled, crashes>>
StartCron(e) == rule = "active" /\ StartRecalc(e)

\* pg_try_advisory_lock on connection c: granted, once more to the session that holds it.
Lock(e, c) ==
  LET v == eval[e].version IN
  /\ eval[e].pc = "lock"
  /\ owner[v] \in {None, c} /\ depth[v] < MaxDepth
  /\ owner' = [owner EXCEPT ![v] = c] /\ depth' = [depth EXCEPT ![v] = @ + 1]
  /\ eval' = [eval EXCEPT ![e] = Evaluation("check", v, 1, {}, 0)]
  /\ UNCHANGED <<today, known, ruleVars, engineVars, redeemVars, straddled, crashes>>

\* skippedLocked.
Skip(e) == \E c \in Connections :
  /\ eval[e].pc = "lock"
  /\ owner[eval[e].version] \notin {None, c}
  /\ eval' = [eval EXCEPT ![e] = Idle]
  /\ UNCHANGED <<today, known, ruleVars, engineVars, lockVars, redeemVars, straddled, crashes>>

\* A version that is gone or superseded is left alone.
\* (Mutant: supersededAt is not looked at.)
CheckDeletedOnly(e) ==
  /\ eval[e].pc = "check"
  /\ IF rule = "deleted"
       THEN Leave(e)
       ELSE eval' = [eval EXCEPT ![e] = Evaluation("count", @.version, today, {}, 0)]
  /\ UNCHANGED <<today, known, ruleVars, engineVars, lockVars, redeemVars, straddled, crashes>>
Check(e) ==
  /\ eval[e].pc = "check"
  /\ IF rule = "deleted" \/ version[eval[e].version].superseded
       THEN Leave(e)
       ELSE eval' = [eval EXCEPT ![e] = Evaluation("count", @.version, today, {}, 0)]
  /\ UNCHANGED <<today, known, ruleVars, engineVars, lockVars, redeemVars, straddled, crashes>>

\* computeIndividualTotals, computeNetworkTotals.
InWindow(v) == {c \in known : version[v].from <= CpaDay[c] /\ CpaDay[c] <= version[v].to}

Count(e) ==
  /\ eval[e].pc = "count"
  /\ eval' = [eval EXCEPT ![e] =
                Evaluation("read", @.version, 1, InWindow(@.version), 0)]
  /\ straddled' = (straddled \/ eval[e].day # today)
  /\ UNCHANGED <<today, known, ruleVars, engineVars, lockVars, redeemVars, crashes>>

\* Nobody to evaluate: without CPAs an affiliate is in the map of totals only for a
\* campaign whose data rows in the window sum to zero, and never in NETWORK mode.
NotInTotals(e) ==
  /\ eval[e].pc = "read" /\ eval[e].seen = {}
  /\ Leave(e)
  /\ UNCHANGED <<today, known, ruleVars, engineVars, lockVars, redeemVars, straddled, crashes>>

\* already: progress?.awardsGenerated ?? 0.
\* (Mutant: without the default.)
ReadProgressAsIs(e) ==
  /\ eval[e].pc = "read"
  /\ eval' = [eval EXCEPT ![e] =
                Evaluation("write", @.version, 1, @.seen, progress[@.version])]
  /\ UNCHANGED <<today, known, ruleVars, engineVars, lockVars, redeemVars, straddled, crashes>>
ReadProgress(e) ==
  /\ eval[e].pc = "read"
  /\ eval' = [eval EXCEPT ![e] =
                Evaluation("write", @.version, 1, @.seen,
                           IF progress[@.version] = None THEN 0 ELSE progress[@.version])]
  /\ UNCHANGED <<today, known, ruleVars, engineVars, lockVars, redeemVars, straddled, crashes>>

\* (Mutant: a threshold counts only once it is exceeded.)
EarnedBeyond(e) == (Cardinality(eval[e].seen) - 1) \div version[eval[e].version].meta
Earned(e) == Cardinality(eval[e].seen) \div version[eval[e].version].meta
NewCycles(e) == (eval[e].already + 1)..Earned(e)

Remember(e) ==
  counted' = [counted EXCEPT ![eval[e].version] = @ \cup eval[e].seen]

\* Nothing to give: only the totals of the row are refreshed, which the deletion of the
\* version would have refused.
Refresh(e) ==
  LET v == eval[e].version IN
  /\ eval[e].pc = "write" /\ NewCycles(e) = {} /\ rule # "deleted"
  /\ progress' = [progress EXCEPT ![v] = IF @ = None THEN eval[e].already ELSE @]
  /\ Remember(e) /\ Leave(e)
  /\ UNCHANGED <<today, known, ruleVars, award, lockVars, redeemVars, straddled, crashes>>

\* The transaction: createMany under @@unique([ruleVersionId, userId, cycleIndex]), upsert.
\* (Mutants: createMany with skipDuplicates; cycles numbered after those in the table.)
GiveAfterThoseInTable(e) ==
  LET v == eval[e].version  n == Cardinality(Awarded(v)) IN
  /\ eval[e].pc = "write" /\ NewCycles(e) # {} /\ rule # "deleted"
  /\ award' = [award EXCEPT ![v] = [i \in Cycles |->
                 IF i > n /\ i <= n + Cardinality(NewCycles(e)) THEN "AVAILABLE" ELSE @[i]]]
  /\ progress' = [progress EXCEPT ![v] = Earned(e)]
  /\ Remember(e) /\ Leave(e)
  /\ UNCHANGED <<today, known, ruleVars, lockVars, redeemVars, straddled, crashes>>
GiveSkippingDuplicates(e) ==
  LET v == eval[e].version IN
  /\ eval[e].pc = "write" /\ NewCycles(e) # {} /\ rule # "deleted"
  /\ award' = [award EXCEPT ![v] = [i \in Cycles |->
                 IF i \in NewCycles(e) /\ @[i] = "none" THEN "AVAILABLE" ELSE @[i]]]
  /\ progress' = [progress EXCEPT ![v] = Earned(e)]
  /\ Remember(e) /\ Leave(e)
  /\ UNCHANGED <<today, known, ruleVars, lockVars, redeemVars, straddled, crashes>>
Give(e) ==
  LET v == eval[e].version IN
  /\ eval[e].pc = "write" /\ NewCycles(e) # {} /\ rule # "deleted"
  /\ Awarded(v) \cap NewCycles(e) = {}
  /\ award' = [award EXCEPT ![v] = [i \in Cycles |->
                 IF i \in NewCycles(e) THEN "AVAILABLE" ELSE @[i]]]
  /\ progress' = [progress EXCEPT ![v] = Earned(e)]
  /\ Remember(e) /\ Leave(e)
  /\ UNCHANGED <<today, known, ruleVars, lockVars, redeemVars, straddled, crashes>>

\* P2002, a foreign key that is gone, or any other exception.
Fail(e) ==
  /\ eval[e].pc \in {"check", "count", "read", "write"}
  /\ Leave(e)
  /\ UNCHANGED <<today, known, ruleVars, engineVars, lockVars, redeemVars, straddled, crashes>>

\* pg_advisory_unlock on connection c, which may hold nothing: a warning of Postgres.
Unlock(e, c) ==
  LET v == eval[e].version IN
  /\ eval[e].pc = "unlock"
  /\ IF owner[v] = c
       THEN /\ owner' = [owner EXCEPT ![v] = IF depth[v] = 1 THEN None ELSE c]
            /\ depth' = [depth EXCEPT ![v] = @ - 1]
       ELSE UNCHANGED lockVars
  /\ eval' = [eval EXCEPT ![e] = Idle]
  /\ UNCHANGED <<today, known, ruleVars, engineVars, redeemVars, straddled, crashes>>

\* The pool closes a connection after ten idle seconds, and its session's locks go.
CloseConnection(c) ==
  /\ \E v \in Versions : owner[v] = c
  /\ owner' = [v \in Versions |-> IF owner[v] = c THEN None ELSE owner[v]]
  /\ depth' = [v \in Versions |-> IF owner[v] = c THEN 0 ELSE depth[v]]
  /\ UNCHANGED <<today, known, ruleVars, engineVars, eval, redeemVars, straddled, crashes>>

Evaluate(e) ==
  \/ StartCron(e) \/ StartRecalc(e) \/ Skip(e) \/ Check(e) \/ Count(e) \/ ReadProgress(e)
  \/ NotInTotals(e) \/ Refresh(e) \/ Give(e) \/ Fail(e)
  \/ \E c \in Connections : Lock(e, c) \/ Unlock(e, c)

------------------------------------------------------------------------------
(* updateRule, removeRule *)

\* updateRule without structural change.
Toggle(a) ==
  /\ rule # "deleted"
  /\ rule' = CASE rule = "active" -> "inactive"
              [] rule = "inactive" -> "active"
              [] OTHER -> rule
  /\ UNCHANGED <<today, known, last, version, edit, sameDay, engineVars, lockVars, eval,
                 redeemVars, straddled, crashes>>

LaterOf(d, e) == IF d > e THEN d ELSE e

\* The version in force, read before the transaction.
ReadRule(a) ==
  /\ edit[a].pc = "idle" /\ rule # "deleted"
  /\ edit' = [edit EXCEPT ![a] = Edit("save", last)]
  /\ UNCHANGED <<today, known, rule, last, version, sameDay, engineVars, lockVars, eval,
                 redeemVars, straddled, crashes>>

\* The transaction, unless @@unique([ruleId, version]) refuses: the version that was read
\* is superseded and the next one created.
SaveVersion(a) == \E same \in BOOLEAN, meta \in Metas :
  /\ edit[a].pc = "save"
  /\ edit' = [edit EXCEPT ![a] = NoEdit]
  /\ IF rule = "deleted" \/ last # edit[a].version \/ last = MaxVersion
       THEN UNCHANGED <<last, version, sameDay>>
       ELSE \E start \in Starts, to \in Ends :
            /\ last' = last + 1
            /\ version' = [version EXCEPT ![last].superseded = TRUE,
                 ![last + 1] = Version(LaterOf(start, IF same THEN today ELSE today + 1),
                                       to, meta, FALSE)]
            /\ sameDay' = (sameDay \/ same)
  /\ UNCHANGED <<today, known, rule, engineVars, lockVars, eval, redeemVars, straddled, crashes>>

\* hasHistory, which archives.
RemoveRule(a) ==
  /\ edit[a].pc = "idle" /\ rule # "deleted"
  /\ IF \E v \in Versions : Awarded(v) # {} \/ progress[v] # None
       THEN rule' = "archived" /\ UNCHANGED edit
       ELSE edit' = [edit EXCEPT ![a] = Edit("delete", last)] /\ UNCHANGED rule
  /\ UNCHANGED <<today, known, last, version, sameDay, engineVars, lockVars, eval,
                 redeemVars, straddled, crashes>>

\* The awards' foreign key (Restrict) may refuse by now; progress goes with its version.
\* (Mutant: Cascade.)
DeleteCascading(a) ==
  /\ edit[a].pc = "delete"
  /\ edit' = [edit EXCEPT ![a] = NoEdit]
  /\ rule' = "deleted" /\ progress' = [v \in Versions |-> None]
  /\ UNCHANGED <<today, known, last, version, sameDay, award, counted, lockVars, eval,
                 redeemVars, straddled, crashes>>
Delete(a) ==
  /\ edit[a].pc = "delete"
  /\ edit' = [edit EXCEPT ![a] = NoEdit]
  /\ IF \A v \in Versions : Awarded(v) = {}
       THEN rule' = "deleted" /\ progress' = [v \in Versions |-> None]
       ELSE UNCHANGED <<rule, progress>>
  /\ UNCHANGED <<today, known, last, version, sameDay, award, counted, lockVars, eval,
                 redeemVars, straddled, crashes>>

------------------------------------------------------------------------------
(* requestRedemption, approveRedemption, rejectRedemption, cancelAward *)

\* (Mutant: whatever became of an award, it may be requested.)
AllowedAfterAll(op, status) ==
  CASE op = "redeem" -> status # "none"
    [] op \in {"approve", "reject"} -> status = "REDEMPTION_REQUESTED"
    [] op = "cancel" -> status \in {"AVAILABLE", "REDEMPTION_REQUESTED", "REJECTED"}
Allowed(op, status) ==
  CASE op = "redeem" -> status = "AVAILABLE"
    [] op \in {"approve", "reject"} -> status = "REDEMPTION_REQUESTED"
    [] op = "cancel" -> status \in {"AVAILABLE", "REDEMPTION_REQUESTED", "REJECTED"}

Outcome == [redeem |-> "REDEMPTION_REQUESTED", approve |-> "PAID",
            reject |-> "REJECTED", cancel |-> "CANCELLED"]

InHand(v, i) == \E h \in Handlers :
  handler[h].pc = "write" /\ handler[h].version = v /\ handler[h].cycle = i

\* The award is read and its status checked.
ReadAward(h, op, v, i) ==
  /\ decisions < MaxDecisions
  /\ handler[h].pc = "idle" /\ Allowed(op, award[v][i])
  /\ handler' = [handler EXCEPT ![h] = Request("write", op, v, i)]
  /\ contended' = contended \cup (IF InHand(v, i) THEN {<<v, i>>} ELSE {})
  /\ decisions' = decisions + 1
  /\ UNCHANGED <<today, known, ruleVars, engineVars, lockVars, eval, credits, straddled, crashes>>

\* The transaction, by the award's id alone; an approval credits bonusBalance.
\* (Mutant: the credit and the status are committed one by one.)
WriteAwardInParts(h) ==
  LET q == handler[h] IN
  /\ q.pc = "write"
  /\ \/ /\ award' = [award EXCEPT ![q.version][q.cycle] = Outcome[q.op]]
        /\ UNCHANGED credits
     \/ /\ credits' = [credits EXCEPT ![q.version][q.cycle] =
                         IF q.op = "approve" THEN @ + 1 ELSE @]
        /\ UNCHANGED award
  /\ handler' = [handler EXCEPT ![h] = NoRequest]
  /\ UNCHANGED <<today, known, ruleVars, progress, counted, lockVars, eval, contended,
                 decisions, straddled, crashes>>
WriteAward(h) ==
  LET q == handler[h] IN
  /\ q.pc = "write"
  /\ award' = [award EXCEPT ![q.version][q.cycle] = Outcome[q.op]]
  /\ credits' = [credits EXCEPT ![q.version][q.cycle] = IF q.op = "approve" THEN @ + 1 ELSE @]
  /\ handler' = [handler EXCEPT ![h] = NoRequest]
  /\ UNCHANGED <<today, known, ruleVars, progress, counted, lockVars, eval, contended,
                 decisions, straddled, crashes>>

\* The sessions end with the process, and Postgres drops their locks.
Crash ==
  /\ crashes < MaxCrashes /\ crashes' = crashes + 1
  /\ eval' = [e \in Evaluations |-> Idle]
  /\ edit' = [a \in Editors |-> NoEdit]
  /\ handler' = [h \in Handlers |-> NoRequest]
  /\ owner' = [v \in Versions |-> None] /\ depth' = [v \in Versions |-> 0]
  /\ UNCHANGED <<today, known, rule, last, version, sameDay, engineVars, credits, contended,
                 decisions, straddled>>

Next ==
  \/ Tomorrow \/ Sync \/ Crash
  \/ \E a \in Switchers : Toggle(a)
  \/ \E e \in Evaluations : Evaluate(e)
  \/ \E c \in Connections : CloseConnection(c)
  \/ \E a \in Editors : ReadRule(a) \/ SaveVersion(a) \/ RemoveRule(a) \/ Delete(a)
  \/ \E h \in Handlers : WriteAward(h)
  \/ \E h \in Handlers, op \in Operations, v \in Versions, i \in Cycles :
       ReadAward(h, op, v, i)

Spec == Init /\ [][Next]_vars

\* The cron ticks on and an evaluation runs to its end while the process is up. The pool
\* hands out the connection used last: one that holds a stray lock is drawn again or
\* closed. A query repeated forever succeeds at some time (strong).
FairSpec ==
  /\ Spec
  /\ \A e \in Evaluations : WF_vars(Evaluate(e)) /\ SF_vars(StartCron(e))
  /\ \A e \in Evaluations : SF_vars(\E c \in Connections : Lock(e, c))
  /\ \A e \in Evaluations : SF_vars(Check(e)) /\ SF_vars(Count(e)) /\ SF_vars(ReadProgress(e))
  /\ \A e \in Evaluations : SF_vars(Give(e))
  /\ \A c \in Connections : WF_vars(CloseConnection(c))

------------------------------------------------------------------------------
(* Properties *)

\* The awards of a version are numbered 1, 2, ... without a gap and progress agrees with
\* them, whatever evaluations run at once and however their totals differ.
NoGaps == \A v \in Versions :
  Awarded(v) = IF progress[v] = None THEN {} ELSE 1..progress[v]

\* A version never gives more awards than the CPAs it has counted earn, although
\* corrections take CPAs away again.
AwardsEarned == \A v \in Versions :
  Cardinality(Awarded(v)) * version[v].meta <= Cardinality(counted[v])

\* No CPA counts for two versions of a rule, unless the change was applied on the
\* same day or an evaluation ran across midnight.
CountedOnce ==
  ~straddled /\ ~sameDay =>
    \A v, w \in Versions : v # w => counted[v] \cap counted[w] = {}

\* A rule that gave an award is never deleted, although its history is counted before.
HistoryIsKept == rule = "deleted" => \A v \in Versions : Awarded(v) = {}

\* An award that never had two requests in flight at once is credited if and only if it
\* is PAID, and once.
CreditedOnce == \A v \in Versions, i \in Cycles :
  <<v, i>> \notin contended =>
    credits[v][i] = IF award[v][i] = "PAID" THEN 1 ELSE 0

Standing(state) ==
  CASE state = "none" -> "none"
    [] state \in {"AVAILABLE", "REDEMPTION_REQUESTED"} -> "owed"
    [] state = "PAID" -> "paid"
    [] state \in {"REJECTED", "CANCELLED"} -> "void"

\* Prizes are given and settled in one step each: however evaluations, corrections of the
\* data, changes of the rule, requests and failures interleave, awards are given against
\* CPAs nobody else has counted, and one that had no two requests at once is paid or void
\* for good and credited once.
Account == INSTANCE PrizeAccount WITH
  Prices <- Nat \ {0},
  gone <- rule = "deleted",
  orderly <- ~straddled /\ ~sameDay,
  price <- [v \in Versions |-> version[v].meta],
  award <- [v \in Versions |-> [i \in Cycles |-> Standing(award[v][i])]],
  disputed <- contended

AccountSpec == Account!Spec

Due(v) == Cardinality(InWindow(v)) \div version[v].meta > Cardinality(Awarded(v))

\* A prize that is due is given in the end, unless the data are corrected, the rule is
\* switched off or its version superseded: a lock left with an idle connection, a skipped
\* tick or a failed transaction only delays it.
DueIsGiven == \A v \in Versions :
  (v = last /\ Due(v)) ~> (~Due(v) \/ rule # "active" \/ version[v].superseded)
==============================================================================
