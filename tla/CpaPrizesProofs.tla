-------------------------- MODULE CpaPrizesProofs ---------------------------
(***************************************************************************)
(* Theorems about CpaPrizes, for any days, CPAs, versions, evaluations,    *)
(* connections, admins and requests.                                       *)
(***************************************************************************)
EXTENDS CpaPrizes, FiniteSetTheorems, TLAPS

\* What the constants are.
LEMMA Constants ==
  /\ 1 \in Days /\ 1 \in Versions /\ Days \subseteq Nat /\ Versions \subseteq Nat
  /\ Cardinality(Cpas) \in Nat /\ Cycles \subseteq Nat \ {0}
  /\ None \notin Connections /\ None \notin Nat
  /\ CpaDay \in [Cpas -> Days]
<1>1. Cardinality(Cpas) \in Nat BY PrizeAssumption, FS_CardinalityType
<1> QED BY <1>1, PrizeAssumption DEF Days, Versions, Cycles

\* A set of CPAs earns a number of awards that the cycles suffice for.
LEMMA EarnedBounded ==
  ASSUME TypeOK, NEW e \in Evaluations
  PROVE  /\ Earned(e) \in Nat /\ Earned(e) <= Cardinality(Cpas)
         /\ Cardinality(eval[e].seen) \in Nat
         /\ version[eval[e].version].meta \in Nat \ {0}
         /\ Earned(e) * version[eval[e].version].meta <= Cardinality(eval[e].seen)
<1> DEFINE n == Cardinality(eval[e].seen)
           m == version[eval[e].version].meta
<1>1. eval[e].seen \in SUBSET Cpas /\ eval[e].version \in Versions
  BY DEF TypeOK, EvaluationType
<1>2. m \in Nat \ {0} BY <1>1 DEF TypeOK, VersionType
<1>3. IsFiniteSet(eval[e].seen) /\ n <= Cardinality(Cpas)
  BY <1>1, PrizeAssumption, FS_Subset
<1>4. n \in Nat BY <1>3, FS_CardinalityType
<1>5. Earned(e) = n \div m BY DEF Earned
<1>6. n \div m \in Nat /\ (n \div m) * m <= n /\ n \div m <= n
  <2> HIDE DEF n, m
  <2>1. n \div m \in Nat BY <1>2, <1>4
  <2>2. (n \div m) * m <= n BY <1>2, <1>4
  <2>3. n \div m <= n BY <1>2, <1>4
  <2> QED BY <2>1, <2>2, <2>3
<1> QED BY <1>2, <1>3, <1>4, <1>5, <1>6, Constants

------------------------------------------------------------------------------
(* Types *)

LEMMA InitTyped == Init => TypeOK
<1> SUFFICES ASSUME Init PROVE TypeOK OBVIOUS
<1>1. PICK meta \in Metas :
        version = [v \in Versions |-> IF v = 1 THEN Version(1, MaxDay, meta, FALSE) ELSE NoVersion]
  BY DEF Init
<1>2. meta \in Nat \ {0} /\ MaxDay \in Nat BY PrizeAssumption
<1>3. version \in [Versions -> VersionType]
  BY <1>1, <1>2 DEF NoVersion, Version, VersionType
<1> QED BY <1>3, Constants
     DEF Init, TypeOK, Idle, Evaluation, EvaluationType, NoEdit, Edit, EditType, NoRequest,
         Request, RequestType, Operations

\* One evaluation moves to a well-formed state.
LEMMA EvaluationTyped ==
  ASSUME TypeOK, NEW e \in Evaluations,
         NEW pc \in {"idle", "lock", "check", "count", "read", "write", "unlock"},
         NEW v \in Versions, NEW day \in Days, NEW seen \in SUBSET Cpas, NEW already \in Nat,
         eval' = [eval EXCEPT ![e] = Evaluation(pc, v, day, seen, already)]
  PROVE  eval' \in [Evaluations -> EvaluationType]
BY DEF TypeOK, Evaluation, EvaluationType

\* What an evaluation in flight holds.
LEMMA EvaluationFacts ==
  ASSUME TypeOK, NEW e \in Evaluations
  PROVE  /\ eval[e] \in EvaluationType /\ eval[e].version \in Versions /\ eval[e].day \in Days
         /\ eval[e].seen \in SUBSET Cpas /\ eval[e].already \in Nat
BY DEF TypeOK, EvaluationType

\* To an affiliate who is not in the totals nothing happens: as if the evaluation failed.
LEMMA NotInTotalsLeaves == ASSUME NEW e, NotInTotals(e) PROVE Fail(e)
BY DEF NotInTotals, Fail

LEMMA EvaluateTyped ==
  ASSUME TypeOK, NEW e \in Evaluations, Evaluate(e)
  PROVE  TypeOK'
<1> USE Constants
<1>0. /\ eval[e].version \in Versions /\ eval[e].day \in Days
      /\ eval[e].seen \in SUBSET Cpas /\ eval[e].already \in Nat
  BY EvaluationFacts
<1>1. ASSUME Leave(e) PROVE eval' \in [Evaluations -> EvaluationType]
  BY <1>0, <1>1, EvaluationTyped DEF Leave
<1>2. ASSUME eval' = [eval EXCEPT ![e] = Idle] PROVE eval' \in [Evaluations -> EvaluationType]
  BY <1>2, EvaluationTyped DEF Idle
<1>3. CASE StartRecalc(e)
  <2>1. last \in Versions BY DEF TypeOK
  <2>2. eval' \in [Evaluations -> EvaluationType]
    BY <1>3, <2>1, EvaluationTyped DEF StartRecalc
  <2> QED BY <1>3, <2>2 DEF StartRecalc, TypeOK, ruleVars, engineVars, lockVars, redeemVars
<1>4. CASE Skip(e) BY <1>4, <1>2 DEF Skip, TypeOK, ruleVars, engineVars, lockVars, redeemVars
<1>5. CASE Check(e)
  <2>1. today \in Days BY DEF TypeOK
  <2>2. eval' \in [Evaluations -> EvaluationType]
    BY <1>5, <1>1, <1>0, <2>1, EvaluationTyped DEF Check
  <2> QED BY <1>5, <2>2 DEF Check, TypeOK, ruleVars, engineVars, lockVars, redeemVars
<1>6. CASE Count(e)
  <2>1. InWindow(eval[e].version) \in SUBSET Cpas BY DEF InWindow, TypeOK
  <2>2. eval' \in [Evaluations -> EvaluationType]
    BY <1>6, <1>0, <2>1, EvaluationTyped DEF Count
  <2>3. straddled' \in BOOLEAN BY <1>6 DEF Count, TypeOK
  <2> QED BY <1>6, <2>2, <2>3 DEF Count, TypeOK, ruleVars, engineVars, lockVars, redeemVars
<1>7. CASE ReadProgress(e)
  <2> DEFINE n == IF progress[eval[e].version] = None THEN 0 ELSE progress[eval[e].version]
  <2>1. n \in Nat BY <1>0 DEF TypeOK
  <2>2. eval' \in [Evaluations -> EvaluationType]
    BY <1>7, <1>0, <2>1, EvaluationTyped DEF ReadProgress
  <2> QED BY <1>7, <2>2 DEF ReadProgress, TypeOK, ruleVars, engineVars, lockVars, redeemVars
<1>8. CASE Refresh(e)
  <2>1. eval' \in [Evaluations -> EvaluationType] BY <1>8, <1>1 DEF Refresh
  <2>2. progress' \in [Versions -> Nat \cup {None}] BY <1>8, <1>0 DEF Refresh, TypeOK
  <2>3. counted' \in [Versions -> SUBSET Cpas] BY <1>8, <1>0 DEF Refresh, Remember, TypeOK
  <2> QED BY <1>8, <2>1, <2>2, <2>3 DEF Refresh, TypeOK, ruleVars, lockVars, redeemVars
<1>9. CASE Give(e)
  <2>1. eval' \in [Evaluations -> EvaluationType] BY <1>9, <1>1 DEF Give
  <2>2. progress' \in [Versions -> Nat \cup {None}]
    BY <1>9, <1>0, EarnedBounded DEF Give, TypeOK
  <2>3. counted' \in [Versions -> SUBSET Cpas] BY <1>9, <1>0 DEF Give, Remember, TypeOK
  <2>4. award' \in [Versions -> [Cycles -> Statuses \cup {"none"}]]
    <3>1. "AVAILABLE" \in Statuses BY DEF Statuses
    <3> QED BY <1>9, <1>0, <3>1 DEF Give, TypeOK
  <2> QED BY <1>9, <2>1, <2>2, <2>3, <2>4 DEF Give, TypeOK, ruleVars, lockVars, redeemVars
<1>10. CASE Fail(e) BY <1>10, <1>1 DEF Fail, TypeOK, ruleVars, engineVars, lockVars, redeemVars
<1>11. ASSUME NEW c \in Connections, Lock(e, c) PROVE TypeOK'
  <2>1. eval' \in [Evaluations -> EvaluationType]
    BY <1>11, <1>0, EvaluationTyped DEF Lock
  <2>2. /\ owner' \in [Versions -> Connections \cup {None}] /\ depth' \in [Versions -> Nat]
        /\ \A v \in Versions : owner'[v] # None => depth'[v] > 0
    <3> DEFINE w == eval[e].version
    <3>1. /\ owner \in [Versions -> Connections \cup {None}] /\ depth \in [Versions -> Nat]
          /\ \A v \in Versions : owner[v] # None => depth[v] > 0
      BY DEF TypeOK
    <3>2. w \in Versions BY <1>0
    <3>3. owner' = [owner EXCEPT ![w] = c] /\ depth' = [depth EXCEPT ![w] = @ + 1]
      BY <1>11 DEF Lock
    <3> HIDE DEF w
    <3> QED BY <3>1, <3>2, <3>3
  <2> QED BY <1>11, <2>1, <2>2 DEF Lock, TypeOK, ruleVars, engineVars, redeemVars
<1>12. ASSUME NEW c \in Connections, Unlock(e, c) PROVE TypeOK'
  <2>1. eval' \in [Evaluations -> EvaluationType] BY <1>12, <1>2 DEF Unlock
  <2>2. /\ owner' \in [Versions -> Connections \cup {None}] /\ depth' \in [Versions -> Nat]
        /\ \A v \in Versions : owner'[v] # None => depth'[v] > 0
    <3> DEFINE w == eval[e].version
    <3>1. /\ owner \in [Versions -> Connections \cup {None}] /\ depth \in [Versions -> Nat]
          /\ \A v \in Versions : owner[v] # None => depth[v] > 0
      BY DEF TypeOK
    <3>2. w \in Versions BY <1>0
    <3>3. CASE owner[w] = c
      <4>1. /\ owner' = [owner EXCEPT ![w] = IF depth[w] = 1 THEN None ELSE c]
            /\ depth' = [depth EXCEPT ![w] = @ - 1]
        BY <1>12, <3>3 DEF Unlock
      <4>2. depth[w] \in Nat /\ depth[w] > 0 BY <3>1, <3>2, <3>3
      <4> HIDE DEF w
      <4> QED BY <3>1, <3>2, <4>1, <4>2
    <3>4. CASE owner[w] # c BY <1>12, <3>1, <3>4 DEF Unlock, lockVars
    <3> QED BY <3>3, <3>4
  <2> QED BY <1>12, <2>1, <2>2 DEF Unlock, TypeOK, ruleVars, engineVars, redeemVars
<1> QED BY <1>3, <1>4, <1>5, <1>6, <1>7, <1>8, <1>9, <1>10, <1>11, <1>12, NotInTotalsLeaves
     DEF Evaluate, StartCron

LEMMA EditTyped ==
  ASSUME TypeOK, NEW a \in Editors,
         ReadRule(a) \/ SaveVersion(a) \/ RemoveRule(a) \/ Delete(a)
  PROVE  TypeOK'
<1> USE Constants
<1>1. last \in Versions /\ edit[a] \in EditType BY DEF TypeOK
<1>2. CASE ReadRule(a)
  BY <1>1, <1>2 DEF ReadRule, TypeOK, Edit, EditType, engineVars, lockVars, redeemVars
<1>3. CASE SaveVersion(a)
  <2>1. edit' \in [Editors -> EditType]
    BY <1>3 DEF SaveVersion, TypeOK, NoEdit, Edit, EditType
  <2>2. PICK same \in BOOLEAN, meta \in Metas :
          IF rule = "deleted" \/ last # edit[a].version \/ last = MaxVersion
            THEN UNCHANGED <<last, version, sameDay>>
            ELSE \E start \in Starts, to \in Ends :
                 /\ last' = last + 1
                 /\ version' = [version EXCEPT ![last].superseded = TRUE,
                      ![last + 1] = Version(LaterOf(start, IF same THEN today ELSE today + 1),
                                            to, meta, FALSE)]
                 /\ sameDay' = (sameDay \/ same)
    BY <1>3 DEF SaveVersion
  <2>3. last' \in Versions /\ version' \in [Versions -> VersionType] /\ sameDay' \in BOOLEAN
    <3>1. CASE rule = "deleted" \/ last # edit[a].version \/ last = MaxVersion
      BY <3>1, <2>2 DEF TypeOK
    <3>2. CASE ~(rule = "deleted" \/ last # edit[a].version \/ last = MaxVersion)
      <4>1. PICK start \in Starts, to \in Ends :
               /\ last' = last + 1
               /\ version' = [version EXCEPT ![last].superseded = TRUE,
                    ![last + 1] = Version(LaterOf(start, IF same THEN today ELSE today + 1),
                                          to, meta, FALSE)]
               /\ sameDay' = (sameDay \/ same)
        BY <3>2, <2>2
      <4> DEFINE from == LaterOf(start, IF same THEN today ELSE today + 1)
      <4>2. start \in Nat /\ to \in Nat /\ meta \in Nat \ {0} /\ today \in Nat
        BY PrizeAssumption DEF TypeOK
      <4>3. from \in Nat BY <4>2 DEF LaterOf
      <4>4. Version(from, to, meta, FALSE) \in VersionType
        BY <4>2, <4>3 DEF Version, VersionType
      <4>5. last + 1 \in Versions BY <3>2, <1>1, PrizeAssumption DEF Versions
      <4>6. version \in [Versions -> VersionType] /\ sameDay \in BOOLEAN BY DEF TypeOK
      <4>7. version' \in [Versions -> VersionType]
        <5>1. [version[last] EXCEPT !.superseded = TRUE] \in VersionType
          BY <4>6, <1>1 DEF VersionType
        <5>2. /\ last + 1 # last /\ last + 1 \in Versions /\ last \in Versions
          BY <4>5, <1>1
        <5> DEFINE new == Version(from, to, meta, FALSE)
        <5>3. version' = [version EXCEPT ![last].superseded = TRUE, ![last + 1] = new]
          BY <4>1
        <5>4. new \in VersionType BY <4>4
        <5>5. \A v \in Versions : version'[v] \in VersionType
          <6> SUFFICES ASSUME NEW v \in Versions PROVE version'[v] \in VersionType OBVIOUS
          <6> HIDE DEF new
          <6>1. CASE v = last + 1 BY <6>1, <5>2, <5>3, <5>4, <4>6
          <6>2. CASE v = last
            <7>1. version'[v] = [version[last] EXCEPT !.superseded = TRUE]
              BY <6>2, <5>2, <5>3, <4>6
            <7> QED BY <7>1, <5>1
          <6>3. CASE v # last /\ v # last + 1 BY <6>3, <5>3, <4>6
          <6> QED BY <6>1, <6>2, <6>3
        <5>6. version' = [v \in Versions |-> version'[v]] BY <5>3, <4>6
        <5> QED BY <5>5, <5>6
      <4> QED BY <4>1, <4>5, <4>6, <4>7
    <3> QED BY <3>1, <3>2
  <2> QED BY <1>3, <2>1, <2>3 DEF SaveVersion, TypeOK, engineVars, lockVars, redeemVars
<1>4. CASE RemoveRule(a)
  BY <1>1, <1>4 DEF RemoveRule, TypeOK, Edit, EditType, engineVars, lockVars, redeemVars
<1>5. CASE Delete(a)
  BY <1>1, <1>5 DEF Delete, TypeOK, NoEdit, Edit, EditType, lockVars, redeemVars
<1> QED BY <1>2, <1>3, <1>4, <1>5

\* A credit keeps the type of the credits.
LEMMA CreditTyped ==
  ASSUME NEW f \in [Cycles -> Nat], NEW i, NEW op
  PROVE  [f EXCEPT ![i] = IF op = "approve" THEN @ + 1 ELSE @] \in [Cycles -> Nat]
<1>1. \A j \in Cycles : f[j] \in Nat /\ f[j] + 1 \in Nat OBVIOUS
<1> QED BY <1>1

LEMMA RequestTyped ==
  ASSUME TypeOK, NEW h \in Handlers,
         WriteAward(h) \/ \E op \in Operations, v \in Versions, i \in Cycles : ReadAward(h, op, v, i)
  PROVE  TypeOK'
<1> USE Constants
<1>1. CASE WriteAward(h)
  <2>1. handler[h] \in RequestType BY DEF TypeOK
  <2>2. handler' \in [Handlers -> RequestType]
    BY <1>1 DEF WriteAward, TypeOK, NoRequest, Request, RequestType, Operations
  <2>3. Outcome[handler[h].op] \in Statuses
    BY <2>1 DEF RequestType, Operations, Outcome, Statuses
  <2>4. award' \in [Versions -> [Cycles -> Statuses \cup {"none"}]]
    BY <1>1, <2>3 DEF WriteAward, TypeOK
  <2>5. credits' \in [Versions -> [Cycles -> Nat]]
    <3> DEFINE q == handler[h]
    <3>1. q.version \in Versions /\ q.cycle \in Nat BY <2>1 DEF RequestType
    <3>2. credits \in [Versions -> [Cycles -> Nat]] BY DEF TypeOK
    <3>3. credits' = [credits EXCEPT ![q.version][q.cycle] = IF q.op = "approve" THEN @ + 1 ELSE @]
      BY <1>1 DEF WriteAward
    <3> HIDE DEF q
    <3> DEFINE old == credits[q.version]
               new == [old EXCEPT ![q.cycle] = IF q.op = "approve" THEN @ + 1 ELSE @]
    <3>4. credits' = [credits EXCEPT ![q.version] = new] BY <3>3
    <3>5. new \in [Cycles -> Nat]
      <4>1. old \in [Cycles -> Nat] BY <3>1, <3>2
      <4> QED BY <4>1, CreditTyped
    <3> QED BY <3>2, <3>4, <3>5
  <2> QED BY <1>1, <2>2, <2>4, <2>5 DEF WriteAward, TypeOK, ruleVars, lockVars
<1>2. ASSUME NEW op \in Operations, NEW v \in Versions, NEW i \in Cycles, ReadAward(h, op, v, i)
      PROVE  TypeOK'
  <2>1. handler' \in [Handlers -> RequestType]
    BY <1>2 DEF ReadAward, TypeOK, Request, RequestType
  <2>2. contended' \subseteq Versions \X Cycles /\ decisions' \in Nat
    BY <1>2 DEF ReadAward, TypeOK
  <2> QED BY <1>2, <2>1, <2>2 DEF ReadAward, TypeOK, ruleVars, engineVars, lockVars
<1> QED BY <1>1, <1>2

\* Rules, versions, awards, locks and calls in flight keep their types, and a version whose
\* lock has an owner is locked at least once.
THEOREM TypeCorrect == Spec => []TypeOK
<1>1. Init => TypeOK BY InitTyped
<1>2. TypeOK /\ [Next]_vars => TypeOK'
  <2> SUFFICES ASSUME TypeOK, [Next]_vars PROVE TypeOK' OBVIOUS
  <2> USE Constants
  <2>1. CASE Tomorrow
    BY <2>1, PrizeAssumption
       DEF Tomorrow, TypeOK, Days, ruleVars, engineVars, lockVars, redeemVars
  <2>2. CASE Sync
    BY <2>2 DEF Sync, TypeOK, ruleVars, engineVars, lockVars, redeemVars
  <2>3. CASE Crash
    <3>1. eval' \in [Evaluations -> EvaluationType]
      BY <2>3 DEF Crash, Idle, Evaluation, EvaluationType
    <3>2. edit' \in [Editors -> EditType] BY <2>3 DEF Crash, NoEdit, Edit, EditType
    <3>3. handler' \in [Handlers -> RequestType]
      BY <2>3 DEF Crash, NoRequest, Request, RequestType, Operations
    <3>4. /\ owner' \in [Versions -> Connections \cup {None}] /\ depth' \in [Versions -> Nat]
          /\ \A v \in Versions : owner'[v] # None => depth'[v] > 0
      BY <2>3 DEF Crash
    <3>5. crashes' \in Nat BY <2>3 DEF Crash, TypeOK
    <3> QED BY <2>3, <3>1, <3>2, <3>3, <3>4, <3>5 DEF Crash, TypeOK, engineVars
  <2>4. ASSUME NEW a \in Switchers, Toggle(a) PROVE TypeOK'
    BY <2>4 DEF Toggle, TypeOK, engineVars, lockVars, redeemVars
  <2>5. ASSUME NEW e \in Evaluations, Evaluate(e) PROVE TypeOK' BY <2>5, EvaluateTyped
  <2>6. ASSUME NEW c \in Connections, CloseConnection(c) PROVE TypeOK'
    BY <2>6 DEF CloseConnection, TypeOK, ruleVars, engineVars, redeemVars
  <2>7. ASSUME NEW a \in Editors, ReadRule(a) \/ SaveVersion(a) \/ RemoveRule(a) \/ Delete(a)
        PROVE  TypeOK'
    BY <2>7, EditTyped
  <2>8. ASSUME NEW h \in Handlers, WriteAward(h) PROVE TypeOK' BY <2>8, RequestTyped
  <2>9. ASSUME NEW h \in Handlers, NEW op \in Operations, NEW v \in Versions, NEW i \in Cycles,
               ReadAward(h, op, v, i)
        PROVE  TypeOK'
    BY <2>9, RequestTyped
  <2>10. CASE UNCHANGED vars
    BY <2>10 DEF vars, TypeOK, ruleVars, engineVars, lockVars, redeemVars
  <2> QED BY <2>1, <2>2, <2>3, <2>4, <2>5, <2>6, <2>7, <2>8, <2>9, <2>10 DEF Next
<1> QED BY <1>1, <1>2, PTL DEF Spec

------------------------------------------------------------------------------
(* The numbering of the awards *)

Given(v) == IF progress[v] = None THEN 0 ELSE progress[v]

\* What an evaluation read is not more than what has been given since.
AlreadyGiven == \A e \in Evaluations :
  eval[e].pc = "write" /\ rule # "deleted" => eval[e].already <= Given(eval[e].version)

\* A request is about an award.
AwardInHand == \A h \in Handlers :
  handler[h].pc = "write" =>
    handler[h].cycle \in Cycles /\ award[handler[h].version][handler[h].cycle] # "none"

AwardInv == NoGaps /\ AlreadyGiven /\ AwardInHand /\ HistoryIsKept

\* Steps that leave awards and progress alone and bring no evaluation to its transaction.
LEMMA QuietStep ==
  ASSUME TypeOK, AwardInv, UNCHANGED <<award, progress>>,
         rule' = "deleted" <=> rule = "deleted",
         \A e \in Evaluations : eval'[e] = eval[e] \/ eval'[e].pc # "write",
         \A h \in Handlers : handler'[h] = handler[h] \/ handler'[h].pc # "write"
  PROVE  AwardInv'
<1>1. \A v \in Versions : Awarded(v)' = Awarded(v) BY DEF Awarded
<1>2. NoGaps' BY <1>1 DEF NoGaps, AwardInv
<1>3. AlreadyGiven' BY DEF AlreadyGiven, AwardInv, Given
<1>4. AwardInHand' BY DEF AwardInHand, AwardInv
<1>5. HistoryIsKept' BY <1>1 DEF HistoryIsKept, AwardInv
<1> QED BY <1>2, <1>3, <1>4, <1>5 DEF AwardInv

LEMMA LeaveStep ==
  ASSUME TypeOK, NEW e \in Evaluations, Leave(e)
  PROVE  eval'[e].pc = "unlock" /\ \A d \in Evaluations \ {e} : eval'[d] = eval[d]
BY DEF Leave, Evaluation, TypeOK

LEMMA GiveKeepsNumbers ==
  ASSUME TypeOK, AwardInv, NEW e \in Evaluations, Give(e)
  PROVE  AwardInv'
<1> USE Constants
<1> SUFFICES ASSUME NEW v \in Versions, v = eval[e].version,
                    NEW n \in Nat, n = Earned(e), NEW a \in Nat, a = eval[e].already
             PROVE  AwardInv'
  BY EvaluationFacts, EarnedBounded
<1>1. v \in Versions /\ a \in Nat /\ n \in Nat /\ n <= Cardinality(Cpas)
  BY EvaluationFacts, EarnedBounded
<1>2. eval[e].pc = "write" /\ rule # "deleted" BY DEF Give
<1>3. a <= Given(v) /\ Given(v) \in Nat BY <1>1, <1>2 DEF AwardInv, AlreadyGiven, Given, TypeOK
<1>4. Awarded(v) = 1..Given(v)
  <2>1. Awarded(v) = IF progress[v] = None THEN {} ELSE 1..progress[v] BY DEF AwardInv, NoGaps
  <2>2. 1..0 = {} OBVIOUS
  <2> QED BY <2>1, <2>2 DEF Given
<1>5. a + 1 <= n
  <2>1. (a + 1)..n # {} BY DEF Give, NewCycles
  <2> QED BY <2>1, <1>1
<1>6. a = Given(v)
  <2>1. 1..Given(v) \cap (a + 1)..n = {} BY <1>4 DEF Give, NewCycles
  <2>2. SUFFICES ASSUME a < Given(v) PROVE FALSE BY <1>1, <1>3
  <2> QED BY <2>1, <2>2, <1>1, <1>3, <1>5
<1>7. \A i \in Cycles : award'[v][i] = IF i \in (a + 1)..n THEN "AVAILABLE" ELSE award[v][i]
  BY <1>1 DEF Give, NewCycles, TypeOK
<1>8. \A w \in Versions \ {v} : award'[w] = award[w] /\ progress'[w] = progress[w]
  BY DEF Give, TypeOK
<1>9. progress'[v] = n BY <1>1 DEF Give, TypeOK
<1>10. Awarded(v)' = 1..n
  <2>1. Awarded(v)' = {i \in Cycles : award'[v][i] # "none"} BY DEF Awarded
  <2>2. \A i \in Cycles : award[v][i] # "none" <=> i \in 1..Given(v)
    BY <1>4 DEF Awarded
  <2>3. \A i \in Cycles : award'[v][i] # "none" <=> i \in 1..n
    <3> SUFFICES ASSUME NEW i \in Cycles PROVE award'[v][i] # "none" <=> i \in 1..n OBVIOUS
    <3>0. i \in Nat \ {0} OBVIOUS
    <3>1. CASE i \in (a + 1)..n
      <4>1. award'[v][i] = "AVAILABLE" BY <3>1, <1>7
      <4>2. i \in 1..n
        <5> QED BY <3>0, <3>1, <1>1
      <4> QED BY <4>1, <4>2
    <3>2. CASE i \notin (a + 1)..n
      <4>1. award'[v][i] = award[v][i] BY <3>2, <1>7
      <4>2. i \in 1..a <=> i \in 1..n
        <5> QED BY <3>0, <3>2, <1>1, <1>5
      <4> QED BY <4>1, <4>2, <2>2, <1>6
    <3> QED BY <3>1, <3>2
  <2>4. 1..n \subseteq Cycles
    <3> QED BY <1>1 DEF Cycles
  <2> QED BY <2>1, <2>3, <2>4
<1>11. \A w \in Versions \ {v} : Awarded(w)' = Awarded(w) BY <1>8 DEF Awarded
<1>12. NoGaps'
  <2> SUFFICES ASSUME NEW w \in Versions
               PROVE  Awarded(w)' = IF progress'[w] = None THEN {} ELSE 1..progress'[w]
    BY DEF NoGaps
  <2>1. CASE w = v BY <2>1, <1>1, <1>9, <1>10
  <2>2. CASE w # v BY <2>2, <1>8, <1>11 DEF AwardInv, NoGaps
  <2> QED BY <2>1, <2>2
<1>13. AlreadyGiven'
  <2> SUFFICES ASSUME NEW d \in Evaluations, eval'[d].pc = "write"
               PROVE  eval'[d].already <= Given(eval[d].version)'
    BY DEF AlreadyGiven
  <2>1. Leave(e) BY DEF Give
  <2>2. d # e /\ eval'[d] = eval[d] BY <2>1, LeaveStep
  <2>3. eval[d].already <= Given(eval[d].version) /\ eval[d].already \in Nat
        /\ eval[d].version \in Versions
    BY <2>2, <1>2, EvaluationFacts DEF AwardInv, AlreadyGiven
  <2>4. CASE eval[d].version = v
    <3>1. Given(v)' = n BY <1>1, <1>9 DEF Given
    <3> QED BY <3>1, <2>2, <2>3, <2>4, <1>1, <1>3, <1>5, <1>6
  <2>5. CASE eval[d].version # v BY <2>2, <2>3, <2>5, <1>8 DEF Given
  <2> QED BY <2>4, <2>5
<1>14. AwardInHand'
  <2>1. handler' = handler BY DEF Give, redeemVars
  <2>2. \A w \in Versions, i \in Cycles : award[w][i] # "none" => award'[w][i] # "none"
    BY <1>7, <1>8
  <2>3. \A h \in Handlers : handler[h].version \in Versions BY DEF TypeOK, RequestType
  <2> QED BY <2>1, <2>2, <2>3 DEF AwardInHand, AwardInv
<1>15. HistoryIsKept' BY <1>2 DEF HistoryIsKept, Give, ruleVars
<1> QED BY <1>12, <1>13, <1>14, <1>15 DEF AwardInv

LEMMA EvaluateKeepsNumbers ==
  ASSUME TypeOK, AwardInv, NEW e \in Evaluations, Evaluate(e)
  PROVE  AwardInv'
<1> USE Constants
<1>1. ASSUME UNCHANGED <<award, progress, rule, handler>>,
             NEW pc, pc # "write", NEW v, NEW day, NEW seen, NEW already,
             eval' = [eval EXCEPT ![e] = Evaluation(pc, v, day, seen, already)]
      PROVE  AwardInv'
  <2>1. eval'[e].pc # "write" /\ \A d \in Evaluations \ {e} : eval'[d] = eval[d]
    BY <1>1 DEF Evaluation, TypeOK
  <2> QED BY <1>1, <2>1, QuietStep
<1>2. ASSUME UNCHANGED <<award, progress, rule, handler>>, Leave(e) PROVE AwardInv'
  BY <1>1, <1>2 DEF Leave
<1>3. CASE StartRecalc(e)
  BY <1>1, <1>3 DEF StartRecalc, ruleVars, engineVars, redeemVars
<1>4. CASE Skip(e) BY <1>1, <1>4 DEF Skip, Idle, ruleVars, engineVars, redeemVars
<1>5. CASE Check(e) BY <1>1, <1>2, <1>5 DEF Check, ruleVars, engineVars, redeemVars
<1>6. CASE Count(e) BY <1>1, <1>6 DEF Count, ruleVars, engineVars, redeemVars
<1>7. CASE ReadProgress(e)
  <2> SUFFICES ASSUME NEW v \in Versions, v = eval[e].version PROVE AwardInv'
    BY EvaluationFacts
  <2>0. Given(v) \in Nat BY DEF Given, TypeOK
  <2>1. UNCHANGED <<award, progress, rule, handler>>
    BY <1>7 DEF ReadProgress, ruleVars, engineVars, redeemVars
  <2>2. /\ eval'[e].already = Given(v) /\ eval'[e].version = v
        /\ \A d \in Evaluations \ {e} : eval'[d] = eval[d]
    BY <1>7 DEF ReadProgress, Evaluation, Given, TypeOK
  <2>3. AlreadyGiven'
    <3> SUFFICES ASSUME NEW d \in Evaluations, eval'[d].pc = "write", rule' # "deleted"
                 PROVE  eval'[d].already <= Given(eval[d].version)'
      BY DEF AlreadyGiven
    <3>1. \A w : Given(w)' = Given(w) BY <2>1 DEF Given
    <3>2. CASE d = e
      <4>1. eval'[d].already = Given(v) /\ Given(eval[d].version)' = Given(v)
        BY <3>1, <3>2, <2>2
      <4> QED BY <4>1, <2>0
    <3>3. CASE d # e BY <3>1, <3>3, <2>1, <2>2 DEF AlreadyGiven, AwardInv
    <3> QED BY <3>2, <3>3
  <2>4. \A w \in Versions : Awarded(w)' = Awarded(w) BY <2>1 DEF Awarded
  <2>5. NoGaps' /\ HistoryIsKept' BY <2>1, <2>4 DEF NoGaps, HistoryIsKept, AwardInv
  <2>6. AwardInHand' BY <2>1 DEF AwardInHand, AwardInv
  <2> QED BY <2>3, <2>5, <2>6 DEF AwardInv
<1>8. CASE Refresh(e)
  <2> SUFFICES ASSUME NEW v \in Versions, v = eval[e].version PROVE AwardInv'
    BY EvaluationFacts
  <2>1. v \in Versions /\ eval[e].already \in Nat BY EvaluationFacts
  <2>2. UNCHANGED <<award, rule, handler>> /\ Leave(e) /\ rule # "deleted" /\ eval[e].pc = "write"
    BY <1>8 DEF Refresh, ruleVars, redeemVars
  <2>3. eval[e].already <= Given(v) BY <2>2 DEF AwardInv, AlreadyGiven
  <2>4. progress' = [progress EXCEPT ![v] = IF @ = None THEN eval[e].already ELSE @]
    BY <1>8 DEF Refresh
  <2>5. \A w \in Versions : Given(w)' = Given(w)
    <3> SUFFICES ASSUME NEW w \in Versions PROVE Given(w)' = Given(w) OBVIOUS
    <3>1. CASE w = v /\ progress[v] = None
      <4>1. eval[e].already = 0 BY <3>1, <2>1, <2>3 DEF Given
      <4> QED BY <4>1, <3>1, <2>1, <2>4 DEF Given, TypeOK
    <3>2. CASE w # v \/ progress[v] # None BY <3>2, <2>1, <2>4 DEF Given, TypeOK
    <3> QED BY <3>1, <3>2
  <2>6. \A w \in Versions : Awarded(w)' = Awarded(w) BY <2>2 DEF Awarded
  <2>7. NoGaps'
    <3> SUFFICES ASSUME NEW w \in Versions
                 PROVE  Awarded(w)' = IF progress'[w] = None THEN {} ELSE 1..progress'[w]
      BY DEF NoGaps
    <3>1. Awarded(w) = IF progress[w] = None THEN {} ELSE 1..progress[w]
      BY DEF AwardInv, NoGaps
    <3>2. 1..0 = {} OBVIOUS
    <3> QED BY <3>1, <3>2, <2>5, <2>6 DEF Given
  <2>8. AlreadyGiven'
    <3> SUFFICES ASSUME NEW d \in Evaluations, eval'[d].pc = "write", rule' # "deleted"
                 PROVE  eval'[d].already <= Given(eval[d].version)'
      BY DEF AlreadyGiven
    <3>1. d # e /\ eval'[d] = eval[d] BY <2>2, LeaveStep
    <3>2. eval[d].version \in Versions BY EvaluationFacts
    <3> QED BY <3>1, <3>2, <2>2, <2>5 DEF AlreadyGiven, AwardInv
  <2>9. AwardInHand' /\ HistoryIsKept'
    BY <2>2, <2>6 DEF AwardInHand, HistoryIsKept, AwardInv
  <2> QED BY <2>7, <2>8, <2>9 DEF AwardInv
<1>9. CASE Give(e) BY <1>9, GiveKeepsNumbers
<1>10. CASE Fail(e) BY <1>2, <1>10 DEF Fail, ruleVars, engineVars, redeemVars
<1>11. ASSUME NEW c \in Connections, Lock(e, c) PROVE AwardInv'
  BY <1>1, <1>11 DEF Lock, ruleVars, engineVars, redeemVars
<1>12. ASSUME NEW c \in Connections, Unlock(e, c) PROVE AwardInv'
  BY <1>1, <1>12 DEF Unlock, Idle, ruleVars, engineVars, redeemVars
<1> QED BY <1>3, <1>4, <1>5, <1>6, <1>7, <1>8, <1>9, <1>10, <1>11, <1>12, NotInTotalsLeaves
     DEF Evaluate, StartCron

\* A decision changes the status of an award, never which awards there are.
LEMMA WriteKeepsAwards ==
  ASSUME TypeOK, AwardInv, NEW h \in Handlers, WriteAward(h)
  PROVE  /\ \A v \in Versions, i \in Cycles : award'[v][i] # "none" <=> award[v][i] # "none"
         /\ \A v \in Versions : Awarded(v)' = Awarded(v)
<1> DEFINE q == handler[h]
<1>1. /\ q.version \in Versions /\ q.op \in Operations /\ q.cycle \in Cycles
      /\ award[q.version][q.cycle] # "none"
  BY DEF WriteAward, TypeOK, RequestType, AwardInv, AwardInHand
<1>2. Outcome[q.op] # "none" BY <1>1 DEF Operations, Outcome
<1>3. award' = [award EXCEPT ![q.version][q.cycle] = Outcome[q.op]] BY DEF WriteAward
<1>4. \A v \in Versions, i \in Cycles : award'[v][i] # "none" <=> award[v][i] # "none"
  BY <1>1, <1>2, <1>3 DEF TypeOK
<1> QED BY <1>4 DEF Awarded

LEMMA RequestKeepsNumbers ==
  ASSUME TypeOK, AwardInv, NEW h \in Handlers,
         WriteAward(h) \/ \E op \in Operations, v \in Versions, i \in Cycles : ReadAward(h, op, v, i)
  PROVE  AwardInv'
<1> USE Constants
<1>1. CASE WriteAward(h)
  <2>1. /\ UNCHANGED <<rule, progress, eval>>
        /\ handler' = [handler EXCEPT ![h] = NoRequest]
    BY <1>1 DEF WriteAward, ruleVars
  <2>2. \A v \in Versions, i \in Cycles : award'[v][i] # "none" <=> award[v][i] # "none"
    BY <1>1, WriteKeepsAwards
  <2>3. \A v \in Versions : Awarded(v)' = Awarded(v) BY <1>1, WriteKeepsAwards
  <2>4. NoGaps' /\ HistoryIsKept' /\ AlreadyGiven'
    BY <2>1, <2>3 DEF NoGaps, HistoryIsKept, AlreadyGiven, Given, AwardInv
  <2>5. AwardInHand'
    <3> SUFFICES ASSUME NEW g \in Handlers, handler'[g].pc = "write"
                 PROVE  handler'[g].cycle \in Cycles
                        /\ award'[handler'[g].version][handler'[g].cycle] # "none"
      BY DEF AwardInHand
    <3>1. g # h /\ handler'[g] = handler[g] BY <2>1 DEF TypeOK, NoRequest, Request
    <3>2. handler[g].version \in Versions BY DEF TypeOK, RequestType
    <3> QED BY <3>1, <3>2, <2>2 DEF AwardInHand, AwardInv
  <2> QED BY <2>4, <2>5 DEF AwardInv
<1>2. ASSUME NEW op \in Operations, NEW v \in Versions, NEW i \in Cycles, ReadAward(h, op, v, i)
      PROVE  AwardInv'
  <2>1. award[v][i] # "none" BY <1>2 DEF ReadAward, Allowed, Operations
  <2>2. UNCHANGED <<award, progress, rule, eval>>
        /\ handler' = [handler EXCEPT ![h] = Request("write", op, v, i)]
    BY <1>2 DEF ReadAward, ruleVars, engineVars
  <2>3. \A w \in Versions : Awarded(w)' = Awarded(w) BY <2>2 DEF Awarded
  <2>4. NoGaps' /\ HistoryIsKept' /\ AlreadyGiven'
    BY <2>2, <2>3 DEF NoGaps, HistoryIsKept, AlreadyGiven, Given, AwardInv
  <2>5. AwardInHand' BY <2>1, <2>2 DEF AwardInHand, AwardInv, Request, TypeOK
  <2> QED BY <2>4, <2>5 DEF AwardInv
<1> QED BY <1>1, <1>2

LEMMA EditKeepsNumbers ==
  ASSUME TypeOK, AwardInv, NEW a \in Editors,
         ReadRule(a) \/ SaveVersion(a) \/ RemoveRule(a) \/ Delete(a)
  PROVE  AwardInv'
<1>1. CASE ReadRule(a) BY <1>1, QuietStep DEF ReadRule, engineVars, redeemVars
<1>2. CASE SaveVersion(a) BY <1>2, QuietStep DEF SaveVersion, engineVars, redeemVars
<1>3. CASE RemoveRule(a)
  <2>1. rule' = "deleted" <=> rule = "deleted" BY <1>3 DEF RemoveRule
  <2> QED BY <1>3, <2>1, QuietStep DEF RemoveRule, engineVars, redeemVars
<1>4. CASE Delete(a)
  <2>1. CASE \A v \in Versions : Awarded(v) = {}
    <3>1. /\ rule' = "deleted" /\ progress' = [v \in Versions |-> None]
          /\ UNCHANGED <<award, eval, handler>>
      BY <1>4, <2>1 DEF Delete, redeemVars
    <3>2. \A v \in Versions : Awarded(v)' = Awarded(v) BY <3>1 DEF Awarded
    <3>3. NoGaps' BY <2>1, <3>1, <3>2 DEF NoGaps
    <3>4. HistoryIsKept' BY <2>1, <3>2 DEF HistoryIsKept
    <3>5. AlreadyGiven' /\ AwardInHand' BY <3>1 DEF AlreadyGiven, AwardInHand, AwardInv
    <3> QED BY <3>3, <3>4, <3>5 DEF AwardInv
  <2>2. CASE ~\A v \in Versions : Awarded(v) = {}
    BY <1>4, <2>2, QuietStep DEF Delete, redeemVars
  <2> QED BY <2>1, <2>2
<1> QED BY <1>1, <1>2, <1>3, <1>4

LEMMA AwardsInvariant == Spec => []AwardInv
<1>1. Init => AwardInv
  <2> SUFFICES ASSUME Init PROVE AwardInv OBVIOUS
  <2>1. \A v \in Versions : Awarded(v) = {} BY DEF Init, Awarded
  <2> QED BY <2>1 DEF Init, AwardInv, NoGaps, AlreadyGiven, AwardInHand, HistoryIsKept, Idle,
                      Evaluation, NoRequest, Request
<1>2. TypeOK /\ AwardInv /\ [Next]_vars => AwardInv'
  <2> SUFFICES ASSUME TypeOK, AwardInv, [Next]_vars PROVE AwardInv' OBVIOUS
  <2>1. CASE Tomorrow \/ Sync
    BY <2>1, QuietStep DEF Tomorrow, Sync, ruleVars, engineVars, redeemVars
  <2>2. CASE Crash
    <3>1. \A e \in Evaluations : eval'[e].pc # "write" BY <2>2 DEF Crash, Idle, Evaluation
    <3>2. \A h \in Handlers : handler'[h].pc # "write" BY <2>2 DEF Crash, NoRequest, Request
    <3> QED BY <2>2, <3>1, <3>2, QuietStep DEF Crash, engineVars
  <2>3. ASSUME NEW a \in Switchers, Toggle(a) PROVE AwardInv'
    <3>1. rule' = "deleted" <=> rule = "deleted" BY <2>3 DEF Toggle
    <3> QED BY <2>3, <3>1, QuietStep DEF Toggle, engineVars, redeemVars
  <2>4. ASSUME NEW e \in Evaluations, Evaluate(e) PROVE AwardInv'
    BY <2>4, EvaluateKeepsNumbers
  <2>5. ASSUME NEW c \in Connections, CloseConnection(c) PROVE AwardInv'
    BY <2>5, QuietStep DEF CloseConnection, ruleVars, engineVars, redeemVars
  <2>6. ASSUME NEW a \in Editors, ReadRule(a) \/ SaveVersion(a) \/ RemoveRule(a) \/ Delete(a)
        PROVE  AwardInv'
    BY <2>6, EditKeepsNumbers
  <2>7. ASSUME NEW h \in Handlers, WriteAward(h) PROVE AwardInv' BY <2>7, RequestKeepsNumbers
  <2>8. ASSUME NEW h \in Handlers, NEW op \in Operations, NEW v \in Versions, NEW i \in Cycles,
               ReadAward(h, op, v, i)
        PROVE  AwardInv'
    BY <2>8, RequestKeepsNumbers
  <2>9. CASE UNCHANGED vars
    BY <2>9, QuietStep DEF vars, ruleVars, engineVars, redeemVars
  <2> QED BY <2>1, <2>2, <2>3, <2>4, <2>5, <2>6, <2>7, <2>8, <2>9 DEF Next
<1> QED BY <1>1, <1>2, TypeCorrect, PTL DEF Spec

\* Whatever evaluations race, the unique index and progress keep the awards of a version
\* numbered without a gap.
THEOREM AwardsNumbered == Spec => []NoGaps
<1>1. AwardInv => NoGaps BY DEF AwardInv
<1> QED BY <1>1, AwardsInvariant, PTL

\* A rule with an award is never deleted: the foreign key decides, not the count before it.
THEOREM AwardsKept == Spec => []HistoryIsKept
<1>1. AwardInv => HistoryIsKept BY DEF AwardInv
<1> QED BY <1>1, AwardsInvariant, PTL

------------------------------------------------------------------------------
(* Credits *)

\* Two requests on one award are noticed.
RequestsApart == \A g, h \in Handlers :
  g # h /\ handler[g].pc = "write" /\ handler[h].pc = "write"
    /\ handler[g].version = handler[h].version /\ handler[g].cycle = handler[h].cycle
    => <<handler[g].version, handler[g].cycle>> \in contended

\* What a request found is still so, unless another one was about.
StillAllowed == \A h \in Handlers :
  handler[h].pc = "write" /\ <<handler[h].version, handler[h].cycle>> \notin contended
    => Allowed(handler[h].op, award[handler[h].version][handler[h].cycle])

CreditInv == CreditedOnce /\ RequestsApart /\ StillAllowed

\* Awards that exist, credits and requests stay, or requests end.
LEMMA CreditQuiet ==
  ASSUME TypeOK, AwardInv, CreditInv, UNCHANGED <<credits, contended>>,
         \A v \in Versions, i \in Cycles :
           award'[v][i] = award[v][i] \/ (award[v][i] = "none" /\ award'[v][i] # "PAID"),
         \A h \in Handlers : handler'[h] = handler[h] \/ handler'[h].pc # "write"
  PROVE  CreditInv'
<1>1. CreditedOnce' BY DEF CreditedOnce, CreditInv
<1>2. RequestsApart' BY DEF RequestsApart, CreditInv
<1>3. StillAllowed'
  <2> SUFFICES ASSUME NEW h \in Handlers, handler'[h].pc = "write",
                      <<handler'[h].version, handler'[h].cycle>> \notin contended
               PROVE  Allowed(handler'[h].op, award'[handler'[h].version][handler'[h].cycle])
    BY DEF StillAllowed, Allowed
  <2>1. handler'[h] = handler[h] OBVIOUS
  <2>2. /\ handler[h].version \in Versions /\ handler[h].cycle \in Cycles
        /\ award[handler[h].version][handler[h].cycle] # "none"
    BY <2>1 DEF TypeOK, RequestType, AwardInv, AwardInHand
  <2>3. award'[handler[h].version][handler[h].cycle] = award[handler[h].version][handler[h].cycle]
    BY <2>2
  <2> QED BY <2>1, <2>3 DEF StillAllowed, CreditInv
<1> QED BY <1>1, <1>2, <1>3 DEF CreditInv

LEMMA RequestKeepsCredits ==
  ASSUME TypeOK, AwardInv, CreditInv, NEW h \in Handlers,
         WriteAward(h) \/ \E op \in Operations, v \in Versions, i \in Cycles : ReadAward(h, op, v, i)
  PROVE  CreditInv'
<1>1. CASE WriteAward(h)
  <2> SUFFICES ASSUME NEW v \in Versions, v = handler[h].version,
                      NEW i \in Cycles, i = handler[h].cycle,
                      NEW op \in Operations, op = handler[h].op
               PROVE  CreditInv'
    BY <1>1 DEF WriteAward, TypeOK, RequestType, AwardInv, AwardInHand
  <2>1. /\ award' = [award EXCEPT ![v][i] = Outcome[op]]
        /\ credits' = [credits EXCEPT ![v][i] = IF op = "approve" THEN @ + 1 ELSE @]
        /\ handler' = [handler EXCEPT ![h] = NoRequest]
        /\ contended' = contended /\ handler[h].pc = "write"
    BY <1>1 DEF WriteAward
  <2>2. \A g \in Handlers : handler'[g].pc = "write" => g # h /\ handler'[g] = handler[g]
    BY <2>1 DEF TypeOK, NoRequest, Request
  <2>3. RequestsApart' BY <2>1, <2>2 DEF RequestsApart, CreditInv
  <2>4. StillAllowed'
    <3> SUFFICES ASSUME NEW g \in Handlers, handler'[g].pc = "write",
                        <<handler'[g].version, handler'[g].cycle>> \notin contended
                 PROVE  Allowed(handler'[g].op, award'[handler'[g].version][handler'[g].cycle])
      BY <2>1 DEF StillAllowed, Allowed
    <3>1. g # h /\ handler'[g] = handler[g] BY <2>2
    <3>2. handler[g].version \in Versions /\ handler[g].cycle \in Cycles
      BY <3>1 DEF TypeOK, RequestType, AwardInv, AwardInHand
    <3>3. handler[g].version # v \/ handler[g].cycle # i
      BY <2>1, <3>1 DEF RequestsApart, CreditInv
    <3>4. award'[handler[g].version][handler[g].cycle] = award[handler[g].version][handler[g].cycle]
      BY <2>1, <3>2, <3>3 DEF TypeOK
    <3> QED BY <3>1, <3>4 DEF StillAllowed, CreditInv
  <2>5. CreditedOnce'
    <3> SUFFICES ASSUME NEW w \in Versions, NEW j \in Cycles, <<w, j>> \notin contended
                 PROVE  credits'[w][j] = IF award'[w][j] = "PAID" THEN 1 ELSE 0
      BY <2>1 DEF CreditedOnce
    <3>1. CASE w = v /\ j = i
      <4>1. Allowed(op, award[v][i]) BY <3>1, <2>1 DEF StillAllowed, CreditInv
      <4>2. award[v][i] # "PAID" BY <4>1 DEF Allowed, Operations
      <4>3. credits[v][i] = 0 BY <4>2, <3>1 DEF CreditedOnce, CreditInv
      <4>4. award'[v][i] = Outcome[op] BY <2>1 DEF TypeOK
      <4>5. credits'[v][i] = IF op = "approve" THEN 1 ELSE 0
        <5>1. credits'[v][i] = IF op = "approve" THEN credits[v][i] + 1 ELSE credits[v][i]
          BY <2>1 DEF TypeOK
        <5> QED BY <5>1, <4>3
      <4>6. Outcome[op] = "PAID" <=> op = "approve" BY DEF Outcome, Operations
      <4> QED BY <3>1, <4>4, <4>5, <4>6
    <3>2. CASE w # v \/ j # i
      <4>1. award'[w][j] = award[w][j] /\ credits'[w][j] = credits[w][j]
        BY <3>2, <2>1 DEF TypeOK
      <4> QED BY <4>1 DEF CreditedOnce, CreditInv
    <3> QED BY <3>1, <3>2
  <2> QED BY <2>3, <2>4, <2>5 DEF CreditInv
<1>2. ASSUME NEW op \in Operations, NEW v \in Versions, NEW i \in Cycles, ReadAward(h, op, v, i)
      PROVE  CreditInv'
  <2>1. /\ handler' = [handler EXCEPT ![h] = Request("write", op, v, i)]
        /\ contended' = contended \cup (IF InHand(v, i) THEN {<<v, i>>} ELSE {})
        /\ UNCHANGED <<award, credits>> /\ Allowed(op, award[v][i]) /\ handler[h].pc = "idle"
    BY <1>2 DEF ReadAward, engineVars
  <2>2. /\ handler'[h] = Request("write", op, v, i)
        /\ \A g \in Handlers \ {h} : handler'[g] = handler[g]
    BY <2>1 DEF TypeOK
  <2>3. contended \subseteq contended' BY <2>1
  <2>4. \A g \in Handlers \ {h} :
          handler[g].pc = "write" /\ handler[g].version = v /\ handler[g].cycle = i
            => <<v, i>> \in contended'
    BY <2>1 DEF InHand
  <2>5. CreditedOnce' BY <2>1, <2>3 DEF CreditedOnce, CreditInv
  <2>6. RequestsApart'
    <3> SUFFICES ASSUME NEW f \in Handlers, NEW g \in Handlers, f # g,
                        handler'[f].pc = "write", handler'[g].pc = "write",
                        handler'[f].version = handler'[g].version,
                        handler'[f].cycle = handler'[g].cycle
                 PROVE  <<handler'[f].version, handler'[f].cycle>> \in contended'
      BY DEF RequestsApart
    <3>1. CASE f = h BY <3>1, <2>2, <2>4 DEF Request
    <3>2. CASE g = h BY <3>2, <2>2, <2>4 DEF Request
    <3>3. CASE f # h /\ g # h BY <3>3, <2>2, <2>3 DEF RequestsApart, CreditInv
    <3> QED BY <3>1, <3>2, <3>3
  <2>7. StillAllowed'
    <3> SUFFICES ASSUME NEW g \in Handlers, handler'[g].pc = "write",
                        <<handler'[g].version, handler'[g].cycle>> \notin contended'
                 PROVE  Allowed(handler'[g].op, award[handler'[g].version][handler'[g].cycle])
      BY <2>1 DEF StillAllowed, Allowed
    <3>1. CASE g = h BY <3>1, <2>1, <2>2 DEF Request
    <3>2. CASE g # h BY <3>2, <2>2, <2>3 DEF StillAllowed, CreditInv
    <3> QED BY <3>1, <3>2
  <2> QED BY <2>5, <2>6, <2>7 DEF CreditInv
<1> QED BY <1>1, <1>2

LEMMA CreditsInvariant == Spec => []CreditInv
<1>1. Init => CreditInv
  BY DEF Init, CreditInv, CreditedOnce, RequestsApart, StillAllowed, NoRequest, Request
<1>2. TypeOK /\ AwardInv /\ CreditInv /\ [Next]_vars => CreditInv'
  <2> SUFFICES ASSUME TypeOK, AwardInv, CreditInv, [Next]_vars PROVE CreditInv' OBVIOUS
  <2>1. CASE Tomorrow \/ Sync BY <2>1, CreditQuiet DEF Tomorrow, Sync, engineVars, redeemVars
  <2>2. CASE Crash
    <3>1. \A h \in Handlers : handler'[h].pc # "write" BY <2>2 DEF Crash, NoRequest, Request
    <3> QED BY <2>2, <3>1, CreditQuiet DEF Crash, engineVars
  <2>3. ASSUME NEW a \in Switchers, Toggle(a) PROVE CreditInv'
    BY <2>3, CreditQuiet DEF Toggle, engineVars, redeemVars
  <2>4. ASSUME NEW e \in Evaluations, Evaluate(e) PROVE CreditInv'
    <3>1. CASE Give(e)
      <4>1. \A v \in Versions, i \in Cycles :
              award'[v][i] = award[v][i] \/ (award[v][i] = "none" /\ award'[v][i] # "PAID")
        <5> SUFFICES ASSUME NEW v \in Versions, NEW i \in Cycles
                     PROVE  \/ award'[v][i] = award[v][i]
                            \/ award[v][i] = "none" /\ award'[v][i] # "PAID"
          OBVIOUS
        <5>1. CASE v = eval[e].version /\ i \in NewCycles(e)
          <6>1. i \notin Awarded(v) BY <3>1, <5>1 DEF Give
          <6>2. award'[v][i] = "AVAILABLE" BY <3>1, <5>1 DEF Give, TypeOK
          <6> QED BY <6>1, <6>2 DEF Awarded
        <5>2. CASE v # eval[e].version \/ i \notin NewCycles(e)
          BY <3>1, <5>2 DEF Give, TypeOK
        <5> QED BY <5>1, <5>2
      <4> QED BY <3>1, <4>1, CreditQuiet DEF Give, redeemVars
    <3>2. CASE ~Give(e)
      <4>1. UNCHANGED <<award, redeemVars>>
        BY <2>4, <3>2, NotInTotalsLeaves
        DEF Evaluate, StartCron, StartRecalc, Skip, Check, Count, ReadProgress, Refresh, Fail,
            Lock, Unlock, engineVars
      <4> QED BY <4>1, CreditQuiet DEF redeemVars
    <3> QED BY <3>1, <3>2
  <2>5. ASSUME NEW c \in Connections, CloseConnection(c) PROVE CreditInv'
    BY <2>5, CreditQuiet DEF CloseConnection, engineVars, redeemVars
  <2>6. ASSUME NEW a \in Editors, ReadRule(a) \/ SaveVersion(a) \/ RemoveRule(a) \/ Delete(a)
        PROVE  CreditInv'
    <3>1. UNCHANGED <<award, redeemVars>>
      BY <2>6 DEF ReadRule, SaveVersion, RemoveRule, Delete, engineVars
    <3> QED BY <3>1, CreditQuiet DEF redeemVars
  <2>7. ASSUME NEW h \in Handlers, WriteAward(h) PROVE CreditInv' BY <2>7, RequestKeepsCredits
  <2>8. ASSUME NEW h \in Handlers, NEW op \in Operations, NEW v \in Versions, NEW i \in Cycles,
               ReadAward(h, op, v, i)
        PROVE  CreditInv'
    BY <2>8, RequestKeepsCredits
  <2>9. CASE UNCHANGED vars BY <2>9, CreditQuiet DEF vars, engineVars, redeemVars
  <2> QED BY <2>1, <2>2, <2>3, <2>4, <2>5, <2>6, <2>7, <2>8, <2>9 DEF Next
<1> QED BY <1>1, <1>2, TypeCorrect, AwardsInvariant, PTL DEF Spec

\* Without two requests at once, a credit and PAID go together.
THEOREM CreditsMatch == Spec => []CreditedOnce
<1>1. CreditInv => CreditedOnce BY DEF CreditInv
<1> QED BY <1>1, CreditsInvariant, PTL

------------------------------------------------------------------------------
(* What the versions counted *)

\* A day before all versions that came after v.
Before(day, v) == \A w \in Versions : v < w /\ w <= last => day < version[w].from

\* Versions to come have nothing and are not evaluated; all but the last are superseded.
Fresh ==
  /\ \A v \in Versions : v > last => Awarded(v) = {} /\ counted[v] = {}
  /\ \A v \in Versions : v < last => version[v].superseded
  /\ \A e \in Evaluations : eval[e].version <= last

\* Nothing is known or counted before its day.
PastOnly ==
  /\ \A c \in known : CpaDay[c] <= today
  /\ \A v \in Versions : \A c \in counted[v] : CpaDay[c] <= today
  /\ \A e \in Evaluations :
       /\ eval[e].pc = "count" => eval[e].day <= today
       /\ eval[e].pc \in {"read", "write"} => \A c \in eval[e].seen : CpaDay[c] <= today

\* What a version counted, or is about to, lies between its start and the next one's.
InTurn ==
  /\ \A v \in Versions : \A c \in counted[v] :
       version[v].from <= CpaDay[c] /\ Before(CpaDay[c], v)
  /\ \A e \in Evaluations :
       /\ eval[e].pc = "count" => Before(eval[e].day, eval[e].version)
       /\ eval[e].pc \in {"read", "write"} => \A c \in eval[e].seen :
            version[eval[e].version].from <= CpaDay[c] /\ Before(CpaDay[c], eval[e].version)

CountInv == AwardsEarned /\ Fresh /\ PastOnly /\ (~straddled /\ ~sameDay => InTurn)

LEMMA CountedFacts ==
  ASSUME TypeOK
  PROVE  /\ today \in Nat /\ last \in Nat /\ last \in Versions
         /\ \A c \in Cpas : CpaDay[c] \in Nat
         /\ \A v \in Versions : version[v].from \in Nat /\ version[v].meta \in Nat
                                /\ counted[v] \subseteq Cpas
BY Constants DEF TypeOK, VersionType

LEMMA CyclesFinite == IsFiniteSet(Cycles)
<1> DEFINE n == Cardinality(Cpas)
<1>1. n \in Nat /\ Cycles = 1..n BY Constants DEF Cycles
<1> HIDE DEF n
<1>2. IsFiniteSet(1..n)
  <2>1. 1 \in Int /\ n \in Int BY <1>1
  <2> QED BY ONLY <2>1, FS_Interval
<1> QED BY <1>1, <1>2

\* Steps that count nothing and make no version.
LEMMA NothingCounted ==
  ASSUME TypeOK, CountInv, UNCHANGED <<last, version, counted, sameDay, straddled>>,
         today' \in Nat, today <= today', \A c \in known' : CpaDay[c] <= today',
         \A v \in Versions : Awarded(v)' = Awarded(v),
         \A e \in Evaluations :
           \/ eval'[e] = eval[e]
           \/ eval'[e].pc \notin {"count", "read", "write"} /\ eval'[e].version <= last
           \/ /\ eval[e].pc = "read" /\ eval'[e].pc = "write"
              /\ eval'[e].version = eval[e].version /\ eval'[e].seen = eval[e].seen
  PROVE  CountInv'
<1> USE CountedFacts
<1>1. AwardsEarned' BY DEF AwardsEarned, CountInv
<1>2. Fresh' BY DEF Fresh, CountInv
<1>3. PastOnly'
  <2>1. \A v \in Versions : \A c \in counted[v] : CpaDay[c] <= today'
    BY DEF CountInv, PastOnly
  <2>2. ASSUME NEW e \in Evaluations
        PROVE  /\ eval'[e].pc = "count" => eval'[e].day <= today'
               /\ eval'[e].pc \in {"read", "write"} => \A c \in eval'[e].seen : CpaDay[c] <= today'
    <3>1. eval[e].day \in Nat /\ eval[e].seen \subseteq Cpas BY EvaluationFacts, Constants
    <3>2. /\ eval[e].pc = "count" => eval[e].day <= today
          /\ eval[e].pc \in {"read", "write"} => \A c \in eval[e].seen : CpaDay[c] <= today
      BY DEF CountInv, PastOnly
    <3>3. CASE eval'[e] = eval[e] BY <3>1, <3>2, <3>3
    <3>4. CASE eval'[e] # eval[e] BY <3>1, <3>2, <3>4
    <3> QED BY <3>3, <3>4
  <2> QED BY <2>1, <2>2 DEF PastOnly
<1>4. ASSUME ~straddled, ~sameDay PROVE InTurn'
  <2>1. InTurn BY <1>4 DEF CountInv
  <2>2. \A d, v : Before(d, v)' <=> Before(d, v) BY DEF Before
  <2>3. ASSUME NEW e \in Evaluations
        PROVE  /\ eval'[e].pc = "count" => Before(eval'[e].day, eval'[e].version)
               /\ eval'[e].pc \in {"read", "write"} => \A c \in eval'[e].seen :
                    /\ version[eval'[e].version].from <= CpaDay[c]
                    /\ Before(CpaDay[c], eval'[e].version)
    BY <2>1 DEF InTurn
  <2> QED BY <2>1, <2>2, <2>3 DEF InTurn
<1> QED BY <1>1, <1>2, <1>3, <1>4 DEF CountInv

\* An evaluation adds what it has seen to what its version counted.
LEMMA SeenIsCounted ==
  ASSUME TypeOK, CountInv, NEW e \in Evaluations, eval[e].pc = "write", Remember(e), Leave(e),
         UNCHANGED <<today, known, last, version, sameDay, straddled>>,
         NEW v \in Versions, v = eval[e].version, NEW n \in Nat, n = Earned(e),
         \A w \in Versions \ {v} : Awarded(w)' = Awarded(w),
         Awarded(v)' = Awarded(v) \/ Awarded(v)' = 1..n
  PROVE  CountInv'
<1> USE CountedFacts
<1> SUFFICES ASSUME NEW seen \in SUBSET Cpas, seen = eval[e].seen
             PROVE  CountInv'
  BY EvaluationFacts
<1>1. /\ counted'[v] = counted[v] \cup seen
      /\ \A w \in Versions \ {v} : counted'[w] = counted[w]
  BY DEF Remember, TypeOK
<1>2. \A d \in Evaluations :
        eval'[d] = eval[d] \/ (eval'[d].pc = "unlock" /\ eval'[d].version = eval[d].version)
  BY DEF Leave, Evaluation, TypeOK
<1>3. /\ \A c \in seen : CpaDay[c] <= today
      /\ v <= last
  BY DEF CountInv, PastOnly, Fresh
<1>4. AwardsEarned'
  <2> SUFFICES ASSUME NEW w \in Versions
               PROVE  Cardinality(Awarded(w)') * version[w].meta <= Cardinality(counted'[w])
    BY DEF AwardsEarned
  <2>0. Cardinality(Awarded(w)) * version[w].meta <= Cardinality(counted[w])
    BY DEF CountInv, AwardsEarned
  <2>1. CASE w # v BY <2>0, <2>1, <1>1
  <2>2. CASE w = v
    <3>1. IsFiniteSet(counted'[v]) /\ counted[v] \subseteq counted'[v] /\ seen \subseteq counted'[v]
      BY <1>1, PrizeAssumption, FS_Subset
    <3>2. /\ Cardinality(counted'[v]) \in Nat
          /\ Cardinality(counted[v]) \in Nat /\ Cardinality(seen) \in Nat
          /\ Cardinality(counted[v]) <= Cardinality(counted'[v])
          /\ Cardinality(seen) <= Cardinality(counted'[v])
      BY <3>1, FS_Subset, FS_CardinalityType
    <3>3. CASE Awarded(v)' = Awarded(v)
      <4>1. Cardinality(Awarded(v)) \in Nat
        <5>1. Awarded(v) \subseteq Cycles BY DEF Awarded
        <5> QED BY <5>1, CyclesFinite, FS_Subset, FS_CardinalityType
      <4> DEFINE k == Cardinality(Awarded(v))  m == version[v].meta
      <4>2. k * m \in Nat /\ k * m <= Cardinality(counted[v])
        <5>1. k \in Nat /\ m \in Nat BY <4>1
        <5>2. k * m <= Cardinality(counted[v]) BY <2>0, <2>2
        <5> HIDE DEF k, m
        <5>3. k * m \in Nat BY <5>1
        <5> QED BY <5>2, <5>3
      <4>3. Cardinality(Awarded(w)') * version[w].meta = k * m BY <2>2, <3>3
      <4> HIDE DEF k, m
      <4> QED BY <4>2, <4>3, <3>2, <2>2
    <3>4. CASE Awarded(v)' = 1..n
      <4> DEFINE m == version[v].meta
      <4>1. m \in Nat /\ n * m <= Cardinality(seen)
        <5>1. Earned(e) * version[eval[e].version].meta <= Cardinality(eval[e].seen)
          BY EarnedBounded
        <5>2. Earned(e) = n /\ version[eval[e].version].meta = m /\ eval[e].seen = seen OBVIOUS
        <5> HIDE DEF m
        <5>3. n * m <= Cardinality(seen) BY ONLY <5>1, <5>2
        <5>4. m \in Nat BY DEF m
        <5> QED BY ONLY <5>3, <5>4
      <4>2. Cardinality(1..n) = n BY FS_Interval
      <4>3. Cardinality(Awarded(w)') * version[w].meta = n * m BY <2>2, <3>4, <4>2
      <4> HIDE DEF m
      <4>4. n * m \in Nat BY <4>1
      <4> QED BY <4>1, <4>3, <4>4, <3>2, <2>2
    <3> QED BY <3>3, <3>4
  <2> QED BY <2>1, <2>2
<1>5. Fresh'
  <2>1. ASSUME NEW w \in Versions, w > last PROVE Awarded(w)' = {} /\ counted'[w] = {}
    <3>1. w # v BY <1>3, <2>1, Constants
    <3> QED BY <2>1, <3>1, <1>1 DEF CountInv, Fresh
  <2> QED BY <2>1, <1>2 DEF CountInv, Fresh
<1>6. PastOnly' BY <1>1, <1>2, <1>3 DEF CountInv, PastOnly
<1>7. ASSUME ~straddled, ~sameDay PROVE InTurn'
  <2>1. InTurn BY <1>7 DEF CountInv
  <2>2. \A d, w : Before(d, w)' <=> Before(d, w) BY DEF Before
  <2>3. \A c \in seen : version[v].from <= CpaDay[c] /\ Before(CpaDay[c], v)
    BY <2>1 DEF InTurn
  <2>4. \A w \in Versions : \A c \in counted'[w] :
          version[w].from <= CpaDay[c] /\ Before(CpaDay[c], w)
    BY <2>1, <2>3, <1>1 DEF InTurn
  <2>5. ASSUME NEW d \in Evaluations
        PROVE  /\ eval'[d].pc = "count" => Before(eval'[d].day, eval'[d].version)
               /\ eval'[d].pc \in {"read", "write"} => \A c \in eval'[d].seen :
                    /\ version[eval'[d].version].from <= CpaDay[c]
                    /\ Before(CpaDay[c], eval'[d].version)
    BY <2>1, <1>2 DEF InTurn
  <2> QED BY <2>2, <2>4, <2>5 DEF InTurn
<1> QED BY <1>4, <1>5, <1>6, <1>7 DEF CountInv

LEMMA EvaluateCounts ==
  ASSUME TypeOK, AwardInv, AwardInv', CountInv, NEW e \in Evaluations, Evaluate(e)
  PROVE  CountInv'
<1> USE CountedFacts
<1> SUFFICES ASSUME NEW v \in Versions, v = eval[e].version PROVE CountInv'
  BY EvaluationFacts
<1>0. /\ v <= last /\ \A c \in known : CpaDay[c] <= today
  BY DEF CountInv, Fresh, PastOnly
<1>1. ASSUME UNCHANGED <<today, known, last, version, counted, sameDay, straddled, award>>,
             NEW pc \in {"idle", "lock", "check", "unlock"}, NEW w \in Versions, w <= last,
             NEW day, NEW seen, NEW already,
             eval' = [eval EXCEPT ![e] = Evaluation(pc, w, day, seen, already)]
      PROVE  CountInv'
  <2>1. /\ eval'[e].pc \notin {"count", "read", "write"} /\ eval'[e].version = w
        /\ \A d \in Evaluations \ {e} : eval'[d] = eval[d]
    BY <1>1 DEF Evaluation, TypeOK
  <2>2. \A w_1 \in Versions : Awarded(w_1)' = Awarded(w_1) BY <1>1 DEF Awarded
  <2> QED BY <1>0, <1>1, <2>1, <2>2, NothingCounted
<1>2. ASSUME UNCHANGED <<today, known, last, version, counted, sameDay, straddled, award>>,
             Leave(e)
      PROVE  CountInv'
  BY <1>0, <1>1, <1>2 DEF Leave
<1>3. CASE StartRecalc(e)
  <2>1. /\ eval' = [eval EXCEPT ![e] = Evaluation("lock", last, 1, {}, 0)]
        /\ UNCHANGED <<today, known, last, version, counted, sameDay, straddled, award>>
    BY <1>3 DEF StartRecalc, ruleVars, engineVars
  <2>2. last \in Versions /\ last <= last OBVIOUS
  <2> QED BY <2>1, <2>2, <1>1
<1>4. CASE Skip(e)
  <2>1. 1 \in Versions /\ 1 <= last BY Constants DEF Versions
  <2> QED BY <2>1, <1>1, <1>4 DEF Skip, Idle, ruleVars, engineVars
<1>5. CASE Check(e)
  <2>1. CASE rule = "deleted" \/ version[v].superseded
    BY <1>2, <1>5, <2>1 DEF Check, ruleVars, engineVars
  <2>2. CASE ~(rule = "deleted" \/ version[v].superseded)
    <3>1. v = last BY <2>2, <1>0, Constants DEF CountInv, Fresh
    <3>2. /\ eval' = [eval EXCEPT ![e] = Evaluation("count", v, today, {}, 0)]
          /\ UNCHANGED <<today, known, last, version, counted, sameDay, straddled, award>>
      BY <1>5, <2>2 DEF Check, ruleVars, engineVars
    <3>3. /\ eval'[e].pc = "count" /\ eval'[e].version = v /\ eval'[e].day = today
          /\ \A d \in Evaluations \ {e} : eval'[d] = eval[d]
      BY <3>2 DEF Evaluation, TypeOK
    <3>4. AwardsEarned'
      <4>1. \A w \in Versions : Awarded(w)' = Awarded(w) BY <3>2 DEF Awarded
      <4> QED BY <3>2, <4>1 DEF AwardsEarned, CountInv
    <3>5. Fresh'
      <4>1. \A w \in Versions : Awarded(w)' = Awarded(w) BY <3>2 DEF Awarded
      <4> QED BY <3>1, <3>2, <3>3, <4>1 DEF Fresh, CountInv
    <3>6. PastOnly' BY <3>2, <3>3 DEF PastOnly, CountInv
    <3>7. ASSUME ~straddled, ~sameDay PROVE InTurn'
      <4>1. InTurn BY <3>7 DEF CountInv
      <4>2. \A d, w : Before(d, w)' <=> Before(d, w) BY <3>2 DEF Before
      <4>3. Before(today, v) BY <3>1, Constants DEF Before
      <4> QED BY <3>2, <3>3, <4>1, <4>2, <4>3 DEF InTurn
    <3> QED BY <3>2, <3>4, <3>5, <3>6, <3>7 DEF CountInv
  <2> QED BY <2>1, <2>2
<1>6. CASE Count(e)
  <2> SUFFICES ASSUME NEW seen \in SUBSET Cpas, seen = InWindow(v) PROVE CountInv'
    BY DEF InWindow, TypeOK
  <2>1. /\ eval' = [eval EXCEPT ![e] = Evaluation("read", v, 1, seen, 0)]
        /\ UNCHANGED <<today, known, last, version, counted, sameDay, award>>
        /\ straddled' = (straddled \/ eval[e].day # today) /\ eval[e].pc = "count"
    BY <1>6 DEF Count, ruleVars, engineVars
  <2>2. /\ eval'[e].pc = "read" /\ eval'[e].version = v /\ eval'[e].seen = seen
        /\ \A d \in Evaluations \ {e} : eval'[d] = eval[d]
    BY <2>1 DEF Evaluation, TypeOK
  <2>3. \A c \in seen : version[v].from <= CpaDay[c] /\ CpaDay[c] <= today
    BY <1>0 DEF InWindow
  <2>4. \A w \in Versions : Awarded(w)' = Awarded(w) BY <2>1 DEF Awarded
  <2>5. AwardsEarned' BY <2>1, <2>4 DEF AwardsEarned, CountInv
  <2>6. Fresh' BY <1>0, <2>1, <2>2, <2>4 DEF Fresh, CountInv
  <2>7. PastOnly' BY <2>1, <2>2, <2>3 DEF PastOnly, CountInv
  <2>8. ASSUME ~straddled', ~sameDay PROVE InTurn'
    <3>1. InTurn /\ eval[e].day = today BY <2>1, <2>8 DEF CountInv
    <3>2. \A d, w : Before(d, w)' <=> Before(d, w) BY <2>1 DEF Before
    <3>3. Before(today, v) BY <2>1, <3>1 DEF InTurn
    <3>4. \A c \in seen : Before(CpaDay[c], v) BY <2>3, <3>3 DEF Before
    <3> QED BY <2>1, <2>2, <2>3, <3>1, <3>2, <3>4 DEF InTurn
  <2> QED BY <2>1, <2>5, <2>6, <2>7, <2>8 DEF CountInv
<1>7. CASE ReadProgress(e)
  <2>1. UNCHANGED <<today, known, last, version, counted, sameDay, straddled, award>>
    BY <1>7 DEF ReadProgress, ruleVars, engineVars
  <2>2. /\ eval[e].pc = "read" /\ eval'[e].pc = "write"
        /\ eval'[e].version = eval[e].version /\ eval'[e].seen = eval[e].seen
        /\ \A d \in Evaluations \ {e} : eval'[d] = eval[d]
    BY <1>7 DEF ReadProgress, Evaluation, TypeOK
  <2>3. \A w \in Versions : Awarded(w)' = Awarded(w) BY <2>1 DEF Awarded
  <2> QED BY <1>0, <2>1, <2>2, <2>3, NothingCounted
<1>8. CASE Refresh(e)
  <2>1. /\ eval[e].pc = "write" /\ Remember(e) /\ Leave(e)
        /\ UNCHANGED <<today, known, last, version, sameDay, straddled, award>>
    BY <1>8 DEF Refresh, ruleVars
  <2>2. \A w \in Versions : Awarded(w)' = Awarded(w) BY <2>1 DEF Awarded
  <2>3. Earned(e) \in Nat BY EarnedBounded
  <2> QED BY <2>1, <2>2, <2>3, SeenIsCounted
<1>9. CASE Give(e)
  <2>1. /\ eval[e].pc = "write" /\ Remember(e) /\ Leave(e)
        /\ UNCHANGED <<today, known, last, version, sameDay, straddled>>
        /\ progress' = [progress EXCEPT ![v] = Earned(e)]
        /\ \A w \in Versions \ {v} : award'[w] = award[w]
    BY <1>9 DEF Give, ruleVars, TypeOK
  <2>2. Earned(e) \in Nat BY EarnedBounded
  <2>3. \A w \in Versions \ {v} : Awarded(w)' = Awarded(w) BY <2>1 DEF Awarded
  <2> SUFFICES ASSUME NEW n \in Nat, n = Earned(e) PROVE CountInv' BY <2>2
  <2>4. progress'[v] = n /\ n # None BY <2>1, Constants DEF TypeOK
  <2>5. Awarded(v)' = 1..n BY <2>4 DEF AwardInv, NoGaps
  <2> QED BY <2>1, <2>3, <2>5, SeenIsCounted
<1>10. CASE Fail(e) BY <1>2, <1>10 DEF Fail, ruleVars, engineVars
<1>11. ASSUME NEW c \in Connections, Lock(e, c) PROVE CountInv'
  BY <1>0, <1>1, <1>11 DEF Lock, ruleVars, engineVars
<1>12. ASSUME NEW c \in Connections, Unlock(e, c) PROVE CountInv'
  <2>1. 1 \in Versions /\ 1 <= last BY Constants DEF Versions
  <2> QED BY <2>1, <1>1, <1>12 DEF Unlock, Idle, ruleVars, engineVars
<1> QED BY <1>3, <1>4, <1>5, <1>6, <1>7, <1>8, <1>9, <1>10, <1>11, <1>12, NotInTotalsLeaves
     DEF Evaluate, StartCron

\* The next version starts after all that was counted, unless it applies the same day.
LEMMA VersionCounts ==
  ASSUME TypeOK, CountInv, NEW a \in Editors, SaveVersion(a)
  PROVE  CountInv'
<1> USE CountedFacts
<1>0. UNCHANGED <<today, known, award, counted, eval, straddled>>
  BY DEF SaveVersion, engineVars
<1>1. \A v \in Versions : Awarded(v)' = Awarded(v) BY <1>0 DEF Awarded
<1>2. \A c \in known : CpaDay[c] <= today BY DEF CountInv, PastOnly
<1>3. CASE rule = "deleted" \/ last # edit[a].version \/ last = MaxVersion
  <2>1. UNCHANGED <<last, version, sameDay>> BY <1>3 DEF SaveVersion
  <2> QED BY <1>0, <1>1, <1>2, <2>1, NothingCounted
<1>4. CASE ~(rule = "deleted" \/ last # edit[a].version \/ last = MaxVersion)
  <2>1. PICK same \in BOOLEAN, meta \in Metas, start \in Starts, to \in Ends :
          /\ last' = last + 1
          /\ version' = [version EXCEPT ![last].superseded = TRUE,
               ![last + 1] = Version(LaterOf(start, IF same THEN today ELSE today + 1),
                                     to, meta, FALSE)]
          /\ sameDay' = (sameDay \/ same)
    BY <1>4 DEF SaveVersion
  <2> DEFINE from == LaterOf(start, IF same THEN today ELSE today + 1)
  <2>2. start \in Nat BY PrizeAssumption
  <2>3. from \in Nat /\ (~same => today < from) BY <2>2 DEF LaterOf
  <2>4. last + 1 \in Versions
    <3>1. last # MaxVersion BY <1>4
    <3> QED BY <3>1, PrizeAssumption DEF Versions
  <2> HIDE DEF from
  <2>5. /\ version'[last + 1].from = from
        /\ version'[last].superseded
        /\ \A v \in Versions \ {last + 1} :
             version'[v].from = version[v].from /\ version'[v].meta = version[v].meta
             /\ (v # last => version'[v] = version[v])
    BY <2>1, <2>4 DEF TypeOK, VersionType, Version, from
  <2>6. Awarded(last + 1) = {} /\ counted[last + 1] = {} BY <2>4 DEF CountInv, Fresh
  <2>7. AwardsEarned'
    <3> SUFFICES ASSUME NEW v \in Versions
                 PROVE  Cardinality(Awarded(v)') * version'[v].meta <= Cardinality(counted[v])
      BY <1>0 DEF AwardsEarned
    <3>1. CASE v = last + 1
      <4>1. Cardinality(Awarded(v)') = 0 /\ Cardinality(counted[v]) = 0
        BY <3>1, <1>1, <2>6, FS_EmptySet
      <4>2. version'[v].meta \in Nat
        BY <3>1, <2>1, <2>4, PrizeAssumption DEF TypeOK, VersionType, Version
      <4> QED BY <4>1, <4>2
    <3>2. CASE v # last + 1 BY <3>2, <1>1, <2>5 DEF CountInv, AwardsEarned
    <3> QED BY <3>1, <3>2
  <2>8. Fresh'
    <3>1. \A v \in Versions : v > last + 1 => Awarded(v)' = {} /\ counted'[v] = {}
      BY <1>0, <1>1, Constants DEF CountInv, Fresh
    <3>2. \A v \in Versions : v < last + 1 => version'[v].superseded
      BY <2>5, Constants DEF CountInv, Fresh
    <3>3. \A e \in Evaluations : eval'[e].version <= last + 1
      <4> SUFFICES ASSUME NEW e \in Evaluations PROVE eval[e].version <= last + 1 BY <1>0
      <4>1. eval[e].version \in Nat BY EvaluationFacts, Constants
      <4>2. eval[e].version <= last BY DEF CountInv, Fresh
      <4> QED BY <4>1, <4>2
    <3> QED BY <3>1, <3>2, <3>3, <2>1 DEF Fresh
  <2>9. PastOnly' BY <1>0 DEF PastOnly, CountInv
  <2>10. ASSUME ~straddled, ~sameDay' PROVE InTurn'
    <3>1. InTurn /\ today < from BY <2>1, <2>3, <2>10 DEF CountInv
    <3>2. \A v \in Versions, d \in Nat : d <= today /\ Before(d, v) => Before(d, v)'
      <4> SUFFICES ASSUME NEW v \in Versions, NEW d \in Nat, d <= today, Before(d, v),
                          NEW w \in Versions, v < w, w <= last + 1
                   PROVE  d < version'[w].from
        BY <2>1 DEF Before
      <4>1. CASE w = last + 1 BY <4>1, <2>3, <2>5, <3>1
      <4>2. CASE w # last + 1
        <5>1. w <= last
          <6>1. w \in Nat /\ last \in Nat /\ w <= last + 1 /\ w # last + 1 BY <4>2, Constants
          <6> QED BY ONLY <6>1
        <5> QED BY <5>1, <4>2, <2>5 DEF Before
      <4> QED BY <4>1, <4>2
    <3>3. ASSUME NEW v \in Versions, NEW c \in counted[v]
          PROVE  version'[v].from <= CpaDay[c] /\ Before(CpaDay[c], v)'
      <4>1. v # last + 1 /\ CpaDay[c] \in Nat BY <2>6, <3>3
      <4>2. CpaDay[c] <= today /\ version[v].from <= CpaDay[c] /\ Before(CpaDay[c], v)
        BY <3>1 DEF CountInv, PastOnly, InTurn
      <4> QED BY <4>1, <4>2, <3>2, <2>5
    <3>4. ASSUME NEW e \in Evaluations, eval[e].pc = "count"
          PROVE  Before(eval[e].day, eval[e].version)'
      <4>1. eval[e].day \in Nat /\ eval[e].version \in Versions BY EvaluationFacts, Constants
      <4>2. eval[e].day <= today /\ Before(eval[e].day, eval[e].version)
        BY <3>1, <3>4 DEF CountInv, PastOnly, InTurn
      <4> SUFFICES ASSUME NEW d \in Nat, d = eval[e].day, NEW v \in Versions, v = eval[e].version
                   PROVE  Before(d, v)'
        BY <4>1, <1>0
      <4> QED BY <4>2, <3>2
    <3>5. ASSUME NEW e \in Evaluations, eval[e].pc \in {"read", "write"}, NEW c \in eval[e].seen
          PROVE  version'[eval[e].version].from <= CpaDay[c]
                 /\ Before(CpaDay[c], eval[e].version)'
      <4>1. c \in Cpas /\ eval[e].version \in Versions BY EvaluationFacts
      <4>2. /\ CpaDay[c] <= today /\ version[eval[e].version].from <= CpaDay[c]
            /\ Before(CpaDay[c], eval[e].version)
        BY <3>1, <3>5 DEF CountInv, PastOnly, InTurn
      <4>3. eval[e].version # last + 1
        <5>1. eval[e].version <= last BY DEF CountInv, Fresh
        <5> QED BY <5>1
      <4> SUFFICES ASSUME NEW v \in Versions, v = eval[e].version
                   PROVE  version'[v].from <= CpaDay[c] /\ Before(CpaDay[c], v)'
        BY <4>1, <1>0
      <4> QED BY <4>1, <4>2, <4>3, <3>2, <2>5
    <3> QED BY <1>0, <3>3, <3>4, <3>5 DEF InTurn
  <2> QED BY <1>0, <2>1, <2>7, <2>8, <2>9, <2>10 DEF CountInv
<1> QED BY <1>3, <1>4

LEMMA CountsInvariant == Spec => []CountInv
<1>1. Init => CountInv
  <2> SUFFICES ASSUME Init PROVE CountInv OBVIOUS
  <2>1. \A v \in Versions : Awarded(v) = {} /\ counted[v] = {} BY DEF Init, Awarded
  <2>2. \A e \in Evaluations : eval[e].pc = "idle" /\ eval[e].version = 1
    BY DEF Init, Idle, Evaluation
  <2>3. last = 1 /\ known = {} BY DEF Init
  <2>4. \A v \in Versions : version[v].meta \in Nat BY InitTyped DEF TypeOK, VersionType
  <2>5. AwardsEarned
    <3>1. Cardinality({}) = 0 BY FS_EmptySet
    <3>2. \A m \in Nat : 0 * m <= 0 OBVIOUS
    <3> SUFFICES ASSUME NEW v \in Versions
                 PROVE  Cardinality(Awarded(v)) * version[v].meta <= Cardinality(counted[v])
      BY DEF AwardsEarned
    <3>3. Awarded(v) = {} /\ counted[v] = {} /\ version[v].meta \in Nat BY <2>1, <2>4
    <3> QED BY <3>1, <3>2, <3>3
  <2>6. Fresh BY <2>1, <2>2, <2>3 DEF Fresh, Versions
  <2>7. PastOnly BY <2>1, <2>2, <2>3 DEF PastOnly
  <2>8. InTurn BY <2>1, <2>2 DEF InTurn
  <2> QED BY <2>5, <2>6, <2>7, <2>8 DEF CountInv
<1>2. TypeOK /\ AwardInv /\ AwardInv' /\ CountInv /\ [Next]_vars => CountInv'
  <2> SUFFICES ASSUME TypeOK, AwardInv, AwardInv', CountInv, [Next]_vars PROVE CountInv' OBVIOUS
  <2> USE CountedFacts
  <2>0. \A c \in known : CpaDay[c] <= today BY DEF CountInv, PastOnly
  <2>a. award' = award => \A v \in Versions : Awarded(v)' = Awarded(v) BY DEF Awarded
  <2>1. CASE Tomorrow
    <3>1. today' = today + 1 /\ known' = known /\ UNCHANGED <<ruleVars, engineVars, eval, straddled>>
      BY <2>1 DEF Tomorrow
    <3>2. \A c \in known' : CpaDay[c] <= today' BY <2>0, <3>1 DEF TypeOK
    <3> QED BY <3>1, <3>2, <2>a, NothingCounted DEF ruleVars, engineVars
  <2>2. CASE Sync
    <3>1. UNCHANGED <<today, ruleVars, engineVars, eval, straddled>> BY <2>2 DEF Sync
    <3>2. \A c \in known' : CpaDay[c] <= today' BY <2>0, <2>2, <3>1 DEF Sync
    <3> QED BY <3>1, <3>2, <2>a, NothingCounted DEF ruleVars, engineVars
  <2>3. CASE Crash
    <3>1. \A e \in Evaluations : eval'[e].pc = "idle" /\ eval'[e].version = 1
      BY <2>3 DEF Crash, Idle, Evaluation
    <3>2. 1 <= last BY DEF Versions
    <3> QED BY <2>0, <2>3, <2>a, <3>1, <3>2, NothingCounted DEF Crash, engineVars
  <2>4. ASSUME NEW a \in Switchers, Toggle(a) PROVE CountInv'
    BY <2>0, <2>4, <2>a, NothingCounted DEF Toggle, engineVars
  <2>5. ASSUME NEW e \in Evaluations, Evaluate(e) PROVE CountInv' BY <2>5, EvaluateCounts
  <2>6. ASSUME NEW c \in Connections, CloseConnection(c) PROVE CountInv'
    BY <2>0, <2>6, <2>a, NothingCounted DEF CloseConnection, ruleVars, engineVars
  <2>7. ASSUME NEW a \in Editors, ReadRule(a) \/ RemoveRule(a) \/ Delete(a) PROVE CountInv'
    <3>1. UNCHANGED <<today, known, last, version, sameDay, award, counted, eval, straddled>>
      BY <2>7 DEF ReadRule, RemoveRule, Delete, engineVars
    <3> QED BY <2>0, <2>a, <3>1, NothingCounted
  <2>8. ASSUME NEW a \in Editors, SaveVersion(a) PROVE CountInv' BY <2>8, VersionCounts
  <2>9. ASSUME NEW h \in Handlers, WriteAward(h) PROVE CountInv'
    <3>1. UNCHANGED <<today, known, last, version, sameDay, counted, eval, straddled>>
      BY <2>9 DEF WriteAward, ruleVars
    <3>2. \A v \in Versions : Awarded(v)' = Awarded(v) BY <2>9, WriteKeepsAwards
    <3> QED BY <2>0, <3>1, <3>2, NothingCounted
  <2>10. ASSUME NEW h \in Handlers, NEW op \in Operations, NEW v \in Versions, NEW i \in Cycles,
                ReadAward(h, op, v, i)
         PROVE  CountInv'
    BY <2>0, <2>10, <2>a, NothingCounted DEF ReadAward, ruleVars, engineVars
  <2>11. CASE UNCHANGED vars
    BY <2>0, <2>11, <2>a, NothingCounted DEF vars, ruleVars, engineVars
  <2> QED BY <2>1, <2>2, <2>3, <2>4, <2>5, <2>6, <2>7, <2>8, <2>9, <2>10, <2>11 DEF Next
<1> QED BY <1>1, <1>2, TypeCorrect, AwardsInvariant, PTL DEF Spec

\* No version gives more than the CPAs it has counted earn, although evaluations race on
\* different totals and CPAs are corrected away.
THEOREM AwardsAreEarned == Spec => []AwardsEarned
<1>1. CountInv => AwardsEarned BY DEF CountInv
<1> QED BY <1>1, CountsInvariant, PTL

\* Versions share no CPA, but for same-day changes and evaluations across midnight.
THEOREM CountedByOneVersion == Spec => []CountedOnce
<1>1. TypeOK /\ CountInv => CountedOnce
  <2> SUFFICES ASSUME TypeOK, CountInv, ~straddled, ~sameDay,
                      NEW v \in Versions, NEW w \in Versions, v # w
               PROVE  counted[v] \cap counted[w] = {}
    BY DEF CountedOnce
  <2> USE CountedFacts
  <2>1. ASSUME NEW x \in Versions, NEW y \in Versions, x < y, NEW c \in counted[x], c \in counted[y]
        PROVE  FALSE
    <3>1. y <= last
      <4>1. ~(y > last) BY <2>1 DEF CountInv, Fresh
      <4>2. y \in Nat /\ last \in Nat BY Constants
      <4> QED BY ONLY <4>1, <4>2
    <3>2. CpaDay[c] < version[y].from /\ version[y].from <= CpaDay[c]
      BY <2>1, <3>1 DEF CountInv, InTurn, Before
    <3> QED BY <3>2
  <2>2. v < w \/ w < v BY Constants
  <2> QED BY <2>1, <2>2
<1> QED BY <1>1, TypeCorrect, CountsInvariant, PTL

------------------------------------------------------------------------------
(* Prizes are given and settled in one step each *)

AStep == [Account!Next]_Account!vars

\* What the account sees of the awards.
Standings == [v \in Versions |-> [i \in Cycles |-> Standing(award[v][i])]]
Prices == [v \in Versions |-> version[v].meta]

LEMMA StandingFacts ==
  /\ \A s \in Statuses \cup {"none"} : Standing(s) = "none" <=> s = "none"
  /\ \A s \in {"AVAILABLE", "REDEMPTION_REQUESTED"} : Standing(s) = "owed"
  /\ Standing("PAID") = "paid"
  /\ \A s \in {"REJECTED", "CANCELLED"} : Standing(s) = "void"
BY DEF Standing, Statuses

\* The account's awards are those of the table.
LEMMA GivenFacts ==
  ASSUME TypeOK, NEW v \in Versions
  PROVE  Account!Given(v) = Awarded(v)
<1>1. \A i \in Cycles : award[v][i] \in Statuses \cup {"none"} BY DEF TypeOK
<1> QED BY <1>1, StandingFacts DEF Account!Given, Awarded

\* Nothing the account consists of changes.
LEMMA AccountQuiet ==
  ASSUME UNCHANGED <<award, credits, counted, contended, version, straddled, sameDay>>,
         rule' = "deleted" <=> rule = "deleted"
  PROVE  AStep
<1>1. (rule = "deleted")' = (rule = "deleted") OBVIOUS
<1> QED BY <1>1 DEF AStep, Account!vars

\* The transaction of an evaluation is the step that counts and gives.
LEMMA AwardStep ==
  ASSUME TypeOK, TypeOK', AwardInv, AwardInv', CountInv', CountedOnce',
         NEW e \in Evaluations, Give(e) \/ Refresh(e)
  PROVE  AStep
<1> USE Constants
<1> SUFFICES ASSUME NEW v \in Versions, v = eval[e].version,
                    NEW seen \in SUBSET Cpas, seen = eval[e].seen
             PROVE  AStep
  BY EvaluationFacts
<1>0. /\ rule # "deleted" /\ rule' = rule /\ version' = version /\ credits' = credits
      /\ UNCHANGED <<contended, straddled, sameDay>>
      /\ counted' = [counted EXCEPT ![v] = @ \cup seen]
  BY DEF Give, Refresh, ruleVars, redeemVars, Remember
<1> DEFINE n == Given(v)'
<1>1. n \in Nat /\ Awarded(v)' = 1..n
  <2>1. Awarded(v)' = IF progress'[v] = None THEN {} ELSE 1..progress'[v]
    BY DEF AwardInv, NoGaps
  <2>2. progress'[v] \in Nat \cup {None} BY DEF TypeOK
  <2>3. 1..0 = {} OBVIOUS
  <2> QED BY <2>1, <2>2, <2>3 DEF Given
<1>2. /\ \A w \in Versions \ {v} : award'[w] = award[w]
      /\ \A i \in Cycles : award'[v][i] = award[v][i]
                           \/ (award[v][i] = "none" /\ award'[v][i] = "AVAILABLE")
  <2>1. CASE Give(e)
    <3>1. Awarded(v) \cap NewCycles(e) = {} BY <2>1 DEF Give
    <3> QED BY <2>1, <3>1 DEF Give, TypeOK, Awarded
  <2>2. CASE Refresh(e) BY <2>2 DEF Refresh
  <2> QED BY <2>1, <2>2
<1> HIDE DEF n
<1>3. n \in Cycles \cup {0}
  <2>1. Awarded(v)' \subseteq Cycles BY DEF Awarded
  <2>2. n # 0 => n \in 1..n BY <1>1
  <2> QED BY <1>1, <2>1, <2>2
<1>4. n * version[v].meta <= Cardinality(counted'[v])
  <2>1. Cardinality(Awarded(v)') * version'[v].meta <= Cardinality(counted'[v])
    BY DEF CountInv, AwardsEarned
  <2>2. Cardinality(1..n) = n BY <1>1, FS_Interval
  <2> QED BY <1>0, <1>1, <2>1, <2>2
<1>5. Awarded(v) \subseteq 1..n
  <2>1. \A i \in Cycles : award[v][i] # "none" => award'[v][i] # "none" BY <1>2
  <2> QED BY <1>1, <2>1 DEF Awarded
<1>6. ASSUME ~straddled, ~sameDay, NEW w \in Versions \ {v}
      PROVE  seen \cap counted[w] = {}
  <2>1. counted'[v] \cap counted'[w] = {} BY <1>0, <1>6 DEF CountedOnce
  <2>2. seen \subseteq counted'[v] /\ counted'[w] = counted[w] BY <1>0 DEF TypeOK
  <2> QED BY <2>1, <2>2
<1>7. \A i \in Cycles :
        Standing(award'[v][i]) = IF i \in (1..n) \ Awarded(v) THEN "owed"
                                 ELSE Standing(award[v][i])
  <2> SUFFICES ASSUME NEW i \in Cycles
               PROVE  Standing(award'[v][i]) = IF i \in (1..n) \ Awarded(v) THEN "owed"
                                               ELSE Standing(award[v][i])
    OBVIOUS
  <2>1. CASE i \in (1..n) \ Awarded(v)
    <3>1. award[v][i] = "none" /\ award'[v][i] # "none" BY <1>1, <2>1 DEF Awarded
    <3>2. award'[v][i] = "AVAILABLE" BY <1>2, <3>1
    <3> QED BY <2>1, <3>2, StandingFacts
  <2>2. CASE i \in Awarded(v)
    <3>1. award'[v][i] = award[v][i] BY <1>2, <2>2 DEF Awarded
    <3> QED BY <2>2, <3>1
  <2>3. CASE i \notin 1..n
    <3>1. award'[v][i] = "none" BY <1>1, <2>3 DEF Awarded
    <3>2. award'[v][i] = award[v][i] BY <1>2, <3>1
    <3> QED BY <2>3, <3>2
  <2> QED BY <2>1, <2>2, <2>3
<1>8. Standings' = [Standings EXCEPT ![v] =
        [i \in Cycles |-> IF i \in (1..n) \ Awarded(v) THEN "owed" ELSE Standings[v][i]]]
  <2>1. Standings[v] = [i \in Cycles |-> Standing(award[v][i])] BY DEF Standings
  <2>2. Standings'[v] =
          [i \in Cycles |-> IF i \in (1..n) \ Awarded(v) THEN "owed" ELSE Standings[v][i]]
    BY <1>7, <2>1 DEF Standings
  <2>3. \A w \in Versions \ {v} : Standings'[w] = Standings[w] BY <1>2 DEF Standings
  <2> QED BY <2>2, <2>3 DEF Standings
<1>9. Account!Award(v)
  <2>1. Account!Given(v) = Awarded(v) BY GivenFacts
  <2>2. Prices' = Prices /\ Prices[v] = version[v].meta BY <1>0 DEF Prices
  <2>3. n * Prices[v] <= Account!Cardinality(counted'[v])
    BY <1>4, <2>2 DEF Account!Cardinality, Cardinality
  <2>4. ~(rule = "deleted") /\ counted' = [counted EXCEPT ![v] = @ \cup seen] BY <1>0
  <2>5. UNCHANGED <<rule = "deleted", ~straddled /\ ~sameDay, Prices, credits, contended>>
    BY <1>0, <2>2
  <2>6. Standings' = [Standings EXCEPT ![v] =
          [i \in Cycles |-> IF i \in (1..n) \ Account!Given(v) THEN "owed"
                             ELSE Standings[v][i]]]
    BY <1>8, <2>1
  <2>7. ~straddled /\ ~sameDay => \A w \in Versions \ {v} : seen \cap counted[w] = {}
    BY <1>6
  <2>8. Account!Given(v) \subseteq 1..n BY <1>5, <2>1
  <2> QED BY ONLY <1>3, <2>3, <2>4, <2>5, <2>6, <2>7, <2>8, seen \in SUBSET Cpas, Zenon
       DEF Account!Award, Standings, Prices
<1> QED BY <1>9 DEF AStep, Account!Next

\* A new version has counted nothing yet.
LEMMA RepriceStep ==
  ASSUME TypeOK, TypeOK', CountInv, NEW a \in Editors, SaveVersion(a)
  PROVE  AStep
<1> USE Constants
<1>0. UNCHANGED <<rule, award, credits, counted, contended, straddled>>
  BY DEF SaveVersion, engineVars, redeemVars
<1>1. CASE UNCHANGED <<version, sameDay>> BY <1>0, <1>1, AccountQuiet
<1>2. CASE ~UNCHANGED <<version, sameDay>>
  <2>1. PICK same \in BOOLEAN, meta \in Metas, start \in Starts, to \in Ends :
          /\ version' = [version EXCEPT ![last].superseded = TRUE,
               ![last + 1] = Version(LaterOf(start, IF same THEN today ELSE today + 1),
                                     to, meta, FALSE)]
          /\ sameDay' = (sameDay \/ same)
          /\ last # MaxVersion
    BY <1>2 DEF SaveVersion
  <2>a. last \in Versions /\ last # MaxVersion BY <2>1 DEF TypeOK
  <2>2. last + 1 \in Versions /\ last + 1 > last /\ last \in Versions /\ last # last + 1
    BY ONLY <2>a, PrizeAssumption DEF Versions
  <2> SUFFICES ASSUME NEW v \in Versions, v = last + 1 PROVE AStep BY <2>2
  <2>3. \A w \in Versions \ {v} : version'[w].meta = version[w].meta
    <3> SUFFICES ASSUME NEW w \in Versions, w # v PROVE version'[w].meta = version[w].meta
      OBVIOUS
    <3>1. version[w] \in VersionType BY DEF TypeOK
    <3>2. version'[w] = IF w = last THEN [version[w] EXCEPT !.superseded = TRUE] ELSE version[w]
      BY <2>1, <2>2 DEF TypeOK
    <3> QED BY <3>1, <3>2 DEF VersionType
  <2>4. counted[v] = {} /\ Awarded(v) = {} BY <2>2 DEF CountInv, Fresh
  <2>5. Prices' \in [Versions -> Nat \ {0}] BY DEF Prices, TypeOK, VersionType
  <2>6. \A w \in Versions \ {v} : Prices'[w] = Prices[w] BY <2>3 DEF Prices
  <2>7. Account!Given(v) = Awarded(v) BY <2>2, GivenFacts
  <2>8. (~straddled' /\ ~sameDay') \in {~straddled /\ ~sameDay, FALSE}
    BY <1>0, <2>1
  <2>9. Account!Reprice(v)
    BY <1>0, <2>4, <2>5, <2>6, <2>7, <2>8 DEF Account!Reprice, Account!awardVars, Prices
  <2> QED BY <2>9 DEF AStep, Account!Next
<1> QED BY <1>1, <1>2

\* A request settles an award that is owed, or meets another request.
LEMMA SettleStep ==
  ASSUME TypeOK, AwardInv, CreditInv, NEW h \in Handlers, WriteAward(h)
  PROVE  AStep
<1> SUFFICES ASSUME NEW v \in Versions, v = handler[h].version,
                    NEW i \in Cycles, i = handler[h].cycle,
                    NEW op \in Operations, op = handler[h].op
             PROVE  AStep
  BY DEF WriteAward, TypeOK, RequestType, AwardInv, AwardInHand
<1> DEFINE s == Standing(Outcome[op])
<1>0. /\ award' = [award EXCEPT ![v][i] = Outcome[op]]
      /\ credits' = [credits EXCEPT ![v][i] = IF op = "approve" THEN @ + 1 ELSE @]
      /\ UNCHANGED <<rule, version, sameDay, counted, contended, straddled>>
      /\ handler[h].pc = "write"
  BY DEF WriteAward, ruleVars
<1>1. s \in {"owed", "paid", "void"} /\ (s = "paid" <=> op = "approve")
      /\ (s = "owed" <=> op = "redeem")
  BY StandingFacts DEF Outcome, Operations
<1> HIDE DEF s
<1>2. Standings' = [Standings EXCEPT ![v][i] = s]
  BY <1>0 DEF Standings, TypeOK, s
<1>3. credits' = [credits EXCEPT ![v][i] = IF s = "paid" THEN @ + 1 ELSE @]
  BY <1>0, <1>1
<1>4. Account!Become(v, i, s)
  BY <1>0, <1>2, <1>3 DEF Account!Become, Standings
<1>5. CASE <<v, i>> \in contended
  <2>1. Account!Overrule(v, i) BY <1>1, <1>4, <1>5 DEF Account!Overrule
  <2> QED BY <2>1 DEF AStep, Account!Next
<1>6. CASE <<v, i>> \notin contended
  <2>1. Allowed(op, award[v][i]) BY <1>0, <1>6 DEF CreditInv, StillAllowed
  <2>2. Standings[v][i] = Standing(award[v][i]) BY DEF Standings
  <2>3. CASE Standings[v][i] = "owed" /\ s # "owed"
    <3>1. Account!Settle(v, i) BY <1>1, <1>4, <2>3 DEF Account!Settle, Standings
    <3> QED BY <3>1 DEF AStep, Account!Next
  <2>4. CASE ~(Standings[v][i] = "owed" /\ s # "owed")
    <3>1. s = Standings[v][i] /\ s # "paid"
      BY <1>1, <2>1, <2>2, <2>4, StandingFacts DEF Allowed, Operations, Outcome, s
    <3>2. Standings' = Standings BY <1>2, <3>1 DEF Standings
    <3>3. credits' = credits BY <1>3, <3>1 DEF TypeOK
    <3> QED BY <1>0, <3>2, <3>3 DEF AStep, Account!vars, Standings
  <2> QED BY <2>3, <2>4
<1> QED BY <1>5, <1>6

\* The promise of PrizeAccount: whatever evaluations, edits and requests overlap, prizes are
\* given against CPAs of their own version, settled for good and credited once, but for
\* the awards two requests were about at once.
THEOREM ImplementsAccount == Spec => AccountSpec
<1>1. Init => Account!Init
  <2> SUFFICES ASSUME Init PROVE Account!Init OBVIOUS
  <2>1. Prices \in [Versions -> Nat \ {0}]
    BY InitTyped DEF TypeOK, VersionType, Prices
  <2>2. Standings = [v \in Versions |-> [i \in Cycles |-> "none"]]
    BY StandingFacts DEF Init, Standings
  <2> QED BY <2>1, <2>2 DEF Init, Account!Init, Prices, Standings
<1>2. /\ TypeOK /\ AwardInv /\ CreditInv /\ CountInv
      /\ TypeOK' /\ AwardInv' /\ CountInv' /\ CountedOnce'
      /\ [Next]_vars
      => AStep
  <2> SUFFICES ASSUME TypeOK, AwardInv, CreditInv, CountInv,
                      TypeOK', AwardInv', CountInv', CountedOnce', [Next]_vars
               PROVE  AStep
    OBVIOUS
  <2>1. CASE Tomorrow \/ Sync \/ Crash
    BY <2>1, AccountQuiet DEF Tomorrow, Sync, Crash, ruleVars, engineVars, redeemVars
  <2>2. ASSUME NEW a \in Switchers, Toggle(a) PROVE AStep
    <3>1. rule' = "deleted" <=> rule = "deleted" BY <2>2 DEF Toggle
    <3> QED BY <2>2, <3>1, AccountQuiet DEF Toggle, engineVars, redeemVars
  <2>3. ASSUME NEW e \in Evaluations, Give(e) \/ Refresh(e) PROVE AStep
    BY <2>3, AwardStep
  <2>4. ASSUME NEW e \in Evaluations, Count(e) PROVE AStep
    <3>1. UNCHANGED <<rule, award, credits, counted, contended, version, sameDay>>
          /\ straddled' \in {straddled, TRUE}
      BY <2>4 DEF Count, ruleVars, engineVars, redeemVars, TypeOK
    <3>2. CASE straddled' = straddled BY <3>1, <3>2, AccountQuiet
    <3>3. CASE straddled' = TRUE
      <4>1. Account!Lapse BY <3>1, <3>3 DEF Account!Lapse, Account!awardVars
      <4> QED BY <4>1 DEF AStep, Account!Next
    <3> QED BY <3>1, <3>2, <3>3
  <2>5. ASSUME NEW e \in Evaluations, Evaluate(e), ~Give(e), ~Refresh(e), ~Count(e)
        PROVE  AStep
    <3>1. UNCHANGED <<rule, award, credits, counted, contended, version, straddled, sameDay>>
      BY <2>5, NotInTotalsLeaves DEF Evaluate, StartCron, StartRecalc, Skip, Check, ReadProgress, Fail, Lock,
                  Unlock, ruleVars, engineVars, redeemVars
    <3> QED BY <3>1, AccountQuiet
  <2>6. ASSUME NEW c \in Connections, CloseConnection(c) PROVE AStep
    BY <2>6, AccountQuiet DEF CloseConnection, ruleVars, engineVars, redeemVars
  <2>7. ASSUME NEW a \in Editors, ReadRule(a) \/ RemoveRule(a) PROVE AStep
    <3>1. rule' = "deleted" <=> rule = "deleted" BY <2>7 DEF ReadRule, RemoveRule
    <3> QED BY <2>7, <3>1, AccountQuiet DEF ReadRule, RemoveRule, engineVars, redeemVars
  <2>8. ASSUME NEW a \in Editors, SaveVersion(a) PROVE AStep BY <2>8, RepriceStep
  <2>9. ASSUME NEW a \in Editors, Delete(a) PROVE AStep
    <3>1. UNCHANGED <<award, credits, counted, contended, version, straddled, sameDay>>
      BY <2>9 DEF Delete, redeemVars
    <3>2. CASE \A v \in Versions : Awarded(v) = {}
      <4>1. rule' = "deleted" BY <2>9, <3>2 DEF Delete
      <4>2. \A v \in Versions : Account!Given(v) = {} BY <3>2, GivenFacts
      <4>3. Account!Remove BY <3>1, <4>1, <4>2 DEF Account!Remove, Account!awardVars
      <4> QED BY <4>3 DEF AStep, Account!Next
    <3>3. CASE ~\A v \in Versions : Awarded(v) = {}
      <4>1. rule' = rule BY <2>9, <3>3 DEF Delete
      <4> QED BY <3>1, <4>1, AccountQuiet
    <3> QED BY <3>2, <3>3
  <2>10. ASSUME NEW h \in Handlers, WriteAward(h) PROVE AStep BY <2>10, SettleStep
  <2>11. ASSUME NEW h \in Handlers, NEW op \in Operations, NEW v \in Versions, NEW i \in Cycles,
                ReadAward(h, op, v, i)
         PROVE  AStep
    <3>1. UNCHANGED <<rule, award, credits, counted, version, straddled, sameDay>>
      BY <2>11 DEF ReadAward, ruleVars, engineVars
    <3>2. CASE contended' = contended BY <3>1, <3>2, AccountQuiet
    <3>3. CASE contended' # contended
      <4>1. contended' = contended \cup {<<v, i>>} BY <2>11, <3>3 DEF ReadAward
      <4>2. i \in Awarded(v) BY <2>11 DEF ReadAward, Allowed, Operations, Awarded
      <4>3. Account!Dispute(v, i)
        BY <3>1, <4>1, <4>2, GivenFacts DEF Account!Dispute, Account!awardVars
      <4> QED BY <4>3 DEF AStep, Account!Next
    <3> QED BY <3>2, <3>3
  <2>12. CASE UNCHANGED vars
    BY <2>12, AccountQuiet DEF vars, ruleVars, engineVars, redeemVars
  <2> QED BY <2>1, <2>2, <2>3, <2>4, <2>5, <2>6, <2>7, <2>8, <2>9, <2>10, <2>11, <2>12 DEF Next
<1> QED BY <1>1, <1>2, TypeCorrect, AwardsInvariant, CreditsInvariant, CountsInvariant,
           CountedByOneVersion, PTL DEF Spec, AccountSpec, Account!Spec, AStep
==============================================================================
