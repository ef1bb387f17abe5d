----------------------- MODULE WithdrawalLedgerProofs ------------------------
(***************************************************************************)
(* Proofs about WithdrawalLedger, for any rows, releases, houses, callers, *)
(* admins, amounts and days: the advisory lock excludes, the daily limit   *)
(* holds, a release backs one row, and what is reserved was earned.        *)
(***************************************************************************)
EXTENDS WithdrawalLedger, FiniteSums

------------------------------------------------------------------------------
(* The records keep their types *)

\* The days are numbers, and the first one is a day.
LEMMA DayFacts == 1 \in Days /\ Days \subseteq Nat /\ 0 \notin Days
  BY LedgerAssumption DEF Days

\* A request that is not in a transaction has its type.
LEMMA FreshRequest ==
  ASSUME NEW pc \in {"idle", "waiting"}, NEW h \in Houses \cup {None}
  PROVE  Request(pc, h) \in RequestType
  BY DEF Request, Transaction, RequestType

\* A request inside its transaction has its type.
LEMMA TransactionType ==
  ASSUME NEW pc \in Inside, NEW h \in Houses \cup {None}, NEW d \in Days \cup {0},
         NEW r \in Releases \cup {None}
  PROVE  Transaction(pc, h, d, r) \in RequestType
  BY DEF Transaction, RequestType

\* What a request in flight holds.
LEMMA RequestFacts ==
  ASSUME RecordsOK, NEW c \in Callers
  PROVE  /\ caller[c] \in RequestType
         /\ caller[c].house \in Houses \cup {None}
         /\ caller[c].day \in Days \cup {0}
         /\ caller[c].release \in Releases \cup {None}
  BY DEF RecordsOK, RequestType

\* Consuming a release keeps the type of the table.
LEMMA ConsumeType ==
  ASSUME RecordsOK, NEW r \in Releases \cup {None}, ConsumeRelease(r)
  PROVE  release' \in [Releases -> ReleaseType]
<1>1. CASE r = None
  BY <1>1 DEF ConsumeRelease, RecordsOK
<1>2. CASE r # None
  BY <1>2 DEF ConsumeRelease, RecordsOK, ReleaseType
<1>. QED  BY <1>1, <1>2

\* The life of a row goes on: the tables keep their types, and what was released
\* stays released.
LEMMA LiveOnEffect ==
  ASSUME RecordsOK, NEW w \in Rows, LiveOn(w)
  PROVE  /\ UNCHANGED <<row, release, today, lock, caller, admin>>
         /\ phase' \in [Rows -> {"open", "settled", "released"}]
         /\ \A x \in Rows : phase[x] = "released" => phase'[x] = "released"
  BY DEF LiveOn, Lifecycle!Send, Lifecycle!Settle, Lifecycle!Release, Lifecycle!Credit,
         RecordsOK

\* The records have their types in every reachable state.
THEOREM RecordsCorrect == Spec => []RecordsOK
<1>. USE LedgerAssumption, DayFacts
<1>1. Init => RecordsOK
  BY FreshRequest
     DEF Init, RecordsOK, NoRow, RowType, NoRelease, ReleaseType, Lifecycle!Init
<1>2. RecordsOK /\ [Next]_vars => RecordsOK'
  <2>. SUFFICES ASSUME RecordsOK, [Next]_vars PROVE RecordsOK'
    OBVIOUS
  <2>1. ASSUME NEW c \in Callers, NEW h \in Houses, StartRequest(c, h)
        PROVE  RecordsOK'
    BY <2>1, FreshRequest DEF StartRequest, RecordsOK, lifeVars
  <2>2. ASSUME NEW c \in Callers, Acquire(c)
        PROVE  RecordsOK'
    <3>1. Transaction("quota", caller[c].house, today, None) \in RequestType
      BY RequestFacts, TransactionType DEF RecordsOK, Inside
    <3>. QED  BY <2>2, <3>1 DEF Acquire, RecordsOK, lifeVars
  <2>3. ASSUME NEW c \in Callers, CreateStep(c)
        PROVE  RecordsOK'
    <3>1. CASE QuotaFree(c)
      BY <3>1 DEF QuotaFree, RecordsOK, RequestType, Inside, lifeVars
    <3>2. CASE QuotaTaken(c)
      BY <3>2 DEF QuotaTaken, RecordsOK, RequestType, Inside, lifeVars
    <3>3. CASE FindRelease(c)
      <4>1. PICK r \in Releases :
              caller' = [caller EXCEPT
                ![c] = Transaction("earnings", caller[c].house, caller[c].day, r)]
        BY <3>3 DEF FindRelease, UnusedReleases
      <4>2. Transaction("earnings", caller[c].house, caller[c].day, r) \in RequestType
        BY RequestFacts, TransactionType DEF Inside
      <4>. QED  BY <3>3, <4>1, <4>2 DEF FindRelease, RecordsOK, lifeVars
    <3>4. CASE QuotaReached(c)
      BY <3>4, FreshRequest DEF QuotaReached, End, RecordsOK, lifeVars
    <3>5. CASE ReadEarnings(c)
      BY <3>5 DEF ReadEarnings, RecordsOK, RequestType, Inside, lifeVars
    <3>6. CASE ReadWithdrawals(c)
      BY <3>6 DEF ReadWithdrawals, RecordsOK, RequestType, Inside, lifeVars
    <3>7. CASE Insert(c)
      <4>1. row' \in [Rows -> RowType]
        BY <3>7 DEF Insert, RecordsOK, RowType, RequestType
      <4>2. release' \in [Releases -> ReleaseType]
        BY <3>7, RequestFacts, ConsumeType DEF Insert
      <4>3. End(c) /\ UNCHANGED <<phase, today, admin>>
        BY <3>7 DEF Insert, lifeVars
      <4>. QED  BY <4>1, <4>2, <4>3, FreshRequest DEF End, RecordsOK
    <3>8. CASE Rollback(c)
      BY <3>8, FreshRequest DEF Rollback, End, RecordsOK, lifeVars
    <3>. QED  BY <2>3, <3>1, <3>2, <3>3, <3>4, <3>5, <3>6, <3>7, <3>8 DEF CreateStep
  <2>4. ASSUME NEW c \in Callers, Expire(c)
        PROVE  RecordsOK'
    BY <2>4, FreshRequest DEF Expire, RecordsOK, lifeVars
  <2>5. ASSUME NEW a \in Admins, NEW h \in Houses, CheckRelease(a, h)
        PROVE  RecordsOK'
    BY <2>5 DEF CheckRelease, RecordsOK, lifeVars
  <2>6. ASSUME NEW a \in Admins, CreateRelease(a)
        PROVE  RecordsOK'
    BY <2>6 DEF CreateRelease, RecordsOK, ReleaseType, lifeVars
  <2>7. ASSUME NEW h \in Houses, ChangeEarnings(h)
        PROVE  RecordsOK'
    BY <2>7 DEF ChangeEarnings, RecordsOK, lifeVars
  <2>8. ASSUME NEW w \in Rows, LiveOn(w)
        PROVE  RecordsOK'
    BY <2>8, LiveOnEffect DEF RecordsOK
  <2>9. CASE NextDay
    BY <2>9 DEF NextDay, RecordsOK, Days, lifeVars
  <2>10. CASE UNCHANGED vars
    BY <2>10 DEF vars, RecordsOK, lifeVars
  <2>. QED
    BY <2>1, <2>2, <2>3, <2>4, <2>5, <2>6, <2>7, <2>8, <2>9, <2>10 DEF Next
<1>. QED  BY <1>1, <1>2, PTL DEF Spec

------------------------------------------------------------------------------
(* The lock excludes, and what the check of the daily limit found stays true *)

\* The states of a transaction whose check of the daily limit is done.
PastQuota == {"earnings", "withdrawals", "decide"}

\* Who is inside the transaction holds the lock, so at most one is.
Exclusion == \A c \in Callers : caller[c].pc \in Inside => lock = c

\* A transaction looks back to the start of a day that is not later than today.
Clock ==
  \A c \in Callers :
    caller[c].pc \in Inside => caller[c].day \in Days /\ caller[c].day <= today

\* A transaction that used no release will insert the first living row of its day.
LimitChecked ==
  \A c \in Callers :
    caller[c].pc \in PastQuota /\ caller[c].release = None => ~TakenToday(c)

LedgerInv == Exclusion /\ Clock /\ LimitChecked /\ OneFreePerDay

\* Rows that stay and only die keep the limit.
LEMMA LimitStable ==
  ASSUME row' = row, \A x \in Rows : phase[x] = "released" => phase'[x] = "released",
         OneFreePerDay
  PROVE  OneFreePerDay'
  BY DEF OneFreePerDay

\* Rows that stay and only die leave a day as free as it was.
LEMMA QuotaStable ==
  ASSUME row' = row, \A x \in Rows : phase[x] = "released" => phase'[x] = "released",
         NEW c \in Callers, caller'[c].house = caller[c].house,
         caller'[c].day = caller[c].day, ~TakenToday(c)
  PROVE  ~TakenToday(c)'
  BY DEF TakenToday, Holding

\* The fields of a request.
LEMMA Fields ==
  ASSUME NEW pc, NEW h, NEW d, NEW r
  PROVE  /\ Transaction(pc, h, d, r).pc = pc
         /\ Transaction(pc, h, d, r).house = h
         /\ Transaction(pc, h, d, r).day = d
         /\ Transaction(pc, h, d, r).release = r
         /\ Request(pc, h).pc = pc
  BY DEF Transaction, Request

\* A request that moves on keeps the rest.
LEMMA MoveOn ==
  ASSUME RecordsOK, NEW c \in Callers, NEW pc \in Inside
  PROVE  /\ [caller[c] EXCEPT !.pc = pc].pc = pc
         /\ [caller[c] EXCEPT !.pc = pc].house = caller[c].house
         /\ [caller[c] EXCEPT !.pc = pc].day = caller[c].day
         /\ [caller[c] EXCEPT !.pc = pc].release = caller[c].release
  BY RequestFacts DEF RequestType

\* A step in which one request leaves, or stays out of, the transaction.
LEMMA OutsideStep ==
  ASSUME RecordsOK, LedgerInv, NEW c \in Callers, NEW pc \in {"idle", "waiting"}, NEW h,
         caller' = [caller EXCEPT ![c] = Request(pc, h)],
         UNCHANGED <<row, phase, today>>, lock' = lock \/ lock = c
  PROVE  LedgerInv'
<1>1. caller'[c].pc \notin Inside /\ caller'[c].pc \notin PastQuota
  BY Fields DEF RecordsOK, Inside, PastQuota
<1>2. \A x \in Callers : x # c => caller'[x] = caller[x]
  BY DEF RecordsOK
<1>3. Exclusion' /\ Clock'
  BY <1>1, <1>2 DEF LedgerInv, Exclusion, Clock
<1>4. LimitChecked'
  BY <1>1, <1>2, QuotaStable DEF LedgerInv, LimitChecked
<1>5. OneFreePerDay'
  BY LimitStable DEF LedgerInv
<1>. QED  BY <1>3, <1>4, <1>5 DEF LedgerInv

\* A step that leaves the requests, the lock and the rows alone.
LEMMA ElsewhereStep ==
  ASSUME RecordsOK, RecordsOK', LedgerInv, UNCHANGED <<row, caller, lock>>, today <= today',
         \A x \in Rows : phase[x] = "released" => phase'[x] = "released"
  PROVE  LedgerInv'
<1>1. ASSUME NEW c \in Callers, caller[c].pc \in Inside
      PROVE  caller[c].day <= today'
  <2>1. caller[c].day \in Nat /\ today \in Nat /\ today' \in Nat
    BY DayFacts, RequestFacts DEF RecordsOK
  <2>2. caller[c].day <= today
    BY <1>1 DEF LedgerInv, Clock
  <2>. QED  BY <2>1, <2>2
<1>2. \A c \in Callers : caller[c].pc \in Inside => caller[c].day \in Days
  BY DEF LedgerInv, Clock
<1>3. LimitChecked'
  BY QuotaStable DEF LedgerInv, LimitChecked
<1>4. Exclusion' /\ Clock'
  BY <1>1, <1>2 DEF LedgerInv, Exclusion, Clock
<1>. QED  BY <1>3, <1>4, LimitStable DEF LedgerInv

\* A step inside the transaction that keeps house and day: the limit is known to
\* be free or a release is in hand.
LEMMA InsideStep ==
  ASSUME RecordsOK, LedgerInv, NEW c \in Callers, caller[c].pc \in Inside,
         \A x \in Callers : x # c => caller'[x] = caller[x],
         caller'[c].pc \in Inside, caller'[c].house = caller[c].house,
         caller'[c].day = caller[c].day,
         caller'[c].pc \in PastQuota /\ caller'[c].release = None => ~TakenToday(c),
         UNCHANGED <<row, phase, today, lock>>
  PROVE  LedgerInv'
<1>1. Exclusion' /\ Clock'
  BY DEF LedgerInv, Exclusion, Clock
<1>2. LimitChecked'
  BY QuotaStable DEF LedgerInv, LimitChecked
<1>. QED  BY <1>1, <1>2, LimitStable DEF LedgerInv

\* After an insertion nobody is inside: the one that was has committed.
LEMMA InsertLeavesNobody ==
  ASSUME RecordsOK, LedgerInv, NEW c \in Callers, Insert(c)
  PROVE  \A x \in Callers : caller'[x].pc \notin Inside
<1>1. caller[c].pc = "decide" /\ End(c)
  BY DEF Insert
<1>2. lock = c
  BY <1>1 DEF LedgerInv, Exclusion, Inside
<1>. SUFFICES ASSUME NEW x \in Callers PROVE caller'[x].pc \notin Inside
  OBVIOUS
<1>3. CASE x = c
  BY <1>1, <1>3 DEF End, Request, Transaction, RecordsOK, Inside
<1>4. CASE x # c
  BY <1>1, <1>2, <1>4 DEF End, RecordsOK, LedgerInv, Exclusion
<1>. QED  BY <1>3, <1>4

\* The insertion: nobody else is past the check, and the day was free unless a
\* release is consumed.
LEMMA InsertStep ==
  ASSUME RecordsOK, LedgerInv, NEW c \in Callers, Insert(c)
  PROVE  LedgerInv'
<1>1. PICK w \in Rows :
        row' = [row EXCEPT ![w] =
          [house |-> caller[c].house, day |-> today, release |-> caller[c].release]]
  BY DEF Insert
<1>2. /\ caller[c].pc = "decide" /\ End(c) /\ UNCHANGED <<phase, today>>
  BY DEF Insert, lifeVars
<1>3. \A x \in Callers : caller'[x].pc \notin Inside
  BY InsertLeavesNobody
<1>4. Exclusion' /\ Clock' /\ LimitChecked'
  BY <1>3 DEF Exclusion, Clock, LimitChecked, Inside, PastQuota
<1>5. OneFreePerDay'
  <2>1. SUFFICES ASSUME NEW u \in Rows, NEW v \in Rows, u # v,
                        row'[u] # NoRow, row'[u].house = row'[v].house,
                        row'[u].day = row'[v].day,
                        row'[u].release = None, row'[v].release = None,
                        phase[u] # "released", phase[v] # "released"
                 PROVE  FALSE
    BY <1>2 DEF OneFreePerDay
  <2>2. /\ row'[w].house = caller[c].house /\ row'[w].day = today
        /\ row'[w].release = caller[c].release
        /\ \A x \in Rows : x # w => row'[x] = row[x]
    BY <1>1 DEF RecordsOK
  <2>3. CASE u # w /\ v # w
    BY <2>1, <2>2, <2>3 DEF LedgerInv, OneFreePerDay
  <2>4. ASSUME NEW x \in Rows, x # w, row[x].house = caller[c].house,
               row[x].day = today, phase[x] # "released", caller[c].release = None
        PROVE  FALSE
    <3>1. ~TakenToday(c)
      BY <1>2, <2>4 DEF LedgerInv, LimitChecked, PastQuota
    <3>2. caller[c].day \in Days \cup {0} /\ today \in Days
      BY RequestFacts DEF RecordsOK
    <3>3. row[x].day >= caller[c].day
      BY <1>2, <2>4, <3>2, DayFacts DEF LedgerInv, Clock, Inside
    <3>4. x \in Holding(caller[c].house)
      BY <2>4 DEF Holding
    <3>. QED  BY <3>1, <3>3, <3>4 DEF TakenToday
  <2>. QED  BY <2>1, <2>2, <2>3, <2>4
<1>. QED  BY <1>4, <1>5 DEF LedgerInv

\* The inductive invariant: the lock excludes, so what the check of the limit found
\* is still true when the row is inserted.
LEMMA LedgerInvariant == Spec => []LedgerInv
<1>1. Init => LedgerInv
  <2>1. ASSUME Init PROVE \A c \in Callers : caller[c].pc \notin Inside
    BY <2>1, Fields DEF Init, Inside
  <2>2. ASSUME Init PROVE OneFreePerDay
    BY <2>2 DEF Init, OneFreePerDay
  <2>. QED
    BY <2>1, <2>2 DEF LedgerInv, Exclusion, Clock, LimitChecked, Inside, PastQuota
<1>2. RecordsOK /\ RecordsOK' /\ LedgerInv /\ [Next]_vars => LedgerInv'
  <2>. SUFFICES ASSUME RecordsOK, RecordsOK', LedgerInv, [Next]_vars PROVE LedgerInv'
    OBVIOUS
  <2>1. ASSUME NEW c \in Callers, NEW h \in Houses, StartRequest(c, h)
        PROVE  LedgerInv'
    BY <2>1, OutsideStep DEF StartRequest, lifeVars
  <2>2. ASSUME NEW c \in Callers, Acquire(c)
        PROVE  LedgerInv'
    <3>1. /\ lock = None /\ lock' = c /\ caller[c].pc = "waiting"
          /\ UNCHANGED <<row, phase, today>>
      BY <2>2 DEF Acquire, LockFree, lifeVars
    <3>2. /\ caller'[c].pc = "quota" /\ caller'[c].day = today
          /\ \A x \in Callers : x # c => caller'[x] = caller[x]
      BY <2>2, Fields DEF Acquire, RecordsOK
    <3>3. \A x \in Callers : caller[x].pc \notin Inside
      BY <3>1, LedgerAssumption DEF LedgerInv, Exclusion
    <3>4. today \in Days /\ today \in Nat
      BY DayFacts DEF RecordsOK
    <3>5. Exclusion' /\ Clock'
      BY <3>1, <3>2, <3>3, <3>4 DEF Exclusion, Clock
    <3>6. LimitChecked'
      BY <3>2, <3>3 DEF LimitChecked, Inside, PastQuota
    <3>. QED  BY <3>1, <3>5, <3>6, LimitStable DEF LedgerInv
  <2>3. ASSUME NEW c \in Callers, CreateStep(c)
        PROVE  LedgerInv'
    <3>1. CASE QuotaFree(c)
      <4>. DEFINE q == [caller[c] EXCEPT !.pc = "earnings"]
      <4>1. /\ caller[c].pc = "quota" /\ ~TakenToday(c) /\ caller' = [caller EXCEPT ![c] = q]
            /\ UNCHANGED <<row, phase, today, lock>>
        BY <3>1 DEF QuotaFree, lifeVars
      <4>2. q.pc \in Inside /\ q.house = caller[c].house /\ q.day = caller[c].day
        BY MoveOn DEF Inside
      <4>. HIDE DEF q
      <4>3. caller'[c] = q /\ \A x \in Callers : x # c => caller'[x] = caller[x]
        BY <4>1 DEF RecordsOK
      <4>. QED  BY <4>1, <4>2, <4>3, InsideStep DEF Inside
    <3>2. CASE QuotaTaken(c)
      <4>. DEFINE q == [caller[c] EXCEPT !.pc = "release"]
      <4>1. /\ caller[c].pc = "quota" /\ caller' = [caller EXCEPT ![c] = q]
            /\ UNCHANGED <<row, phase, today, lock>>
        BY <3>2 DEF QuotaTaken, lifeVars
      <4>2. /\ q.pc = "release" /\ q.house = caller[c].house /\ q.day = caller[c].day
        BY MoveOn DEF Inside
      <4>. HIDE DEF q
      <4>3. caller'[c] = q /\ \A x \in Callers : x # c => caller'[x] = caller[x]
        BY <4>1 DEF RecordsOK
      <4>. QED  BY <4>1, <4>2, <4>3, InsideStep DEF Inside, PastQuota
    <3>3. CASE FindRelease(c)
      <4>1. PICK r \in Releases :
              caller' = [caller EXCEPT
                ![c] = Transaction("earnings", caller[c].house, caller[c].day, r)]
        BY <3>3 DEF FindRelease, UnusedReleases
      <4>. DEFINE q == Transaction("earnings", caller[c].house, caller[c].day, r)
      <4>2. caller[c].pc = "release" /\ UNCHANGED <<row, phase, today, lock>>
        BY <3>3 DEF FindRelease, lifeVars
      <4>3. /\ q.pc \in Inside /\ q.house = caller[c].house /\ q.day = caller[c].day
            /\ q.release # None
        BY Fields, LedgerAssumption DEF Inside
      <4>4. caller'[c] = q /\ \A x \in Callers : x # c => caller'[x] = caller[x]
        BY <4>1 DEF RecordsOK
      <4>. HIDE DEF q
      <4>. QED  BY <4>2, <4>3, <4>4, InsideStep DEF Inside
    <3>4. CASE QuotaReached(c)
      BY <3>4, OutsideStep DEF QuotaReached, End, LedgerInv, Exclusion, Inside, lifeVars
    <3>5. CASE ReadEarnings(c)
      <4>. DEFINE q == [caller[c] EXCEPT !.pc = "withdrawals"]
      <4>1. /\ caller[c].pc = "earnings" /\ caller' = [caller EXCEPT ![c] = q]
            /\ UNCHANGED <<row, phase, today, lock>>
        BY <3>5 DEF ReadEarnings, lifeVars
      <4>2. /\ q.pc \in Inside /\ q.house = caller[c].house /\ q.day = caller[c].day
            /\ q.release = caller[c].release
        BY MoveOn DEF Inside
      <4>3. q.release = None => ~TakenToday(c)
        BY <4>1, <4>2 DEF LedgerInv, LimitChecked, PastQuota
      <4>. HIDE DEF q
      <4>4. caller'[c] = q /\ \A x \in Callers : x # c => caller'[x] = caller[x]
        BY <4>1 DEF RecordsOK
      <4>. QED  BY <4>1, <4>2, <4>3, <4>4, InsideStep DEF Inside
    <3>6. CASE ReadWithdrawals(c)
      <4>. DEFINE q == [caller[c] EXCEPT !.pc = "decide"]
      <4>1. /\ caller[c].pc = "withdrawals" /\ caller' = [caller EXCEPT ![c] = q]
            /\ UNCHANGED <<row, phase, today, lock>>
        BY <3>6 DEF ReadWithdrawals, lifeVars
      <4>2. /\ q.pc \in Inside /\ q.house = caller[c].house /\ q.day = caller[c].day
            /\ q.release = caller[c].release
        BY MoveOn DEF Inside
      <4>3. q.release = None => ~TakenToday(c)
        BY <4>1, <4>2 DEF LedgerInv, LimitChecked, PastQuota
      <4>. HIDE DEF q
      <4>4. caller'[c] = q /\ \A x \in Callers : x # c => caller'[x] = caller[x]
        BY <4>1 DEF RecordsOK
      <4>. QED  BY <4>1, <4>2, <4>3, <4>4, InsideStep DEF Inside
    <3>7. CASE Insert(c)
      BY <3>7, InsertStep
    <3>8. CASE Rollback(c)
      BY <3>8, OutsideStep DEF Rollback, End, LedgerInv, Exclusion, lifeVars
    <3>. QED  BY <2>3, <3>1, <3>2, <3>3, <3>4, <3>5, <3>6, <3>7, <3>8 DEF CreateStep
  <2>4. ASSUME NEW c \in Callers, Expire(c)
        PROVE  LedgerInv'
    BY <2>4, OutsideStep DEF Expire, lifeVars
  <2>5. ASSUME NEW a \in Admins, NEW h \in Houses, CheckRelease(a, h)
        PROVE  LedgerInv'
    BY <2>5, ElsewhereStep, DayFacts DEF CheckRelease, RecordsOK, lifeVars
  <2>6. ASSUME NEW a \in Admins, CreateRelease(a)
        PROVE  LedgerInv'
    BY <2>6, ElsewhereStep, DayFacts DEF CreateRelease, RecordsOK, lifeVars
  <2>7. ASSUME NEW h \in Houses, ChangeEarnings(h)
        PROVE  LedgerInv'
    BY <2>7, ElsewhereStep, DayFacts DEF ChangeEarnings, RecordsOK, lifeVars
  <2>8. ASSUME NEW w \in Rows, LiveOn(w)
        PROVE  LedgerInv'
    BY <2>8, LiveOnEffect, ElsewhereStep, DayFacts DEF RecordsOK
  <2>9. CASE NextDay
    BY <2>9, ElsewhereStep, DayFacts DEF NextDay, RecordsOK, lifeVars
  <2>10. CASE UNCHANGED vars
    BY <2>10, ElsewhereStep, DayFacts DEF vars, RecordsOK, lifeVars
  <2>. QED
    BY <2>1, <2>2, <2>3, <2>4, <2>5, <2>6, <2>7, <2>8, <2>9, <2>10 DEF Next
<1>. QED  BY <1>1, <1>2, RecordsCorrect, PTL DEF Spec

\* One withdrawal per house and day, for every number of requests, grants, days
\* and rows: the lock excludes (Exclusion), so what the check of the limit found
\* (LimitChecked) is still true when the row is inserted.
THEOREM LimitHolds == Spec => []OneFreePerDay
<1>1. LedgerInv => OneFreePerDay
  BY DEF LedgerInv
<1>. QED  BY <1>1, LedgerInvariant, PTL

------------------------------------------------------------------------------
(* A release backs one row *)

\* The rows that consumed a release.
BackedBy(r) == {w \in Rows : row[w].release = r}

\* The release a transaction found is there and unused until it commits; before
\* the check it has none.
HeldRelease ==
  \A c \in Callers :
    caller[c].pc \in Inside /\ caller[c].release # None =>
      /\ caller[c].pc \in PastQuota
      /\ release[caller[c].release] # NoRelease
      /\ ~release[caller[c].release].consumed

ReleaseInv == ReleaseBacksOneRow /\ HeldRelease

\* Rows and releases that stay keep the relation, whatever requests do.
LEMMA BackingStable ==
  ASSUME ReleaseBacksOneRow, UNCHANGED <<row, release>>
  PROVE  ReleaseBacksOneRow'
  BY DEF ReleaseBacksOneRow

\* The insertion consumes the release in hand with the new row, and no other.
LEMMA InsertBacks ==
  ASSUME RecordsOK, ReleaseInv, NEW c \in Callers, Insert(c)
  PROVE  ReleaseBacksOneRow'
<1>1. PICK w \in Rows :
        /\ row[w] = NoRow
        /\ row' = [row EXCEPT ![w] =
             [house |-> caller[c].house, day |-> today, release |-> caller[c].release]]
  BY DEF Insert
<1>2. /\ row[w].release = None /\ row'[w].release = caller[c].release
      /\ \A x \in Rows : x # w => row'[x] = row[x]
  BY <1>1 DEF RecordsOK, NoRow
<1>3. caller[c].pc = "decide" /\ ConsumeRelease(caller[c].release)
  BY DEF Insert
<1>4. SUFFICES ASSUME NEW r \in Releases
               PROVE  Cardinality(BackedBy(r)') = IF release'[r].consumed THEN 1 ELSE 0
  BY DEF ReleaseBacksOneRow, BackedBy
<1>5. Cardinality(BackedBy(r)) = IF release[r].consumed THEN 1 ELSE 0
  BY DEF ReleaseInv, ReleaseBacksOneRow, BackedBy
<1>6. r # None
  BY LedgerAssumption
<1>7. CASE r # caller[c].release
  <2>1. BackedBy(r)' = BackedBy(r)
    BY <1>2, <1>6, <1>7 DEF BackedBy
  <2>2. release'[r] = release[r]
    BY <1>3, <1>7 DEF ConsumeRelease, RecordsOK
  <2>. QED  BY <1>5, <2>1, <2>2
<1>8. CASE r = caller[c].release
  <2>1. ~release[r].consumed
    BY <1>3, <1>6, <1>8 DEF ReleaseInv, HeldRelease, Inside
  <2>2. release'[r].consumed
    <3>1. release' = [release EXCEPT ![r] = [@ EXCEPT !.consumed = TRUE]]
      BY <1>3, <1>6, <1>8 DEF ConsumeRelease
    <3>. QED  BY <3>1 DEF RecordsOK, ReleaseType
  <2>3. BackedBy(r) = {}
    <3>1. IsFiniteSet(BackedBy(r))
      BY LedgerAssumption, FS_Subset DEF BackedBy
    <3>2. Cardinality(BackedBy(r)) = 0
      BY <1>5, <2>1
    <3>. QED  BY <3>1, <3>2, FS_EmptySet
  <2>4. BackedBy(r)' = {w}
    BY <1>2, <1>8, <2>3 DEF BackedBy
  <2>. QED  BY <2>2, <2>4, FS_Singleton
<1>. QED  BY <1>7, <1>8

\* A step that leaves rows and releases alone, after which a request inside has no
\* release or the one it had past the check.
LEMMA ReleaseStep ==
  ASSUME ReleaseInv, UNCHANGED <<row, release>>,
         \A c \in Callers : caller'[c].pc \in Inside =>
           \/ caller'[c].release = None
           \/ /\ caller[c].pc \in PastQuota /\ caller'[c].pc \in PastQuota
              /\ caller'[c].release = caller[c].release
  PROVE  ReleaseInv'
<1>1. HeldRelease'
  BY DEF ReleaseInv, HeldRelease, PastQuota, Inside
<1>. QED  BY <1>1, BackingStable DEF ReleaseInv

\* The release found by the check is one that was granted and is unused.
LEMMA FoundRelease ==
  ASSUME RecordsOK, LedgerInv, ReleaseInv, NEW c \in Callers, FindRelease(c)
  PROVE  ReleaseInv'
<1>1. PICK r \in UnusedReleases(caller[c].house, caller[c].day) :
        caller' = [caller EXCEPT
          ![c] = Transaction("earnings", caller[c].house, caller[c].day, r)]
  BY DEF FindRelease
<1>2. UNCHANGED <<row, release>> /\ caller[c].pc = "release"
  BY DEF FindRelease
<1>3. caller[c].day \in Days
  BY <1>2 DEF LedgerInv, Clock, Inside
<1>4. release[r] # NoRelease /\ ~release[r].consumed
  BY <1>1, <1>3 DEF UnusedReleases, NoRelease, Days
<1>5. /\ caller'[c].release = r
      /\ caller'[c].pc = "earnings"
      /\ \A x \in Callers : x # c => caller'[x] = caller[x]
  BY <1>1, Fields DEF RecordsOK
<1>6. HeldRelease'
  BY <1>2, <1>4, <1>5 DEF ReleaseInv, HeldRelease, PastQuota
<1>. QED  BY <1>2, <1>6, BackingStable DEF ReleaseInv

\* A grant fills a release nobody can have found.
LEMMA GrantStep ==
  ASSUME RecordsOK, ReleaseInv, NEW a \in Admins, CreateRelease(a)
  PROVE  ReleaseInv'
<1>1. PICK r \in Releases :
        /\ release[r] = NoRelease
        /\ release' = [release EXCEPT ![r] =
             [house |-> admin[a].house, day |-> admin[a].day, consumed |-> FALSE]]
  BY DEF CreateRelease
<1>2. UNCHANGED <<row, caller>>
  BY DEF CreateRelease
<1>3. /\ ~release[r].consumed /\ ~release'[r].consumed
      /\ \A x \in Releases : x # r => release'[x] = release[x]
  BY <1>1 DEF RecordsOK, NoRelease
<1>4. ReleaseBacksOneRow'
  BY <1>2, <1>3 DEF ReleaseInv, ReleaseBacksOneRow
<1>5. HeldRelease'
  BY <1>1, <1>2, <1>3, RequestFacts DEF ReleaseInv, HeldRelease
<1>. QED  BY <1>4, <1>5 DEF ReleaseInv

\* The inductive invariant of the releases.
LEMMA ReleaseInvariant == Spec => []ReleaseInv
<1>. USE LedgerAssumption
<1>1. Init => ReleaseInv
  <2>1. ASSUME Init PROVE \A c \in Callers : caller[c].pc \notin Inside
    BY <2>1, Fields DEF Init, Inside
  <2>2. ASSUME Init, NEW r \in Releases PROVE BackedBy(r) = {} /\ ~release[r].consumed
    BY <2>2 DEF Init, BackedBy, NoRow, NoRelease
  <2>. QED
    BY <2>1, <2>2, FS_EmptySet DEF ReleaseInv, HeldRelease, ReleaseBacksOneRow, BackedBy
<1>2. RecordsOK /\ LedgerInv /\ ReleaseInv /\ [Next]_vars => ReleaseInv'
  <2>. SUFFICES ASSUME RecordsOK, LedgerInv, ReleaseInv, [Next]_vars PROVE ReleaseInv'
    OBVIOUS
  <2>1. ASSUME NEW c \in Callers, NEW q, caller' = [caller EXCEPT ![c] = q],
               UNCHANGED <<row, release>>,
               \/ q.pc \notin Inside \/ q.release = None
               \/ /\ caller[c].pc \in PastQuota /\ q.pc \in PastQuota
                  /\ q.release = caller[c].release
        PROVE  ReleaseInv'
    <3>1. caller'[c] = q /\ \A x \in Callers : x # c => caller'[x] = caller[x]
      BY <2>1 DEF RecordsOK
    <3>2. ASSUME NEW x \in Callers, caller'[x].pc \in Inside
          PROVE  \/ caller'[x].release = None
                 \/ /\ caller[x].pc \in PastQuota /\ caller'[x].pc \in PastQuota
                    /\ caller'[x].release = caller[x].release
      <4>1. CASE x = c
        BY <2>1, <3>1, <3>2, <4>1
      <4>2. CASE x # c
        BY <3>1, <3>2, <4>2 DEF ReleaseInv, HeldRelease
      <4>. QED  BY <4>1, <4>2
    <3>. QED  BY <2>1, <3>2, ReleaseStep
  <2>2. ASSUME NEW c \in Callers, NEW pc \in {"idle", "waiting"}, NEW h,
               caller' = [caller EXCEPT ![c] = Request(pc, h)], UNCHANGED <<row, release>>
        PROVE  ReleaseInv'
    BY <2>1, <2>2, Fields DEF Inside
  <2>3. ASSUME NEW c \in Callers, NEW h \in Houses, StartRequest(c, h)
        PROVE  ReleaseInv'
    BY <2>2, <2>3 DEF StartRequest
  <2>4. ASSUME NEW c \in Callers, Acquire(c)
        PROVE  ReleaseInv'
    <3>. DEFINE q == Transaction("quota", caller[c].house, today, None)
    <3>1. caller' = [caller EXCEPT ![c] = q] /\ UNCHANGED <<row, release>>
      BY <2>4 DEF Acquire
    <3>2. q.release = None
      BY Fields
    <3>. HIDE DEF q
    <3>. QED  BY <2>1, <3>1, <3>2
  <2>5. ASSUME NEW c \in Callers, CreateStep(c)
        PROVE  ReleaseInv'
    <3>1. CASE QuotaFree(c)
      <4>1. [caller[c] EXCEPT !.pc = "earnings"].release = None
        BY <3>1, MoveOn DEF QuotaFree, ReleaseInv, HeldRelease, Inside, PastQuota
      <4>. QED  BY <2>1, <3>1, <4>1 DEF QuotaFree
    <3>2. CASE QuotaTaken(c)
      <4>1. [caller[c] EXCEPT !.pc = "release"].release = None
        BY <3>2, MoveOn DEF QuotaTaken, ReleaseInv, HeldRelease, Inside, PastQuota
      <4>. QED  BY <2>1, <3>2, <4>1 DEF QuotaTaken
    <3>3. CASE FindRelease(c)
      BY <3>3, FoundRelease
    <3>4. CASE QuotaReached(c)
      BY <2>2, <3>4 DEF QuotaReached, End
    <3>5. CASE ReadEarnings(c)
      <4>1. /\ [caller[c] EXCEPT !.pc = "withdrawals"].pc \in PastQuota
            /\ [caller[c] EXCEPT !.pc = "withdrawals"].release = caller[c].release
        BY MoveOn DEF PastQuota, Inside
      <4>. QED  BY <2>1, <3>5, <4>1 DEF ReadEarnings, PastQuota
    <3>6. CASE ReadWithdrawals(c)
      <4>1. /\ [caller[c] EXCEPT !.pc = "decide"].pc \in PastQuota
            /\ [caller[c] EXCEPT !.pc = "decide"].release = caller[c].release
        BY MoveOn DEF PastQuota, Inside
      <4>. QED  BY <2>1, <3>6, <4>1 DEF ReadWithdrawals, PastQuota
    <3>7. CASE Insert(c)
      <4>1. \A x \in Callers : caller'[x].pc \notin Inside
        BY <3>7, InsertLeavesNobody
      <4>. QED  BY <3>7, <4>1, InsertBacks DEF ReleaseInv, HeldRelease
    <3>8. CASE Rollback(c)
      BY <2>2, <3>8 DEF Rollback, End
    <3>. QED  BY <2>5, <3>1, <3>2, <3>3, <3>4, <3>5, <3>6, <3>7, <3>8 DEF CreateStep
  <2>6. ASSUME NEW c \in Callers, Expire(c)
        PROVE  ReleaseInv'
    BY <2>2, <2>6 DEF Expire
  <2>7. ASSUME NEW a \in Admins, CreateRelease(a)
        PROVE  ReleaseInv'
    BY <2>7, GrantStep
  <2>8. ASSUME UNCHANGED <<row, release, caller>>
        PROVE  ReleaseInv'
    BY <2>8, ReleaseStep DEF ReleaseInv, HeldRelease
  <2>9. ASSUME NEW a \in Admins, NEW h \in Houses, CheckRelease(a, h)
        PROVE  ReleaseInv'
    BY <2>8, <2>9 DEF CheckRelease
  <2>10. ASSUME NEW h \in Houses, ChangeEarnings(h)
         PROVE  ReleaseInv'
    BY <2>8, <2>10 DEF ChangeEarnings
  <2>11. ASSUME NEW w \in Rows, LiveOn(w)
         PROVE  ReleaseInv'
    BY <2>8, <2>11 DEF LiveOn
  <2>12. CASE NextDay
    BY <2>8, <2>12 DEF NextDay
  <2>13. CASE UNCHANGED vars
    BY <2>8, <2>13 DEF vars
  <2>. QED
    BY <2>3, <2>4, <2>5, <2>6, <2>7, <2>9, <2>10, <2>11, <2>12, <2>13 DEF Next
<1>. QED  BY <1>1, <1>2, RecordsCorrect, LedgerInvariant, PTL DEF Spec

\* A release is consumed with exactly one row, for any number of requests, grants
\* and failures: whoever found it holds the lock (Exclusion), so it is still unused
\* (HeldRelease) when the row is inserted.
THEOREM ReleasesHold == Spec => []ReleaseBacksOneRow
<1>1. ReleaseInv => ReleaseBacksOneRow
  BY DEF ReleaseInv
<1>. QED  BY <1>1, ReleaseInvariant, PTL

------------------------------------------------------------------------------
(* The sums of the balance *)

\* The larger of two numbers.
LEMMA MaxOfTwo ==
  ASSUME NEW a \in Int, NEW b \in Int
  PROVE  Max({a, b}) = IF a >= b THEN a ELSE b
<1>1. \E x \in {a, b} : \A y \in {a, b} : x >= y
  OBVIOUS
<1>. QED  BY <1>1 DEF Max

\* What each row holds.
Held == [w \in Rows |-> Deduction(w)]

\* What a house has reserved is the total of what its rows hold.
ReservedTotal == \A h \in Houses : Reserved(h) = Total(Held, Holding(h))

\* MapThenSumSet is the total: both recursive functions satisfy the same equation.
LEMMA ReservedIsTotal == ReservedTotal
<1>. SUFFICES ASSUME NEW h \in Houses PROVE Reserved(h) = Total(Held, Holding(h))
  BY DEF ReservedTotal
<1>. DEFINE H == Holding(h)
            Iter(g) == g = [s \in SUBSET H |->
              IF s = {} THEN 0
              ELSE Deduction(CHOOSE x \in s : TRUE) + g[s \ {CHOOSE x \in s : TRUE}]]
            k == CHOOSE g : Iter(g)
<1>1. Reserved(h) = k[H]
  BY DEF Reserved, MapThenSumSet, MapThenFoldSet
<1>2. IsFiniteSet(H) /\ H \subseteq Rows
  BY LedgerAssumption, FS_Subset DEF Holding
<1>3. \A g : Iter(g) <=> IsSum(g, Held, H)
  <2>1. \A s \in SUBSET H : s # {} => Held[Pick(s)] = Deduction(CHOOSE x \in s : TRUE)
    BY <1>2 DEF Pick, Held
  <2>. QED  BY <2>1 DEF IsSum, Pick
<1>. HIDE DEF H, Iter
<1>4. IsSum(k, Held, H)
  <2>1. PICK g : IsSum(g, Held, H)
    BY <1>2, SumExists
  <2>. QED  BY <1>3, <2>1
<1>. HIDE DEF k
<1>5. k[H] = Total(Held, H)
  BY <1>2, <1>4, TotalOf
<1>. QED  BY <1>1, <1>5 DEF H

\* The amounts are numbers of their range.
AmountsOK ==
  /\ gross \in [Rows -> Amounts]
  /\ sent \in [Rows -> {0, 1}]
  /\ credit \in [Rows -> Amounts]
  /\ earned \in [Houses -> Amounts] /\ peak \in [Houses -> Amounts]
  /\ seen \in [Callers -> Amounts]

\* Amounts are numbers, and nothing is an amount.
LEMMA AmountFacts == Amounts \subseteq Nat /\ 0 \in Amounts
  BY LedgerAssumption DEF Amounts

\* A row holds a number, at most its amount.
LEMMA HeldType ==
  ASSUME AmountsOK, NEW w \in Rows
  PROVE  Held[w] \in Nat /\ Held[w] <= gross[w]
<1>1. gross[w] \in Nat /\ credit[w] \in Nat
  BY AmountFacts DEF AmountsOK
<1>2. Deduction(w) = IF 0 >= gross[w] - credit[w] THEN 0 ELSE gross[w] - credit[w]
  BY <1>1, MaxOfTwo DEF Deduction
<1>. QED  BY <1>1, <1>2 DEF Held

\* What a house has reserved is a number, the total over finitely many rows.
LEMMA ReservedFacts ==
  ASSUME AmountsOK, NEW h \in Houses
  PROVE  /\ Reserved(h) \in Nat /\ Reserved(h) = Total(Held, Holding(h))
         /\ IsFiniteSet(Holding(h)) /\ Holding(h) \subseteq Rows
<1>1. IsFiniteSet(Holding(h)) /\ Holding(h) \subseteq Rows
  BY LedgerAssumption, FS_Subset DEF Holding
<1>2. Reserved(h) = Total(Held, Holding(h))
  BY ReservedIsTotal DEF ReservedTotal
<1>3. \A w \in Holding(h) : Held[w] \in Nat
  BY <1>1, HeldType
<1>. QED  BY <1>1, <1>2, <1>3, TotalType

\* The two facts as formulas, to be used of the next state too.
HeldOK == \A w \in Rows : Held[w] \in Nat /\ Held[w] <= gross[w]
ReservedOK ==
  \A h \in Houses :
    /\ Reserved(h) \in Nat /\ Reserved(h) = Total(Held, Holding(h))
    /\ IsFiniteSet(Holding(h)) /\ Holding(h) \subseteq Rows

\* The sums are in order where the amounts are, ...
LEMMA SumsOK == AmountsOK => HeldOK /\ ReservedOK
  BY HeldType, ReservedFacts DEF HeldOK, ReservedOK

\* ... after a step as before it.
LEMMA SumsOKNext == AmountsOK' => HeldOK' /\ ReservedOK'
  BY SumsOK, PTL

\* Fewer rows that hold less each: less is reserved.
LEMMA ReservedFalls ==
  ASSUME AmountsOK, AmountsOK', NEW h \in Houses, Holding(h)' \subseteq Holding(h),
         \A w \in Holding(h)' : Held'[w] <= Held[w]
  PROVE  Reserved(h)' <= Reserved(h)
<1>1. /\ IsFiniteSet(Holding(h)) /\ Holding(h) \subseteq Rows
      /\ Reserved(h) \in Nat /\ Reserved(h)' \in Nat
      /\ Reserved(h) = Total(Held, Holding(h)) /\ Reserved(h)' = Total(Held', Holding(h)')
  BY SumsOK, SumsOKNext DEF ReservedOK
<1>2. \A w \in Rows : Held[w] \in Nat /\ Held'[w] \in Nat
  BY SumsOK, SumsOKNext DEF HeldOK
<1>. DEFINE H == Holding(h)
            K == Holding(h)'
            f == Held
            g == Held'
<1>3. /\ IsFiniteSet(H) /\ K \subseteq H /\ \A w \in H : f[w] \in Nat /\ g[w] \in Nat
      /\ \A w \in K : g[w] <= f[w]
  BY <1>1, <1>2
<1>. HIDE DEF H, K, f, g
<1>4. IsFiniteSet(K)
  BY <1>3, FS_Subset
<1>5. Total(g, K) <= Total(f, K)
  BY <1>3, <1>4, TotalMonotone
<1>6. Total(f, K) <= Total(f, H)
  BY <1>3, TotalSubset
<1>7. Total(g, K) \in Nat /\ Total(f, K) \in Nat /\ Total(f, H) \in Nat
  BY <1>3, <1>4, TotalType
<1>8. Total(g, K) <= Total(f, H)
  BY <1>5, <1>6, <1>7
<1>. QED  BY <1>1, <1>8 DEF H, K, f, g

\* One more row: what it holds is reserved in addition.
LEMMA ReservedGrows ==
  ASSUME AmountsOK, AmountsOK', NEW h \in Houses, NEW w \in Rows,
         w \notin Holding(h), Holding(h)' = Holding(h) \cup {w},
         \A x \in Holding(h) : Held'[x] = Held[x]
  PROVE  Reserved(h)' = Held'[w] + Reserved(h)
<1>1. /\ IsFiniteSet(Holding(h)) /\ Holding(h) \subseteq Rows
      /\ Reserved(h) = Total(Held, Holding(h)) /\ Reserved(h)' = Total(Held', Holding(h)')
  BY SumsOK, SumsOKNext DEF ReservedOK
<1>2. \A x \in Rows : Held[x] \in Nat /\ Held'[x] \in Nat
  BY SumsOK, SumsOKNext DEF HeldOK
<1>. DEFINE H == Holding(h)
            K == Holding(h) \cup {w}
            f == Held
            g == Held'
<1>3. /\ IsFiniteSet(H) /\ K \ {w} = H /\ w \in K
      /\ \A x \in K : g[x] \in Nat
      /\ \A x \in H : f[x] = g[x] /\ f[x] \in Nat
  BY <1>1, <1>2
<1>4. Total(g, Holding(h)') = Total(g, K)
  OBVIOUS
<1>5. IsFiniteSet(K)
  BY <1>3, FS_AddElement
<1>. HIDE DEF H, K, f, g
<1>6. Total(g, K) = g[w] + Total(g, H)
  BY <1>3, <1>5, TotalRemove
<1>7. Total(f, H) = Total(g, H)
  BY <1>3, TotalSame
<1>. QED  BY <1>1, <1>4, <1>6, <1>7 DEF H, f, g

\* The same rows with the same amounts: the same is reserved.
LEMMA SameRows ==
  ASSUME AmountsOK, AmountsOK', UNCHANGED <<row, gross, phase, credit>>
  PROVE  \A h \in Houses : Reserved(h)' = Reserved(h) /\ Reserved(h)' <= Reserved(h)
<1>. SUFFICES ASSUME NEW h \in Houses
              PROVE  Reserved(h)' = Reserved(h) /\ Reserved(h)' <= Reserved(h)
  OBVIOUS
<1>1. Holding(h)' = Holding(h) /\ Held' = Held
  BY DEF Holding, Held, Deduction
<1>2. /\ Reserved(h) \in Nat
      /\ Reserved(h) = Total(Held, Holding(h)) /\ Reserved(h)' = Total(Held', Holding(h)')
  BY SumsOK, SumsOKNext DEF ReservedOK
<1>3. Reserved(h)' = Reserved(h)
  BY <1>1, <1>2
<1>. QED  BY <1>2, <1>3

\* A request in flight is for a house.
HasHouse == \A c \in Callers : caller[c].pc # "idle" => caller[c].house \in Houses

\* One request moves on, for a house or to its end.
LEMMA HouseStep ==
  ASSUME RecordsOK, HasHouse, NEW c \in Callers, NEW q, caller' = [caller EXCEPT ![c] = q],
         q.pc # "idle" => q.house \in Houses
  PROVE  HasHouse'
  BY DEF RecordsOK, HasHouse

\* Amounts stay in their range: the balance is clamped at zero and never above the
\* earnings it was computed from.
LEMMA AmountsCorrect == Spec => [](AmountsOK /\ HasHouse)
<1>1. Init => AmountsOK /\ HasHouse
  BY AmountFacts DEF Init, AmountsOK, HasHouse, Lifecycle!Init, Request, Transaction
<1>2. RecordsOK /\ AmountsOK /\ HasHouse /\ [Next]_vars => AmountsOK' /\ HasHouse'
  <2>. SUFFICES ASSUME RecordsOK, AmountsOK, HasHouse, [Next]_vars
                PROVE  AmountsOK' /\ HasHouse'
    OBVIOUS
  <2>1. ASSUME UNCHANGED <<gross, lifeVars, earned, peak>>, seen' \in [Callers -> Amounts]
        PROVE  AmountsOK'
    BY <2>1 DEF AmountsOK, lifeVars
  <2>2. ASSUME UNCHANGED seen
        PROVE  seen' \in [Callers -> Amounts]
    BY <2>2 DEF AmountsOK
  <2>3. ASSUME NEW c \in Callers, End(c)
        PROVE  seen' \in [Callers -> Amounts] /\ HasHouse'
    <3>1. Request("idle", None).pc = "idle"
      BY Fields
    <3>2. HasHouse'
      BY <2>3, <3>1, HouseStep DEF End
    <3>. QED  BY <2>3, <3>2, AmountFacts DEF End, AmountsOK
  <2>4. ASSUME NEW c \in Callers, NEW pc \in Inside, caller[c].pc \in Inside,
               caller' = [caller EXCEPT ![c] = [caller[c] EXCEPT !.pc = pc]]
        PROVE  HasHouse'
    <3>. DEFINE q == [caller[c] EXCEPT !.pc = pc]
    <3>1. q.house \in Houses
      BY <2>4, MoveOn DEF HasHouse, Inside
    <3>. HIDE DEF q
    <3>2. caller' = [caller EXCEPT ![c] = q]
      BY <2>4 DEF q
    <3>. QED  BY <3>1, <3>2, HouseStep
  <2>5. ASSUME NEW c \in Callers, NEW h \in Houses, StartRequest(c, h)
        PROVE  AmountsOK' /\ HasHouse'
    <3>. DEFINE q == Request("waiting", h)
    <3>1. q.house \in Houses
      BY DEF Request, Transaction
    <3>. HIDE DEF q
    <3>2. caller' = [caller EXCEPT ![c] = q]
      BY <2>5 DEF StartRequest, q
    <3>. QED  BY <2>1, <2>2, <2>5, <3>1, <3>2, HouseStep DEF StartRequest
  <2>6. ASSUME NEW c \in Callers, Acquire(c)
        PROVE  AmountsOK' /\ HasHouse'
    <3>. DEFINE q == Transaction("quota", caller[c].house, today, None)
    <3>1. q.house \in Houses
      BY <2>6, Fields DEF Acquire, HasHouse
    <3>. HIDE DEF q
    <3>2. caller' = [caller EXCEPT ![c] = q]
      BY <2>6 DEF Acquire, q
    <3>. QED  BY <2>1, <2>2, <2>6, <3>1, <3>2, HouseStep DEF Acquire
  <2>7. ASSUME NEW c \in Callers, CreateStep(c)
        PROVE  AmountsOK' /\ HasHouse'
    <3>1. CASE QuotaFree(c)
      BY <2>1, <2>2, <2>4, <3>1 DEF QuotaFree, Inside
    <3>2. CASE QuotaTaken(c)
      BY <2>1, <2>2, <2>4, <3>2 DEF QuotaTaken, Inside
    <3>3. CASE FindRelease(c)
      <4>1. PICK r \in Releases :
              caller' = [caller EXCEPT
                ![c] = Transaction("earnings", caller[c].house, caller[c].day, r)]
        BY <3>3 DEF FindRelease, UnusedReleases
      <4>. DEFINE q == Transaction("earnings", caller[c].house, caller[c].day, r)
      <4>2. q.house \in Houses
        BY <3>3, Fields DEF FindRelease, HasHouse
      <4>. HIDE DEF q
      <4>3. caller' = [caller EXCEPT ![c] = q]
        BY <4>1 DEF q
      <4>. QED  BY <2>1, <2>2, <3>3, <4>2, <4>3, HouseStep DEF FindRelease
    <3>4. CASE QuotaReached(c)
      BY <2>1, <2>3, <3>4 DEF QuotaReached
    <3>5. CASE ReadEarnings(c)
      <4>1. earned[caller[c].house] \in Amounts
        BY <3>5 DEF ReadEarnings, HasHouse, AmountsOK
      <4>2. seen' \in [Callers -> Amounts]
        BY <3>5, <4>1 DEF ReadEarnings, AmountsOK
      <4>. QED  BY <2>1, <2>4, <3>5, <4>2 DEF ReadEarnings, Inside
    <3>6. CASE ReadWithdrawals(c)
      <4>. DEFINE v == Max({0, seen[c] - Reserved(caller[c].house)})
      <4>1. Reserved(caller[c].house) \in Nat
        BY <3>6, SumsOK DEF ReadWithdrawals, HasHouse, ReservedOK
      <4>2. seen[c] \in Amounts /\ seen[c] \in Nat
        BY AmountFacts DEF AmountsOK
      <4>3. v = IF 0 >= seen[c] - Reserved(caller[c].house) THEN 0
                ELSE seen[c] - Reserved(caller[c].house)
        BY <4>1, <4>2, MaxOfTwo
      <4>4. v \in Amounts
        BY <4>1, <4>2, <4>3, LedgerAssumption DEF Amounts
      <4>. HIDE DEF v
      <4>5. seen' = [seen EXCEPT ![c] = v]
        BY <3>6 DEF ReadWithdrawals, v
      <4>6. seen' \in [Callers -> Amounts]
        BY <4>4, <4>5 DEF AmountsOK
      <4>. QED  BY <2>1, <2>4, <3>6, <4>6 DEF ReadWithdrawals, Inside
    <3>7. CASE Insert(c)
      <4>1. End(c) /\ UNCHANGED <<lifeVars, earned, peak>>
        BY <3>7 DEF Insert
      <4>2. gross' \in [Rows -> Amounts]
        BY <3>7 DEF Insert, AmountsOK
      <4>. QED  BY <2>3, <4>1, <4>2 DEF AmountsOK, lifeVars
    <3>8. CASE Rollback(c)
      BY <2>1, <2>3, <3>8 DEF Rollback
    <3>. QED  BY <2>7, <3>1, <3>2, <3>3, <3>4, <3>5, <3>6, <3>7, <3>8 DEF CreateStep
  <2>8. ASSUME NEW c \in Callers, Expire(c)
        PROVE  AmountsOK' /\ HasHouse'
    <3>1. Request("idle", None).pc = "idle"
      BY Fields
    <3>. QED  BY <2>1, <2>2, <2>8, <3>1, HouseStep DEF Expire
  <2>9. ASSUME UNCHANGED caller
        PROVE  HasHouse'
    BY <2>9 DEF HasHouse
  <2>10. ASSUME NEW a \in Admins, NEW h \in Houses, CheckRelease(a, h)
         PROVE  AmountsOK' /\ HasHouse'
    BY <2>1, <2>2, <2>9, <2>10 DEF CheckRelease
  <2>11. ASSUME NEW a \in Admins, CreateRelease(a)
         PROVE  AmountsOK' /\ HasHouse'
    BY <2>1, <2>2, <2>9, <2>11 DEF CreateRelease
  <2>12. ASSUME NEW h \in Houses, ChangeEarnings(h)
         PROVE  AmountsOK' /\ HasHouse'
    <3>1. PICK amount \in Amounts :
            /\ earned' = [earned EXCEPT ![h] = amount]
            /\ peak' = [peak EXCEPT ![h] = Max({peak[h], amount})]
      BY <2>12 DEF ChangeEarnings
    <3>2. peak[h] \in Amounts /\ peak[h] \in Nat /\ amount \in Nat
      BY AmountFacts DEF AmountsOK
    <3>3. Max({peak[h], amount}) \in Amounts
      BY <3>2, MaxOfTwo
    <3>4. UNCHANGED <<gross, lifeVars, seen, caller>>
      BY <2>12 DEF ChangeEarnings
    <3>. QED  BY <2>9, <3>1, <3>3, <3>4 DEF AmountsOK, lifeVars
  <2>13. ASSUME NEW w \in Rows, LiveOn(w)
         PROVE  AmountsOK' /\ HasHouse'
    <3>1. UNCHANGED <<gross, earned, peak, seen, caller>>
      BY <2>13 DEF LiveOn
    <3>2. sent' \in [Rows -> {0, 1}]
      BY <2>13 DEF LiveOn, Lifecycle!Send, Lifecycle!Settle, Lifecycle!Release,
                   Lifecycle!Credit, AmountsOK
    <3>3. 1..MaxAmount \subseteq Amounts
      BY LedgerAssumption DEF Amounts
    <3>4. credit' \in [Rows -> Amounts]
      BY <2>13, <3>3 DEF LiveOn, Lifecycle!Send, Lifecycle!Settle, Lifecycle!Release,
                   Lifecycle!Credit, AmountsOK
    <3>. QED  BY <2>9, <3>1, <3>2, <3>4 DEF AmountsOK
  <2>14. CASE NextDay
    BY <2>1, <2>2, <2>9, <2>14 DEF NextDay
  <2>15. CASE UNCHANGED vars
    BY <2>1, <2>2, <2>9, <2>15 DEF vars
  <2>. QED
    BY <2>5, <2>6, <2>7, <2>8, <2>10, <2>11, <2>12, <2>13, <2>14, <2>15 DEF Next
<1>. QED  BY <1>1, <1>2, RecordsCorrect, PTL DEF Spec

\* Records and amounts have their types in every reachable state, for every bound on
\* the earnings, every number of rows and every race.
THEOREM TypeCorrect == Spec => []TypeOK
<1>1. RecordsOK /\ AmountsOK => TypeOK
  BY DEF TypeOK, AmountsOK
<1>. QED  BY <1>1, RecordsCorrect, AmountsCorrect, PTL

------------------------------------------------------------------------------
(* What is reserved was earned *)

\* peak is what its name says.
EarnedWithinPeak == \A h \in Houses : earned[h] <= peak[h]

\* What a request has computed so far was earned once: before the deduction as it
\* is, after it together with all that is reserved.
Backed(c) ==
  \A h \in Houses : h = caller[c].house =>
    /\ caller[c].pc = "withdrawals" => seen[c] <= peak[h]
    /\ caller[c].pc = "decide" => seen[c] = 0 \/ seen[c] + Reserved(h) <= peak[h]

\* The inductive invariant of the balance.
BalanceInv == EarnedWithinPeak /\ ReservedWithinPeak /\ \A c \in Callers : Backed(c)

\* A step after which no more is reserved, no peak is lower, and a request that still
\* computes is backed or as it was.
LEMMA BalanceStep ==
  ASSUME AmountsOK, AmountsOK', BalanceInv,
         \A h \in Houses : Reserved(h)' <= Reserved(h) /\ peak[h] <= peak'[h],
         EarnedWithinPeak',
         \A c \in Callers :
           \/ Backed(c)'
           \/ caller'[c].pc \notin {"withdrawals", "decide"}
           \/ caller'[c] = caller[c] /\ seen'[c] = seen[c]
  PROVE  BalanceInv'
<1>1. \A h \in Houses : /\ Reserved(h) \in Nat /\ Reserved(h)' \in Nat
                        /\ peak[h] \in Nat /\ peak'[h] \in Nat
  BY SumsOK, SumsOKNext, AmountFacts DEF ReservedOK, AmountsOK
<1>2. ReservedWithinPeak'
  <2>1. ASSUME NEW h \in Houses
        PROVE  Reserved(h)' <= peak'[h]
    <3>1. Reserved(h) <= peak[h] /\ Reserved(h)' <= Reserved(h) /\ peak[h] <= peak'[h]
      BY DEF BalanceInv, ReservedWithinPeak
    <3>2. /\ Reserved(h) \in Nat /\ Reserved(h)' \in Nat
          /\ peak[h] \in Nat /\ peak'[h] \in Nat
      BY <1>1
    <3>. QED  BY ONLY <3>1, <3>2
  <2>. QED  BY <2>1 DEF ReservedWithinPeak
<1>3. ASSUME NEW c \in Callers
      PROVE  Backed(c)'
  <2>1. CASE caller'[c].pc \notin {"withdrawals", "decide"}
    BY <2>1 DEF Backed
  <2>2. CASE caller'[c] = caller[c] /\ seen'[c] = seen[c]
    <3>1. SUFFICES ASSUME NEW h \in Houses, h = caller[c].house
                   PROVE  /\ caller[c].pc = "withdrawals" => seen[c] <= peak'[h]
                          /\ caller[c].pc = "decide" =>
                               seen[c] = 0 \/ seen[c] + Reserved(h)' <= peak'[h]
      BY <2>2 DEF Backed
    <3>2. seen[c] \in Nat
      BY AmountFacts DEF AmountsOK
    <3>3. Reserved(h)' <= Reserved(h) /\ peak[h] <= peak'[h]
      OBVIOUS
    <3>4. /\ Reserved(h) \in Nat /\ Reserved(h)' \in Nat
          /\ peak[h] \in Nat /\ peak'[h] \in Nat
      BY <1>1
    <3>5. seen[c] <= peak[h] => seen[c] <= peak'[h]
      BY ONLY <3>2, <3>3, <3>4
    <3>6. seen[c] + Reserved(h) <= peak[h] => seen[c] + Reserved(h)' <= peak'[h]
      BY ONLY <3>2, <3>3, <3>4
    <3>7. Backed(c)
      BY DEF BalanceInv
    <3>. QED  BY <3>1, <3>5, <3>6, <3>7 DEF Backed
  <2>. QED  BY <2>1, <2>2
<1>. QED  BY <1>2, <1>3 DEF BalanceInv

\* Approval, payment, rejection, failure and refund only lower what is reserved.
LEMMA LivingHoldsLess ==
  ASSUME RecordsOK, AmountsOK, AmountsOK', NEW w \in Rows, LiveOn(w)
  PROVE  \A h \in Houses : Reserved(h)' <= Reserved(h)
<1>1. /\ UNCHANGED <<row, gross>>
      /\ \A x \in Rows : phase[x] = "released" => phase'[x] = "released"
  BY LiveOnEffect DEF LiveOn
<1>2. ASSUME NEW x \in Rows
      PROVE  Held'[x] <= Held[x]
  <2>1. gross[x] \in Nat /\ credit[x] \in Nat /\ credit'[x] \in Nat
    BY AmountFacts DEF AmountsOK
  <2>2. credit[x] <= credit'[x]
    <3>1. CASE Lifecycle!Credit(w)
      <4>1. credit[w] = 0
        BY <3>1 DEF Lifecycle!Credit
      <4>2. x # w => credit'[x] = credit[x]
        BY <3>1 DEF Lifecycle!Credit, AmountsOK
      <4>. QED  BY <2>1, <4>1, <4>2
    <3>2. CASE UNCHANGED credit
      BY <2>1, <3>2
    <3>. QED
      BY <3>1, <3>2 DEF LiveOn, Lifecycle!Send, Lifecycle!Settle, Lifecycle!Release
  <2>3. /\ Held[x] = IF 0 >= gross[x] - credit[x] THEN 0 ELSE gross[x] - credit[x]
        /\ Held'[x] = IF 0 >= gross[x] - credit'[x] THEN 0 ELSE gross[x] - credit'[x]
    BY <1>1, <2>1, MaxOfTwo DEF Held, Deduction
  <2>. QED  BY ONLY <2>1, <2>2, <2>3
<1>. SUFFICES ASSUME NEW h \in Houses PROVE Reserved(h)' <= Reserved(h)
  OBVIOUS
<1>3. Holding(h)' \subseteq Holding(h) /\ Holding(h)' \subseteq Rows
  BY <1>1 DEF Holding
<1>. QED  BY <1>2, <1>3, ReservedFalls

\* The sync moves the earnings, and the peak with them.
LEMMA PeakGrows ==
  ASSUME AmountsOK, AmountsOK', EarnedWithinPeak, NEW h \in Houses, ChangeEarnings(h)
  PROVE  EarnedWithinPeak' /\ \A x \in Houses : peak[x] <= peak'[x]
<1>1. PICK amount \in Amounts :
        /\ earned' = [earned EXCEPT ![h] = amount]
        /\ peak' = [peak EXCEPT ![h] = Max({peak[h], amount})]
  BY DEF ChangeEarnings
<1>2. /\ amount \in Nat
      /\ \A x \in Houses : earned[x] \in Nat /\ peak[x] \in Nat
  BY AmountFacts DEF AmountsOK
<1>3. Max({peak[h], amount}) = IF peak[h] >= amount THEN peak[h] ELSE amount
  BY <1>2, MaxOfTwo
<1>4. ASSUME NEW x \in Houses
      PROVE  earned'[x] <= peak'[x] /\ peak[x] <= peak'[x]
  <2>1. CASE x = h
    BY <1>1, <1>2, <1>3, <2>1 DEF AmountsOK
  <2>2. CASE x # h
    <3>1. earned'[x] = earned[x] /\ peak'[x] = peak[x] /\ earned[x] <= peak[x]
      BY <1>1, <2>2 DEF AmountsOK, EarnedWithinPeak
    <3>. QED  BY <1>2, <3>1
  <2>. QED  BY <2>1, <2>2
<1>. QED  BY <1>4 DEF EarnedWithinPeak

\* The insertion reserves at most what the request computed, and nobody else is
\* between computing and inserting.
LEMMA InsertBacked ==
  ASSUME RecordsOK, AmountsOK, AmountsOK', LedgerInv, BalanceInv, NEW c \in Callers, Insert(c)
  PROVE  BalanceInv'
<1>1. PICK w \in Rows :
        /\ row[w] = NoRow
        /\ row' = [row EXCEPT ![w] =
             [house |-> caller[c].house, day |-> today, release |-> caller[c].release]]
        /\ gross' = [gross EXCEPT ![w] = seen[c]]
  BY DEF Insert
<1>2. caller[c].pc = "decide" /\ UNCHANGED <<phase, credit, earned, peak>>
  BY DEF Insert, lifeVars
<1>3. \A x \in Callers : caller'[x].pc \notin Inside
  BY InsertLeavesNobody
<1>4. /\ row[w].house = None /\ row'[w].house = caller[c].house
      /\ gross'[w] = seen[c]
      /\ \A x \in Rows : x # w => row'[x] = row[x] /\ gross'[x] = gross[x]
  BY <1>1 DEF RecordsOK, AmountsOK, NoRow
<1>5. \A x \in Rows : x # w => Held'[x] = Held[x]
  BY <1>2, <1>4 DEF Held, Deduction
<1>6. ASSUME NEW h \in Houses
      PROVE  Reserved(h)' <= peak'[h]
  <2>1. w \notin Holding(h) /\ Holding(h) \subseteq Rows
    BY <1>4, LedgerAssumption DEF Holding
  <2>2. Reserved(h) \in Nat /\ Reserved(h)' \in Nat /\ peak[h] \in Nat /\ peak'[h] = peak[h]
    BY <1>2, SumsOK, SumsOKNext, AmountFacts DEF ReservedOK, AmountsOK
  <2>3. Reserved(h) <= peak[h]
    BY DEF BalanceInv, ReservedWithinPeak
  <2>4. CASE h # caller[c].house \/ phase[w] = "released"
    <3>1. Holding(h)' \subseteq Holding(h)
      BY <1>2, <1>4, <2>4 DEF Holding
    <3>2. \A x \in Holding(h)' : Held'[x] <= Held[x]
      BY <1>5, <2>1, <3>1, SumsOK DEF HeldOK
    <3>3. Reserved(h)' <= Reserved(h)
      BY <3>1, <3>2, ReservedFalls
    <3>. QED  BY ONLY <2>2, <2>3, <3>3
  <2>5. CASE h = caller[c].house /\ phase[w] # "released"
    <3>1. Holding(h)' = Holding(h) \cup {w}
      BY <1>2, <1>4, <2>5 DEF Holding
    <3>2. Reserved(h)' = Held'[w] + Reserved(h)
      BY <1>5, <2>1, <3>1, ReservedGrows
    <3>3. Held'[w] \in Nat /\ Held'[w] <= seen[c] /\ seen[c] \in Nat
      BY <1>4, SumsOKNext, AmountFacts DEF HeldOK, AmountsOK
    <3>4. seen[c] = 0 \/ seen[c] + Reserved(h) <= peak[h]
      BY <1>2, <2>5 DEF BalanceInv, Backed
    <3>. QED  BY ONLY <2>2, <2>3, <3>2, <3>3, <3>4
  <2>. QED  BY <2>4, <2>5
<1>7. EarnedWithinPeak'
  BY <1>2 DEF BalanceInv, EarnedWithinPeak
<1>8. \A x \in Callers : Backed(x)'
  BY <1>3 DEF Backed, Inside
<1>. QED  BY <1>6, <1>7, <1>8 DEF BalanceInv, ReservedWithinPeak

\* What an affiliate's withdrawals hold never exceeds the most the house ever earned,
\* for every number of requests, rows, houses and amounts: getBalance reads the
\* earnings and the withdrawals in two statements, but whoever computes holds the
\* lock (Exclusion), so until the insertion reservations only fall (LivingHoldsLess)
\* and what was computed stays backed (Backed).
THEOREM ReservationsBacked == Spec => []ReservedWithinPeak
<1>. DEFINE Inv == RecordsOK /\ LedgerInv /\ AmountsOK /\ HasHouse
<1>1. Init => BalanceInv
  <2>. SUFFICES ASSUME Init PROVE BalanceInv
    OBVIOUS
  <2>1. AmountsOK
    BY AmountFacts DEF Init, AmountsOK, Lifecycle!Init
  <2>2. ASSUME NEW h \in Houses
        PROVE  Reserved(h) = 0
    <3>1. Holding(h) = {}
      BY LedgerAssumption DEF Init, Holding, NoRow
    <3>2. Reserved(h) = Total(Held, {})
      BY <2>1, <3>1, SumsOK DEF ReservedOK
    <3>. QED  BY <3>2, TotalStep, FS_EmptySet
  <2>3. EarnedWithinPeak /\ ReservedWithinPeak
    BY <2>2 DEF Init, EarnedWithinPeak, ReservedWithinPeak
  <2>4. \A c \in Callers : Backed(c)
    BY Fields DEF Init, Backed
  <2>. QED  BY <2>3, <2>4 DEF BalanceInv
<1>2. Inv /\ Inv' /\ BalanceInv /\ [Next]_vars => BalanceInv'
  <2>. SUFFICES ASSUME RecordsOK, LedgerInv, AmountsOK, AmountsOK', HasHouse, BalanceInv,
                       [Next]_vars
                PROVE  BalanceInv'
    OBVIOUS
  <2>0. \A h \in Houses : peak[h] \in Nat
    BY AmountFacts DEF AmountsOK
  <2>1. ASSUME UNCHANGED <<row, gross, phase, credit, earned, peak>>,
               \A c \in Callers :
                 \/ Backed(c)'
                 \/ caller'[c].pc \notin {"withdrawals", "decide"}
                 \/ caller'[c] = caller[c] /\ seen'[c] = seen[c]
        PROVE  BalanceInv'
    <3>1. \A h \in Houses : Reserved(h)' <= Reserved(h)
      BY <2>1, SameRows
    <3>2. \A h \in Houses : peak[h] <= peak'[h]
      BY <2>0, <2>1
    <3>3. EarnedWithinPeak'
      BY <2>1 DEF BalanceInv, EarnedWithinPeak
    <3>. QED  BY <2>1, <3>1, <3>2, <3>3, BalanceStep
  <2>2. ASSUME NEW c \in Callers, NEW q, caller' = [caller EXCEPT ![c] = q],
               q.pc \notin {"withdrawals", "decide"},
               \A x \in Callers : x # c => seen'[x] = seen[x],
               UNCHANGED <<row, gross, phase, credit, earned, peak>>
        PROVE  BalanceInv'
    <3>1. \A x \in Callers : IF x = c THEN caller'[x] = q ELSE caller'[x] = caller[x]
      BY <2>2 DEF RecordsOK
    <3>. QED  BY <2>1, <2>2, <3>1
  <2>3. ASSUME NEW c \in Callers, End(c), UNCHANGED <<row, gross, phase, credit, earned, peak>>
        PROVE  BalanceInv'
    <3>1. Request("idle", None).pc \notin {"withdrawals", "decide"}
      BY Fields
    <3>2. \A x \in Callers : x # c => seen'[x] = seen[x]
      BY <2>3 DEF End, AmountsOK
    <3>. QED  BY <2>2, <2>3, <3>1, <3>2 DEF End
  <2>4. ASSUME NEW c \in Callers, NEW h \in Houses, StartRequest(c, h)
        PROVE  BalanceInv'
    <3>1. Request("waiting", h).pc \notin {"withdrawals", "decide"}
      BY Fields
    <3>. QED  BY <2>2, <2>4, <3>1 DEF StartRequest, lifeVars
  <2>5. ASSUME NEW c \in Callers, Acquire(c)
        PROVE  BalanceInv'
    <3>. DEFINE q == Transaction("quota", caller[c].house, today, None)
    <3>1. q.pc \notin {"withdrawals", "decide"}
      BY Fields
    <3>. HIDE DEF q
    <3>2. caller' = [caller EXCEPT ![c] = q]
      BY <2>5 DEF Acquire, q
    <3>. QED  BY <2>2, <2>5, <3>1, <3>2 DEF Acquire, lifeVars
  <2>6. ASSUME NEW c \in Callers, CreateStep(c)
        PROVE  BalanceInv'
    <3>1. CASE QuotaFree(c)
      <4>1. [caller[c] EXCEPT !.pc = "earnings"].pc \notin {"withdrawals", "decide"}
        BY MoveOn DEF Inside
      <4>. QED  BY <2>2, <3>1, <4>1 DEF QuotaFree, lifeVars
    <3>2. CASE QuotaTaken(c)
      <4>1. [caller[c] EXCEPT !.pc = "release"].pc \notin {"withdrawals", "decide"}
        BY MoveOn DEF Inside
      <4>. QED  BY <2>2, <3>2, <4>1 DEF QuotaTaken, lifeVars
    <3>3. CASE FindRelease(c)
      <4>1. PICK r \in Releases :
              caller' = [caller EXCEPT
                ![c] = Transaction("earnings", caller[c].house, caller[c].day, r)]
        BY <3>3 DEF FindRelease, UnusedReleases
      <4>2. Transaction("earnings", caller[c].house, caller[c].day, r).pc
              \notin {"withdrawals", "decide"}
        BY Fields
      <4>. QED  BY <2>2, <3>3, <4>1, <4>2 DEF FindRelease, lifeVars
    <3>4. CASE QuotaReached(c)
      BY <2>3, <3>4 DEF QuotaReached, lifeVars
    <3>5. CASE ReadEarnings(c)
      <4>1. /\ caller'[c].pc = "withdrawals" /\ caller'[c].house = caller[c].house
            /\ seen'[c] = earned[caller[c].house] /\ peak' = peak
            /\ \A x \in Callers : x # c => caller'[x] = caller[x] /\ seen'[x] = seen[x]
            /\ UNCHANGED <<row, gross, phase, credit, earned, peak>>
        BY <3>5, MoveOn DEF ReadEarnings, RecordsOK, AmountsOK, Inside, lifeVars
      <4>2. Backed(c)'
        BY <4>1 DEF Backed, BalanceInv, EarnedWithinPeak
      <4>. QED  BY <2>1, <4>1, <4>2
    <3>6. CASE ReadWithdrawals(c)
      <4>1. PICK h \in Houses : h = caller[c].house
        BY <3>6 DEF ReadWithdrawals, HasHouse
      <4>2. /\ caller[c].pc = "withdrawals"
            /\ caller'[c].pc = "decide" /\ caller'[c].house = h
            /\ seen'[c] = Max({0, seen[c] - Reserved(h)})
            /\ \A x \in Callers : x # c => caller'[x] = caller[x] /\ seen'[x] = seen[x]
            /\ UNCHANGED <<row, gross, phase, credit, earned, peak>>
        BY <3>6, <4>1, MoveOn DEF ReadWithdrawals, RecordsOK, AmountsOK, Inside, lifeVars
      <4>3. /\ Reserved(h) \in Nat /\ Reserved(h)' \in Nat /\ seen[c] \in Nat
            /\ peak[h] \in Nat
        BY SumsOK, SumsOKNext, AmountFacts DEF ReservedOK, AmountsOK
      <4>4. seen'[c] = IF 0 >= seen[c] - Reserved(h) THEN 0 ELSE seen[c] - Reserved(h)
        BY <4>2, <4>3, MaxOfTwo
      <4>5. seen[c] <= peak[h]
        BY <4>1, <4>2 DEF BalanceInv, Backed
      <4>6. Reserved(h)' <= Reserved(h)
        BY <4>2, SameRows
      <4>7. seen'[c] = 0 \/ seen'[c] + Reserved(h)' <= peak[h]
        BY ONLY <4>3, <4>4, <4>5, <4>6
      <4>8. Backed(c)'
        BY <4>2, <4>7 DEF Backed
      <4>. QED  BY <2>1, <4>2, <4>8
    <3>7. CASE Insert(c)
      BY <3>7, InsertBacked
    <3>8. CASE Rollback(c)
      BY <2>3, <3>8 DEF Rollback, lifeVars
    <3>. QED  BY <2>6, <3>1, <3>2, <3>3, <3>4, <3>5, <3>6, <3>7, <3>8 DEF CreateStep
  <2>7. ASSUME NEW c \in Callers, Expire(c)
        PROVE  BalanceInv'
    <3>1. Request("idle", None).pc \notin {"withdrawals", "decide"}
      BY Fields
    <3>. QED  BY <2>2, <2>7, <3>1 DEF Expire, lifeVars
  <2>8. ASSUME UNCHANGED <<row, gross, phase, credit, earned, peak, caller, seen>>
        PROVE  BalanceInv'
    BY <2>1, <2>8
  <2>9. ASSUME NEW a \in Admins, NEW h \in Houses, CheckRelease(a, h)
        PROVE  BalanceInv'
    BY <2>8, <2>9 DEF CheckRelease, lifeVars
  <2>10. ASSUME NEW a \in Admins, CreateRelease(a)
         PROVE  BalanceInv'
    BY <2>8, <2>10 DEF CreateRelease, lifeVars
  <2>11. ASSUME NEW h \in Houses, ChangeEarnings(h)
         PROVE  BalanceInv'
    <3>1. UNCHANGED <<row, gross, phase, credit, caller, seen>>
      BY <2>11 DEF ChangeEarnings, lifeVars
    <3>2. EarnedWithinPeak' /\ \A x \in Houses : peak[x] <= peak'[x]
      BY <2>11, PeakGrows DEF BalanceInv
    <3>. QED  BY <3>1, <3>2, SameRows, BalanceStep
  <2>12. ASSUME NEW w \in Rows, LiveOn(w)
         PROVE  BalanceInv'
    <3>1. UNCHANGED <<caller, seen, earned, peak>>
      BY <2>12 DEF LiveOn
    <3>2. EarnedWithinPeak'
      BY <3>1 DEF BalanceInv, EarnedWithinPeak
    <3>3. \A h \in Houses : peak[h] <= peak'[h]
      BY <2>0, <3>1
    <3>. QED  BY <2>12, <3>1, <3>2, <3>3, LivingHoldsLess, BalanceStep
  <2>13. CASE NextDay
    BY <2>8, <2>13 DEF NextDay, lifeVars
  <2>14. CASE UNCHANGED vars
    BY <2>8, <2>14 DEF vars, lifeVars
  <2>. QED
    BY <2>4, <2>5, <2>6, <2>7, <2>9, <2>10, <2>11, <2>12, <2>13, <2>14 DEF Next
<1>3. BalanceInv => ReservedWithinPeak
  BY DEF BalanceInv
<1>. QED  BY <1>1, <1>2, <1>3, RecordsCorrect, LedgerInvariant, AmountsCorrect, PTL DEF Spec

------------------------------------------------------------------------------
(* create is atomic *)

\* A row that was never used is open; one that was is for a house, of a day.
Filled ==
  \A w \in Rows :
    IF row[w] = NoRow THEN phase[w] = "open"
    ELSE row[w].house \in Houses /\ row[w].day \in Days

\* The release a transaction found is one for its house.
HeldForHouse ==
  \A c \in Callers :
    caller[c].pc \in Inside /\ caller[c].release # None =>
      release[caller[c].release].house = caller[c].house

\* Nothing the account consists of changes.
SameAccount == UNCHANGED <<row, gross, phase, credit, release, peak>>

\* Neither changes while the rows and their phases stand.
LEMMA FilledStable ==
  ASSUME Filled, UNCHANGED <<row, phase>>
  PROVE  Filled'
  BY DEF Filled

\* A request that holds a release after the step held it before, for the same house.
LEMMA HouseHeldStep ==
  ASSUME HeldForHouse, UNCHANGED release,
         \A c \in Callers : caller'[c].pc \in Inside =>
           \/ caller'[c].release = None
           \/ /\ caller[c].pc \in Inside
              /\ caller'[c].release = caller[c].release
              /\ caller'[c].house = caller[c].house
  PROVE  HeldForHouse'
  BY DEF HeldForHouse

\* Rows have a house and a day, and a found release is one for its request's house.
LEMMA AccountInvariant == Spec => [](Filled /\ HeldForHouse)
<1>. USE LedgerAssumption
<1>1. Init => Filled /\ HeldForHouse
  <2>1. ASSUME Init PROVE \A c \in Callers : caller[c].pc \notin Inside
    BY <2>1, Fields DEF Init, Inside
  <2>. QED  BY <2>1 DEF Init, Filled, HeldForHouse, Lifecycle!Init
<1>2. /\ RecordsOK /\ LedgerInv /\ ReleaseInv /\ HasHouse /\ Filled /\ HeldForHouse
      /\ [Next]_vars
      => Filled' /\ HeldForHouse'
  <2>. SUFFICES ASSUME RecordsOK, LedgerInv, ReleaseInv, HasHouse, Filled, HeldForHouse,
                       [Next]_vars
                PROVE  Filled' /\ HeldForHouse'
    OBVIOUS
  <2>1. ASSUME NEW c \in Callers, NEW q, caller' = [caller EXCEPT ![c] = q],
               UNCHANGED <<row, phase, release>>,
               \/ q.pc \notin Inside \/ q.release = None
               \/ /\ caller[c].pc \in Inside
                  /\ q.release = caller[c].release /\ q.house = caller[c].house
        PROVE  Filled' /\ HeldForHouse'
    <3>1. \A x \in Callers : IF x = c THEN caller'[x] = q ELSE caller'[x] = caller[x]
      BY <2>1 DEF RecordsOK
    <3>. QED  BY <2>1, <3>1, HouseHeldStep, FilledStable
  <2>2. ASSUME NEW c \in Callers, NEW pc \in {"idle", "waiting"}, NEW h,
               caller' = [caller EXCEPT ![c] = Request(pc, h)],
               UNCHANGED <<row, phase, release>>
        PROVE  Filled' /\ HeldForHouse'
    BY <2>1, <2>2, Fields DEF Inside
  <2>3. ASSUME NEW c \in Callers, NEW pc \in Inside, caller[c].pc \in Inside,
               caller' = [caller EXCEPT ![c] = [caller[c] EXCEPT !.pc = pc]],
               UNCHANGED <<row, phase, release>>
        PROVE  Filled' /\ HeldForHouse'
    <3>. DEFINE q == [caller[c] EXCEPT !.pc = pc]
    <3>1. q.release = caller[c].release /\ q.house = caller[c].house
      BY MoveOn
    <3>. HIDE DEF q
    <3>2. caller' = [caller EXCEPT ![c] = q]
      BY <2>3 DEF q
    <3>. QED  BY <2>1, <2>3, <3>1, <3>2
  <2>4. ASSUME NEW c \in Callers, NEW h \in Houses, StartRequest(c, h)
        PROVE  Filled' /\ HeldForHouse'
    BY <2>2, <2>4 DEF StartRequest, lifeVars
  <2>5. ASSUME NEW c \in Callers, Acquire(c)
        PROVE  Filled' /\ HeldForHouse'
    <3>. DEFINE q == Transaction("quota", caller[c].house, today, None)
    <3>1. caller' = [caller EXCEPT ![c] = q] /\ UNCHANGED <<row, phase, release>>
      BY <2>5 DEF Acquire, lifeVars
    <3>2. q.release = None
      BY Fields
    <3>. HIDE DEF q
    <3>. QED  BY <2>1, <3>1, <3>2
  <2>6. ASSUME NEW c \in Callers, CreateStep(c)
        PROVE  Filled' /\ HeldForHouse'
    <3>1. CASE QuotaFree(c)
      BY <2>3, <3>1 DEF QuotaFree, Inside, lifeVars
    <3>2. CASE QuotaTaken(c)
      BY <2>3, <3>2 DEF QuotaTaken, Inside, lifeVars
    <3>3. CASE FindRelease(c)
      <4>1. PICK r \in UnusedReleases(caller[c].house, caller[c].day) :
              caller' = [caller EXCEPT
                ![c] = Transaction("earnings", caller[c].house, caller[c].day, r)]
        BY <3>3 DEF FindRelease
      <4>2. /\ release[r].house = caller[c].house
            /\ UNCHANGED <<row, phase, release>>
        BY <3>3, <4>1 DEF FindRelease, UnusedReleases, lifeVars
      <4>3. /\ caller'[c].release = r /\ caller'[c].house = caller[c].house
            /\ \A x \in Callers : x # c => caller'[x] = caller[x]
        BY <4>1, Fields DEF RecordsOK
      <4>4. HeldForHouse'
        BY <4>2, <4>3 DEF HeldForHouse
      <4>. QED  BY <4>2, <4>4, FilledStable
    <3>4. CASE QuotaReached(c)
      BY <2>2, <3>4 DEF QuotaReached, End, lifeVars
    <3>5. CASE ReadEarnings(c)
      BY <2>3, <3>5 DEF ReadEarnings, Inside, lifeVars
    <3>6. CASE ReadWithdrawals(c)
      BY <2>3, <3>6 DEF ReadWithdrawals, Inside, lifeVars
    <3>7. CASE Insert(c)
      <4>1. \A x \in Callers : caller'[x].pc \notin Inside
        BY <3>7, InsertLeavesNobody
      <4>2. PICK w \in Rows :
              /\ row[w] = NoRow
              /\ row' = [row EXCEPT ![w] = [house |-> caller[c].house, day |-> today,
                                            release |-> caller[c].release]]
        BY <3>7 DEF Insert
      <4>3. phase' = phase /\ caller[c].house \in Houses /\ today \in Days
        BY <3>7 DEF Insert, lifeVars, HasHouse, RecordsOK
      <4>4. /\ row'[w].house = caller[c].house /\ row'[w].day = today
            /\ \A x \in Rows : x # w => row'[x] = row[x]
        BY <4>2 DEF RecordsOK
      <4>5. Filled'
        BY <4>3, <4>4 DEF Filled, NoRow
      <4>. QED  BY <4>1, <4>5 DEF HeldForHouse
    <3>8. CASE Rollback(c)
      BY <2>2, <3>8 DEF Rollback, End, lifeVars
    <3>. QED  BY <2>6, <3>1, <3>2, <3>3, <3>4, <3>5, <3>6, <3>7, <3>8 DEF CreateStep
  <2>7. ASSUME NEW c \in Callers, Expire(c)
        PROVE  Filled' /\ HeldForHouse'
    BY <2>2, <2>7 DEF Expire, lifeVars
  <2>8. ASSUME NEW a \in Admins, CreateRelease(a)
        PROVE  Filled' /\ HeldForHouse'
    <3>1. PICK r \in Releases :
            /\ release[r] = NoRelease
            /\ release' = [release EXCEPT ![r] =
                 [house |-> admin[a].house, day |-> admin[a].day, consumed |-> FALSE]]
      BY <2>8 DEF CreateRelease
    <3>2. UNCHANGED <<row, phase, caller>>
      BY <2>8 DEF CreateRelease, lifeVars
    <3>3. \A x \in Releases : x # r => release'[x] = release[x]
      BY <3>1 DEF RecordsOK
    <3>4. HeldForHouse'
      BY <3>1, <3>2, <3>3, RequestFacts DEF HeldForHouse, ReleaseInv, HeldRelease
    <3>. QED  BY <3>2, <3>4, FilledStable
  <2>9. ASSUME UNCHANGED <<row, phase, release, caller>>
        PROVE  Filled' /\ HeldForHouse'
    BY <2>9, FilledStable DEF HeldForHouse
  <2>10. ASSUME NEW a \in Admins, NEW h \in Houses, CheckRelease(a, h)
         PROVE  Filled' /\ HeldForHouse'
    BY <2>9, <2>10 DEF CheckRelease, lifeVars
  <2>11. ASSUME NEW h \in Houses, ChangeEarnings(h)
         PROVE  Filled' /\ HeldForHouse'
    BY <2>9, <2>11 DEF ChangeEarnings, lifeVars
  <2>12. ASSUME NEW w \in Rows, LiveOn(w)
         PROVE  Filled' /\ HeldForHouse'
    <3>1. row[w] # NoRow /\ UNCHANGED <<row, release, caller>>
      BY <2>12 DEF LiveOn
    <3>2. \A x \in Rows : x # w => phase'[x] = phase[x]
      BY <2>12 DEF LiveOn, Lifecycle!Send, Lifecycle!Settle, Lifecycle!Release,
                   Lifecycle!Credit, RecordsOK
    <3>. QED  BY <3>1, <3>2 DEF Filled, HeldForHouse
  <2>13. CASE NextDay
    BY <2>9, <2>13 DEF NextDay, lifeVars
  <2>14. CASE UNCHANGED vars
    BY <2>9, <2>14 DEF vars, lifeVars
  <2>. QED
    BY <2>4, <2>5, <2>6, <2>7, <2>8, <2>10, <2>11, <2>12, <2>13, <2>14 DEF Next
<1>. QED  BY <1>1, <1>2, RecordsCorrect, LedgerInvariant, ReleaseInvariant, AmountsCorrect, PTL
          DEF Spec

\* A step of the account, or none.
AStep == [Account!Next]_(Account!vars)

\* A row that is out of the sum and comes in, or changes what it holds.
LEMMA ReservedWithout ==
  ASSUME AmountsOK, NEW h \in Houses, NEW w \in Holding(h)
  PROVE  /\ Reserved(h) = Held[w] + Total(Held, Holding(h) \ {w})
         /\ Held[w] \in Amounts /\ Held[w] \in Nat /\ Total(Held, Holding(h) \ {w}) \in Nat
<1>. DEFINE H == Holding(h)
<1>1. /\ IsFiniteSet(H) /\ H \subseteq Rows /\ Reserved(h) = Total(Held, H)
      /\ \A x \in H : Held[x] \in Nat
  BY SumsOK DEF ReservedOK, HeldOK
<1>. HIDE DEF H
<1>2. w \in H
  BY DEF H
<1>3. Total(Held, H) = Held[w] + Total(Held, H \ {w})
  BY <1>1, <1>2, TotalRemove
<1>4. Total(Held, H \ {w}) \in Nat
  BY <1>1, FS_Subset, TotalType
<1>5. Held[w] \in Nat /\ Held[w] <= gross[w] /\ gross[w] \in Amounts
  BY <1>1, <1>2, SumsOK DEF HeldOK, AmountsOK
<1>6. Held[w] \in Amounts
  BY <1>5, LedgerAssumption DEF Amounts
<1>. QED  BY <1>1, <1>3, <1>4, <1>5, <1>6 DEF H

\* The same for every house and row, as a formula that can be primed.
ReservedParts ==
  \A h \in Houses : \A w \in Holding(h) :
    /\ Reserved(h) = Held[w] + Total(Held, Holding(h) \ {w})
    /\ Held[w] \in Amounts /\ Held[w] \in Nat /\ Total(Held, Holding(h) \ {w}) \in Nat

\* It holds before a step ...
LEMMA Without == AmountsOK => ReservedParts
  BY ReservedWithout DEF ReservedParts

\* ... and after it.
LEMMA WithoutNext == AmountsOK' => ReservedParts'
  BY Without, PTL

\* A step that leaves rows, releases and earnings alone is none of the account's.
LEMMA AccountStutter ==
  ASSUME AmountsOK, AmountsOK', SameAccount
  PROVE  AStep
<1>1. \A h \in Houses : Reserved(h)' = Reserved(h)
  BY SameRows DEF SameAccount
<1>2. \A h \in Houses : DaysTaken(h)' = DaysTaken(h) /\ Granted(h)' = Granted(h)
  BY DEF SameAccount, DaysTaken, Granted, Holding
<1>. QED  BY <1>1, <1>2 DEF SameAccount, AStep, Account!vars

\* Earnings that exceed all earlier ones are an Earn; others are no step.
LEMMA EarnStep ==
  ASSUME AmountsOK, AmountsOK', NEW h \in Houses, ChangeEarnings(h)
  PROVE  AStep
<1>1. PICK amount \in Amounts : peak' = [peak EXCEPT ![h] = Max({peak[h], amount})]
  BY DEF ChangeEarnings
<1>2. UNCHANGED <<row, gross, phase, credit, release>>
  BY DEF ChangeEarnings, lifeVars
<1>3. peak[h] \in Nat /\ amount \in Nat
  BY AmountFacts DEF AmountsOK
<1>4. Max({peak[h], amount}) = IF peak[h] >= amount THEN peak[h] ELSE amount
  BY <1>3, MaxOfTwo
<1>5. CASE peak[h] >= amount
  <2>1. peak' = peak
    BY <1>1, <1>4, <1>5 DEF AmountsOK
  <2>. QED  BY <1>2, <2>1, AccountStutter DEF SameAccount
<1>6. CASE ~(peak[h] >= amount)
  <2>1. amount > peak[h] /\ peak' = [peak EXCEPT ![h] = amount]
    <3>1. amount > peak[h]
      BY <1>3, <1>6
    <3>2. Max({peak[h], amount}) = amount
      BY <1>4, <1>6
    <3>. QED  BY <1>1, <3>1, <3>2
  <2>2. \A k \in Houses : Reserved(k)' = Reserved(k)
    BY <1>2, SameRows
  <2>3. \A k \in Houses : DaysTaken(k)' = DaysTaken(k) /\ Granted(k)' = Granted(k)
    BY <1>2 DEF DaysTaken, Granted, Holding
  <2>4. Account!Earn(h)
    BY <1>2, <2>1, <2>2, <2>3 DEF Account!Earn
  <2>. QED  BY <2>4 DEF AStep, Account!Next
<1>. QED  BY <1>5, <1>6

\* An admin's release is a Grant: it was granted for no house before.
LEMMA GrantedStep ==
  ASSUME RecordsOK, AmountsOK, AmountsOK', NEW a \in Admins, CreateRelease(a)
  PROVE  AStep
<1>. DEFINE h == admin[a].house
<1>1. PICK r \in Releases :
        /\ release[r] = NoRelease
        /\ release' = [release EXCEPT ![r] =
             [house |-> h, day |-> admin[a].day, consumed |-> FALSE]]
  BY DEF CreateRelease
<1>2. UNCHANGED <<row, gross, phase, credit, peak>> /\ h \in Houses
  BY DEF CreateRelease, lifeVars, RecordsOK
<1>. HIDE DEF h
<1>3. /\ release[r].house = None /\ ~release[r].consumed
      /\ release'[r].house = h /\ ~release'[r].consumed
      /\ \A x \in Releases : x # r => release'[x] = release[x]
  BY <1>1 DEF RecordsOK, NoRelease
<1>4. \A k \in Houses : Reserved(k)' = Reserved(k)
  BY <1>2, SameRows
<1>5. \A k \in Houses : DaysTaken(k)' = DaysTaken(k)
  BY <1>2 DEF DaysTaken, Holding
<1>6. \A k \in Houses : r \notin Granted(k)
  BY <1>3, LedgerAssumption DEF Granted
<1>7. \A k \in Houses : Granted(k)' = IF k = h THEN Granted(k) \cup {r} ELSE Granted(k)
  BY <1>3, LedgerAssumption DEF Granted
<1>8. {x \in Releases : release[x].consumed}' = {x \in Releases : release[x].consumed}
  BY <1>3
<1>. DEFINE granted == [k \in Houses |-> Granted(k)]
<1>9. granted' = [granted EXCEPT ![h] = @ \cup {r}]
  BY <1>7
<1>10. Account!Grant(h, r)
  BY <1>2, <1>4, <1>5, <1>6, <1>8, <1>9 DEF Account!Grant
<1>. QED  BY <1>2, <1>10 DEF AStep, Account!Next

\* What an insertion does to the account.
LEMMA InsertEffect ==
  ASSUME RecordsOK, AmountsOK, AmountsOK', HasHouse, Filled, NEW c \in Callers, Insert(c),
         ReservedWithinPeak', NEW h \in Houses, h = caller[c].house
  PROVE  /\ \E amount \in Amounts :
              /\ Reserved(h) + amount <= peak[h]
              /\ Reserved(h)' = Reserved(h) + amount
         /\ \A k \in Houses : k # h => Reserved(k)' = Reserved(k)
         /\ caller[c].release = None =>
              DaysTaken(h)' = DaysTaken(h) \cup {today}
         /\ caller[c].release # None => DaysTaken(h)' = DaysTaken(h)
         /\ \A k \in Houses : k # h => DaysTaken(k)' = DaysTaken(k)
<1>1. PICK w \in Rows :
        /\ row[w] = NoRow
        /\ row' = [row EXCEPT ![w] =
             [house |-> caller[c].house, day |-> today, release |-> caller[c].release]]
        /\ gross' = [gross EXCEPT ![w] = seen[c]]
  BY DEF Insert
<1>2. UNCHANGED <<phase, credit, peak>> /\ phase[w] = "open"
  BY <1>1 DEF Insert, lifeVars, Filled
<1>3. /\ row[w].house = None
      /\ row'[w].house = h /\ row'[w].day = today /\ row'[w].release = caller[c].release
      /\ \A x \in Rows : x # w => row'[x] = row[x] /\ gross'[x] = gross[x]
  BY <1>1 DEF RecordsOK, AmountsOK, NoRow
<1>4. \A k \in Houses : /\ w \notin Holding(k)
                        /\ Holding(k)' = IF k = h THEN Holding(k) \cup {w} ELSE Holding(k)
  BY <1>2, <1>3, LedgerAssumption DEF Holding
<1>5. \A x \in Rows : x # w => Held'[x] = Held[x]
  BY <1>2, <1>3 DEF Held, Deduction
<1>6. \A k \in Houses : Holding(k) \subseteq Rows
  BY DEF Holding
<1>7. Reserved(h)' = Held'[w] + Reserved(h)
  BY <1>4, <1>5, <1>6, ReservedGrows
<1>8. ASSUME NEW k \in Houses, k # h
      PROVE  Reserved(k)' = Reserved(k)
  <2>1. /\ IsFiniteSet(Holding(k)) /\ Holding(k)' = Holding(k)
        /\ Reserved(k) = Total(Held, Holding(k)) /\ Reserved(k)' = Total(Held', Holding(k)')
    BY <1>4, <1>8, SumsOK, SumsOKNext DEF ReservedOK
  <2>2. \A x \in Holding(k) : Held[x] \in Nat /\ Held[x] = Held'[x]
    BY <1>4, <1>5, <1>6, SumsOK DEF HeldOK
  <2>3. Total(Held, Holding(k)) = Total(Held', Holding(k))
    BY <2>1, <2>2, TotalSame
  <2>. QED  BY <2>1, <2>3
<1>9. \E amount \in Amounts :
        Reserved(h) + amount <= peak[h] /\ Reserved(h)' = Reserved(h) + amount
  <2>1. /\ Held'[w] \in Nat /\ Held'[w] <= gross'[w] /\ gross'[w] \in Amounts
        /\ Reserved(h) \in Nat
    BY SumsOK, SumsOKNext DEF HeldOK, ReservedOK, AmountsOK
  <2>2. Held'[w] \in Amounts
    BY <2>1, LedgerAssumption DEF Amounts
  <2>3. Reserved(h)' <= peak[h]
    BY <1>2 DEF ReservedWithinPeak
  <2>. QED  BY <1>7, <2>1, <2>2, <2>3
<1>10. \A k \in Houses : k # h => DaysTaken(k)' = DaysTaken(k)
  BY <1>3, <1>4, <1>6 DEF DaysTaken
<1>11. caller[c].release = None => DaysTaken(h)' = DaysTaken(h) \cup {today}
  BY <1>3, <1>4, <1>6 DEF DaysTaken
<1>12. caller[c].release # None => DaysTaken(h)' = DaysTaken(h)
  BY <1>3, <1>4, <1>6 DEF DaysTaken
<1>. QED  BY <1>8, <1>9, <1>10, <1>11, <1>12

\* The insertion is the withdrawal: the day is still free (LimitChecked), or the release
\* in hand is one of the house and unused (HeldRelease, HeldForHouse).
LEMMA WithdrawStep ==
  ASSUME RecordsOK, AmountsOK, AmountsOK', LedgerInv, LedgerInv', ReleaseInv, HasHouse,
         Filled, HeldForHouse, ReservedWithinPeak', NEW c \in Callers, Insert(c)
  PROVE  AStep
<1>1. PICK h \in Houses : h = caller[c].house
  BY DEF Insert, HasHouse
<1>2. PICK amount \in Amounts :
        Reserved(h) + amount <= peak[h] /\ Reserved(h)' = Reserved(h) + amount
  BY <1>1, InsertEffect
<1>3. /\ \A k \in Houses : k # h => Reserved(k)' = Reserved(k)
      /\ caller[c].release = None => DaysTaken(h)' = DaysTaken(h) \cup {today}
      /\ caller[c].release # None => DaysTaken(h)' = DaysTaken(h)
      /\ \A k \in Houses : k # h => DaysTaken(k)' = DaysTaken(k)
  BY <1>1, InsertEffect
<1>4. /\ caller[c].pc = "decide" /\ peak' = peak /\ ConsumeRelease(caller[c].release)
      /\ today \in Days
  BY DEF Insert, RecordsOK
<1>. DEFINE reserved == [k \in Houses |-> Reserved(k)]
            taken == [k \in Houses |-> DaysTaken(k)]
            granted == [k \in Houses |-> Granted(k)]
            used == {r \in Releases : release[r].consumed}
<1>5. /\ reserved[h] + amount <= peak[h]
      /\ reserved' = [reserved EXCEPT ![h] = @ + amount]
  BY <1>2, <1>3
<1>6. Account!Reserve(h)
  BY <1>5 DEF Account!Reserve
<1>7. CASE caller[c].release = None
  <2>1. release' = release
    BY <1>4, <1>7 DEF ConsumeRelease
  <2>2. granted' = granted /\ used' = used
    BY <2>1 DEF Granted
  <2>3. today \notin DaysTaken(h)
    <3>1. ~TakenToday(c) /\ caller[c].day \in Days /\ caller[c].day <= today
      BY <1>4, <1>7 DEF LedgerInv, LimitChecked, Clock, PastQuota, Inside
    <3>2. today >= caller[c].day
      BY <1>4, <3>1, DayFacts
    <3>3. \A w \in Holding(h) : row[w].day # today
      BY <1>1, <3>1, <3>2 DEF TakenToday
    <3>. QED  BY <3>3 DEF DaysTaken
  <2>4. taken' = [taken EXCEPT ![h] = @ \cup {today}]
    BY <1>3, <1>7
  <2>5. Account!WithdrawFree(h, today)
    BY <1>4, <1>6, <2>2, <2>3, <2>4 DEF Account!WithdrawFree
  <2>. QED  BY <1>4, <2>5 DEF AStep, Account!Next
<1>8. CASE caller[c].release # None
  <2>1. PICK r \in Releases : r = caller[c].release
    BY <1>8, RequestFacts
  <2>2. release[r].house = h /\ ~release[r].consumed
    BY <1>1, <1>4, <1>8, <2>1 DEF ReleaseInv, HeldRelease, HeldForHouse, Inside
  <2>3. release' = [release EXCEPT ![r] = [@ EXCEPT !.consumed = TRUE]]
    BY <1>4, <1>8, <2>1 DEF ConsumeRelease
  <2>4. /\ release'[r].consumed
        /\ \A x \in Releases : release'[x].house = release[x].house
        /\ \A x \in Releases : x # r => release'[x] = release[x]
    BY <2>3 DEF RecordsOK, ReleaseType
  <2>5. granted' = granted
    BY <2>4 DEF Granted
  <2>6. used' = used \cup {r}
    BY <2>4
  <2>7. taken' = taken
    BY <1>3, <1>8
  <2>8. r \in granted[h] \ used
    BY <2>2 DEF Granted
  <2>9. Account!WithdrawExtra(h, r)
    BY <1>4, <1>6, <2>5, <2>6, <2>7, <2>8 DEF Account!WithdrawExtra
  <2>. QED  BY <2>9 DEF AStep, Account!Next
<1>. QED  BY <1>7, <1>8

\* What a step of a row's life does to its house.
LEMMA GiveBackStep ==
  ASSUME RecordsOK, AmountsOK, AmountsOK', LedgerInv, Filled, NEW w \in Rows, LiveOn(w)
  PROVE  AStep
<1>1. /\ row[w] # NoRow /\ row[w].house \in Houses /\ row[w].day \in Days
      /\ UNCHANGED <<row, gross, release, peak>>
  BY DEF LiveOn, Filled
<1>2. PICK h \in Houses : h = row[w].house
  BY <1>1
<1>. DEFINE reserved == [k \in Houses |-> Reserved(k)]
            taken == [k \in Houses |-> DaysTaken(k)]
            granted == [k \in Houses |-> Granted(k)]
            used == {r \in Releases : release[r].consumed}
<1>3. granted' = granted /\ used' = used
  BY <1>1 DEF Granted
<1>4. CASE Lifecycle!Send(w) \/ Lifecycle!Settle(w)
  <2>1. credit' = credit /\ \A x \in Rows : phase'[x] = "released" <=> phase[x] = "released"
    BY <1>4 DEF Lifecycle!Send, Lifecycle!Settle, RecordsOK
  <2>2. Held' = Held
    BY <1>1, <2>1 DEF Held, Deduction
  <2>3. \A k \in Houses : Holding(k)' = Holding(k)
    BY <1>1, <2>1 DEF Holding
  <2>4. \A k \in Houses : Reserved(k)' = Reserved(k)
    BY <2>2, <2>3, SumsOK, SumsOKNext DEF ReservedOK
  <2>5. \A k \in Houses : DaysTaken(k)' = DaysTaken(k)
    BY <1>1, <2>3 DEF DaysTaken
  <2>. QED  BY <1>1, <1>3, <2>4, <2>5 DEF AStep, Account!vars
<1>5. CASE Lifecycle!Release(w)
  <2>1. /\ phase[w] = "open" /\ phase' = [phase EXCEPT ![w] = "released"]
        /\ credit' = credit
    BY <1>5 DEF Lifecycle!Release
  <2>2. phase'[w] = "released" /\ \A x \in Rows : x # w => phase'[x] = phase[x]
    BY <2>1 DEF RecordsOK
  <2>3. /\ w \in Holding(h) /\ Holding(h)' = Holding(h) \ {w}
        /\ \A k \in Houses : k # h => Holding(k)' = Holding(k)
    BY <1>1, <1>2, <2>1, <2>2 DEF Holding
  <2>4. Held' = Held
    BY <1>1, <2>1 DEF Held, Deduction
  <2>5. /\ Reserved(h) = Held[w] + Reserved(h)' /\ Reserved(h)' \in Nat
        /\ Held[w] \in Amounts /\ Held[w] \in Nat
    BY <2>3, <2>4, ReservedWithout, SumsOKNext DEF ReservedOK
  <2>6. \A k \in Houses : k # h => Reserved(k)' = Reserved(k)
    BY <2>3, <2>4, SumsOK, SumsOKNext DEF ReservedOK
  <2>7. /\ Held[w] <= reserved[h]
        /\ reserved' = [reserved EXCEPT ![h] = @ - Held[w]]
    <3>1. Held[w] <= Reserved(h) /\ Reserved(h)' = Reserved(h) - Held[w]
      BY ONLY <2>5
    <3>. QED  BY <2>6, <3>1
  <2>8. \A k \in Houses : k # h => DaysTaken(k)' = DaysTaken(k)
    BY <1>1, <2>3 DEF DaysTaken
  <2>9. row[w].release # None => DaysTaken(h)' = DaysTaken(h)
    BY <1>1, <2>3 DEF DaysTaken
  <2>10. row[w].release = None => DaysTaken(h)' = DaysTaken(h) \ {row[w].day}
    <3>1. ASSUME NEW x \in Holding(h), x # w, row[w].release = None, row[x].release = None
          PROVE  row[x].day # row[w].day
      <4>1. x \in Rows /\ row[x].house = row[w].house /\ phase[x] # "released"
        BY <1>2, <3>1 DEF Holding
      <4>. QED  BY <1>1, <2>1, <3>1, <4>1 DEF LedgerInv, OneFreePerDay
    <3>. QED  BY <1>1, <2>3, <3>1 DEF DaysTaken
  <2>11. taken' \in {taken, [taken EXCEPT ![h] = @ \ {row[w].day}]}
    <3>1. CASE row[w].release = None
      BY <2>8, <2>10, <3>1
    <3>2. CASE row[w].release # None
      BY <2>8, <2>9, <3>2
    <3>. QED  BY <3>1, <3>2
  <2>. HIDE DEF taken, reserved, granted, used
  <2>12. Account!GiveBack(h)
    BY <1>1, <1>3, <2>5, <2>7, <2>11 DEF Account!GiveBack, taken, reserved, granted, used
  <2>. QED  BY <2>12 DEF AStep, Account!Next
<1>6. CASE Lifecycle!Credit(w)
  <2>1. /\ phase[w] # "released" /\ credit[w] = 0 /\ phase' = phase
        /\ \A x \in Rows : x # w => credit'[x] = credit[x]
    BY <1>6 DEF Lifecycle!Credit, AmountsOK
  <2>2. \A k \in Houses : Holding(k)' = Holding(k)
    BY <1>1, <2>1 DEF Holding
  <2>3. w \in Holding(h) /\ \A k \in Houses : k # h => w \notin Holding(k)
    BY <1>2, <2>1 DEF Holding
  <2>4. \A x \in Rows : x # w => Held'[x] = Held[x]
    BY <1>1, <2>1 DEF Held, Deduction
  <2>5. /\ Reserved(h) = Held[w] + Total(Held, Holding(h) \ {w})
        /\ Held[w] \in Amounts /\ Held[w] \in Nat /\ Total(Held, Holding(h) \ {w}) \in Nat
    BY <2>3, ReservedWithout
  <2>6. /\ Reserved(h)' = Held'[w] + Total(Held', Holding(h)' \ {w})
        /\ Held'[w] \in Nat /\ Total(Held', Holding(h)' \ {w}) \in Nat
    BY <2>2, <2>3, WithoutNext DEF ReservedParts
  <2>7. \A k \in Houses : k # h => Reserved(k)' = Reserved(k)
    <3>1. ASSUME NEW k \in Houses, k # h
          PROVE  Reserved(k)' = Reserved(k)
      <4>1. /\ IsFiniteSet(Holding(k)) /\ Holding(k) \subseteq Rows
            /\ Reserved(k) = Total(Held, Holding(k))
            /\ Reserved(k)' = Total(Held', Holding(k))
        BY <2>2, SumsOK, SumsOKNext DEF ReservedOK
      <4>2. \A x \in Holding(k) : Held[x] \in Nat /\ Held[x] = Held'[x]
        BY <2>3, <2>4, <3>1, <4>1, SumsOK DEF HeldOK
      <4>. QED  BY <4>1, <4>2, TotalSame
    <3>. QED  BY <3>1
  <2>8. Total(Held', Holding(h)' \ {w}) = Total(Held, Holding(h) \ {w})
    <3>. DEFINE S == Holding(h) \ {w}
    <3>1. IsFiniteSet(S) /\ \A x \in S : Held[x] \in Nat /\ Held[x] = Held'[x]
      BY <2>4, SumsOK, FS_Subset DEF ReservedOK, HeldOK
    <3>2. Total(Held, S) = Total(Held', S)
      <4>. HIDE DEF S
      <4>. QED  BY <3>1, TotalSame
    <3>. QED  BY <2>2, <3>2
  <2>9. Held'[w] <= Held[w]
    <3>1. gross[w] \in Nat /\ credit[w] \in Nat /\ credit'[w] \in Nat
      BY AmountFacts DEF AmountsOK
    <3>2. /\ Held[w] = IF 0 >= gross[w] - credit[w] THEN 0 ELSE gross[w] - credit[w]
          /\ Held'[w] = IF 0 >= gross[w] - credit'[w] THEN 0 ELSE gross[w] - credit'[w]
      BY <1>1, <3>1, MaxOfTwo DEF Held, Deduction
    <3>3. credit[w] = 0
      BY <2>1
    <3>. QED  BY ONLY <3>1, <3>2, <3>3
  <2>. DEFINE amount == Held[w] - Held'[w]
  <2>10. amount \in Amounts /\ amount <= Reserved(h) /\ Reserved(h)' = Reserved(h) - amount
    <3>1. amount \in Nat /\ amount <= Held[w]
      BY <2>5, <2>6, <2>9
    <3>2. amount \in Amounts
      BY <2>5, <3>1, LedgerAssumption DEF Amounts
    <3>3. amount <= Reserved(h) /\ Reserved(h)' = Reserved(h) - amount
      BY <2>5, <2>6, <2>8, <2>9
    <3>. QED  BY <3>2, <3>3
  <2>. HIDE DEF amount
  <2>11. amount <= reserved[h] /\ reserved' = [reserved EXCEPT ![h] = @ - amount]
    BY <2>7, <2>10
  <2>12. taken' = taken
    BY <1>1, <2>2 DEF DaysTaken
  <2>. HIDE DEF taken, reserved, granted, used
  <2>13. Account!GiveBack(h)
    BY <1>1, <1>3, <2>10, <2>11, <2>12 DEF Account!GiveBack, taken, reserved, granted, used
  <2>. QED  BY <2>13 DEF AStep, Account!Next
<1>. QED  BY <1>4, <1>5, <1>6 DEF LiveOn

\* The transactions of create and createForExternal take effect at their insertion: to
\* the affiliate, whatever races, fails or is refunded around it, each withdrawal takes an
\* amount the house earned and the day's free withdrawal or a granted release of its own.
THEOREM ImplementsAccount == Spec => AccountSpec
<1>1. Init => Account!Init
  <2>. SUFFICES ASSUME Init PROVE Account!Init
    OBVIOUS
  <2>1. \A h \in Houses : Holding(h) = {} /\ Granted(h) = {}
    BY LedgerAssumption DEF Init, Holding, Granted, NoRow, NoRelease
  <2>2. AmountsOK
    BY AmountFacts DEF Init, AmountsOK, Lifecycle!Init
  <2>3. \A h \in Houses : Reserved(h) = 0
    BY <2>1, <2>2, SumsOK, TotalStep, FS_EmptySet DEF ReservedOK
  <2>4. \A h \in Houses : DaysTaken(h) = {}
    BY <2>1 DEF DaysTaken
  <2>5. {r \in Releases : release[r].consumed} = {}
    BY DEF Init, NoRelease
  <2>. QED  BY <2>1, <2>3, <2>4, <2>5 DEF Init, Account!Init
<1>. DEFINE Inv == /\ RecordsOK /\ LedgerInv /\ ReleaseInv /\ AmountsOK /\ HasHouse
                   /\ Filled /\ HeldForHouse /\ ReservedWithinPeak
<1>2. Inv /\ Inv' /\ [Next]_vars => [Account!Next]_(Account!vars)
  <2>. SUFFICES ASSUME Inv, Inv', [Next]_vars PROVE AStep
    BY DEF AStep
  <2>1. ASSUME NEW c \in Callers, NEW h \in Houses, StartRequest(c, h) PROVE AStep
    BY <2>1, AccountStutter DEF StartRequest, SameAccount, lifeVars
  <2>2. ASSUME NEW c \in Callers, Acquire(c) PROVE AStep
    BY <2>2, AccountStutter DEF Acquire, SameAccount, lifeVars
  <2>3. ASSUME NEW c \in Callers, CreateStep(c) PROVE AStep
    <3>1. CASE Insert(c)
      BY <3>1, WithdrawStep
    <3>2. CASE QuotaFree(c) \/ QuotaTaken(c) \/ FindRelease(c) \/ QuotaReached(c)
      BY <3>2, AccountStutter
      DEF QuotaFree, QuotaTaken, FindRelease, QuotaReached, SameAccount, lifeVars
    <3>3. CASE ReadEarnings(c) \/ ReadWithdrawals(c) \/ Rollback(c)
      BY <3>3, AccountStutter DEF ReadEarnings, ReadWithdrawals, Rollback, SameAccount, lifeVars
    <3>. QED  BY <2>3, <3>1, <3>2, <3>3 DEF CreateStep
  <2>4. ASSUME NEW c \in Callers, Expire(c) PROVE AStep
    BY <2>4, AccountStutter DEF Expire, SameAccount, lifeVars
  <2>5. ASSUME NEW a \in Admins, NEW h \in Houses, CheckRelease(a, h) PROVE AStep
    BY <2>5, AccountStutter DEF CheckRelease, SameAccount, lifeVars
  <2>6. ASSUME NEW a \in Admins, CreateRelease(a) PROVE AStep
    BY <2>6, GrantedStep
  <2>7. ASSUME NEW h \in Houses, ChangeEarnings(h) PROVE AStep
    BY <2>7, EarnStep
  <2>8. ASSUME NEW w \in Rows, LiveOn(w) PROVE AStep
    BY <2>8, GiveBackStep
  <2>9. CASE NextDay
    BY <2>9, AccountStutter DEF NextDay, SameAccount, lifeVars
  <2>10. CASE UNCHANGED vars
    BY <2>10, AccountStutter DEF vars, SameAccount, lifeVars
  <2>. QED
    BY <2>1, <2>2, <2>3, <2>4, <2>5, <2>6, <2>7, <2>8, <2>9, <2>10 DEF Next
<1>. QED
  BY <1>1, <1>2, RecordsCorrect, LedgerInvariant, ReleaseInvariant, AmountsCorrect,
     AccountInvariant, ReservationsBacked, PTL
  DEF Spec, AccountSpec, Account!Spec
==============================================================================
