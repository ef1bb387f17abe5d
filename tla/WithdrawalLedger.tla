-------------------------- MODULE WithdrawalLedger ---------------------------
(***************************************************************************)
(* How one affiliate's withdrawals come into being: the transaction of     *)
(* create (and createForExternal) under pg_advisory_xact_lock(user), the   *)
(* balance it reads in several READ COMMITTED statements, the limit of one *)
(* withdrawal per house and day, and the extra ones an admin grants.       *)
(* What happens to a row afterwards is WithdrawalLifecycle's; the sync,    *)
(* fraud deductions and admins change the earnings meanwhile.              *)
(* All queries filter by userId, so one affiliate is enough.               *)
(***************************************************************************)
EXTENDS Integers, FiniteSets, FiniteSetsExt

CONSTANTS
  Rows,         \* room for withdrawal rows
  Releases,     \* room for WithdrawalDayRelease rows
  Houses,       \* betting houses, "bonus" may be one of them
  Callers,      \* create requests that can be in flight at once
  Admins,       \* grantWithdrawalRelease requests that can be in flight at once
  None,         \* nobody, nothing
  External,     \* is it a partner's sub-user (createForExternal)?
  MinAmount,    \* minWithdrawalAmount of each house
  MaxAmount,    \* bound on the earnings of a house
  Corrections,  \* may earnings go down (fraud, corrected metrics, adjustments)?
  MaxDay        \* bound on the days that pass

ASSUME LedgerAssumption ==
  /\ None \notin Callers \cup Releases \cup Houses
  /\ MinAmount \in [Houses -> Nat]
  /\ IsFiniteSet(Rows)
  /\ MaxAmount \in Nat /\ MaxDay \in Nat \ {0}
  /\ {External, Corrections} \subseteq BOOLEAN

VARIABLES
  row,                  \* WithdrawalRequest: house, createdAt, what it consumed
  gross,                \* its originalAmount
  phase, sent, credit,  \* its life, as in WithdrawalLifecycle
  release,              \* WithdrawalDayRelease: house, releaseDate, consumedAt
  earned, peak,         \* what each house earned, and the most it ever had
  today,
  lock,                 \* who holds the advisory lock
  caller,               \* create requests in flight
  seen,                 \* the balance a request computed so far
  admin                 \* grantWithdrawalRelease requests in flight

lifeVars == <<phase, sent, credit>>
vars == <<row, gross, lifeVars, release, earned, peak, today, lock, caller, seen, admin>>

Days == 1..MaxDay
Amounts == 0..MaxAmount
NoRow == [house |-> None, day |-> 0, release |-> None]
NoRelease == [house |-> None, day |-> 0, consumed |-> FALSE]
Inside == {"quota", "release", "earnings", "withdrawals", "decide"}

Transaction(pc, house, day, r) == [pc |-> pc, house |-> house, day |-> day, release |-> r]
Request(pc, house) == Transaction(pc, house, 0, None)

Lifecycle == INSTANCE WithdrawalLifecycle WITH Withdrawals <- Rows, MaxCredit <- MaxAmount

RowType == [house : Houses \cup {None}, day : Days \cup {0}, release : Releases \cup {None}]
ReleaseType == [house : Houses \cup {None}, day : Days \cup {0}, consumed : BOOLEAN]
RequestType == [pc : {"idle", "waiting"} \cup Inside, house : Houses \cup {None},
                day : Days \cup {0}, release : Releases \cup {None}]

\* Everything but the amounts.
RecordsOK ==
  /\ row \in [Rows -> RowType]
  /\ phase \in [Rows -> {"open", "settled", "released"}]
  /\ release \in [Releases -> ReleaseType]
  /\ today \in Days
  /\ lock \in Callers \cup {None}
  /\ caller \in [Callers -> RequestType]
  /\ admin \in [Admins -> [house : Houses \cup {None}, day : Days \cup {0}]]

TypeOK ==
  /\ RecordsOK
  /\ gross \in [Rows -> Amounts]
  /\ sent \in [Rows -> {0, 1}]
  /\ credit \in [Rows -> Amounts]
  /\ earned \in [Houses -> Amounts] /\ peak \in [Houses -> Amounts]
  /\ seen \in [Callers -> Amounts]

Init ==
  /\ row = [w \in Rows |-> NoRow]
  /\ gross = [w \in Rows |-> 0]
  /\ Lifecycle!Init
  /\ release = [r \in Releases |-> NoRelease]
  /\ earned = [h \in Houses |-> 0] /\ peak = [h \in Houses |-> 0]
  /\ today = 1
  /\ lock = None
  /\ caller = [c \in Callers |-> Request("idle", None)]
  /\ seen = [c \in Callers |-> 0]
  /\ admin = [a \in Admins |-> [house |-> None, day |-> 0]]

------------------------------------------------------------------------------
(* The balance of a house *)

\* PENDING, APPROVED, PROCESSING and COMPLETED rows hold their amount.
Holding(h) == {w \in Rows : row[w].house = h /\ phase[w] # "released"}

Deduction(w) == Max({0, gross[w] - credit[w]})

Reserved(h) == MapThenSumSet(Deduction, Holding(h))

Available(h) == Max({0, earned[h] - Reserved(h)})

------------------------------------------------------------------------------
(* create, createForExternal *)

\* The checks before the transaction passed (payment data, withdrawalBlocked,
\* house enabled, cadence, minimum of CPAs).
StartRequest(c, h) ==
  /\ caller[c].pc = "idle"
  /\ External => h # "bonus"
  /\ caller' = [caller EXCEPT ![c] = Request("waiting", h)]
  /\ UNCHANGED <<row, gross, lifeVars, release, earned, peak, today, lock, seen, admin>>

\* (Mutant: no lock is taken.)
LockIgnored == TRUE
LockFree == lock = None

\* pg_advisory_xact_lock, then startOfDay.
Acquire(c) ==
  /\ caller[c].pc = "waiting"
  /\ LockFree
  /\ lock' = c
  /\ caller' = [caller EXCEPT ![c] = Transaction("quota", @.house, today, None)]
  /\ UNCHANGED <<row, gross, lifeVars, release, earned, peak, today, seen, admin>>

\* End of the transaction: the lock goes with it.
\* (Mutant: a lock of the session, which outlives the transaction.)
EndKeepsLock(c) ==
  /\ lock' = lock
  /\ caller' = [caller EXCEPT ![c] = Request("idle", None)]
  /\ seen' = [seen EXCEPT ![c] = 0]
End(c) ==
  /\ lock' = None
  /\ caller' = [caller EXCEPT ![c] = Request("idle", None)]
  /\ seen' = [seen EXCEPT ![c] = 0]

UnusedReleases(h, day) ==
  {r \in Releases : release[r].house = h /\ release[r].day >= day /\ ~release[r].consumed}

\* (Mutant: only rows that are still open count.)
TakenTodayOpenOnly(c) ==
  \E w \in Rows :
    row[w].house = caller[c].house /\ row[w].day >= caller[c].day /\ phase[w] = "open"
TakenToday(c) == \E w \in Holding(caller[c].house) : row[w].day >= caller[c].day

QuotaFree(c) ==
  /\ caller[c].pc = "quota"
  /\ ~TakenToday(c)
  /\ caller' = [caller EXCEPT ![c] = [@ EXCEPT !.pc = "earnings"]]
  /\ UNCHANGED <<row, gross, lifeVars, release, earned, peak, today, lock, seen, admin>>

\* An affiliate may have been granted one more; a sub-user may not.
QuotaTaken(c) ==
  /\ caller[c].pc = "quota"
  /\ TakenToday(c)
  /\ ~External
  /\ caller' = [caller EXCEPT ![c] = [@ EXCEPT !.pc = "release"]]
  /\ UNCHANGED <<row, gross, lifeVars, release, earned, peak, today, lock, seen, admin>>

\* consumedAt is written here; nobody sees it before the transaction commits.
FindRelease(c) ==
  /\ caller[c].pc = "release"
  /\ \E r \in UnusedReleases(caller[c].house, caller[c].day) :
       caller' = [caller EXCEPT ![c] = Transaction("earnings", @.house, @.day, r)]
  /\ UNCHANGED <<row, gross, lifeVars, release, earned, peak, today, lock, seen, admin>>

\* 429: one withdrawal per house and day.
QuotaReached(c) ==
  /\ \/ External /\ caller[c].pc = "quota" /\ TakenToday(c)
     \/ /\ caller[c].pc = "release"
        /\ UnusedReleases(caller[c].house, caller[c].day) = {}
  /\ End(c)
  /\ UNCHANGED <<row, gross, lifeVars, release, earned, peak, today, admin>>

\* getBalance: first the earnings (or User.bonusBalance) ...
ReadEarnings(c) ==
  /\ caller[c].pc = "earnings"
  /\ caller' = [caller EXCEPT ![c] = [@ EXCEPT !.pc = "withdrawals"]]
  /\ seen' = [seen EXCEPT ![c] = earned[caller[c].house]]
  /\ UNCHANGED <<row, gross, lifeVars, release, earned, peak, today, lock, admin>>

\* ... then, in a statement with a snapshot of its own, the withdrawals.
\* (Mutant: the balance is not clamped at zero.)
ReadUnclamped(c) ==
  /\ caller[c].pc = "withdrawals"
  /\ caller' = [caller EXCEPT ![c] = [@ EXCEPT !.pc = "decide"]]
  /\ seen' = [seen EXCEPT ![c] = @ - Reserved(caller[c].house)]
  /\ UNCHANGED <<row, gross, lifeVars, release, earned, peak, today, lock, admin>>
\* (Mutant: COMPLETED rows are not deducted.)
ReadOpenOnly(c) ==
  /\ caller[c].pc = "withdrawals"
  /\ caller' = [caller EXCEPT ![c] = [@ EXCEPT !.pc = "decide"]]
  /\ seen' = [seen EXCEPT ![c] = Max({0, @ -
       MapThenSumSet(Deduction, {w \in Holding(caller[c].house) : phase[w] = "open"})})]
  /\ UNCHANGED <<row, gross, lifeVars, release, earned, peak, today, lock, admin>>
ReadWithdrawals(c) ==
  /\ caller[c].pc = "withdrawals"
  /\ caller' = [caller EXCEPT ![c] = [@ EXCEPT !.pc = "decide"]]
  /\ seen' = [seen EXCEPT ![c] = Max({0, @ - Reserved(caller[c].house)})]
  /\ UNCHANGED <<row, gross, lifeVars, release, earned, peak, today, lock, admin>>

EnoughFor(c) ==
  IF External \/ caller[c].house = "bonus" THEN seen[c] > 0
  ELSE seen[c] >= MinAmount[caller[c].house]

\* (Mutant: the release that was used stays unused.)
KeepRelease(r) == UNCHANGED release
ConsumeRelease(r) ==
  release' = IF r = None THEN release
             ELSE [release EXCEPT ![r] = [@ EXCEPT !.consumed = TRUE]]

\* The whole available amount is withdrawn; commit.
Insert(c) ==
  /\ caller[c].pc = "decide"
  /\ EnoughFor(c)
  /\ \E w \in {x \in Rows : row[x] = NoRow} :
       /\ row' = [row EXCEPT ![w] =
            [house |-> caller[c].house, day |-> today, release |-> caller[c].release]]
       /\ gross' = [gross EXCEPT ![w] = seen[c]]
  /\ ConsumeRelease(caller[c].release)
  /\ End(c)
  /\ UNCHANGED <<lifeVars, earned, peak, today, admin>>

\* Below the minimum, a restriction of the house, the 15 s limit, a crash.
Rollback(c) ==
  /\ caller[c].pc \in Inside
  /\ End(c)
  /\ UNCHANGED <<row, gross, lifeVars, release, earned, peak, today, admin>>

\* The 15 s pass while the request waits for the lock.
Expire(c) ==
  /\ caller[c].pc = "waiting"
  /\ caller' = [caller EXCEPT ![c] = Request("idle", None)]
  /\ UNCHANGED <<row, gross, lifeVars, release, earned, peak, today, lock, seen, admin>>

CreateStep(c) ==
  \/ QuotaFree(c) \/ QuotaTaken(c) \/ FindRelease(c) \/ QuotaReached(c)
  \/ ReadEarnings(c) \/ ReadWithdrawals(c)
  \/ Insert(c) \/ Rollback(c)

------------------------------------------------------------------------------
(* grantWithdrawalRelease *)

\* No unused release for today was found.
CheckRelease(a, h) ==
  /\ admin[a].house = None
  /\ h # "bonus"
  /\ UnusedReleases(h, today) = {}
  /\ admin' = [admin EXCEPT ![a] = [house |-> h, day |-> today]]
  /\ UNCHANGED <<row, gross, lifeVars, release, earned, peak, today, lock, caller, seen>>

CreateRelease(a) ==
  /\ admin[a].house # None
  /\ \E r \in {x \in Releases : release[x] = NoRelease} :
       release' = [release EXCEPT ![r] =
         [house |-> admin[a].house, day |-> admin[a].day, consumed |-> FALSE]]
  /\ admin' = [admin EXCEPT ![a] = [house |-> None, day |-> 0]]
  /\ UNCHANGED <<row, gross, lifeVars, earned, peak, today, lock, caller, seen>>

------------------------------------------------------------------------------
(* Everything that changes the balance without the lock *)

\* The sync, a bonus, an adjustment or a fraud deduction.
ChangeEarnings(h) ==
  /\ \E amount \in Amounts :
       /\ amount > earned[h] \/ (Corrections /\ amount < earned[h])
       /\ earned' = [earned EXCEPT ![h] = amount]
       /\ peak' = [peak EXCEPT ![h] = Max({@, amount})]
  /\ UNCHANGED <<row, gross, lifeVars, release, today, lock, caller, seen, admin>>

\* Approval, payment, rejection, failure and refund of a row (a refund of at most
\* the amount: WithdrawalPayout's RefundIsBacked).
LiveOn(w) ==
  /\ row[w] # NoRow
  /\ \/ /\ ~External
        /\ Lifecycle!Send(w)
     \/ Lifecycle!Settle(w)
     \/ Lifecycle!Release(w)
     \/ /\ Lifecycle!Credit(w)
        /\ credit'[w] <= gross[w]
  /\ UNCHANGED <<row, gross, release, earned, peak, today, lock, caller, seen, admin>>

NextDay ==
  /\ today < MaxDay
  /\ today' = today + 1
  /\ UNCHANGED <<row, gross, lifeVars, release, earned, peak, lock, caller, seen, admin>>

Next ==
  \/ \E c \in Callers :
       (\E h \in Houses : StartRequest(c, h)) \/ Acquire(c) \/ CreateStep(c) \/ Expire(c)
  \/ \E a \in Admins : (\E h \in Houses : CheckRelease(a, h)) \/ CreateRelease(a)
  \/ \E h \in Houses : ChangeEarnings(h)
  \/ \E w \in Rows : LiveOn(w)
  \/ NextDay

Spec == Init /\ [][Next]_vars

\* A transaction ends (after 15 s at the latest), and Postgres serves the queue of
\* an advisory lock. No request is assumed to expire.
Fairness == \A c \in Callers : WF_vars(CreateStep(c)) /\ SF_vars(Acquire(c))

FairSpec == Spec /\ Fairness

------------------------------------------------------------------------------
(* What must hold *)

\* Whatever requests race, whatever fails or comes back meanwhile: what an
\* affiliate's withdrawals hold never exceeds the most the house ever earned
\* (one transaction at a time reads the balance and inserts the row).
ReservedWithinPeak == \A h \in Houses : Reserved(h) <= peak[h]

\* One withdrawal per house and day: of the rows that used no release, at most
\* one created on a day is alive, even if midnight passes inside a transaction.
OneFreePerDay ==
  \A v, w \in Rows :
    /\ row[v] # NoRow /\ row[v].house = row[w].house /\ row[v].day = row[w].day
    /\ row[v].release = None /\ row[w].release = None
    /\ phase[v] # "released" /\ phase[w] # "released"
    => v = w

\* A release is consumed together with the insertion of exactly one row: a
\* transaction that fails after it found the release gives it back.
ReleaseBacksOneRow ==
  \A r \in Releases :
    Cardinality({w \in Rows : row[w].release = r}) = IF release[r].consumed THEN 1 ELSE 0

\* The days of a house whose free withdrawal is taken, and the releases granted for it.
DaysTaken(h) == {row[w].day : w \in {x \in Holding(h) : row[x].release = None}}
Granted(h) == {r \in Releases : release[r].house = h}

\* create is atomic: however the statements of racing requests, the sync, admins and
\* failures interleave, each withdrawal takes effect at the instant of its insertion,
\* against money earned once and the day's free withdrawal or one granted, unused one.
Account == INSTANCE WithdrawalAccount WITH
  Extras <- Releases,
  reserved <- [h \in Houses |-> Reserved(h)],
  taken <- [h \in Houses |-> DaysTaken(h)],
  granted <- [h \in Houses |-> Granted(h)],
  used <- {r \in Releases : release[r].consumed}

AccountSpec == Account!Spec

\* Every request is answered: the lock never stays behind.
RequestsEnd == \A c \in Callers : (caller[c].pc # "idle") ~> (caller[c].pc = "idle")
==============================================================================
