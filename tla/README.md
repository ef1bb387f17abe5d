# painel-mt-affiliates in TLA+

TLA+ models of the affiliate platform in `src/backend-vexxa` (NestJS, Prisma on
Postgres, Redis, BullMQ; one API process under pm2), with TLC runs on small
instances and TLAPS proofs for every value of the constants. Each definition
is translated from the TypeScript it names in `PROJECT.json` ("map"). Paths
below are relative to `src/backend-vexxa/src/modules/` unless they say more.

## 1. The system

An affiliate (or a partner's sub-user) asks for affiliate links of betting
houses. Links come from pools kept in Google Sheets. Scrapers and sheets bring
in what each link earned (`affiliate_data`). Earnings minus withdrawals are a
balance per house. Withdrawals are created, approved by an admin, sent to a
payment gateway (HeartPay or Vorexy) and settled by its webhooks. Around that:
prizes, rankings, a support chat, notifications, WhatsApp messages, outbound
webhooks for partners.

Everything runs in one Node process (`src/ecosystem.config.cjs`: one instance,
autorestart). Concurrency comes from requests, cron ticks and queue jobs that
interleave at every `await`, from the database's READ COMMITTED transactions,
from Redis locks that expire, and from outside: gateways, sheets, partners.

| component | state | operations | interacts with | what is hard | what makes it correct |
|---|---|---|---|---|---|
| withdrawal payout (`withdrawal`, `payment-gateway`) | `WithdrawalRequest.status/gatewayId/gatewayRefundedAmount`, `GatewayWebhookEvent` | approve and dispatch, reject, mark paid, webhook handler, reconcile cron | gateway over HTTP both ways | two admins, lost answers, webhooks late, twice or out of order, crashes | money sent at most once; status follows the gateway; credit is what came back |
| withdrawal ledger (`withdrawal`, `dashboard`, `user`) | withdrawal rows, `WithdrawalDayRelease`, earnings | `create`, `createForExternal`, `getBalance`, `grantWithdrawalRelease` | advisory lock per user, sync, admins | racing requests, reads on several snapshots, midnight, rollbacks | withdrawals never hold more than was earned; one per house and day plus the releases |
| withdrawal queries, receipts, exports | none | lists, PDF, PNG | database | nothing | - |
| Pinbet limit and cadence (`withdrawal/domain`) | none (pure) | weekly limit, once a month | `create` | dates | limits by reference definition |
| link pools (11 `*-link-pool` modules) | sheet rows, `AffiliateLink`, `LinkRequest`, Redis locks | `tryAssign`, `backfillPending` | sheets, link requests, webhooks, notifications | lock with a TTL, writes to two stores, cross-house checks | a campaign is one affiliate's in one house; a request takes one row; a marked row was given |
| link requests, house link rules, CPA resolution (`link-request`) | `LinkRequest`, rules | create, fulfil, reject, cancel, reopen | pools, webhooks | decisions during an assignment | a decided request stays decided |
| link backfill (`link-request`) | none of its own | batch under a session advisory lock | pools | lock and unlock on different connections | one batch at a time |
| link pool alert | Redis key | notify when a sheet runs low | sheets | deduplication | one alert per shortage |
| link webhooks (`link-webhook`) | `LinkWebhookDelivery`, BullMQ jobs | `dispatch`, `redeliver`, `process` | partners over HTTP | crash between row and job, retries after success, stalled jobs | a recorded acceptance is the last; a job that ends settles its row; a PENDING row is queued |
| CPA prizes (`cpa-prize`) | rules and versions, progress, awards, bonus credits | engine (cron, recalculation), edit and remove rules, redeem, decide | affiliate data, session locks of Postgres, notifications | counting outside the transaction, a lock that belongs to a connection, edits during an evaluation | awards numbered without a gap and earned; no CPA counts twice; credited once; a prize that is due comes |
| rankings (`ranking`) | rankings, points | compute, close, award | affiliate data | closing while data changes | closed rankings do not move |
| balance and dashboard (`dashboard`) | caches | aggregations | everything | the part `create` uses is in the ledger | see ledger |
| users, admins | users, roles, adjustments | CRUD, block, bonus, grants | ledger, auth | see ledger | see ledger |
| authentication (`auth`) | sessions, refresh families, lockout counters | login, refresh, logout, reset | Redis, mail | two refreshes or resets with one token | a token is used once |
| metrics sync (`sync`) | `affiliate_data`, runs, in-memory lock set | scheduled scraping, upserts | houses over HTTP | overlapping runs, partial failure | a run of a house at a time |
| metrics sheets of the pools | `affiliate_data` | import | sheets | as sync | as sync |
| superbet inactivity | links | cron withdraws links | pools | race with an assignment | - |
| support chat (`support-chat`) | conversations, agents' availability | create, send, assign, close, availability, crons | web sockets | every write is by id, on what was read before | an open conversation has an agent; the excess over the capacity is bounded; waiting ends |
| whatsapp (`whatsapp`) | proof messages, BullMQ jobs | enqueue, send, sweep | Evolution API | job and sweep both send | at most one proof |
| notifications | rows, queue | create, fan out | web sockets | lost jobs | - |
| partner API (`affiliate-api`) | none of its own | create, list, set status | ledger, link requests | see ledger | see ledger |
| network, login modal, public, health, mail, files | small CRUD | - | - | nothing concurrent | - |
| settings, provider accounts | key-value rows, cache | get, set | all | stale cache | - |
| prisma, shared, crypto | pool of 30 connections, audit extension | - | all | transactions waiting for a second connection | - |
| idempotency interceptor, guards, filters (`src/backend-vexxa/src/common`) | Redis locks per user and route | before and after each handler | all | a handler slower than the lock's TTL | one handler at a time |
| admin panel, affiliate frontend, Telegram bot, scripts | none | user interfaces, one-off scripts | the API | - | - |

`PROJECT.json` lists the same components with their sources and status, and
under "hazards" each place where the code is hard to test.

## 2. Plan

In this order, the part of the system that moves money first. All of it is done.

1. `WithdrawalLifecycle` (abstract), `WithdrawalPayout` (implements it),
   `WithdrawalPayoutProofs`.
2. `WithdrawalAccount` (abstract), `WithdrawalLedger` (implements it, and uses the
   steps of `WithdrawalLifecycle` for what happens to a row after its creation),
   `WithdrawalLedgerProofs`, and `FiniteSums`, facts about sums that its proofs need.
3. `LinkAllocation` (abstract), `LinkPoolAssignment` (implements it: the pools,
   parameterised by houses, sheets and lock keys; the decisions of admins on the same
   requests), `LinkPoolAssignmentProofs`.
4. `PrizeAccount` (abstract), `CpaPrizes` (implements it), `CpaPrizesProofs`: the other
   place where the platform owes money.
5. `SupportChat`, `SupportChatProofs`.
6. `LinkWebhookDelivery`, `LinkWebhookDeliveryProofs`.

`MC...` modules instantiate each for TLC. The modules share no variables: the ledger
includes the lifecycle, and what comes in from components outside a module (sync,
gateway, subscribers, admins) is an action that may happen at any time.

Next in line, if the project grows: `AuthSessions` (refresh families, reset tokens,
lockout), the pinbet pools (a lock each over one family), the idempotency
interceptor, the sync's overlapping runs.

## 3. Withdrawal payout

`WithdrawalLifecycle` is what the rest of the system relies on: a withdrawal
holds its amount ("open"), then keeps it ("settled") or gives it back
("released") once and for all; its money is sent at most once and never after
the release; at most one credit is booked, for money that was sent.

`WithdrawalPayout` is the code: `approveAndDispatch`, `updateStatus` (reject),
`markPaidManually`, `handleGatewayWebhookEvent` and `reconcileStuckProcessing`
of `withdrawal/application/withdrawal.service.ts`, the gateway clients, the
webhook controllers and the cron.

| state | code |
|---|---|
| `status`, `gatewayId`, `refunded` | columns of `WithdrawalRequest` (`gatewayRefundedAmount`) |
| `event[w][e]` | the `GatewayWebhookEvent` row with the eventKey (reference of w, event e) |
| `approver[a]` | an `approveAndDispatch` in flight: claimed, posting (with its attempt), replied |
| `handler[w][e]` | the handler that inserted that event row: lookup, apply, finish |
| `reconcile` | rows the running cron pass has yet to query |
| `payout`, `late`, `returned`, `notices` | the gateway (external) and requests on the wire |
| `doubt` | history: an answer to a POST of w is missing; the client gave up without one |
| `dispatches`, `manual`, `crashes` | history |

Every compare-and-set (`updateMany where id and status`) is one action; between
two awaits every other action may run. A crash drops calls in flight and keeps
rows. The gateway creates one payout per withdrawal (idempotency key), settles
it either way, reports each event late, repeatedly, out of order or never, and
may lose the answer to a POST. References are withdrawals' names: the
gateway's reference of w is w.

`WithdrawalPayout` implements `WithdrawalLifecycle` with `phase` computed from
`status` (PENDING, APPROVED, PROCESSING open; COMPLETED settled; REJECTED,
FAILED released), `sent` from the POSTs begun, `credit` from `refunded`.

| run | question | result |
|---|---|---|
| PayoutHeartPay | Two admins, a rejection, a manual payment, webhooks that echo our id, the cron, lost answers, a crash and partial refunds on one withdrawal, under fairness | `ProcessedIsReflected`, `RefundIsBacked`, `FailedIsUnpaid`, `LifecycleSpec`, `StuckIsReconciled` hold |
| PayoutPair | Two withdrawals and two admins, webhooks without our id, lost answers, a crash at any point | `TypeOK`, `UnsentWhileUndecided`, `SingleDispatch`, `CompletedIsPaid` hold: no event touches another row |
| PayoutStuckVorexy | Fair cron, webhooks without our id | `StuckIsReconciled` violated: an early webhook becomes an orphan and keeps the eventKey |

`StuckIsReconciled` says that a row in PROCESSING is settled although no webhook
ever arrives, with two exceptions, rows that no pass of the cron can settle:

- a 409 that followed a lost answer and carried no reference: the row is PROCESSING with
  `gatewayId` null and the pass does not select it (`Unreferenced`);
- the process died after the insertion of an event row and before its application:
  the cron's synthetic event is turned away as a duplicate (`CutOff`).

A crash anywhere else does no harm. A webhook that comes after all settles a row of the
first kind when it echoes our id; a row of the second kind waits for an admin.

`FailedIsUnpaid` has one exception too, which is the code's behaviour and no rarity: when
the client gives up with an answer missing (its requests time out after 15 s) the row goes
to FAILED and the amount back to the affiliate, though the gateway may pay it. Line 1369
says of the 409 "DO NOT mark FAILED: the payout is real"; the same is true of a lost
answer. The property says that there is no other way: a 409, a payout still on its way,
an event of another payout or a crash never end in FAILED and paid.

The violation contradicts a comment of the code; the finding in `PROJECT.json`
quotes it. More disagreements show in the model and have no run:

- A withdrawal whose POSTs were not answered is FAILED and may be paid (above).
- Vorexy's refund arrives in cents (`valueInCents`, `vorexy.types.ts:102`) and is taken for
  reais; the clamp then credits the fee too, which line 1809 says "is NOT restored".
  `RefundIsBacked` states the credit in the unit the row takes it in: `min(RefundUnit * total,
  Gross)` of one announced total.
- Of money that comes back in two parts only the first notice is credited: the second
  has the same eventKey, which `schema.prisma:762` says holds `sent_at`.
- mark-paid during an approval does not stop the POST, although
  `src/admin/app/pages/withdrawals.vue:1465` promises "sem passar pelo gateway".
- A full refund leaves the status COMPLETED.

Bounds. One withdrawal is enough for everything but crosstalk, since queries
and compare-and-sets are by id; PayoutPair has two. Two approvers give every race of
two admins (a third could only repeat a lost compare-and-set). Gross 3 and fee
1 leave a net of 2: a partial refund, two refunds, and the fee apart from both.
Two POST attempts in PayoutHeartPay give a retry after a lost answer; PayoutPair
has one and only full refunds, which keeps two withdrawals and a crash small. A second
crash would find the rows the first one left, and no code
recovers them in between.

Fairness (`FairSpec`): a handler in a process that stays up runs to its end (weak),
the cron keeps ticking and comes to each stuck row, and a query repeated
forever is answered at some time (strong: a pass may also skip the row).

## 4. Withdrawal ledger

`WithdrawalAccount` is what it promises: a withdrawal happens at one instant, at which
its amount is backed by what the house earned once, and it takes the free withdrawal of
its day or an extra one that was granted and is not used.

`WithdrawalLedger` is how rows come into being, for one affiliate (all queries
filter by `userId`, the advisory lock too): the transaction of `create` and
`createForExternal`, step by step, and `grantWithdrawalRelease`.

| state | code |
|---|---|
| `row`, `gross` | `WithdrawalRequest`: house, createdAt (as a day), the release it used, originalAmount |
| `phase`, `sent`, `credit` | its later life: the steps of `WithdrawalLifecycle`, so what section 3 shows to be implemented |
| `release` | `WithdrawalDayRelease` |
| `earned`, `peak` | what the house earned (one number), the most it ever was (history) |
| `lock` | holder of `pg_advisory_xact_lock` |
| `caller[c]`, `seen[c]` | a request in flight and the balance it computed |
| `admin[a]` | a grant between its check and its insertion |

`create` is `StartRequest`, `Acquire`, `QuotaFree` or `QuotaTaken` and
`FindRelease`, `ReadEarnings`, `ReadWithdrawals`, `Insert`; `QuotaReached`,
`Rollback` and `Expire` are its exits. The earnings and the withdrawals are
separate READ COMMITTED statements, hence separate actions. `createForExternal`
is the same with `External = TRUE`: no release, no minimum but zero.

It implements `WithdrawalAccount` with `reserved` the sum of what the living rows hold,
`taken` the days of the living rows without a release, `granted` and `used` the
releases and those consumed: of all the steps of `create` only `Insert` is a step of
it, the others stutter.

| run | question | result |
|---|---|---|
| LedgerReleases | Two requests and grants over two days, while earnings grow and rows are paid, rejected, refunded | `ReleaseBacksOneRow`, `AccountSpec` hold |
| LedgerExternal | The partner's API, and earnings that are also corrected downwards | `TypeOK`, `ReservedWithinPeak`, `OneFreePerDay`, `RequestsEnd` hold |

Bounds. One house: houses share nothing but the lock. Two rows: one that holds
money (living or released) and one that is about to, or two that race. Two
requests race; two days put midnight anywhere in a transaction. Amounts up to 2
with a minimum of 1 (3 in LedgerExternal) tell apart nothing, enough for one row and
enough for two. Corrections (fraud deductions, `upsertBalanceAdjustment`), after which the
living rows may hold more than the house has earned *now*, are in LedgerExternal; so the
bound is the most it ever earned. Two releases and one granting admin. A request that finds no free
row rolls back.

Fairness: a transaction ends (Prisma's limit is 15 s), so its steps are weakly
fair; Postgres queues an advisory lock in order of arrival, so `Acquire` is
strongly fair. That a waiting request times out (`Expire`) is allowed and not assumed.

Simplifications, each stated where it is made: the creation date is taken
at the insertion (`@default(now())`); the earnings are one number per house;
of several unused releases the code takes the oldest and the model any; a
refund is at most the gross amount (`RefundIsBacked` of section 3); earnings
and corrections come without the lock, as in the sync and `upsertBalanceAdjustment`.

Four comments of the code say more than it does, without a run here: that a grant
is "Idempotente" (`user.service.ts:433`; two grants at once leave two unused releases),
that all
reads of `create` are "on the same snapshot" (they are READ COMMITTED
statements), that a bonus has no daily limit, and that an open withdrawal of a
sub-user refuses the next one (only one of the same day does).

## 5. Link pools

`LinkAllocation` is what the pools promise as long as no call outlives its lock: a
request is given a campaign once, in one step, at which nobody else holds it, and no
step for one affiliate takes a campaign from another.

`LinkPoolAssignment` is `tryAssign` and `backfillPending` of `betano-link-pool`
and `betano-diario-link-pool`: two houses of one family, a sheet each, one Redis
lock for both. superbet, hiperbet and betnacional run the same steps with one house.
`CreateRequest`, `Reject`, `CheckApproval`, `CloseApproval`, `FindApproved` and
`SaveApproved` are `link-request/application/link-request.service.ts`.

| state | code |
|---|---|
| `status` | `LinkRequest.status`, of requests with a `resolvedCpa` |
| `link` | active `AffiliateLink` rows: user, house, campaign |
| `marked` | rows of a sheet with a status and an e-mail |
| `lock` | holder of the Redis key (`BETANO_LOCK_KEY`) |
| `call[a]` | a `tryAssign` in flight: of a request, or of a house's scheduler; `late` once its lock ran out |
| `batch[h]` | a running `backfillPending`: requests to come, prefetched rows, rows to mark at its end |
| `approval` | an admin's `update`, between its statements |
| `served`, `approvals`, `overruns`, `crashes` | history and bounds |

`tryAssign` is `Acquire` (SET NX EX, then the status), `ReadRows`, `FindOwn`,
`CheckRow` for each row, `Begin` and `Commit` or `Collide` (P2002), `MarkRow`,
`Release`; `TurnAway` and `Fail` are its other exits. Statements of the
transaction are two actions: READ COMMITTED shows it what commits in between, and
the unique index decides at the commit. The admin's steps take no lock.

It implements `LinkAllocation` with `alone` as "no call outlived its lock",
`holders` computed from the links of the campaigns that are not given by hand, and
`given` from `served`: `Commit` gives, an admin who moves a link to a campaign of his
own replaces, everything else stutters.

| run | question | result |
|---|---|---|
| PoolBetano | Two houses, their schedulers, a direct call, an admin who approves and rejects, a restart, a call that outlives its lock | `TypeOK`, `LockGuards`, `OneHousePerCampaign`, `MarkedWasGiven`, `AllocationSpec` hold |
| PoolServed | Fair schedulers, a restart, sheet writes that fail | `PendingIsServed` holds: decided in the end, or the pool is exhausted |

`OneHousePerCampaign`, the refinement and, with it, `ServedOnce` (a request takes at most one row) end with `overruns = 0`: the lock lives
30 s, is not renewed, and nothing at the commit checks it. A call
held up longer loses these guarantees, although
`betano-diario-assignment.service.ts:41` says of the lock that it "evita ativar a
mesma campanha simultaneamente nas duas casas". What stays, and is checked with an
overrun, is `LockGuards` (the late call does not take the lock from its successor)
and `MarkedWasGiven`. A row that was given may be left
unmarked (the sheet is written after the commit); then only the conflict check keeps
it from a second affiliate, which is why that check matters even under the lock.

Bounds. Two requests of two users, one per house; campaigns 1 and 2 in both
sheets, 2 also given by hand; room for three links; one approval, one
overrun and one restart anywhere. PoolServed has direct calls for both requests and no
admin, who would only decide requests sooner.

Fairness: cron ticks and calls go on while the process is up, and Redis drops
expired keys (weak). Strong for a scheduler that meets its lock free over and
over, since `acquireLockWithBackoff` retries for six seconds each minute, and for
a transaction that is tried forever.

Simplifications: a second call of an admin's reprocessing is the direct call's
own; the 50 requests of a pass are all; a house has one pass at a time (the scheduler's own lock
lives 120 s and is not renewed, so a pass with many waits for the family lock could overlap
the next one; each `tryAssign` of either would still take the family lock); the order of rows
is left out; commissions, notifications and webhooks change
nothing the properties see; links are not removed.

## 6. CPA prizes

`PrizeAccount` is what a rule promises an affiliate: prizes are numbered and given in one
step, against CPAs that no other version of the rule has counted; one is owed until it is paid
or void, for good, and credited once; a rule that gave any stays. It excepts changes that
apply on their own day, counts across midnight, and prizes two requests were about at once.

`CpaPrizes` is one rule for one affiliate: `cpa-prize-engine.service.ts`,
`cpa-prize-admin.service.ts`, `cpa-prize.service.ts` and their cron. A rule has
versions; each counts the CPAs of its window and gives one award for every
`cpaPerPrize` of them.

| state | code |
|---|---|
| `known` | CPAs in `AffiliateData`; the sync adds them and corrects them away |
| `rule`, `last`, `version` | `CpaPrizeRule` (active, archived, gone), `currentVersionId`, `CpaPrizeRuleVersion` |
| `progress`, `award` | `CpaPrizeProgress.awardsGenerated`, `CpaPrizeAward.status` by version and cycleIndex |
| `owner`, `depth` | connection whose session holds the advisory lock of a version, and how often |
| `eval[e]`, `edit[a]`, `handler[h]` | evaluations, edits of the rule and requests on awards in flight |
| `credits` | credits of `bonusBalance` for each award |
| `counted`, `straddled`, `sameDay`, `contended` | history |

An evaluation is `StartCron` or `StartRecalc`, `Lock` or `Skip`, `Check`, `Count`,
`ReadProgress`, `Give` or `Refresh` or `Fail`, `Unlock`. An affiliate without CPAs has no entry in
the totals of a network rule (`if (sum > 0)`) and, without rows of data, none in those of an
individual one (`NotInTotals`); with rows that sum to zero the latter has an entry, and
its progress is refreshed (`Refresh`). Each query takes a connection
of the pool, so `Lock` and `Unlock` may be on different ones: the unlock then does
nothing, the lock stays until the pool closes the idle connection (`CloseConnection`)
or the same connection is drawn again, whose session is granted the lock once more,
also while another evaluation runs. `updateRule` is `ReadRule` and `SaveVersion`,
`removeRule` is `RemoveRule` and `Delete`; the four operations on awards are
`ReadAward` and `WriteAward`.

It implements `PrizeAccount` with the status of an award read as owed (`AVAILABLE`,
`REDEMPTION_REQUESTED`), paid or void (`REJECTED`, `CANCELLED`), `orderly` as "neither
`straddled` nor `sameDay`" and `disputed` as `contended`.

| run | question | result |
|---|---|---|
| PrizeEngine | Two evaluations on one connection (both hold the lock), CPAs that come and go, two days, a new version or a removal in between | `TypeOK`, `NoGaps`, `AwardsEarned`, `CountedOnce`, `HistoryIsKept` hold |
| PrizeRedemption | Overlapping requests on awards, a restart, wrong connections, failures, a rule switched off and on, a fair cron | `CreditedOnce`, `AccountSpec`, `DueIsGiven` hold |

`NoGaps` and `AwardsEarned` hold without the lock: what keeps them is the unique index on
(version, affiliate, cycleIndex), together with the transaction that writes awards and
progress at once. So the comment at `engine.service.ts:71-74` ("cron and manual recalc
never run the same version concurrently") is not what they rest on, nor is it true when
both draw the same connection. `CountedOnce` excepts versions applied on the day of the
change (the admin is warned of it) and evaluations that check before midnight and count
after it. `CreditedOnce` and `AccountSpec` except awards with two requests in flight at once: two
approvals credit twice, and a cancellation that overlaps an approval leaves a credited
award CANCELLED, although the message at `cpa-prize-admin.service.ts:547` says "Prêmio já
finalizado — não pode ser cancelado.". The code does both, so no property covers that
hazard: what is checked is that a double credit needs two such requests.

Bounds. Two evaluations give every overlap of a cron and a recalculation; two CPAs on two
days with one CPA a prize give two awards, an early and a late total, and a CPA on each
side of a change of version; two versions are one change. One connection lets both
evaluations hold the lock; PrizeRedemption has two, so that locks are left behind, two
CPAs a prize (so that one of them earns nothing) and two requests on awards. A lock is
entered twice at most.

Fairness: the cron ticks on, an evaluation runs to its end while the process is up, and
the pool closes a connection with a stray lock (weak: it hands out the connection used
last, so an unused one ages). A query repeated forever succeeds at some time, and so
does drawing a connection that is granted the lock (strong).

Simplifications: individual and network totals are a set of CPAs whoever brought them; a rule's
structural and other changes are separate steps; `removeRule` counts awards and progress
in one step; several affiliates of an evaluation have rows of their own and never
meet, so one is enough; every prize is a credit (`PrizeType.BALANCE`).

## 7. Support chat

`SupportChat` is `support-chat/application/support-chat.service.ts` with its crons: every
operation reads, computes and writes by id in READ COMMITTED transactions.

| state | code |
|---|---|
| `status`, `agent` | `SupportConversation.status`, `agentId`; conversations are numbered by `createdAt` |
| `availability` | `SupportAgentAvailability` |
| `hours` | `isWithinBusinessHours` |
| `calls[k]` | a request, a socket event or a cron tick in flight |
| `crossed`, `putBack` | history: closed in the middle of a transaction; put back to WAITING with an agent |

`sendMessage` is `ReadForMessage`, `CheckMessage` (the second read) and
`WriteMessage`; `assignConversation` is `CheckAssign` and `CommitAssign`, begun by hand or
by `PickAgent`; closing is `CloseConversation` or `CloseAll` and `CommitClose`; the crons are
`FindTimedOut` with `Expire`, `FindWaiting` with `Retire`, and `StartDrain`;
`NextWaiting` is the loop that drains the queue.

| run | question | result |
|---|---|---|
| SupportQueue | Three conversations, one agent with room for one, two calls at once | `TypeOK`, `ActiveHasAgent`, `LoadBounded`, `ReopenedMidTransaction` hold |
| SupportServed | Two agents, shifts, a restart, failures, fair crons | `WaitingEnds` holds |

The capacity is not a limit the code keeps: two assignments count before either writes.
`LoadBounded` says by how much it may be passed (by the calls in flight), and when not even
that holds: after a late message has put an assigned conversation back to WAITING, which
takes it out of the agent's count until it is assigned again. The comment at line 401 says of
the second read that it prevents a close from being reverted "CLOSED → OPEN"; it leaves
the time between that read and the update, and `ReopenedMidTransaction` says that this is
all it leaves.

Bounds. Two calls are one operation and the one it meets. Three conversations
overfill an agent with room for one even when one of them is held back; two agents matter
for being taken away from, which one conversation shows (SupportServed). One
iteration of a drain continues to a second conversation; its limit in the code is not
reached by a queue of two.

Fairness: a call proceeds or fails (weak), and the cron of the shift's end ticks on and
finds the queue at some time (strong). Nothing is assumed of agents, who need never come.

Simplifications: messages are the status they set; the log of assignments is not read by any
operation and left out; of several least busy agents the code takes the one assigned
longest ago, the model any; reads of one step are merged; how many sockets an agent
has open is left out, so going online and offline may happen at any time.

## 8. Link webhooks

`LinkWebhookDelivery` is `dispatch` and `redeliver` of `link-webhook.service.ts`, the BullMQ
queue and `LinkWebhookProcessor.process`, for one subscriber.

| state | code |
|---|---|
| `enabled` | the subscriber's settings: enabled, with a URL |
| `row[d]` | `LinkWebhookDelivery.status`; an event's row is named by its idempotencyKey |
| `job[d]` | BullMQ (external): state, `attemptsMade`, stalled counter |
| `emit[x]` | a `dispatch` or `redeliver` between its statements |
| `worker` | the run of `process`, and whether one of its updates failed |
| `accepted`, `lost`, `unrecorded`, `dropped` | history: what the subscriber accepted; acceptances of which no record was made; last runs that could not write; rows that could not be queued |

A run is `TakeJob`, `ReadRow`, `Disable` or `PostAccepted` or `PostRefused`, `SaveSuccess`,
`SaveError`, then `Complete` or `Throw`, which hands the job back to BullMQ. `Stall` is what BullMQ
does with a job whose lock was not renewed for 30 s: its process died, or it runs on
without reaching Redis; in that case the report of the run is refused (`HoldsLock`) and the job,
which waits again or is given up, is not touched by it. The attempts
are counted twice: by the processor (`IsFinalAttempt`) and by BullMQ (`Throw`).

| run | question | result |
|---|---|---|
| WebhookDelivery | Two emitters of one event, a redelivery, two attempts, a stall beside a run or after its death, a restart, refusals of Postgres and Redis | `TypeOK`, `AcceptedOnce`, `RunsBounded`, `EndedIsSettled`, `PendingIsQueued`, `JobEnds` hold |

Delivery is at least once after a job exists: `AcceptedOnce` says when a subscriber may see
an event again (its acceptance never reached the row), `RunsBounded` how often it may:
once for each attempt and once for each stall, since BullMQ runs a stalled job again without
counting an attempt. `PendingIsQueued` says when a row has no job and, since later emits
find it and go on, never will: a restart or a refusal of Redis between `create` and
`enqueueDelivery`, or a last run that could not write. Only a redelivery by hand sends it then.

Bounds. Events and clones differ only in who may create them: one of each. Two emitters race
for one row. Two attempts are a retry and a last one; the code has six, and attempts in between
only repeat. One stall is allowed and the second ends the job (BullMQ's default);
stalls beside a run and the one after the restart reach it.

Fairness: the worker takes its next step while the process is up (weak), takes every job in
turn (strong) and BullMQ's check for stalled jobs finds the ones nobody runs (weak); a run
that goes on need not lose its lock.

Simplifications: one run at a time, as `@Processor` has it by default (concurrency 1, one
process), so a stalled job is taken again only after the run beside it has ended; delays of the
backoff are left out; payloads, signatures and the choice of subscribers are data; rows
are never deleted while their job lives; a job that ended is not removed.

## 9. Deadlock checking

All runs have `CHECK_DEADLOCK FALSE`: with counters bounded, everything that
can happen to a finite set of rows may have happened, and the system then waits for
new requests. That nobody waits forever is stated by `StuckIsReconciled`,
`RequestsEnd`, `PendingIsServed`, `DueIsGiven`, `WaitingEnds` and `JobEnds` instead.

## 10. Theorems

Each `...Proofs` module holds for every value of the constants of the module it extends:
any number of withdrawals, admins, requests, rows, days, houses, campaigns, CPAs,
versions, evaluations, connections, conversations, agents, calls, events, attempts,
stalls and crashes.

| theorem | states |
|---|---|
| `TypeCorrect` | `Spec => []TypeOK` of the payout |
| `DecidedBeforeSent` | `UnsentWhileUndecided` |
| `SentOnce` | `SingleDispatch` |
| `EventsReflected` | `ProcessedIsReflected` |
| `PaidWhenCompleted` | `CompletedIsPaid` |
| `FailedWasNotPaid` | `FailedIsUnpaid` |
| `RefundsBacked` | `RefundIsBacked`, in any unit |
| `ImplementsLifecycle` | `Spec => LifecycleSpec` |
| `TypeCorrect` | `Spec => []TypeOK` of the ledger |
| `LimitHolds` | `OneFreePerDay` |
| `ReleasesHold` | `ReleaseBacksOneRow` |
| `ReservationsBacked` | `ReservedWithinPeak` |
| `ImplementsAccount` | `Spec => AccountSpec` of the ledger |
| `TypeCorrect` | `Spec => []TypeOK` of the pools |
| `LockIsKept` | `LockGuards` |
| `MarkedRowsAreGiven` | `MarkedWasGiven` |
| `RequestServedOnce` | `ServedOnce`, if the houses share a lock |
| `CampaignInOneHouse` | `OneHousePerCampaign`, if the houses share a lock |
| `ImplementsAllocation` | `Spec => AllocationSpec`, if the houses share a lock |
| `TypeCorrect` | `Spec => []TypeOK` of the prizes |
| `AwardsNumbered` | `NoGaps` |
| `AwardsKept` | `HistoryIsKept` |
| `CreditsMatch` | `CreditedOnce` |
| `AwardsAreEarned` | `AwardsEarned` |
| `CountedByOneVersion` | `CountedOnce` |
| `ImplementsAccount` | `Spec => AccountSpec` of the prizes |
| `TypeCorrect` | `Spec => []TypeOK` of the support chat |
| `ActiveAssigned` | `ActiveHasAgent` |
| `LoadIsBounded` | `LoadBounded` |
| `ReopenedLate` | `ReopenedMidTransaction` |
| `TypeCorrect` | `Spec => []TypeOK` of the webhooks |
| `NoSecondAcceptance` | `AcceptedOnce` |
| `EndsAreSettled` | `EndedIsSettled` |
| `PendingRowsQueued` | `PendingIsQueued` |
| `RunsAreBounded` | `RunsBounded` |

Assumptions are the named `...Assumption` of each module (types of the constants,
`NoRef` and `None` distinct from what they stand beside, finitely many rows, CPAs,
agents and calls), which TLC evaluates in each run, and the conditions in the table.

The argument for the payout goes in layers, each using the ones before:

- `GatewayInv`: a reference stored in a row is its own, an event on record was
  emitted, a handler past its lookup is about the withdrawal its event speaks of.
  Without it a webhook could be matched to any row.
- `ApprovalInv`: at most one call is in flight per withdrawal, a claimed row
  was not dispatched yet, a row that can still be claimed has neither POST nor
  payout. It is what makes a rollback to PENDING harmless.
- `OutcomeInv`: the point between applying an event and ticking it off.
- `CreditInv`: a credit needs a payment, one notice, one handler, whatever the unit.
- `DoubtInv`: requests on the wire have left a doubt, and a call that fails without
  giving up left nothing to pay. `FailureInv` adds that nothing can create the payout of
  such a FAILED row any more; without it a late request or a second call could.

For the ledger: `Exclusion` (who is inside the transaction holds the lock),
`Clock` (it looks back to a day not after today), `LimitChecked` (past the
check and without a release, the day is still free) give `OneFreePerDay`;
`HeldRelease` (the release in hand exists and is unused) gives
`ReleaseBacksOneRow`.

`ReservedWithinPeak` speaks of a sum over any number of rows. The prover has no
induction over data, so `FiniteSums` shows what is needed of `MapThenSumSet` from the
well-foundedness of strict inclusion: that a sum exists and is unique (`Total`), does not
depend on the order, changes with one row by what that row changes by, and is monotonic.
`BalanceInv` is the inductive invariant: the number a request has read of the earnings
is at most the peak, and what it computed after the deduction is zero or, *together with
all that is reserved now*, at most the peak. Only the lock makes it so: between the
deduction and the insertion rows are released or refunded, which leaves more, and no
other request inserts. For `ImplementsAccount`, `Filled` (a row in use is for a house, of a day) and
`HeldForHouse` (the release in hand is one of the request's house) turn each `Insert`
into `WithdrawFree` or `WithdrawExtra`, `LimitChecked` and `BalanceInv` give their guards;
the payments and refunds of `LiveOn` give back or stutter.

For the pools: `LockGuards` is inductive by itself. With `Timely` (no overrun, no
late call) and a shared lock it gives `OneCallInside`. `NotYetServed` (an open
request, or one a call searches for, has nothing yet) then gives `ServedOnce`.
`RowIsFree` (from the check of a row to its commit no other link has it) and
`FoundOwned` (a link that was found is the request's affiliate's in its house, and a link
never changes either) give `OneHousePerCampaign`: the unique index covers the one
link the check had left out. `MarksAreGiven` gives `MarkedWasGiven`. `ImplementsAllocation`
rests on the same invariant (`HouseInv`): at the commit of a timely call no other link has the
campaign, so its holders become exactly the request's affiliate (`GiveStep`), and what an
admin saves is not from the pool (`ReplaceStep`).

For the prizes: a version's awards are `1..awardsGenerated`, and what an evaluation read is
not more than what was given since (`AlreadyGiven`), so the unique index lets a `Give` in only
if it continues the numbers, whichever progress it had read (`NoGaps`; `EarnedBounded`
keeps the cycles in range). `AwardInHand` (a request is about an award) keeps redemptions
from making one. Only `Delete` removes a rule and nothing gives awards afterwards
(`HistoryIsKept`). Two requests on one award are noticed (`RequestsApart`) and one that
stays alone finds the status it read when it writes (`StillAllowed`), which gives
`CreditedOnce`. `CountInv` adds what was counted: versions to come have nothing and no
evaluation (`Fresh`), nothing is known or counted before its day (`PastOnly`), and unless a
change applied on its day or an evaluation crossed midnight a version's CPAs lie between
its start and every later version's (`InTurn`). A `Give` leaves `1..Earned`, which the CPAs it
has seen pay for (`AwardsEarned`); days on both sides of a version's start cannot be the
same (`CountedOnce`). `ImplementsAccount` puts these together: `Give` and `Refresh` are the
step that counts and gives, `NoGaps`, `AwardsEarned` and `CountedOnce` of the *next* state its
guards (`AwardStep`); `SaveVersion` sets the price of a version that is `Fresh`; `StillAllowed`
makes `WriteAward` settle only what is owed (`SettleStep`). Its changes of versions are proved
and not run by PrizeRedemption, which has one version; `CountedOnce` has them in PrizeEngine.

For the support chat: every write of OPEN comes with an agent, and a message that is about
to write OPEN or WAITING_USER found the conversation assigned (`AgentInv`); agents are
exchanged, never taken off (`ActiveHasAgent`). For `LoadBounded`, `Claims(a)` is agent a's
load with the conversations that calls past their check will make active for a:
assignments about to be saved, messages about to be written. `ClaimInv` bounds its cardinality by
the capacity plus all calls while no message puts a conversation back (until then one that
waits has no agent, `Unassigned`); the lemmas about one
inserted element carry the bound from step to step. `ReopenedMidTransaction` follows from what a
call past its check knows: its conversation is not CLOSED, or is in `crossed` (`CrossInv`).

For the webhooks: a job exists only for a row and is queued once (`JobInv`); an acceptance is
lost, or with the worker, or in the row (`AcceptInv`); what a run leaves in the row before it
reports (`EndInv`) gives `EndedIsSettled`, and that in turn leaves only rows that never had a
job for `PendingIsQueued` (`UnqueuedInv`). For `RunsAreBounded`, `Counted` says where each
acceptance, and the one the run under way may still bring (`Owed`), is accounted for: an attempt
made, a stall, or the run that holds the lock; a step that begins another run, or takes the
lock from this one, first adds to one of the first two.

Model-checked only: the liveness properties (`StuckIsReconciled`, `RequestsEnd`,
`PendingIsServed`, `DueIsGiven`, `WaitingEnds`, `JobEnds`), since fairness is out of the prover's
reach, and the violation. Every other property of the runs is stated by a theorem.

## 11. Not modelled

Per component, with the reason, in `PROJECT.json`. Within the modelled
parts: the texts and formats of receipts, logs and notifications; PIX key
parsing (an unknown key type is a nondeterministic failure); how earnings are
computed from affiliate data; cents (amounts are small integers); the pool of
database connections; the 50 rows a cron pass is limited to; how a CPA is resolved,
eligibility and forms of link requests.
