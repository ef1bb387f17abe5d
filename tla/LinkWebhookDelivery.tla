------------------------- MODULE LinkWebhookDelivery -------------------------
(***************************************************************************)
(* Outbound webhooks to one subscriber: a row for each event, created by   *)
(* whoever emits it first and queued in BullMQ; a worker that posts it,    *)
(* records the answer and is run again until it succeeds or its attempts   *)
(* are used up; redelivery by hand as a new row.                           *)
(***************************************************************************)
EXTENDS Integers, FiniteSets

CONSTANTS
  Events,        \* idempotency keys of dispatch
  Clones,        \* rows that redeliver may create
  Emitters,      \* dispatch and redeliver calls in flight
  None,
  MaxAttempts,   \* LINK_WEBHOOK_MAX_ATTEMPTS
  MaxStalled,    \* maxStalledCount of BullMQ
  MaxCrashes     \* bound on restarts of the API process

Deliveries == Events \cup Clones

ASSUME WebhookAssumption ==
  /\ None \notin Deliveries /\ Events \cap Clones = {}
  /\ MaxAttempts \in Nat \ {0} /\ MaxStalled \in Nat /\ MaxCrashes \in Nat

VARIABLES
  enabled,     \* the subscriber's webhook is enabled and has a URL
  row,         \* LinkWebhookDelivery.status, "none" without a row
  job,         \* BullMQ: state, attemptsMade, stalledCounter
  emit,        \* calls that create rows
  worker,      \* the run of the processor
  accepted,    \* POSTs the subscriber accepted (history)
  lost,        \* of these, the ones of which no record was made (history)
  unrecorded,  \* deliveries whose last run could not write its result (history)
  dropped,     \* rows that were created and could not be queued (history)
  crashes

vars == <<enabled, row, job, emit, worker, accepted, lost, unrecorded, dropped, crashes>>
historyVars == <<accepted, lost, unrecorded, dropped>>

Job(state, made, stalled) == [state |-> state, made |-> made, stalled |-> stalled]
NoJob == Job("none", 0, 0)
Emission(pc, d) == [pc |-> pc, row |-> d]
NoEmission == Emission("idle", None)
\* missed: an update of this run failed.
Run(pc, d, missed) == [pc |-> pc, row |-> d, missed |-> missed]
NoRun == Run("idle", None, FALSE)

Deliver == {"read", "disable", "post", "success", "error", "complete", "throw"}

JobType == [state : {"none", "waiting", "active", "ended"}, made : 0..MaxAttempts, stalled : Nat]

TypeOK ==
  /\ enabled \in BOOLEAN
  /\ row \in [Deliveries -> {"none", "PENDING", "SUCCESS", "FAILED"}]
  /\ job \in [Deliveries -> JobType]
  /\ \A d \in Deliveries : job[d].state \in {"waiting", "active"} => job[d].made < MaxAttempts
  /\ emit \in [Emitters -> [pc : {"create", "enqueue"}, row : Deliveries] \cup {NoEmission}]
  /\ worker \in [pc : Deliver, row : Deliveries, missed : BOOLEAN] \cup {NoRun}
  /\ accepted \in [Deliveries -> Nat] /\ lost \in [Deliveries -> Nat]
  /\ unrecorded \subseteq Deliveries /\ dropped \subseteq Deliveries
  /\ crashes \in Nat

Init ==
  /\ enabled = TRUE
  /\ row = [d \in Deliveries |-> "none"]
  /\ job = [d \in Deliveries |-> NoJob]
  /\ emit = [x \in Emitters |-> NoEmission]
  /\ worker = NoRun
  /\ accepted = [d \in Deliveries |-> 0] /\ lost = [d \in Deliveries |-> 0]
  /\ unrecorded = {} /\ dropped = {} /\ crashes = 0
------------------------------------------------------------------------------
(* dispatch, redeliver *)

\* No row has the event's key yet.
Dispatch(x, d) ==
  /\ emit[x].pc = "idle" /\ enabled /\ row[d] = "none"
  /\ emit' = [emit EXCEPT ![x] = Emission("create", d)]
  /\ UNCHANGED <<enabled, row, job, worker, historyVars, crashes>>

Redeliver(x, d, original) ==
  /\ emit[x].pc = "idle" /\ row[original] # "none" /\ row[d] = "none"
  /\ \A y \in Emitters : emit[y].row # d
  /\ emit' = [emit EXCEPT ![x] = Emission("create", d)]
  /\ UNCHANGED <<enabled, row, job, worker, historyVars, crashes>>

AboutToQueue(x, d) == emit[x].pc = "enqueue" /\ emit[x].row = d

\* Any error of create is taken for another emitter's row.
\* (Mutant: the row is created and left to others to queue.)
CreateRowOnly(x) ==
  LET d == emit[x].row IN
  /\ emit[x].pc = "create"
  /\ emit' = [emit EXCEPT ![x] = NoEmission]
  /\ row' = IF row[d] = "none" THEN [row EXCEPT ![d] = "PENDING"] ELSE row
  /\ UNCHANGED <<enabled, job, worker, historyVars, crashes>>
CreateRow(x) ==
  LET d == emit[x].row IN
  /\ emit[x].pc = "create"
  /\ \/ /\ row[d] = "none"
        /\ row' = [row EXCEPT ![d] = "PENDING"]
        /\ emit' = [emit EXCEPT ![x] = Emission("enqueue", d)]
     \/ emit' = [emit EXCEPT ![x] = NoEmission] /\ UNCHANGED row
  /\ UNCHANGED <<enabled, job, worker, historyVars, crashes>>

\* enqueueDelivery, which Redis may refuse.
Enqueue(x) ==
  LET d == emit[x].row IN
  /\ emit[x].pc = "enqueue"
  /\ \/ job' = [job EXCEPT ![d] = Job("waiting", 0, 0)] /\ UNCHANGED dropped
     \/ dropped' = dropped \cup {d} /\ UNCHANGED job
  /\ emit' = [emit EXCEPT ![x] = NoEmission]
  /\ UNCHANGED <<enabled, row, worker, accepted, lost, unrecorded, crashes>>

\* The owner disables the webhook, clears its URL, or brings it back.
SwitchTarget ==
  /\ enabled' = ~enabled
  /\ UNCHANGED <<row, job, emit, worker, historyVars, crashes>>
------------------------------------------------------------------------------
(* LinkWebhookProcessor.process *)

AttemptNo == job[worker.row].made + 1
\* (Mutant: one late.)
IsFinalAttemptLate == AttemptNo > MaxAttempts
IsFinalAttempt == AttemptNo >= MaxAttempts

GoTo(pc) == worker' = [worker EXCEPT !.pc = pc]
\* An update that the database refuses.
Miss(pc) == worker' = [worker EXCEPT !.pc = pc, !.missed = TRUE]

TakeJob(d) ==
  /\ worker = NoRun /\ job[d].state = "waiting"
  /\ job' = [job EXCEPT ![d].state = "active"]
  /\ worker' = Run("read", d, FALSE)
  /\ UNCHANGED <<enabled, row, emit, historyVars, crashes>>

\* What was delivered is left alone; the target is resolved once more.
\* (Mutant: the row's status is not looked at.)
ReadRowOnly ==
  /\ worker.pc = "read"
  /\ IF ~enabled THEN GoTo("disable") ELSE GoTo("post") \/ Miss("throw")
  /\ UNCHANGED <<enabled, row, job, emit, historyVars, crashes>>
ReadRow ==
  /\ worker.pc = "read"
  /\ IF row[worker.row] = "SUCCESS" THEN GoTo("complete")
     ELSE IF ~enabled THEN GoTo("disable") ELSE GoTo("post") \/ Miss("throw")
  /\ UNCHANGED <<enabled, row, job, emit, historyVars, crashes>>

\* markFailed, without a retry.
Disable ==
  /\ worker.pc = "disable"
  /\ \/ row' = [row EXCEPT ![worker.row] = "FAILED"] /\ GoTo("complete")
     \/ UNCHANGED row /\ Miss("throw")
  /\ UNCHANGED <<enabled, job, emit, historyVars, crashes>>

\* The subscriber accepts; the answer may be lost on the way or come after 15 s.
PostAccepted == \E answered \in BOOLEAN :
  LET d == worker.row IN
  /\ worker.pc = "post"
  /\ accepted' = [accepted EXCEPT ![d] = @ + 1]
  /\ IF answered THEN GoTo("success") /\ UNCHANGED lost
     ELSE GoTo("error") /\ lost' = [lost EXCEPT ![d] = @ + 1]
  /\ UNCHANGED <<enabled, row, job, emit, unrecorded, dropped, crashes>>

PostRefused ==
  /\ worker.pc = "post" /\ GoTo("error")
  /\ UNCHANGED <<enabled, row, job, emit, historyVars, crashes>>

\* The update to SUCCESS is inside the try: if it fails, or its answer is lost, the
\* catch treats the delivery as failed.
SaveSuccess ==
  LET d == worker.row IN
  /\ worker.pc = "success"
  /\ \/ GoTo("complete") /\ row' = [row EXCEPT ![d] = "SUCCESS"] /\ UNCHANGED lost
     \/ /\ GoTo("error") /\ row' \in {row, [row EXCEPT ![d] = "SUCCESS"]}
        /\ lost' = [lost EXCEPT ![d] = @ + 1]
  /\ UNCHANGED <<enabled, job, emit, accepted, unrecorded, dropped, crashes>>

SaveError ==
  /\ worker.pc = "error"
  /\ \/ /\ row' = [row EXCEPT ![worker.row] = IF IsFinalAttempt THEN "FAILED" ELSE "PENDING"]
        /\ GoTo("throw")
     \/ UNCHANGED row /\ Miss("throw")
  /\ UNCHANGED <<enabled, job, emit, historyVars, crashes>>

\* A run reports to BullMQ, which takes no report of a run that has lost its job's lock.
HoldsLock == job[worker.row].state = "active"
Report(state, made) ==
  job' = IF HoldsLock THEN [job EXCEPT ![worker.row] = Job(state, made, @.stalled)] ELSE job

Complete ==
  /\ worker.pc = "complete"
  /\ Report("ended", job[worker.row].made)
  /\ worker' = NoRun
  /\ UNCHANGED <<enabled, row, emit, historyVars, crashes>>

\* BullMQ counts the attempt and runs the job again after a delay, or gives it up.
\* (Mutants: it is always run again; with one attempt too many.)
ThrowForever ==
  /\ worker.pc = "throw"
  /\ Report("waiting", IF AttemptNo < MaxAttempts THEN AttemptNo ELSE job[worker.row].made)
  /\ worker' = NoRun
  /\ UNCHANGED <<enabled, row, emit, historyVars, crashes>>
ThrowOneMore ==
  /\ worker.pc = "throw"
  /\ Report("waiting", AttemptNo)
  /\ worker' = NoRun
  /\ UNCHANGED <<enabled, row, emit, historyVars, crashes>>
Throw ==
  LET over == AttemptNo = MaxAttempts IN
  /\ worker.pc = "throw"
  /\ Report(IF over THEN "ended" ELSE "waiting", AttemptNo)
  /\ unrecorded' = IF HoldsLock /\ over /\ worker.missed
                   THEN unrecorded \cup {worker.row} ELSE unrecorded
  /\ worker' = NoRun
  /\ UNCHANGED <<enabled, row, emit, accepted, lost, dropped, crashes>>

\* A job whose lock was not renewed, because its process died or could not reach Redis, is
\* run again, without counting an attempt, or given up. Its run may still be going on.
\* (Mutant: it is always run again.)
StallUncounted(d) ==
  /\ job[d].state = "active"
  /\ job' = [job EXCEPT ![d].state = "waiting"]
  /\ UNCHANGED <<enabled, row, emit, worker, historyVars, crashes>>
Stall(d) ==
  /\ job[d].state = "active"
  /\ IF job[d].stalled < MaxStalled
       THEN /\ job' = [job EXCEPT ![d] = Job("waiting", @.made, @.stalled + 1)]
            /\ UNCHANGED unrecorded
       ELSE /\ job' = [job EXCEPT ![d].state = "ended"]
            /\ unrecorded' = unrecorded \cup {d}
  /\ UNCHANGED <<enabled, row, emit, worker, accepted, lost, dropped, crashes>>

Crash ==
  /\ crashes < MaxCrashes /\ crashes' = crashes + 1
  /\ emit' = [x \in Emitters |-> NoEmission]
  /\ worker' = NoRun
  /\ lost' = IF worker.pc = "success" THEN [lost EXCEPT ![worker.row] = @ + 1] ELSE lost
  /\ dropped' = dropped \cup {d \in Deliveries : \E x \in Emitters : AboutToQueue(x, d)}
  /\ UNCHANGED <<enabled, row, job, accepted, unrecorded>>

Process ==
  \/ ReadRow \/ Disable \/ PostAccepted \/ PostRefused \/ SaveSuccess \/ SaveError
  \/ Complete \/ Throw

Next ==
  \/ SwitchTarget \/ Crash \/ Process
  \/ \E x \in Emitters : CreateRow(x) \/ Enqueue(x)
  \/ \E x \in Emitters, d \in Events : Dispatch(x, d)
  \/ \E x \in Emitters, d \in Clones, original \in Deliveries : Redeliver(x, d, original)
  \/ \E d \in Deliveries : TakeJob(d) \/ Stall(d)

Spec == Init /\ [][Next]_vars

\* The worker runs while the process is up and takes every job in turn; BullMQ finds the
\* jobs that nobody runs. A run that is going on need not lose its lock.
FairSpec ==
  /\ Spec
  /\ WF_vars(Process)
  /\ \A d \in Deliveries : SF_vars(TakeJob(d)) /\ WF_vars(worker.row # d /\ Stall(d))
------------------------------------------------------------------------------
(* Properties *)

\* Every time the subscriber has accepted a delivery but the first is one whose acceptance
\* was lost: neither a restart after the record nor a repeated run sends it again.
AcceptedOnce == \A d \in Deliveries : accepted[d] <= lost[d] + 1

\* SUCCESS was accepted, and a job that is over left its row SUCCESS or FAILED, unless its
\* last run could not write or stalled once too often.
EndedIsSettled == \A d \in Deliveries :
  /\ row[d] = "SUCCESS" => accepted[d] > 0
  /\ job[d].state = "ended" => row[d] \in {"SUCCESS", "FAILED"} \/ d \in unrecorded

\* A row that is PENDING has its job, or the call that is about to queue it: calls that
\* come second leave that to the first, so a restart or Redis in between strands the row.
PendingIsQueued == \A d \in Deliveries :
  row[d] = "PENDING" =>
    \/ job[d].state \in {"waiting", "active"}
    \/ \E x \in Emitters : AboutToQueue(x, d)
    \/ d \in dropped \cup unrecorded

\* The subscriber accepts a delivery at most once for each attempt and each stall that
\* BullMQ allows, however often the process dies before it has counted: the bound of
\* enqueueDelivery on attempts is not the whole one.
RunsBounded == \A d \in Deliveries : accepted[d] <= MaxAttempts + MaxStalled

\* A queued delivery comes to an end, whatever the subscriber and the database do.
JobEnds == \A d \in Deliveries : job[d].state = "waiting" ~> job[d].state = "ended"
==============================================================================
