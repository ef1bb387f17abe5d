---------------------- MODULE LinkWebhookDeliveryProofs ----------------------
(***************************************************************************)
(* Theorems about LinkWebhookDelivery, for any events, emitters, number of *)
(* attempts, of stalls and of restarts.                                    *)
(***************************************************************************)
EXTENDS LinkWebhookDelivery, TLAPS

\* A job exists only for a row, once, and the worker runs one that was queued. If the job
\* ended beside the run, it stalled once too often.
JobInv ==
  /\ worker.pc # "idle" =>
       /\ job[worker.row].state \in {"waiting", "active", "ended"}
       /\ job[worker.row].state = "ended" => worker.row \in unrecorded
  /\ \A d \in Deliveries : row[d] = "none" => job[d].state = "none"
  /\ \A x \in Emitters : emit[x].pc = "enqueue" =>
       row[emit[x].row] # "none" /\ job[emit[x].row].state = "none"
  /\ \A x, y \in Emitters :
       emit[x].pc = "enqueue" /\ emit[y].pc = "enqueue" /\ emit[x].row = emit[y].row => x = y

\* An acceptance is either lost, or at the worker, or in the row.
AcceptInv ==
  /\ AcceptedOnce
  /\ \A d \in Deliveries :
       row[d] # "SUCCESS" /\ ~(worker.pc = "success" /\ worker.row = d) => accepted[d] <= lost[d]
  /\ worker.pc \in {"disable", "post", "success"} => row[worker.row] # "SUCCESS"
  /\ worker.pc = "error" => accepted[worker.row] <= lost[worker.row]

\* What a run leaves in the row before it reports to BullMQ.
EndInv ==
  /\ EndedIsSettled
  /\ worker.pc = "success" => accepted[worker.row] > 0
  /\ worker.pc = "complete" => row[worker.row] \in {"SUCCESS", "FAILED"}
  /\ worker.pc = "throw" /\ ~worker.missed /\ IsFinalAttempt => row[worker.row] = "FAILED"

IInv == TypeOK /\ JobInv /\ AcceptInv /\ EndInv

\* The worker while it runs, and a job.
LEMMA RunFacts ==
  ASSUME TypeOK
  PROVE  /\ worker.pc # "idle" => worker \in [pc : Deliver, row : Deliveries, missed : BOOLEAN]
         /\ worker.pc = "idle" => worker = NoRun
         /\ NoRun = [pc |-> "idle", row |-> None, missed |-> FALSE]
         /\ \A pc \in Deliver, d \in Deliveries, missed \in BOOLEAN :
              Run(pc, d, missed) \in [pc : Deliver, row : Deliveries, missed : BOOLEAN]
BY DEF TypeOK, NoRun, Run, Deliver

\* A step of the worker to another pc of its run.
LEMMA GoToTyped ==
  ASSUME TypeOK, worker.pc # "idle", NEW pc \in Deliver, GoTo(pc) \/ Miss(pc)
  PROVE  /\ worker' \in [pc : Deliver, row : Deliveries, missed : BOOLEAN]
         /\ worker'.pc = pc /\ worker'.row = worker.row
         /\ GoTo(pc) => worker'.missed = worker.missed
         /\ Miss(pc) => worker'.missed = TRUE
BY RunFacts DEF GoTo, Miss

LEMMA EmissionFacts ==
  ASSUME TypeOK, NEW x \in Emitters
  PROVE  /\ emit[x].pc # "idle" => emit[x].row \in Deliveries
         /\ emit[x].pc # "idle" => emit[x] \in [pc : {"create", "enqueue"}, row : Deliveries]
         /\ NoEmission.pc = "idle" /\ NoEmission.row = None
         /\ \A pc \in {"create", "enqueue"}, d \in Deliveries :
              /\ Emission(pc, d) \in [pc : {"create", "enqueue"}, row : Deliveries]
              /\ Emission(pc, d).pc = pc /\ Emission(pc, d).row = d
BY DEF TypeOK, NoEmission, Emission

LEMMA JobFacts ==
  ASSUME NEW state \in {"none", "waiting", "active", "ended"}, NEW made \in 0..MaxAttempts,
         NEW stalled \in Nat
  PROVE  /\ Job(state, made, stalled) \in JobType
         /\ Job(state, made, stalled).state = state /\ Job(state, made, stalled).made = made
BY DEF Job, JobType
------------------------------------------------------------------------------
LEMMA InitInv == Init => IInv
<1> SUFFICES ASSUME Init PROVE IInv OBVIOUS
<1>1. 0 \in 0..MaxAttempts /\ 0 \in Nat BY WebhookAssumption
<1>2. NoJob \in JobType /\ NoJob.state = "none" BY <1>1, JobFacts DEF NoJob
<1>3. TypeOK BY <1>2 DEF Init, TypeOK
<1>4. worker.pc = "idle" /\ \A x \in Emitters : emit[x].pc = "idle"
  BY DEF Init, NoRun, Run, NoEmission, Emission
<1>5. JobInv BY <1>2, <1>4 DEF Init, JobInv
<1>6. AcceptInv BY <1>4 DEF Init, AcceptInv, AcceptedOnce
<1>7. EndInv BY <1>2, <1>4 DEF Init, EndInv, EndedIsSettled
<1> QED BY <1>3, <1>5, <1>6, <1>7 DEF IInv

\* The steps of emitters, of the owner and of a restart.
LEMMA EmitInv ==
  ASSUME IInv
  PROVE  /\ \A x \in Emitters, d \in Events : Dispatch(x, d) => IInv'
         /\ \A x \in Emitters, d \in Clones, original \in Deliveries :
              Redeliver(x, d, original) => IInv'
         /\ \A x \in Emitters : CreateRow(x) => IInv'
         /\ \A x \in Emitters : Enqueue(x) => IInv'
<1> USE WebhookAssumption
<1>0. TypeOK /\ JobInv /\ AcceptInv /\ EndInv BY DEF IInv
<1>1. ASSUME NEW x \in Emitters, NEW d \in Deliveries, row[d] = "none",
             emit' = [emit EXCEPT ![x] = Emission("create", d)],
             UNCHANGED <<enabled, row, job, worker, historyVars, crashes>>
      PROVE  IInv'
  <2>1. TypeOK' BY <1>0, <1>1, EmissionFacts DEF TypeOK, historyVars
  <2>2. \A y \in Emitters : emit'[y].pc = "enqueue" => emit'[y] = emit[y] /\ y # x
    BY <1>0, <1>1, EmissionFacts DEF TypeOK
  <2>3. JobInv' BY <1>0, <1>1, <2>2 DEF JobInv, historyVars
  <2>4. AcceptInv' /\ EndInv'
    BY <1>0, <1>1 DEF AcceptInv, AcceptedOnce, EndInv, EndedIsSettled, IsFinalAttempt, AttemptNo,
                      historyVars
  <2> QED BY <2>1, <2>3, <2>4 DEF IInv
<1>2. ASSUME NEW x \in Emitters, CreateRow(x) PROVE IInv'
  <2> DEFINE d == emit[x].row
  <2>0. d \in Deliveries BY <1>0, <1>2, EmissionFacts DEF CreateRow
  <2>1. TypeOK' BY <1>0, <1>2, <2>0, EmissionFacts DEF CreateRow, TypeOK, historyVars
  <2>2. CASE /\ row[d] = "none" /\ row' = [row EXCEPT ![d] = "PENDING"]
             /\ emit' = [emit EXCEPT ![x] = Emission("enqueue", d)]
    <3>1. job[d].state = "none" BY <1>0, <2>0, <2>2 DEF JobInv
    <3>2. worker.pc # "idle" => worker.row # d BY <1>0, <3>1 DEF JobInv
    <3>3. emit'[x].pc = "enqueue" /\ emit'[x].row = d
      BY <1>0, <2>0, <2>2, EmissionFacts DEF TypeOK
    <3>4. \A y \in Emitters : y # x => emit'[y] = emit[y] BY <1>0, <2>2 DEF TypeOK
    <3>5. \A e \in Deliveries : row'[e] = IF e = d THEN "PENDING" ELSE row[e]
      BY <1>0, <2>0, <2>2 DEF TypeOK
    <3>6. \A y \in Emitters : y # x /\ emit[y].pc = "enqueue" => emit[y].row # d
      BY <1>0, <2>2, <2>0 DEF JobInv
    <3>6a. \A y \in Emitters : emit[y].pc = "enqueue" => emit[y].row \in Deliveries
      BY <1>0, EmissionFacts
    <3>7. job' = job /\ worker' = worker /\ unrecorded' = unrecorded
      BY <1>2 DEF CreateRow, historyVars
    <3>8. JobInv'
      <4>1. worker'.pc # "idle" =>
              /\ job'[worker'.row].state \in {"waiting", "active", "ended"}
              /\ job'[worker'.row].state = "ended" => worker'.row \in unrecorded'
        BY <1>0, <3>7 DEF JobInv
      <4>2. \A e \in Deliveries : row'[e] = "none" => job'[e].state = "none"
        BY <1>0, <3>5, <3>7 DEF JobInv
      <4>3. \A y \in Emitters : emit'[y].pc = "enqueue" =>
              row'[emit'[y].row] # "none" /\ job'[emit'[y].row].state = "none"
        BY <1>0, <2>0, <3>1, <3>3, <3>4, <3>5, <3>6, <3>6a, <3>7 DEF JobInv
      <4>4. \A y, z \in Emitters :
              emit'[y].pc = "enqueue" /\ emit'[z].pc = "enqueue" /\ emit'[y].row = emit'[z].row
                => y = z
        BY <1>0, <3>3, <3>4, <3>6 DEF JobInv
      <4> QED BY <4>1, <4>2, <4>3, <4>4 DEF JobInv
    <3>9. worker.pc # "idle" => worker.row \in Deliveries BY <1>0, RunFacts
    <3>10. AcceptInv'
      BY <1>0, <1>2, <2>0, <2>2, <3>2, <3>5, <3>9
      DEF AcceptInv, AcceptedOnce, CreateRow, historyVars
    <3>11. EndInv'
      BY <1>0, <1>2, <2>0, <2>2, <3>1, <3>2, <3>5, <3>9
      DEF EndInv, EndedIsSettled, CreateRow, historyVars, IsFinalAttempt, AttemptNo
    <3> QED BY <2>1, <3>8, <3>10, <3>11 DEF IInv
  <2>3. CASE emit' = [emit EXCEPT ![x] = NoEmission] /\ UNCHANGED row
    <3>1. \A y \in Emitters : emit'[y].pc = "enqueue" => emit'[y] = emit[y] /\ y # x
      BY <1>0, <2>3, EmissionFacts DEF TypeOK
    <3>2. JobInv' BY <1>0, <1>2, <2>3, <3>1 DEF JobInv, CreateRow, historyVars
    <3>3. AcceptInv' /\ EndInv'
      BY <1>0, <1>2, <2>3 DEF CreateRow, AcceptInv, AcceptedOnce, EndInv, EndedIsSettled,
                              IsFinalAttempt, AttemptNo, historyVars
    <3> QED BY <2>1, <3>2, <3>3 DEF IInv
  <2> QED BY <1>2, <2>2, <2>3 DEF CreateRow
<1>3. ASSUME NEW x \in Emitters, Enqueue(x) PROVE IInv'
  <2> DEFINE d == emit[x].row
  <2>0. d \in Deliveries /\ row[d] # "none" /\ job[d].state = "none"
    BY <1>0, <1>3, EmissionFacts DEF Enqueue, JobInv
  <2>1. worker.pc # "idle" => worker.row # d /\ worker.row \in Deliveries
    BY <1>0, <2>0, RunFacts DEF JobInv
  <2>2. \A e \in Deliveries :
          /\ job'[e] # job[e] => e = d /\ job'[e] = Job("waiting", 0, 0)
          /\ e # d => job'[e] = job[e]
    BY <1>0, <1>3 DEF Enqueue, TypeOK
  <2>3. /\ 0 \in 0..MaxAttempts /\ 0 < MaxAttempts
        /\ Job("waiting", 0, 0) \in JobType
        /\ Job("waiting", 0, 0).state = "waiting" /\ Job("waiting", 0, 0).made = 0
    <3>1. 0 \in 0..MaxAttempts /\ 0 < MaxAttempts OBVIOUS
    <3> QED BY <3>1, JobFacts
  <2>4. TypeOK' BY <1>0, <1>3, <2>0, <2>3, EmissionFacts DEF Enqueue, TypeOK, historyVars
  <2>5. \A y \in Emitters : emit'[y].pc = "enqueue" =>
          emit'[y] = emit[y] /\ y # x /\ emit[y].row # d /\ emit[y].row \in Deliveries
    BY <1>0, <1>3, EmissionFacts DEF Enqueue, TypeOK, JobInv
  <2>6. JobInv'
    BY <1>0, <1>3, <2>0, <2>1, <2>2, <2>5 DEF JobInv, Enqueue
  <2>7. AcceptInv'
    BY <1>0, <1>3 DEF AcceptInv, AcceptedOnce, Enqueue, historyVars
  <2>8. EndedIsSettled'
    BY <1>0, <1>3, <2>2, <2>3 DEF EndInv, EndedIsSettled, Enqueue, historyVars
  <2>9. worker.pc # "idle" => job'[worker.row] = job[worker.row] BY <2>1, <2>2
  <2>10. EndInv'
    BY <1>0, <1>3, <2>8, <2>9 DEF EndInv, Enqueue, historyVars, IsFinalAttempt, AttemptNo
  <2> QED BY <2>4, <2>6, <2>7, <2>10 DEF IInv
<1>4. ASSUME NEW x \in Emitters, NEW d \in Events, Dispatch(x, d) PROVE IInv'
  BY <1>1, <1>4 DEF Dispatch, Deliveries
<1>5. ASSUME NEW x \in Emitters, NEW d \in Clones, NEW original \in Deliveries,
             Redeliver(x, d, original)
      PROVE IInv'
  BY <1>1, <1>5 DEF Redeliver, Deliveries
<1> QED BY <1>2, <1>3, <1>4, <1>5

LEMMA OutsideInv == ASSUME IInv, SwitchTarget \/ Crash PROVE IInv'
<1>0. TypeOK /\ JobInv /\ AcceptInv /\ EndInv BY DEF IInv
<1>1. CASE SwitchTarget
  <2>1. TypeOK' BY <1>0, <1>1 DEF SwitchTarget, TypeOK, historyVars
  <2>2. JobInv' BY <1>0, <1>1 DEF SwitchTarget, JobInv, historyVars
  <2>3. AcceptInv' /\ EndInv'
    BY <1>0, <1>1 DEF SwitchTarget, AcceptInv, AcceptedOnce, EndInv, EndedIsSettled,
                      IsFinalAttempt, AttemptNo, historyVars
  <2> QED BY <2>1, <2>2, <2>3 DEF IInv
<1>2. CASE Crash
  <2>0. /\ worker'.pc = "idle" /\ worker' = NoRun
        /\ \A x \in Emitters : emit'[x] = NoEmission /\ emit'[x].pc = "idle"
    BY <1>2, RunFacts, <1>0 DEF Crash, NoEmission, Emission
  <2>1. worker.pc = "success" => worker.row \in Deliveries BY <1>0, RunFacts
  <2>2. lost' \in [Deliveries -> Nat] /\ \A d \in Deliveries :
          /\ lost[d] <= lost'[d]
          /\ worker.pc = "success" /\ worker.row = d => lost'[d] = lost[d] + 1
    BY <1>0, <1>2, <2>1 DEF Crash, TypeOK
  <2>3. TypeOK' BY <1>0, <1>2, <2>0, <2>2 DEF Crash, TypeOK
  <2>4. JobInv' BY <1>0, <1>2, <2>0 DEF Crash, JobInv
  <2>5. \A d \in Deliveries :
          /\ accepted'[d] <= lost'[d] + 1
          /\ row'[d] # "SUCCESS" => accepted'[d] <= lost'[d]
    <3> SUFFICES ASSUME NEW d \in Deliveries
                 PROVE  /\ accepted[d] <= lost'[d] + 1
                        /\ row[d] # "SUCCESS" => accepted[d] <= lost'[d]
      BY <1>2 DEF Crash
    <3>1. accepted[d] \in Nat /\ lost[d] \in Nat /\ lost'[d] \in Nat BY <1>0, <2>2 DEF TypeOK
    <3>2. accepted[d] <= lost[d] + 1 BY <1>0 DEF AcceptInv, AcceptedOnce
    <3>3. CASE worker.pc = "success" /\ worker.row = d BY <2>2, <3>1, <3>2, <3>3
    <3>4. CASE ~(worker.pc = "success" /\ worker.row = d)
      <4>1. row[d] # "SUCCESS" => accepted[d] <= lost[d] BY <1>0, <3>4 DEF AcceptInv
      <4> QED BY <2>2, <3>1, <3>2, <4>1
    <3> QED BY <3>3, <3>4
  <2>6. AcceptInv' BY <2>0, <2>5 DEF AcceptInv, AcceptedOnce
  <2>7. EndInv' BY <1>0, <1>2, <2>0 DEF Crash, EndInv, EndedIsSettled
  <2> QED BY <2>3, <2>4, <2>6, <2>7 DEF IInv
<1> QED BY <1>1, <1>2
------------------------------------------------------------------------------
(* A run of the processor *)

LEMMA TakeInv == ASSUME IInv, NEW d \in Deliveries, TakeJob(d) PROVE IInv'
<1>0. TypeOK /\ JobInv /\ AcceptInv /\ EndInv BY DEF IInv
<1>1. /\ worker'.pc = "read" /\ worker'.row = d
      /\ worker' \in [pc : Deliver, row : Deliveries, missed : BOOLEAN]
  BY DEF TakeJob, Run, Deliver
<1>2. /\ job[d] \in JobType /\ job[d].state = "waiting" /\ job[d].made < MaxAttempts
      /\ job'[d] \in JobType /\ job'[d].state = "active" /\ job'[d].made = job[d].made
  BY <1>0 DEF TakeJob, TypeOK, JobType
<1>3. job' \in [Deliveries -> JobType] /\ \A e \in Deliveries : e # d => job'[e] = job[e]
  BY <1>0, <1>2 DEF TakeJob, TypeOK
<1>4. TypeOK' BY <1>0, <1>1, <1>2, <1>3 DEF TakeJob, TypeOK, historyVars
<1>5. \A x \in Emitters : emit[x].pc = "enqueue" => emit[x].row \in Deliveries /\ emit[x].row # d
  BY <1>0, <1>2, EmissionFacts DEF JobInv
<1>6. JobInv'
  <2>1. row[d] # "none" BY <1>0, <1>2 DEF JobInv
  <2>2. \A e \in Deliveries : row'[e] = "none" => job'[e].state = "none"
    BY <1>0, <1>3, <2>1 DEF TakeJob, JobInv
  <2>3. \A x \in Emitters : emit'[x].pc = "enqueue" =>
          row'[emit'[x].row] # "none" /\ job'[emit'[x].row].state = "none"
    BY <1>0, <1>3, <1>5 DEF TakeJob, JobInv
  <2>4. job'[worker'.row].state = "active" BY <1>1, <1>2
  <2> QED BY <1>0, <2>2, <2>3, <2>4 DEF TakeJob, JobInv
<1>7. worker.pc = "idle" BY RunFacts, <1>0 DEF TakeJob
<1>8. AcceptInv' BY <1>0, <1>1, <1>7 DEF TakeJob, AcceptInv, AcceptedOnce, historyVars
<1>9. EndInv' BY <1>0, <1>1, <1>2, <1>3 DEF TakeJob, EndInv, EndedIsSettled, historyVars
<1> QED BY <1>4, <1>6, <1>8, <1>9 DEF IInv

LEMMA StallInv == ASSUME IInv, NEW d \in Deliveries, Stall(d) PROVE IInv'
<1>0. TypeOK /\ JobInv /\ AcceptInv /\ EndInv BY DEF IInv
<1>1. /\ job[d] \in JobType /\ job[d].state = "active" /\ job[d].made \in 0..MaxAttempts
      /\ job[d].made < MaxAttempts /\ job[d].stalled + 1 \in Nat
  BY <1>0 DEF Stall, TypeOK, JobType
<1>2. /\ job'[d] \in JobType /\ job'[d].state \in {"waiting", "ended"}
      /\ job'[d].made = job[d].made
      /\ job'[d].state = "ended" => d \in unrecorded'
  <2>1. CASE job[d].stalled < MaxStalled
    <3>1. job'[d] = Job("waiting", job[d].made, job[d].stalled + 1)
      BY <1>0, <2>1 DEF Stall, TypeOK
    <3> QED BY <1>1, <3>1, JobFacts
  <2>2. CASE ~(job[d].stalled < MaxStalled)
    <3>1. job'[d] = [job[d] EXCEPT !.state = "ended"] /\ d \in unrecorded'
      BY <1>0, <2>2 DEF Stall, TypeOK
    <3> QED BY <1>1, <3>1 DEF JobType
  <2> QED BY <2>1, <2>2
<1>3. job' \in [Deliveries -> JobType] /\ \A e \in Deliveries : e # d => job'[e] = job[e]
  BY <1>0, <1>2 DEF Stall, TypeOK
<1>4. unrecorded \subseteq unrecorded' /\ unrecorded' \subseteq Deliveries
  BY <1>0 DEF Stall, TypeOK
<1>5. UNCHANGED <<enabled, row, emit, worker, accepted, lost, dropped, crashes>>
  BY DEF Stall
<1>6. TypeOK' BY <1>0, <1>1, <1>2, <1>3, <1>4, <1>5 DEF TypeOK
<1>7. \A x \in Emitters : emit[x].pc = "enqueue" => emit[x].row \in Deliveries /\ emit[x].row # d
  BY <1>0, <1>1, EmissionFacts DEF JobInv
<1>8. worker.pc # "idle" => worker.row \in Deliveries BY <1>0, RunFacts
<1>9. JobInv'
  <2>1. worker'.pc # "idle" =>
          /\ job'[worker'.row].state \in {"waiting", "active", "ended"}
          /\ job'[worker'.row].state = "ended" => worker'.row \in unrecorded'
    BY <1>0, <1>2, <1>3, <1>4, <1>5, <1>8 DEF JobInv
  <2>2. \A e \in Deliveries : row'[e] = "none" => job'[e].state = "none"
    BY <1>0, <1>1, <1>3, <1>5 DEF JobInv
  <2>3. \A x \in Emitters : emit'[x].pc = "enqueue" =>
          row'[emit'[x].row] # "none" /\ job'[emit'[x].row].state = "none"
    BY <1>0, <1>3, <1>5, <1>7 DEF JobInv
  <2> QED BY <1>0, <1>5, <2>1, <2>2, <2>3 DEF JobInv
<1>10. AcceptInv' BY <1>0, <1>5 DEF AcceptInv, AcceptedOnce
<1>11. worker.pc # "idle" => job'[worker.row].made = job[worker.row].made
  BY <1>2, <1>3, <1>5, <1>8
<1>12. EndedIsSettled' BY <1>0, <1>2, <1>3, <1>4, <1>5 DEF EndInv, EndedIsSettled
<1>13. EndInv' BY <1>0, <1>5, <1>11, <1>12 DEF EndInv, IsFinalAttempt, AttemptNo
<1> QED BY <1>6, <1>9, <1>10, <1>13 DEF IInv

\* A step of a run that leaves the job alone and changes at most the worker's own row.
LEMMA WithinRun ==
  ASSUME IInv, worker.pc # "idle", NEW pc \in Deliver, GoTo(pc) \/ Miss(pc),
         UNCHANGED <<enabled, job, emit, unrecorded, dropped, crashes>>,
         NEW status \in {"PENDING", "SUCCESS", "FAILED"},
         row' \in {row, [row EXCEPT ![worker.row] = status]},
         accepted' \in [Deliveries -> Nat], lost' \in [Deliveries -> Nat],
         \A d \in Deliveries : d # worker.row => accepted'[d] = accepted[d] /\ lost'[d] = lost[d],
         accepted[worker.row] <= accepted'[worker.row],
         row'[worker.row] = "SUCCESS" => accepted[worker.row] > 0
  PROVE  /\ TypeOK' /\ JobInv' /\ EndedIsSettled'
         /\ worker'.pc = pc /\ worker'.row = worker.row
         /\ worker.row \in Deliveries
         /\ \A d \in Deliveries : d # worker.row =>
              /\ row'[d] = row[d] /\ accepted'[d] = accepted[d] /\ lost'[d] = lost[d]
              /\ accepted[d] <= lost[d] + 1
              /\ row[d] # "SUCCESS" => accepted[d] <= lost[d]
<1>0. TypeOK /\ JobInv /\ AcceptInv /\ EndInv BY DEF IInv
<1>1. worker.row \in Deliveries BY <1>0, RunFacts
<1>2. /\ worker' \in [pc : Deliver, row : Deliveries, missed : BOOLEAN]
      /\ worker'.pc = pc /\ worker'.row = worker.row
  BY <1>0, GoToTyped
<1>3. row' \in [Deliveries -> {"none", "PENDING", "SUCCESS", "FAILED"}]
  BY <1>0, <1>1 DEF TypeOK
<1>4. TypeOK' BY <1>0, <1>2, <1>3 DEF TypeOK
<1>5. \A d \in Deliveries : d # worker.row => row'[d] = row[d] BY <1>0 DEF TypeOK
<1>6. /\ job[worker.row].state \in {"waiting", "active", "ended"}
      /\ job[worker.row].state = "ended" => worker.row \in unrecorded
  BY <1>0 DEF JobInv
<1>7. row[worker.row] # "none" BY <1>0, <1>1, <1>6 DEF JobInv
<1>8. row'[worker.row] # "none" BY <1>0, <1>1, <1>7 DEF TypeOK
<1>9. \A x \in Emitters : emit[x].pc = "enqueue" =>
        emit[x].row \in Deliveries /\ emit[x].row # worker.row
  BY <1>0, <1>6, EmissionFacts DEF JobInv
<1>10. JobInv'
  <2>1. /\ job'[worker'.row].state \in {"waiting", "active", "ended"}
        /\ job'[worker'.row].state = "ended" => worker'.row \in unrecorded'
    BY <1>2, <1>6
  <2>2. \A d \in Deliveries : row'[d] = "none" => job'[d].state = "none"
    BY <1>0, <1>5, <1>8 DEF JobInv
  <2>3. \A x \in Emitters : emit'[x].pc = "enqueue" =>
          row'[emit'[x].row] # "none" /\ job'[emit'[x].row].state = "none"
    BY <1>0, <1>5, <1>9 DEF JobInv
  <2> QED BY <1>0, <2>1, <2>2, <2>3 DEF JobInv
<1>11. EndedIsSettled'
  <2> SUFFICES ASSUME NEW d \in Deliveries
               PROVE  /\ row'[d] = "SUCCESS" => accepted'[d] > 0
                      /\ job'[d].state = "ended" =>
                           row'[d] \in {"SUCCESS", "FAILED"} \/ d \in unrecorded'
    BY DEF EndedIsSettled
  <2>1. CASE d = worker.row
    <3>1. accepted[d] \in Nat /\ accepted'[d] \in Nat BY <1>0 DEF TypeOK
    <3> QED BY <1>6, <2>1, <3>1
  <2>2. CASE d # worker.row BY <1>0, <1>5, <2>2 DEF EndInv, EndedIsSettled
  <2> QED BY <2>1, <2>2
<1>12. ASSUME NEW d \in Deliveries, d # worker.row
       PROVE  accepted[d] <= lost[d] + 1 /\ (row[d] # "SUCCESS" => accepted[d] <= lost[d])
  BY <1>0, <1>12 DEF AcceptInv, AcceptedOnce
<1> QED BY <1>1, <1>2, <1>4, <1>5, <1>10, <1>11, <1>12

\* The steps of a run before it reports to BullMQ.
LEMMA DeliverInv ==
  ASSUME IInv, ReadRow \/ Disable \/ PostAccepted \/ PostRefused \/ SaveSuccess \/ SaveError
  PROVE  IInv'
<1> DEFINE w == worker.row
<1>0. TypeOK /\ JobInv /\ AcceptInv /\ EndInv BY DEF IInv
<1>1. worker.pc # "idle"
  BY DEF ReadRow, Disable, PostAccepted, PostRefused, SaveSuccess, SaveError
<1>2. /\ w \in Deliveries /\ worker.missed \in BOOLEAN
      /\ row[w] \in {"none", "PENDING", "SUCCESS", "FAILED"}
      /\ accepted[w] \in Nat /\ lost[w] \in Nat
      /\ accepted[w] <= lost[w] + 1
      /\ row[w] = "SUCCESS" => accepted[w] > 0
      /\ row[w] # "SUCCESS" /\ worker.pc # "success" => accepted[w] <= lost[w]
  <2>1. w \in Deliveries /\ worker.missed \in BOOLEAN BY <1>0, <1>1, RunFacts
  <2> QED BY <1>0, <2>1 DEF TypeOK, AcceptInv, AcceptedOnce, EndInv, EndedIsSettled
<1>3. accepted \in [Deliveries -> Nat] /\ lost \in [Deliveries -> Nat] BY <1>0 DEF TypeOK
\* The conclusion from what holds of the worker's own row.
<1>4. ASSUME NEW pc \in Deliver, GoTo(pc) \/ Miss(pc),
             UNCHANGED <<enabled, job, emit, unrecorded, dropped, crashes>>,
             NEW status \in {"PENDING", "SUCCESS", "FAILED"},
             row' \in {row, [row EXCEPT ![w] = status]},
             accepted' \in [Deliveries -> Nat], lost' \in [Deliveries -> Nat],
             \A d \in Deliveries : d # w => accepted'[d] = accepted[d] /\ lost'[d] = lost[d],
             accepted[w] <= accepted'[w],
             row'[w] = "SUCCESS" => accepted[w] > 0,
             accepted'[w] <= lost'[w] + 1,
             row'[w] # "SUCCESS" /\ pc # "success" => accepted'[w] <= lost'[w],
             pc \in {"disable", "post", "success"} => row'[w] # "SUCCESS",
             pc = "error" => accepted'[w] <= lost'[w],
             pc = "success" => accepted'[w] > 0,
             pc = "complete" => row'[w] \in {"SUCCESS", "FAILED"},
             pc = "throw" /\ GoTo(pc) /\ ~worker.missed /\ IsFinalAttempt => row'[w] = "FAILED"
      PROVE  IInv'
  <2>1. /\ TypeOK' /\ JobInv' /\ EndedIsSettled'
        /\ worker'.pc = pc /\ worker'.row = w /\ w \in Deliveries
        /\ \A d \in Deliveries : d # w =>
             /\ row'[d] = row[d] /\ accepted'[d] = accepted[d] /\ lost'[d] = lost[d]
             /\ accepted[d] <= lost[d] + 1
             /\ row[d] # "SUCCESS" => accepted[d] <= lost[d]
    BY <1>1, <1>4, WithinRun
  <2>2. AcceptInv' BY <1>4, <2>1 DEF AcceptInv, AcceptedOnce
  <2>3. IsFinalAttempt' <=> IsFinalAttempt BY <1>4, <2>1 DEF IsFinalAttempt, AttemptNo
  <2>4. ~worker'.missed => GoTo(pc) /\ ~worker.missed BY <1>0, <1>1, <1>4, GoToTyped
  <2>5. EndInv' BY <1>4, <2>1, <2>3, <2>4 DEF EndInv
  <2> QED BY <2>1, <2>2, <2>5 DEF IInv
<1>5. CASE ReadRow
  <2>1. ASSUME NEW pc \in Deliver, GoTo(pc) \/ Miss(pc),
               row[w] # "SUCCESS" \/ pc = "complete",
               pc = "complete" => row[w] = "SUCCESS",
               pc \in {"complete", "disable", "post", "throw"},
               pc = "throw" => Miss(pc) 
        PROVE  IInv'
    <3>1. worker.pc = "read" /\ UNCHANGED <<enabled, row, job, emit, historyVars, crashes>>
      BY <1>5 DEF ReadRow
    <3>2. pc = "throw" => ~(GoTo(pc) /\ ~worker.missed)
      BY <1>0, <1>1, <2>1, GoToTyped
    <3> QED BY <1>2, <1>3, <1>4, <2>1, <3>1, <3>2 DEF historyVars
  <2> QED BY <1>5, <2>1 DEF ReadRow, Deliver
<1>6. CASE Disable
  <2>1. worker.pc = "disable" /\ row[w] # "SUCCESS"
    BY <1>0, <1>6 DEF Disable, AcceptInv
  <2>2. CASE row' = [row EXCEPT ![w] = "FAILED"] /\ GoTo("complete")
    <3>1. row'[w] = "FAILED" BY <1>0, <1>2, <2>2 DEF TypeOK
    <3> QED BY <1>2, <1>3, <1>4, <1>6, <2>1, <2>2, <3>1 DEF Disable, historyVars, Deliver
  <2>3. CASE UNCHANGED row /\ Miss("throw")
    <3>1. ~(GoTo("throw") /\ ~worker.missed) BY <1>0, <1>1, <2>3, GoToTyped DEF Deliver
    <3> QED BY <1>2, <1>3, <1>4, <1>6, <2>1, <2>3, <3>1 DEF Disable, historyVars, Deliver
  <2> QED BY <1>6, <2>2, <2>3 DEF Disable
<1>7. CASE PostAccepted
  <2>0. PICK answered \in BOOLEAN :
          /\ worker.pc = "post"
          /\ accepted' = [accepted EXCEPT ![w] = @ + 1]
          /\ IF answered THEN GoTo("success") /\ UNCHANGED lost
             ELSE GoTo("error") /\ lost' = [lost EXCEPT ![w] = @ + 1]
    BY <1>7 DEF PostAccepted
  <2>1. row[w] # "SUCCESS" BY <1>0, <2>0 DEF AcceptInv
  <2>2. UNCHANGED <<enabled, row, job, emit, unrecorded, dropped, crashes>> BY <1>7 DEF PostAccepted
  <2>3. /\ accepted' \in [Deliveries -> Nat] /\ accepted'[w] = accepted[w] + 1
        /\ \A d \in Deliveries : d # w => accepted'[d] = accepted[d]
    BY <1>2, <1>3, <2>0
  <2>4. CASE answered BY <1>2, <1>3, <1>4, <2>0, <2>1, <2>2, <2>3, <2>4 DEF Deliver
  <2>5. CASE ~answered
    <3>1. /\ lost' \in [Deliveries -> Nat] /\ lost'[w] = lost[w] + 1
          /\ \A d \in Deliveries : d # w => lost'[d] = lost[d]
      BY <1>2, <1>3, <2>0, <2>5
    <3> QED BY <1>2, <1>3, <1>4, <2>0, <2>1, <2>2, <2>3, <2>5, <3>1 DEF Deliver
  <2> QED BY <2>4, <2>5
<1>8. CASE PostRefused
  <2>1. worker.pc = "post" /\ row[w] # "SUCCESS" BY <1>0, <1>8 DEF PostRefused, AcceptInv
  <2> QED BY <1>2, <1>3, <1>4, <1>8, <2>1 DEF PostRefused, historyVars, Deliver
<1>9. CASE SaveSuccess
  <2>1. worker.pc = "success" /\ row[w] # "SUCCESS" /\ accepted[w] > 0
    BY <1>0, <1>9 DEF SaveSuccess, AcceptInv, EndInv
  <2>2. UNCHANGED <<enabled, job, emit, accepted, unrecorded, dropped, crashes>>
    BY <1>9 DEF SaveSuccess
  <2>3. [row EXCEPT ![w] = "SUCCESS"][w] = "SUCCESS" BY <1>0, <1>2 DEF TypeOK
  <2>4. CASE GoTo("complete") /\ row' = [row EXCEPT ![w] = "SUCCESS"] /\ UNCHANGED lost
    BY <1>2, <1>3, <1>4, <2>1, <2>2, <2>3, <2>4 DEF Deliver
  <2>5. CASE /\ GoTo("error") /\ row' \in {row, [row EXCEPT ![w] = "SUCCESS"]}
             /\ lost' = [lost EXCEPT ![w] = @ + 1]
    <3>1. /\ lost' \in [Deliveries -> Nat] /\ lost'[w] = lost[w] + 1
          /\ \A d \in Deliveries : d # w => lost'[d] = lost[d]
      BY <1>2, <1>3, <2>5
    <3> QED BY <1>2, <1>3, <1>4, <2>1, <2>2, <2>3, <2>5, <3>1 DEF Deliver
  <2> QED BY <1>9, <2>4, <2>5 DEF SaveSuccess
<1>10. CASE SaveError
  <2>0. worker.pc = "error" /\ accepted[w] <= lost[w]
    BY <1>0, <1>10 DEF SaveError, AcceptInv
  <2>1. UNCHANGED <<enabled, job, emit, historyVars, crashes>> BY <1>10 DEF SaveError
  <2> DEFINE status == IF IsFinalAttempt THEN "FAILED" ELSE "PENDING"
  <2>2. CASE row' = [row EXCEPT ![w] = status] /\ GoTo("throw")
    <3>1. row'[w] = status BY <1>0, <1>2, <2>2 DEF TypeOK
    <3>2. CASE IsFinalAttempt
      <4>1. row'[w] = "FAILED" /\ row' = [row EXCEPT ![w] = "FAILED"] BY <2>2, <3>1, <3>2
      <4>2. "throw" \in Deliver /\ row' \in {row, [row EXCEPT ![w] = "FAILED"]} BY <4>1 DEF Deliver
      <4>3. UNCHANGED <<accepted, lost, unrecorded, dropped>>
        BY <2>1 DEF historyVars
      <4> HIDE DEF status
      <4> QED BY <1>2, <1>3, <1>4, <2>0, <2>1, <2>2, <4>1, <4>2, <4>3
    <3>3. CASE ~IsFinalAttempt
      <4>1. row'[w] = "PENDING" /\ row' = [row EXCEPT ![w] = "PENDING"] BY <2>2, <3>1, <3>3
      <4> QED BY <1>2, <1>3, <1>4, <2>0, <2>1, <2>2, <3>3, <4>1 DEF historyVars, Deliver
    <3> QED BY <3>2, <3>3
  <2>3. CASE UNCHANGED row /\ Miss("throw")
    <3>1. ~(GoTo("throw") /\ ~worker.missed) BY <1>0, <1>1, <2>3, GoToTyped DEF Deliver
    <3> QED BY <1>2, <1>3, <1>4, <2>0, <2>1, <2>3, <3>1 DEF historyVars, Deliver
  <2> QED BY <1>10, <2>2, <2>3 DEF SaveError
<1> QED BY <1>5, <1>6, <1>7, <1>8, <1>9, <1>10

\* The steps that report to BullMQ.
LEMMA ReportInv == ASSUME IInv, Complete \/ Throw PROVE IInv'
<1> DEFINE w == worker.row
<1> USE WebhookAssumption
<1>0. TypeOK /\ JobInv /\ AcceptInv /\ EndInv BY DEF IInv
<1>1. worker.pc \in {"complete", "throw"} /\ worker' = NoRun BY DEF Complete, Throw
<1>2. /\ w \in Deliveries /\ worker.missed \in BOOLEAN /\ worker'.pc = "idle"
  BY <1>0, <1>1, RunFacts
<1>3. /\ job[w] \in JobType /\ job[w].state \in {"waiting", "active", "ended"}
      /\ job[w].made \in 0..MaxAttempts /\ job[w].stalled \in Nat
      /\ job[w].state \in {"waiting", "active"} => job[w].made < MaxAttempts
      /\ job[w].state = "ended" => w \in unrecorded
      /\ job = [job EXCEPT ![w] = job[w]]
  BY <1>0, <1>1, <1>2 DEF JobInv, TypeOK, JobType
<1>4. /\ job'[w] \in JobType /\ job'[w].state \in {"waiting", "ended"}
      /\ job'[w].state = "waiting" => job'[w].made < MaxAttempts
      /\ job' = [job EXCEPT ![w] = job'[w]]
      /\ unrecorded \subseteq unrecorded' /\ unrecorded' \subseteq Deliveries
      /\ job'[w].state = "ended" => row[w] \in {"SUCCESS", "FAILED"} \/ w \in unrecorded'
  <2>1. CASE ~HoldsLock
    <3>1. job' = job BY <2>1 DEF Complete, Throw, Report
    <3>2. unrecorded' = unrecorded BY <2>1 DEF Complete, Throw, historyVars
    <3> QED BY <1>0, <1>3, <2>1, <3>1, <3>2 DEF HoldsLock, TypeOK
  <2>2. CASE HoldsLock /\ Complete
    <3>1. /\ job'[w] = Job("ended", job[w].made, job[w].stalled)
          /\ job' = [job EXCEPT ![w] = job'[w]]
      BY <1>0, <1>2, <2>2 DEF Complete, Report, TypeOK
    <3>2. row[w] \in {"SUCCESS", "FAILED"} /\ unrecorded' = unrecorded
      BY <1>0, <2>2 DEF Complete, EndInv, historyVars
    <3>3. job'[w] \in JobType /\ job'[w].state = "ended" BY <1>3, <3>1, JobFacts
    <3> QED BY <1>0, <3>1, <3>2, <3>3 DEF TypeOK
  <2>3. CASE HoldsLock /\ Throw
    <3> DEFINE over == AttemptNo = MaxAttempts
    <3>1. /\ job'[w] = Job(IF over THEN "ended" ELSE "waiting", AttemptNo, job[w].stalled)
          /\ job' = [job EXCEPT ![w] = job'[w]]
          /\ unrecorded' = IF over /\ worker.missed THEN unrecorded \cup {w} ELSE unrecorded
      BY <1>0, <1>2, <2>3 DEF Throw, Report, TypeOK
    <3>2. /\ AttemptNo = job[w].made + 1 /\ AttemptNo \in 0..MaxAttempts
          /\ ~over => AttemptNo < MaxAttempts
      BY <1>3, <2>3 DEF HoldsLock, AttemptNo
    <3>3. over => IsFinalAttempt BY <3>2 DEF IsFinalAttempt
    <3>4. over /\ ~worker.missed => row[w] = "FAILED"
      BY <1>0, <2>3, <3>3 DEF Throw, EndInv
    <3>5. /\ job'[w] \in JobType /\ job'[w].made = AttemptNo
          /\ job'[w].state = IF over THEN "ended" ELSE "waiting"
      BY <1>3, <3>1, <3>2, JobFacts
    <3>6. unrecorded' \subseteq Deliveries /\ unrecorded \subseteq unrecorded'
      BY <1>0, <1>2, <3>1 DEF TypeOK
    <3> QED BY <1>2, <3>1, <3>2, <3>4, <3>5, <3>6
  <2> QED BY <2>1, <2>2, <2>3
<1>5. UNCHANGED <<enabled, row, emit, accepted, lost, dropped, crashes>>
  BY DEF Complete, Throw, historyVars
<1>6. job' \in [Deliveries -> JobType] /\ \A d \in Deliveries : d # w => job'[d] = job[d]
  BY <1>0, <1>2, <1>4 DEF TypeOK
<1>7. TypeOK' BY <1>0, <1>1, <1>4, <1>5, <1>6 DEF TypeOK
<1>8. \A x \in Emitters : emit[x].pc = "enqueue" => emit[x].row \in Deliveries /\ emit[x].row # w
  BY <1>0, <1>3, EmissionFacts DEF JobInv
<1>9. JobInv'
  <2>1. row[w] # "none" BY <1>0, <1>2, <1>3 DEF JobInv
  <2>2. \A d \in Deliveries : row'[d] = "none" => job'[d].state = "none"
    BY <1>0, <1>5, <1>6, <2>1 DEF JobInv
  <2>3. \A x \in Emitters : emit'[x].pc = "enqueue" =>
          row'[emit'[x].row] # "none" /\ job'[emit'[x].row].state = "none"
    BY <1>0, <1>5, <1>6, <1>8 DEF JobInv
  <2> QED BY <1>0, <1>2, <1>5, <2>2, <2>3 DEF JobInv
<1>10. AcceptInv' BY <1>0, <1>1, <1>2, <1>5 DEF AcceptInv, AcceptedOnce
<1>11. EndInv' BY <1>0, <1>2, <1>4, <1>5, <1>6 DEF EndInv, EndedIsSettled
<1> QED BY <1>7, <1>9, <1>10, <1>11 DEF IInv
------------------------------------------------------------------------------
LEMMA NextInv == ASSUME IInv, [Next]_vars PROVE IInv'
<1>1. CASE UNCHANGED vars
  BY <1>1 DEF vars, historyVars, IInv, TypeOK, JobInv, AcceptInv, AcceptedOnce, EndInv,
              EndedIsSettled, IsFinalAttempt, AttemptNo
<1>2. CASE Next
  BY <1>2, EmitInv, OutsideInv, TakeInv, StallInv, DeliverInv, ReportInv DEF Next, Process
<1> QED BY <1>1, <1>2

THEOREM Invariant == Spec => []IInv
BY InitInv, NextInv, PTL DEF Spec

\* Every job keeps to its attempts and every run holds a delivery.
THEOREM TypeCorrect == Spec => []TypeOK
<1>1. IInv => TypeOK BY DEF IInv
<1> QED BY <1>1, Invariant, PTL

\* However the worker is restarted and its jobs repeated, an acceptance that was recorded
\* is the last.
THEOREM NoSecondAcceptance == Spec => []AcceptedOnce
<1>1. IInv => AcceptedOnce BY DEF IInv, AcceptInv
<1> QED BY <1>1, Invariant, PTL

\* A job that is over has told the row how it ended, whenever its last run could write.
THEOREM EndsAreSettled == Spec => []EndedIsSettled
<1>1. IInv => EndedIsSettled BY DEF IInv, EndInv
<1> QED BY <1>1, Invariant, PTL
------------------------------------------------------------------------------
(* A row that is PENDING has its job or a call that will queue it *)

\* A row that never had a job: all that EndedIsSettled leaves to PendingIsQueued.
UnqueuedInv == \A d \in Deliveries :
  row[d] = "PENDING" /\ job[d].state = "none" =>
    (\E x \in Emitters : AboutToQueue(x, d)) \/ d \in dropped

LEMMA UnqueuedSuffices == ASSUME IInv, UnqueuedInv PROVE PendingIsQueued
<1> SUFFICES ASSUME NEW d \in Deliveries, row[d] = "PENDING"
             PROVE  \/ job[d].state \in {"waiting", "active"}
                    \/ \E x \in Emitters : AboutToQueue(x, d)
                    \/ d \in dropped \cup unrecorded
  BY DEF PendingIsQueued
<1>1. job[d].state \in {"none", "waiting", "active", "ended"}
  BY DEF IInv, TypeOK, JobType
<1>2. job[d].state = "ended" => d \in unrecorded
  BY DEF IInv, EndInv, EndedIsSettled
<1> QED BY <1>1, <1>2 DEF UnqueuedInv

\* The steps that leave the calls in flight alone: they give no row a status it had not
\* without its job, and take no job away.
LEMMA UnqueuedElsewhere ==
  ASSUME IInv, UnqueuedInv, UNCHANGED <<emit, dropped>>,
         \A d \in Deliveries : job'[d].state = "none" => job[d].state = "none" /\ row'[d] = row[d]
  PROVE  UnqueuedInv'
BY DEF UnqueuedInv, AboutToQueue

LEMMA UnqueuedRun == ASSUME IInv, UnqueuedInv, Process PROVE UnqueuedInv'
<1> DEFINE w == worker.row
<1>0. TypeOK /\ JobInv BY DEF IInv
<1>1. /\ worker.pc # "idle" /\ UNCHANGED <<emit, dropped>>
      /\ row' = row \/ \E status \in {"PENDING", "SUCCESS", "FAILED"} :
                         row' = [row EXCEPT ![w] = status]
      /\ \/ job' = job
         \/ \E state \in {"waiting", "ended"}, made \in {job[w].made, AttemptNo} :
              job' = [job EXCEPT ![w] = Job(state, made, @.stalled)]
  BY DEF Process, ReadRow, Disable, PostAccepted, PostRefused, SaveSuccess, SaveError,
         Complete, Throw, Report, historyVars
<1>2. w \in Deliveries /\ job[w].state # "none" BY <1>0, <1>1, RunFacts DEF JobInv
<1>3. job'[w].state # "none" /\ \A d \in Deliveries : d # w => job'[d] = job[d] /\ row'[d] = row[d]
  BY <1>0, <1>1, <1>2 DEF TypeOK, JobType, Job
<1> QED BY <1>1, <1>3, UnqueuedElsewhere

LEMMA UnqueuedStep == ASSUME IInv, UnqueuedInv, [Next]_vars PROVE UnqueuedInv'
<1>0. TypeOK /\ JobInv BY DEF IInv
\* A call that was not about to queue goes on to create its row.
<1>1. ASSUME NEW x \in Emitters, NEW e \in Deliveries, emit[x].pc = "idle",
             emit' = [emit EXCEPT ![x] = Emission("create", e)],
             UNCHANGED <<row, job, dropped>>
      PROVE  UnqueuedInv'
  <2>1. \A y \in Emitters, d \in Deliveries : AboutToQueue(y, d) => AboutToQueue(y, d)'
    BY <1>0, <1>1 DEF AboutToQueue, TypeOK
  <2> QED BY <1>1, <2>1 DEF UnqueuedInv
<1>2. ASSUME NEW x \in Emitters, CreateRow(x) PROVE UnqueuedInv'
  <2> DEFINE c == emit[x].row
  <2>0. c \in Deliveries BY <1>0, <1>2, EmissionFacts DEF CreateRow
  <2>1. \A y \in Emitters, d \in Deliveries : AboutToQueue(y, d) => AboutToQueue(y, d)'
    BY <1>0, <1>2 DEF AboutToQueue, CreateRow, TypeOK
  <2>2. CASE row' = [row EXCEPT ![c] = "PENDING"] /\ emit' = [emit EXCEPT ![x] = Emission("enqueue", c)]
    <3>1. emit'[x].pc = "enqueue" /\ emit'[x].row = c BY <1>0, <2>2 DEF Emission, TypeOK
    <3>2. \A d \in Deliveries : d # c => row'[d] = row[d] BY <1>0, <2>2 DEF TypeOK
    <3>3. UNCHANGED <<job, dropped>> BY <1>2 DEF CreateRow, historyVars
    <3> SUFFICES ASSUME NEW d \in Deliveries, row'[d] = "PENDING", job'[d].state = "none"
                 PROVE  (\E y \in Emitters : AboutToQueue(y, d)') \/ d \in dropped'
      BY DEF UnqueuedInv
    <3>4. CASE d = c BY <3>1, <3>4 DEF AboutToQueue
    <3>5. CASE d # c BY <2>1, <3>2, <3>3, <3>5 DEF UnqueuedInv
    <3> QED BY <3>4, <3>5
  <2>3. CASE UNCHANGED row BY <1>2, <2>1, <2>3 DEF UnqueuedInv, CreateRow, historyVars
  <2> QED BY <1>2, <2>2, <2>3 DEF CreateRow
<1>3. ASSUME NEW x \in Emitters, Enqueue(x) PROVE UnqueuedInv'
  <2> DEFINE c == emit[x].row
  <2>0. c \in Deliveries BY <1>0, <1>3, EmissionFacts DEF Enqueue
  <2>1. \A y \in Emitters, d \in Deliveries :
          d # c /\ AboutToQueue(y, d) => AboutToQueue(y, d)'
    BY <1>0, <1>3 DEF AboutToQueue, Enqueue, TypeOK
  <2>2. dropped \subseteq dropped' /\ (job'[c].state = "none" => c \in dropped')
    BY <1>0, <1>3, <2>0 DEF Enqueue, TypeOK, Job
  <2>3. \A d \in Deliveries : d # c => job'[d] = job[d] BY <1>0, <1>3 DEF Enqueue, TypeOK
  <2> QED BY <1>3, <2>1, <2>2, <2>3 DEF UnqueuedInv, Enqueue
<1>4. CASE SwitchTarget
  BY <1>4, UnqueuedElsewhere DEF SwitchTarget, historyVars
<1>5. CASE Crash
  BY <1>5 DEF Crash, UnqueuedInv
<1>6. ASSUME NEW e \in Deliveries, TakeJob(e) \/ Stall(e) PROVE UnqueuedInv'
  <2>1. job[e].state # "none" /\ UNCHANGED <<emit, dropped, row>>
    BY <1>6 DEF TakeJob, Stall, historyVars
  <2>2. job'[e].state # "none" /\ \A d \in Deliveries : d # e => job'[d] = job[d]
    <3>1. CASE TakeJob(e) BY <1>0, <3>1 DEF TakeJob, TypeOK, JobType
    <3>2. CASE Stall(e) BY <1>0, <3>2 DEF Stall, TypeOK, JobType, Job
    <3> QED BY <1>6, <3>1, <3>2
  <2> QED BY <2>1, <2>2, UnqueuedElsewhere
<1>7. CASE UNCHANGED vars
  BY <1>7, UnqueuedElsewhere DEF vars
<1>8. ASSUME NEW x \in Emitters, NEW d \in Events, Dispatch(x, d) PROVE UnqueuedInv'
  BY <1>1, <1>8 DEF Dispatch, Deliveries, historyVars
<1>9. ASSUME NEW x \in Emitters, NEW d \in Clones, NEW original \in Deliveries,
             Redeliver(x, d, original)
      PROVE  UnqueuedInv'
  BY <1>1, <1>9 DEF Redeliver, Deliveries, historyVars
<1> QED BY <1>2, <1>3, <1>4, <1>5, <1>6, <1>7, <1>8, <1>9, UnqueuedRun DEF Next

\* A row that is PENDING has its job or a call that will queue it, unless a restart or
\* Redis came in between or a last run could not write.
THEOREM PendingRowsQueued == Spec => []PendingIsQueued
<1>1. Init => UnqueuedInv BY DEF Init, UnqueuedInv
<1>2. Spec => []UnqueuedInv BY <1>1, UnqueuedStep, Invariant, PTL DEF Spec
<1> QED BY <1>2, Invariant, UnqueuedSuffices, PTL
------------------------------------------------------------------------------
(* How often a delivery is accepted *)

\* The acceptances of d, and the one that the run under way may still bring.
Owed(d) ==
  accepted[d] + IF worker.row = d /\ worker.pc \in {"read", "post"} THEN 1 ELSE 0

\* Each acceptance was an attempt that failed, a stall, or the attempt of this run.
Counted(d) ==
  /\ job[d].stalled <= MaxStalled
  /\ job[d].state = "none" => accepted[d] = 0
  /\ job[d].state = "waiting" => Owed(d) <= job[d].made + job[d].stalled
  /\ job[d].state = "active" => Owed(d) <= job[d].made + job[d].stalled + 1
  /\ Owed(d) <= MaxAttempts + MaxStalled

\* For every delivery.
CountInv == \A d \in Deliveries : Counted(d)

\* No step takes an acceptance that no attempt and no stall has paid for.
LEMMA CountStep == ASSUME IInv, CountInv, [Next]_vars PROVE CountInv'
<1> USE WebhookAssumption
<1>0. TypeOK /\ JobInv BY DEF IInv
<1> SUFFICES ASSUME NEW d \in Deliveries PROVE Counted(d)'
  BY DEF CountInv
<1>1. /\ job[d] \in JobType /\ accepted[d] \in Nat /\ Owed(d) \in Nat
      /\ accepted[d] <= Owed(d)
      /\ job[d].state \in {"none", "waiting", "active", "ended"}
      /\ job[d].made \in Nat /\ job[d].stalled \in Nat
      /\ job[d].state \in {"waiting", "active"} => job[d].made < MaxAttempts
      /\ Counted(d)
  BY <1>0 DEF TypeOK, JobType, CountInv, Owed
\* A step that at most uses up what the run may still bring.
<1>2. ASSUME job'[d] = job[d], Owed(d)' \in Nat, Owed(d)' <= Owed(d),
             accepted'[d] = accepted[d] \/ job[d].state # "none"
      PROVE  Counted(d)'
  BY <1>1, <1>2 DEF Counted
<1>3. ASSUME NEW e \in Deliveries, TakeJob(e) PROVE Counted(d)'
  <2>1. worker'.row = e /\ accepted' = accepted /\ worker.pc = "idle"
    BY <1>3 DEF TakeJob, Run, NoRun, historyVars
  <2>2. CASE d = e
    <3>1. /\ job[d].state = "waiting" /\ job'[d].state = "active"
          /\ job'[d].made = job[d].made /\ job'[d].stalled = job[d].stalled
      BY <1>0, <1>1, <1>3, <2>2 DEF TakeJob, TypeOK, JobType
    <3>2. Owed(d) = accepted[d] /\ Owed(d)' \in Nat /\ Owed(d)' <= accepted[d] + 1
      BY <1>1, <2>1 DEF Owed
    <3> QED BY <1>1, <2>1, <3>1, <3>2 DEF Counted
  <2>3. CASE d # e
    <3>1. job'[d] = job[d] BY <1>0, <1>3, <2>3 DEF TakeJob, TypeOK
    <3>2. Owed(d)' = accepted[d] BY <1>1, <2>1, <2>3 DEF Owed
    <3> QED BY <1>1, <1>2, <2>1, <3>1, <3>2
  <2> QED BY <2>2, <2>3
<1>4. ASSUME NEW e \in Deliveries, Stall(e) PROVE Counted(d)'
  <2>1. worker' = worker /\ accepted' = accepted /\ Owed(d)' = Owed(d)
    BY <1>4 DEF Stall, Owed
  <2>2. CASE d = e /\ job[e].stalled < MaxStalled
    <3>1. job[d].state = "active" /\ job'[d] = Job("waiting", job[d].made, job[d].stalled + 1)
      BY <1>0, <1>4, <2>2 DEF Stall, TypeOK
    <3>2. /\ job'[d].state = "waiting" /\ job'[d].made = job[d].made
          /\ job'[d].stalled = job[d].stalled + 1
      BY <3>1 DEF Job
    <3> QED BY <1>1, <2>1, <2>2, <3>1, <3>2 DEF Counted
  <2>3. CASE d = e /\ ~(job[e].stalled < MaxStalled)
    <3>1. /\ job'[d].state = "ended" /\ job'[d].made = job[d].made
          /\ job'[d].stalled = job[d].stalled
      BY <1>0, <1>1, <1>4, <2>3 DEF Stall, TypeOK, JobType
    <3> QED BY <1>1, <2>1, <3>1 DEF Counted
  <2>4. CASE d # e
    <3>1. job'[d] = job[d] BY <1>0, <1>4, <2>4 DEF Stall, TypeOK
    <3> QED BY <1>1, <1>2, <2>1, <3>1
  <2> QED BY <2>2, <2>3, <2>4
<1>5. ASSUME NEW x \in Emitters, Enqueue(x) PROVE Counted(d)'
  <2>1. /\ worker' = worker /\ accepted' = accepted /\ Owed(d)' = Owed(d)
        /\ emit[x].pc = "enqueue"
    BY <1>5 DEF Enqueue, Owed
  <2>2. job[emit[x].row].state = "none" BY <1>0, <2>1 DEF JobInv
  <2>3. CASE job'[d] = job[d] BY <1>1, <1>2, <2>1, <2>3
  <2>4. CASE job'[d] # job[d]
    <3>1. d = emit[x].row /\ job'[d] = Job("waiting", 0, 0)
      BY <1>0, <1>5, <2>4 DEF Enqueue, TypeOK
    <3>2. job'[d].state = "waiting" /\ job'[d].made = 0 /\ job'[d].stalled = 0
      BY <3>1 DEF Job
    <3>3. worker.pc # "idle" => worker.row # d BY <1>0, <2>2, <3>1 DEF JobInv
    <3>4. Owed(d) = accepted[d] /\ accepted[d] = 0
      BY <1>1, <2>2, <3>1, <3>3 DEF Owed, Counted
    <3> QED BY <1>1, <2>1, <3>2, <3>4 DEF Counted
  <2> QED BY <2>3, <2>4
<1>6. CASE PostAccepted
  <2>1. /\ worker.pc = "post" /\ job' = job
        /\ accepted' = [accepted EXCEPT ![worker.row] = @ + 1]
        /\ GoTo("success") \/ GoTo("error")
    BY <1>6 DEF PostAccepted
  <2>2. worker'.pc \in {"success", "error"} /\ worker'.row = worker.row
    BY <1>0, <2>1, GoToTyped DEF Deliver
  <2>3. accepted'[d] = accepted[d] + IF d = worker.row THEN 1 ELSE 0
    BY <1>0, <1>1, <2>1 DEF TypeOK
  <2>4. Owed(d)' = Owed(d) BY <1>1, <2>1, <2>2, <2>3 DEF Owed
  <2>5. d = worker.row => job[d].state # "none" BY <1>0, <2>1 DEF JobInv
  <2> QED BY <1>1, <1>2, <2>1, <2>3, <2>4, <2>5
<1>7. CASE ReadRow \/ Disable \/ PostRefused \/ SaveSuccess \/ SaveError
  <2>1. job' = job /\ accepted' = accepted
    BY <1>7 DEF ReadRow, Disable, PostRefused, SaveSuccess, SaveError, historyVars
  <2>2. \E pc \in Deliver : /\ GoTo(pc) \/ Miss(pc)
                            /\ pc \in {"read", "post"} => worker.pc = "read"
    BY <1>7 DEF ReadRow, Disable, PostRefused, SaveSuccess, SaveError, Deliver
  <2>3. worker.pc # "idle"
    BY <1>7 DEF ReadRow, Disable, PostRefused, SaveSuccess, SaveError
  <2>4. worker'.row = worker.row /\ (worker'.pc \in {"read", "post"} => worker.pc = "read")
    BY <1>0, <2>2, <2>3, GoToTyped
  <2>5. Owed(d)' \in Nat /\ Owed(d)' <= Owed(d) BY <1>1, <2>1, <2>4 DEF Owed
  <2> QED BY <1>2, <2>1, <2>5
<1>8. CASE Complete \/ Throw
  <2>1. worker'.pc = "idle" /\ accepted' = accepted /\ worker.pc \in {"complete", "throw"}
    BY <1>8 DEF Complete, Throw, NoRun, Run, historyVars
  <2>2. Owed(d)' = accepted[d] /\ Owed(d) = accepted[d] BY <1>1, <2>1 DEF Owed
  <2>3. CASE d = worker.row /\ HoldsLock
    <3>1. job[d].state = "active" BY <2>3 DEF HoldsLock
    <3>2. \E state \in {"waiting", "ended"}, made \in {job[d].made, AttemptNo} :
            /\ job'[d] = Job(state, made, job[d].stalled)
            /\ state = "waiting" => made = AttemptNo
      BY <1>0, <1>8, <2>3 DEF Complete, Throw, Report, TypeOK
    <3>3. /\ job'[d].state = "waiting" => job'[d].made = job[d].made + 1
          /\ job'[d].state \in {"waiting", "ended"}
          /\ job'[d].stalled = job[d].stalled
      BY <2>3, <3>2 DEF Job, AttemptNo
    <3> QED BY <1>1, <2>1, <2>2, <3>1, <3>3 DEF Counted
  <2>4. CASE ~(d = worker.row /\ HoldsLock)
    <3>1. job'[d] = job[d] BY <1>0, <1>8, <2>4 DEF Complete, Throw, Report, TypeOK
    <3> QED BY <1>1, <1>2, <2>1, <2>2, <3>1
  <2> QED BY <2>3, <2>4
<1>9. CASE Crash
  <2>1. worker'.pc = "idle" /\ job' = job /\ accepted' = accepted
    BY <1>9 DEF Crash, NoRun, Run
  <2>2. Owed(d)' = accepted[d] BY <1>1, <2>1 DEF Owed
  <2> QED BY <1>1, <1>2, <2>1, <2>2
<1>10. ASSUME UNCHANGED <<job, worker, accepted>> PROVE Counted(d)'
  BY <1>1, <1>2, <1>10 DEF Owed
<1>11. ASSUME NEW x \in Emitters, NEW e \in Deliveries, NEW o \in Deliveries,
              Dispatch(x, e) \/ Redeliver(x, e, o) \/ CreateRow(x)
       PROVE  Counted(d)'
  BY <1>10, <1>11 DEF Dispatch, Redeliver, CreateRow, historyVars
<1>12. CASE SwitchTarget \/ UNCHANGED vars
  BY <1>10, <1>12 DEF SwitchTarget, vars, historyVars
<1> QED BY <1>3, <1>4, <1>5, <1>6, <1>7, <1>8, <1>9, <1>11, <1>12
        DEF Next, Process, Deliveries

\* enqueueDelivery bounds the attempts and BullMQ the stalls; a restart between a POST
\* and its record costs one of them, so the subscriber accepts no delivery more often.
THEOREM RunsAreBounded == Spec => []RunsBounded
<1>1. Init => CountInv
  BY WebhookAssumption DEF Init, CountInv, Counted, Owed, NoJob, Job, NoRun, Run
<1>2. IInv /\ CountInv => RunsBounded
  <2> SUFFICES ASSUME IInv, CountInv, NEW d \in Deliveries
               PROVE  accepted[d] <= MaxAttempts + MaxStalled
    BY DEF RunsBounded
  <2>1. accepted[d] \in Nat /\ Owed(d) <= MaxAttempts + MaxStalled
    BY DEF IInv, TypeOK, CountInv, Counted
  <2> QED BY <2>1, WebhookAssumption DEF Owed
<1> QED BY <1>1, <1>2, CountStep, Invariant, PTL DEF Spec
==============================================================================
