------------------------- MODULE JobQueueRefinement -------------------------
(***************************************************************************)
(* The proof that the job queue implements SubmissionLifecycle.            *)
(***************************************************************************)
EXTENDS JobQueueProofs

\* The rows a step may free: those whose running loops all stop.
Freed == Busy \ Busy'

\* The empty table is the initial state of the lifecycle.
LEMMA RefinesInit == Init => Lifecycle!Init
  BY DEF Init, Lifecycle!Init, Status, Busy, Queued

\* A step that leaves the rows and the history alone and starts no run is a
\* Lose step: the submissions of the loops it stops stay pending.
LEMMA RefinesLose ==
    ASSUME UNCHANGED <<state, result, runs>>,
           \A w \in Workers : phase'[w] = "running" => phase[w] = "running" /\ job'[w] = job[w]
    PROVE  Lifecycle!Next
  <1>1. Status' = Status
    BY DEF Status
  <1>2. Busy' = Busy \ Freed
    BY DEF Busy, Freed
  <1>3. Freed \in SUBSET Submissions
    BY DEF Freed, Busy
  <1>4. Lifecycle!Lose(Freed)
    BY <1>1, <1>2 DEF Lifecycle!Lose
  <1> QED
    BY <1>3, <1>4 DEF Lifecycle!Next

\* finish by a running loop, or FAILED by one that gives up, is a Resolve step
\* or, when the row is already FAILED, changes nothing.
LEMMA RefinesResolve ==
    ASSUME TypeOK, OwnerInv, NEW w \in Workers, NEW st \in TERMINAL,
           phase[w] = "running" \/ (GivingUp(w) /\ st = "FAILED"),
           Finish(job[w], st), phase'[w] # "running", runs' = runs,
           \A v \in Workers : v # w => phase'[v] = phase[v] /\ job'[v] = job[v]
    PROVE  [Lifecycle!Next]_(Lifecycle!vars)
  <1> DEFINE s == job[w]
  <1>1. s \in Submissions
    BY HoldsSubmission DEF GivingUp
  <1>2. \A v \in Workers : v # w /\ phase[v] = "running" => job[v] # s
    BY DEF OwnerInv, Active, Holding, GivingUp
  <1>3. Busy' = Busy \ {s}
    BY <1>1, <1>2 DEF Busy, GivingUp
  <1>4. st \notin Queued
    BY DEF TERMINAL, Queued
  <1>5. Status' = [Status EXCEPT ![s] = st]
    BY <1>1, <1>4 DEF Status, Finish, TypeOK
  <1>6. result' = [result EXCEPT ![s] = IF st = "FAILED" THEN "ERROR" ELSE "REPORT"]
    BY DEF Finish
  <1>7. CASE state[s] \in Queued
    <2>1. Status[s] = "PENDING"
      BY <1>1, <1>7 DEF Status
    <2>2. s \in Busy \/ st = "FAILED"
      BY <1>1 DEF Busy
    <2>3. Lifecycle!Resolve(s, st)
      BY <1>3, <1>5, <1>6, <2>1, <2>2 DEF Lifecycle!Resolve
    <2> QED
      BY <1>1, <2>3 DEF Lifecycle!Next, TERMINAL
  <1>8. CASE state[s] \notin Queued
    <2>1. GivingUp(w) /\ st = "FAILED" /\ state[s] = "FAILED"
      BY <1>8 DEF OwnerInv, Active
    <2>2. result[s] = "ERROR"
      BY <1>1, <2>1 DEF OwnerInv, ReportMatchesState
    <2>3. result' = result
      BY <1>6, <2>1, <2>2 DEF TypeOK
    <2>4. Status' = Status
      BY <1>1, <1>5, <1>8, <2>1 DEF Status
    <2>5. Busy' = Busy
      BY <1>2, <1>3, <2>1 DEF Busy, GivingUp
    <2> QED
      BY <2>3, <2>4, <2>5 DEF Lifecycle!vars
  <1> QED
    BY <1>7, <1>8

\* Every step of the queue is a step of the lifecycle or a stutter.
LEMMA RefinesStep ==
    ASSUME NoZombies, TypeOK, AttemptInv, OwnerInv, [Next]_vars
    PROVE  [Lifecycle!Next]_(Lifecycle!vars)
  <1> DEFINE Losing == /\ UNCHANGED <<state, result, runs>>
                       /\ \A w \in Workers : phase'[w] = "running"
                                                => phase[w] = "running" /\ job'[w] = job[w]
             Goal == [Lifecycle!Next]_(Lifecycle!vars)
  <1>1. ASSUME Losing PROVE Goal
    BY <1>1, RefinesLose
  <1>2. ASSUME NEW c \in Clients, NEW s \in Submissions, Insert(c, s) PROVE Goal
    <2>1. /\ state[s] = "ABSENT" /\ state' = [state EXCEPT ![s] = "SUBMITTED"]
          /\ UNCHANGED <<result, runs, phase, job>>
      BY <1>2 DEF Insert, workerVars
    <2>2. Status[s] = "ABSENT" /\ Status' = [Status EXCEPT ![s] = "PENDING"]
      BY <2>1 DEF Status, Queued, TypeOK
    <2>3. Busy' = Busy
      BY <2>1 DEF Busy
    <2>4. Lifecycle!Submit(s)
      BY <2>1, <2>2, <2>3 DEF Lifecycle!Submit
    <2> QED
      BY <2>4 DEF Lifecycle!Next
  <1>3. ASSUME NEW c \in Clients, NEW s \in Submissions, SeeDegraded(c, s) PROVE Losing
    BY <1>3 DEF SeeDegraded, rowVars, workerVars
  <1>4. ASSUME NEW c \in Clients, Requeue(c) PROVE Goal
    <2> DEFINE s == retry[c]
    <2>1. CASE Reopenable(s)
      <3>1. /\ s \in Submissions /\ state[s] = "DEGRADED"
            /\ state'  = [state EXCEPT ![s] = "SUBMITTED"]
            /\ result' = [result EXCEPT ![s] = "NULL"]
            /\ UNCHANGED <<runs, phase, job>>
        BY <1>4, <2>1 DEF Requeue, Reopen, Reopenable, workerVars, TypeOK
      <3>2. Status[s] = "DEGRADED" /\ Status' = [Status EXCEPT ![s] = "PENDING"]
        BY <3>1 DEF Status, Queued, TypeOK
      <3>3. Busy' = Busy
        BY <3>1 DEF Busy
      <3>4. Lifecycle!Reopen(s)
        BY <3>1, <3>2, <3>3 DEF Lifecycle!Reopen
      <3> QED
        BY <3>1, <3>4 DEF Lifecycle!Next
    <2>2. CASE ~ Reopenable(s)
      <3>1. Losing
        BY <1>4, <2>2 DEF Requeue, rowVars, workerVars
      <3> QED
        BY <1>1, <3>1
    <2> QED
      BY <2>1, <2>2
  <1>5. ASSUME NEW w \in Workers, NEW s \in Submissions, Claim(w, s) PROVE Losing
    BY <1>5 DEF Claim, TypeOK
  <1>6. ASSUME NEW w \in Workers, GiveUp(w) PROVE Goal
    <2>1. /\ GivingUp(w) /\ Finish(job[w], "FAILED") /\ runs' = runs /\ phase'[w] # "running"
          /\ \A v \in Workers : v # w => phase'[v] = phase[v] /\ job'[v] = job[v]
      BY <1>6 DEF GiveUp, Release, Drop
    <2> QED
      BY <2>1, RefinesResolve DEF TERMINAL
  <1>7. ASSUME NEW w \in Workers, StartRun(w) PROVE Goal
    <2> DEFINE s == job[w]
    <2>1. /\ Starting(w) /\ UNCHANGED <<state, result, job>>
          /\ phase' = [phase EXCEPT ![w] = "running"]
          /\ runs' = [runs EXCEPT ![s] = @ \cup {att[w]}]
      BY <1>7 DEF StartRun, rowVars
    <2>2. s \in Submissions /\ Holding(w) /\ phase[w] = "claimed"
      BY <2>1, HoldsSubmission DEF Starting, Holding
    <2>3. Status[s] = "PENDING" /\ Status' = Status
      BY <2>1, <2>2 DEF OwnerInv, Active, Status
    <2>4. s \notin Busy
      BY <2>2 DEF OwnerInv, Active, Busy
    <2>5. Busy' = Busy \cup {s}
      <3>1. \A v \in Workers : v # w => phase'[v] = phase[v]
        BY <2>1 DEF TypeOK
      <3>2. phase'[w] = "running" /\ job' = job
        BY <2>1 DEF TypeOK
      <3> QED
        BY <2>2, <3>1, <3>2 DEF Busy
    <2>6. att[w] \in 1 .. MAX_ATTEMPTS /\ att[w] \notin runs[s]
      BY <2>1, <2>2, QueueAssumption DEF AttemptInv, HasJob, Starting, TypeOK
    <2>7. Lifecycle!Start(s, att[w])
      BY <2>1, <2>3, <2>4, <2>5, <2>6 DEF Lifecycle!Start
    <2> QED
      BY <2>2, <2>6, <2>7 DEF Lifecycle!Next
  <1>8. ASSUME NEW w \in Workers, SetState(w) PROVE Goal
    <2>1. /\ phase[w] = "running" /\ state' = [state EXCEPT ![job[w]] = "WORKING"]
          /\ UNCHANGED <<result, runs, phase, job>>
      BY <1>8 DEF SetState
    <2>2. job[w] \in Submissions /\ state[job[w]] \in Queued
      BY <2>1, HoldsSubmission DEF OwnerInv, Active
    <2>3. Status' = Status
      BY <2>1, <2>2 DEF Status, Queued, TypeOK
    <2>4. Busy' = Busy
      BY <2>1 DEF Busy
    <2> QED
      BY <2>1, <2>3, <2>4 DEF Lifecycle!vars
  <1>9. ASSUME NEW w \in Workers, NEW st \in TERMINAL, FinishRun(w, st) PROVE Goal
    <2>1. /\ phase[w] = "running" /\ Finish(job[w], st) /\ runs' = runs /\ phase'[w] # "running"
          /\ \A v \in Workers : v # w => phase'[v] = phase[v] /\ job'[v] = job[v]
      BY <1>9 DEF FinishRun, TypeOK
    <2> QED
      BY <2>1, RefinesResolve
  <1>10. ASSUME NEW w \in Workers, CloseRun(w) \/ FinishError(w) PROVE Losing
    BY <1>10 DEF CloseRun, FinishError, Release, Drop, rowVars
  <1>11. ASSUME NEW w \in Workers, Heartbeat(w) \/ Exit(w) PROVE Losing
    BY <1>11 DEF Heartbeat, Exit, rowVars, TypeOK
  <1>12. ~ LateBeat /\ \A w \in Workers : ~ LateError(w) /\ ~ HeartbeatError(w)
    BY DEF NoZombies, LateBeat, LateError, HeartbeatError, Fault
  <1>13. ASSUME NEW p \in Processes, Crash(p) \/ Restart(p) \/ Sigterm(p) PROVE Losing
    BY <1>13 DEF Crash, Restart, Sigterm, Drop, rowVars
  <1>14. ASSUME Tick PROVE Losing
    BY <1>14 DEF Tick, Elapse
  <1>15. ASSUME UNCHANGED vars PROVE Losing
    BY <1>15 DEF vars, rowVars, workerVars
  <1> HIDE DEF Losing, Goal
  <1>16. Goal
    BY <1>1, <1>2, <1>3, <1>4, <1>5, <1>6, <1>7, <1>8, <1>9, <1>10, <1>11, <1>12, <1>13,
       <1>14, <1>15
    DEF Next, ClientStep, WorkerStep, ProcessStep, ClaimAny, FinishAny
  <1> QED
    BY <1>16 DEF Goal

\* Without the zombie faults the queue implements the lifecycle: a submission
\* is run by one worker at a time, at most MAX_ATTEMPTS times, only while it is
\* pending, and once DONE or FAILED it stays so with its report.
THEOREM QueueImplementsLifecycle == NoZombies => (Spec => ImplementsLifecycle)
  <1> SUFFICES ASSUME NoZombies PROVE Spec => ImplementsLifecycle
    OBVIOUS
  <1>1. TypeOK /\ AttemptInv /\ OwnerInv /\ [Next]_vars => [Lifecycle!Next]_(Lifecycle!vars)
    BY RefinesStep
  <1> QED
    BY <1>1, RefinesInit, OwnerInvariant, PTL DEF Spec, ImplementsLifecycle, Lifecycle!Spec
=============================================================================
