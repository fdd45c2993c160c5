--------------------------- MODULE JobQueueProofs ---------------------------
(***************************************************************************)
(* Machine-checked proofs about module JobQueue, for every number of       *)
(* submissions, workers, clients and faults and every lease length.        *)
(***************************************************************************)
EXTENDS JobQueue, TLAPS

-----------------------------------------------------------------------------
(* Type correctness. *)

\* A loop that lets go of its job keeps the types of the worker variables.
LEMMA DropTypes ==
    ASSUME TypeOK, NEW W \in SUBSET Workers, NEW ph \in {"idle", "down"}, Drop(W, ph)
    PROVE  /\ phase'   \in [Workers -> Phases]
           /\ job'     \in [Workers -> Submissions \cup {NoJob}]
           /\ att'     \in [Workers -> Nat]
           /\ beat'    \in [Workers -> {"on", "off"}]
           /\ due'     \in [Workers -> 0 .. BeatPeriod]
           /\ updates' \in [Workers -> 0 .. MaxUpdates]
           /\ \A w \in Workers : phase'[w] \in {"claimed", "running", "closing"}
                                    <=> job'[w] # NoJob
  <1>1. BeatPeriod \in Nat /\ MaxUpdates \in Nat
    BY QueueAssumption
  <1> QED
    BY <1>1 DEF TypeOK, Drop, Phases

\* finish keeps the types of the table.
LEMMA FinishTypes ==
    ASSUME TypeOK, NEW s, NEW st \in TERMINAL, Finish(s, st)
    PROVE  /\ state'     \in [Submissions -> States]
           /\ attempts'  \in [Submissions -> Nat]
           /\ lease'     \in [Submissions -> Nat]
           /\ worker_id' \in [Submissions -> Workers \cup {NoWorker}]
           /\ result'    \in [Submissions -> Results]
  <1>1. state' \in [Submissions -> States]
    BY DEF TypeOK, Finish, States
  <1>2. result' \in [Submissions -> Results]
    BY DEF TypeOK, Finish, Results
  <1>3. lease' \in [Submissions -> Nat]
    BY DEF TypeOK, Finish
  <1> QED
    BY <1>1, <1>2, <1>3 DEF TypeOK, Finish

\* Every step of the queue keeps every variable in its type.
LEMMA TypeStep == TypeOK /\ [Next]_vars => TypeOK'
  <1> SUFFICES ASSUME TypeOK, [Next]_vars PROVE TypeOK'
    OBVIOUS
  <1> USE QueueAssumption
  <1>1. ASSUME NEW c \in Clients, NEW s \in Submissions, Insert(c, s) PROVE TypeOK'
    BY <1>1 DEF TypeOK, Insert, workerVars, States, Queued
  <1>2. ASSUME NEW c \in Clients, NEW s \in Submissions, SeeDegraded(c, s) PROVE TypeOK'
    BY <1>2 DEF TypeOK, SeeDegraded, rowVars, workerVars
  <1>3. ASSUME NEW c \in Clients, Requeue(c) PROVE TypeOK'
    BY <1>3 DEF TypeOK, Requeue, Reopen, Reopenable, rowVars, workerVars, States, Queued, Results
  <1>4. ASSUME NEW w \in Workers, NEW s \in Submissions, Claim(w, s) PROVE TypeOK'
    BY <1>4 DEF TypeOK, Claim, Claimable, Phases
  <1>5. ASSUME NEW w \in Workers, GiveUp(w) PROVE TypeOK'
    <2>1. Drop({w}, "idle") /\ UNCHANGED shutdown
      BY <1>5 DEF GiveUp, Release
    <2>2. Finish(job[w], "FAILED") /\ UNCHANGED <<retry, faultsLeft, runs, interrupted>>
      BY <1>5 DEF GiveUp
    <2> QED
      BY <2>1, <2>2, DropTypes, FinishTypes DEF TypeOK, TERMINAL
  <1>6. ASSUME NEW w \in Workers, StartRun(w) PROVE TypeOK'
    BY <1>6 DEF TypeOK, StartRun, Starting, rowVars, Phases
  <1>7. ASSUME NEW w \in Workers, SetState(w) PROVE TypeOK'
    BY <1>7 DEF TypeOK, SetState, States, Queued
  <1>8. ASSUME NEW w \in Workers, NEW st \in TERMINAL, FinishRun(w, st) PROVE TypeOK'
    <2>1. Finish(job[w], st)
      BY <1>8 DEF FinishRun
    <2> QED
      BY <1>8, <2>1, FinishTypes DEF TypeOK, FinishRun, Phases
  <1>9. ASSUME NEW w \in Workers, CloseRun(w) PROVE TypeOK'
    BY <1>9, DropTypes DEF TypeOK, CloseRun, Release, rowVars
  <1>10. ASSUME NEW w \in Workers, Heartbeat(w) PROVE TypeOK'
    <2>1. lease' \in [Submissions -> Nat]
      BY <1>10 DEF TypeOK, Heartbeat
    <2>2. due' \in [Workers -> 0 .. BeatPeriod]
      BY <1>10 DEF TypeOK, Heartbeat
    <2> QED
      BY <1>10, <2>1, <2>2 DEF TypeOK, Heartbeat
  <1>11. ASSUME NEW w \in Workers, Exit(w) PROVE TypeOK'
    BY <1>11 DEF TypeOK, Exit, rowVars, Phases
  <1>12. ASSUME NEW w \in Workers, FinishError(w) PROVE TypeOK'
    BY <1>12, DropTypes DEF TypeOK, FinishError, Fault, GivingUp, Release, rowVars
  <1>13. ASSUME NEW w \in Workers, LateError(w) PROVE TypeOK'
    <2>1. Drop({w}, "idle") /\ UNCHANGED shutdown
      BY <1>13 DEF LateError, Release
    <2>2. Finish(job[w], "FAILED") /\ Fault("late_error") /\ UNCHANGED <<retry, runs, interrupted>>
      BY <1>13 DEF LateError
    <2> QED
      BY <2>1, <2>2, DropTypes, FinishTypes DEF TypeOK, Fault, TERMINAL
  <1>14. ASSUME NEW w \in Workers, HeartbeatError(w) PROVE TypeOK'
    BY <1>14 DEF TypeOK, HeartbeatError, Fault, rowVars
  <1>15. ASSUME NEW p \in Processes, Crash(p) PROVE TypeOK'
    <2>1. Drop(p, "down") /\ Fault("crash") /\ UNCHANGED <<rowVars, shutdown, retry, runs>>
      BY <1>15 DEF Crash
    <2>2. interrupted' \subseteq Submissions
      BY <1>15 DEF TypeOK, Crash, Unfinished
    <2> QED
      BY <2>1, <2>2, DropTypes DEF TypeOK, Fault, rowVars
  <1>16. ASSUME NEW p \in Processes, Restart(p) PROVE TypeOK'
    BY <1>16 DEF TypeOK, Restart, rowVars, Phases
  <1>17. ASSUME NEW p \in Processes, Sigterm(p) PROVE TypeOK'
    BY <1>17 DEF TypeOK, Sigterm, Fault, rowVars
  <1>18. CASE Tick \/ LateBeat
    <2>1. lease' \in [Submissions -> Nat]
      BY <1>18 DEF TypeOK, Tick, LateBeat, Elapse, Minus1
    <2>2. due' \in [Workers -> 0 .. BeatPeriod]
      <3>1. \A n \in 0 .. BeatPeriod : Minus1(n) \in 0 .. BeatPeriod
        BY DEF Minus1
      <3>2. \A w \in Workers : due[w] \in 0 .. BeatPeriod
        BY DEF TypeOK
      <3>3. due' = [w \in Workers |-> Minus1(due[w])]
        BY <1>18 DEF Tick, LateBeat, Elapse
      <3> QED
        BY <3>1, <3>2, <3>3
    <2> QED
      BY <1>18, <2>1, <2>2 DEF TypeOK, Tick, LateBeat, Elapse, Fault
  <1>19. CASE UNCHANGED vars
    BY <1>19 DEF TypeOK, vars, rowVars, workerVars
  <1> QED
    BY <1>1, <1>2, <1>3, <1>4, <1>5, <1>6, <1>7, <1>8, <1>9, <1>10, <1>11, <1>12,
       <1>13, <1>14, <1>15, <1>16, <1>17, <1>18, <1>19
    DEF Next, ClientStep, WorkerStep, ProcessStep, ClaimAny, FinishAny

\* TypeOK is an invariant of the queue, for every value of the constants.
THEOREM TypeCorrect == Spec => []TypeOK
  <1>1. Init => TypeOK
    BY QueueAssumption DEF Init, TypeOK, States, Phases, Results
  <1> QED
    BY <1>1, TypeStep, PTL DEF Spec

-----------------------------------------------------------------------------
(* The pipeline starts of one submission. *)

HasJob(w) == phase[w] \in {"claimed", "running", "closing"}

\* RunsBounded is not inductive: a start must not use the number of a start to
\* come.  So the numbers handed out are bounded by the row's counter, and two
\* loops that hold the same row hold different numbers.
AttemptInv ==
    /\ \A s \in Submissions : \A n \in runs[s] : n \in 1 .. MAX_ATTEMPTS /\ n <= attempts[s]
    /\ \A w \in Workers : HasJob(w) => att[w] >= 1 /\ att[w] <= attempts[job[w]]
    /\ \A w \in Workers : phase[w] = "claimed" => att[w] \notin runs[job[w]]
    /\ \A v, w \in Workers :
          v # w /\ HasJob(v) /\ HasJob(w) /\ job[v] = job[w] => att[v] # att[w]

\* Loops may finish, fail or die, and rows may be rewritten, without harm to
\* the numbering, as long as no counter moves and no loop gets a job.
LEMMA AttemptFrame ==
    ASSUME TypeOK, AttemptInv, UNCHANGED <<attempts, runs>>,
           \A w \in Workers : HasJob(w)' =>
              /\ HasJob(w) /\ job'[w] = job[w] /\ att'[w] = att[w]
              /\ phase'[w] = "claimed" => phase[w] = "claimed"
    PROVE  AttemptInv'
  BY DEF TypeOK, AttemptInv, HasJob

\* A step of the queue keeps the numbering of attempts consistent.
LEMMA AttemptStep == TypeOK /\ AttemptInv /\ [Next]_vars => AttemptInv'
  <1> SUFFICES ASSUME TypeOK, AttemptInv, [Next]_vars PROVE AttemptInv'
    OBVIOUS
  <1> DEFINE Frame == /\ UNCHANGED <<attempts, runs>>
                      /\ \A w \in Workers : HasJob(w)' =>
                            /\ HasJob(w) /\ job'[w] = job[w] /\ att'[w] = att[w]
                            /\ phase'[w] = "claimed" => phase[w] = "claimed"
  <1>1. ASSUME Frame PROVE AttemptInv'
    BY <1>1, AttemptFrame
  <1>2. ASSUME NEW c \in Clients, ClientStep(c) PROVE Frame
    BY <1>2 DEF ClientStep, Insert, SeeDegraded, Requeue, Reopen, rowVars, workerVars, HasJob
  <1>3. ASSUME NEW w \in Workers, NEW s \in Submissions, Claim(w, s) PROVE AttemptInv'
    <2> USE QueueAssumption
    <2>1. /\ attempts' = [attempts EXCEPT ![s] = @ + 1]
          /\ phase' = [phase EXCEPT ![w] = "claimed"]
          /\ job' = [job EXCEPT ![w] = s]
          /\ att' = [att EXCEPT ![w] = attempts[s] + 1]
          /\ runs' = runs
      BY <1>3 DEF Claim
    <2>2. \A r \in Submissions : attempts'[r] \in Nat /\ attempts'[r] >= attempts[r]
      BY <2>1 DEF TypeOK
    <2>3. \A r \in Submissions : \A n \in runs'[r] : n \in 1 .. MAX_ATTEMPTS /\ n <= attempts'[r]
      BY <2>1, <2>2 DEF AttemptInv, TypeOK
    <2>4. \A v \in Workers : v # w => phase'[v] = phase[v] /\ job'[v] = job[v] /\ att'[v] = att[v]
      BY <2>1 DEF TypeOK
    <2>5. phase'[w] = "claimed" /\ job'[w] = s /\ att'[w] = attempts[s] + 1 /\ attempts'[s] = attempts[s] + 1
      BY <2>1 DEF TypeOK
    <2>6. \A v \in Workers : v # w /\ HasJob(v)' => HasJob(v) /\ job[v] \in Submissions
      BY <2>4 DEF HasJob, TypeOK
    <2>7. \A v \in Workers : HasJob(v)' => att'[v] >= 1 /\ att'[v] <= attempts'[job'[v]]
      BY <2>2, <2>4, <2>5, <2>6 DEF AttemptInv, TypeOK
    <2>8. \A v \in Workers : phase'[v] = "claimed" => att'[v] \notin runs'[job'[v]]
      BY <2>1, <2>4, <2>5 DEF AttemptInv, TypeOK
    <2>9. \A u, v \in Workers :
             u # v /\ HasJob(u)' /\ HasJob(v)' /\ job'[u] = job'[v] => att'[u] # att'[v]
      BY <2>4, <2>5, <2>6 DEF AttemptInv, TypeOK
    <2> QED
      BY <2>3, <2>7, <2>8, <2>9 DEF AttemptInv, HasJob
  <1>4. ASSUME NEW w \in Workers, StartRun(w) PROVE AttemptInv'
    <2> USE QueueAssumption
    <2>1. /\ phase[w] = "claimed" /\ att[w] <= MAX_ATTEMPTS
          /\ phase' = [phase EXCEPT ![w] = "running"]
          /\ runs' = [runs EXCEPT ![job[w]] = @ \cup {att[w]}]
          /\ attempts' = attempts /\ job' = job /\ att' = att
      BY <1>4 DEF StartRun, Starting, rowVars
    <2>2. job[w] \in Submissions /\ HasJob(w)
      BY <2>1 DEF TypeOK, HasJob
    <2>3. \A s \in Submissions : \A n \in runs'[s] :
             n \in runs[s] \/ (s = job[w] /\ n = att[w])
      BY <2>1, <2>2 DEF TypeOK
    <2>4. att[w] \in 1 .. MAX_ATTEMPTS /\ att[w] <= attempts[job[w]]
      BY <2>1, <2>2 DEF AttemptInv, TypeOK
    <2>5. \A s \in Submissions : \A n \in runs'[s] : n \in 1 .. MAX_ATTEMPTS /\ n <= attempts'[s]
      BY <2>1, <2>3, <2>4 DEF AttemptInv
    <2>6. \A v \in Workers : HasJob(v)' => HasJob(v)
      BY <2>1, <2>2 DEF HasJob, TypeOK
    <2>7. \A v \in Workers : phase'[v] = "claimed" =>
             v # w /\ phase[v] = "claimed" /\ job[v] \in Submissions
      BY <2>1 DEF TypeOK
    <2>8. \A v \in Workers : phase'[v] = "claimed" => att'[v] \notin runs'[job'[v]]
      BY <2>1, <2>2, <2>3, <2>7 DEF AttemptInv, HasJob
    <2> QED
      BY <2>1, <2>5, <2>6, <2>8 DEF AttemptInv, HasJob
  <1>5. ASSUME NEW w \in Workers, GiveUp(w) \/ CloseRun(w) \/ FinishError(w) \/ LateError(w)
        PROVE  Frame
    BY <1>5 DEF GiveUp, CloseRun, FinishError, LateError, Finish, Release, Drop, rowVars,
                HasJob, TypeOK
  <1>6. ASSUME NEW w \in Workers, SetState(w) \/ Heartbeat(w) \/ HeartbeatError(w) PROVE Frame
    BY <1>6 DEF SetState, Heartbeat, HeartbeatError, rowVars, HasJob
  <1>7. ASSUME NEW w \in Workers, NEW st \in TERMINAL, FinishRun(w, st) PROVE Frame
    BY <1>7 DEF FinishRun, Finish, HasJob, TypeOK
  <1>8. ASSUME NEW w \in Workers, Exit(w) PROVE Frame
    BY <1>8 DEF Exit, rowVars, HasJob, TypeOK
  <1>9. ASSUME NEW p \in Processes, Crash(p) PROVE Frame
    BY <1>9 DEF Crash, Drop, rowVars, HasJob, TypeOK
  <1>10. ASSUME NEW p \in Processes, Restart(p) \/ Sigterm(p) PROVE Frame
    BY <1>10 DEF Restart, Sigterm, rowVars, HasJob, TypeOK
  <1>11. ASSUME Tick \/ LateBeat PROVE Frame
    BY <1>11 DEF Tick, LateBeat, Elapse, HasJob
  <1>12. ASSUME UNCHANGED vars PROVE Frame
    BY <1>12 DEF vars, rowVars, workerVars, HasJob
  <1> HIDE DEF Frame
  <1> QED
    BY <1>1, <1>2, <1>3, <1>4, <1>5, <1>6, <1>7, <1>8, <1>9, <1>10, <1>11, <1>12
    DEF Next, WorkerStep, ProcessStep, ClaimAny, FinishAny

\* The pipeline of a submission is started at most MAX_ATTEMPTS times whatever
\* faults happen, lost heartbeats and late errors included.
THEOREM RunsAreBounded == Spec => []RunsBounded
  <1>1. Init => AttemptInv
    BY DEF Init, AttemptInv, HasJob
  <1>2. TypeOK /\ AttemptInv => RunsBounded
    BY DEF TypeOK, AttemptInv, RunsBounded
  <1> QED
    BY <1>1, <1>2, AttemptStep, TypeCorrect, PTL DEF Spec

-----------------------------------------------------------------------------
(* One worker at a time, and the state the report belongs to. *)

\* The faults that let a loop write to a row it no longer owns: a heartbeat
\* that fails or comes late, and an error after the run's own finish.
NoZombies ==
    "renew_error" \notin Faults /\ "late_beat" \notin Faults /\ "late_error" \notin Faults

Holding(w) == phase[w] \in {"claimed", "running"}

Active(w) == phase[w] = "running" \/ Starting(w)

\* OwnsRow holds because a live heartbeat always comes before its lease lapses,
\* so that a row an active loop holds is never claimable; loops that share a
\* row are all about to give it up.
OwnerInv ==
    /\ \A w \in Workers : phase[w] = "running" => beat[w] = "on" /\ lease[job[w]] > due[w]
    /\ \A w \in Workers : Starting(w) => lease[job[w]] > BeatPeriod
    /\ \A w \in Workers : Active(w) => worker_id[job[w]] = w /\ state[job[w]] \in Queued
    /\ \A w \in Workers : GivingUp(w) => state[job[w]] \in Queued \cup {"FAILED"}
    /\ \A v, w \in Workers : v # w /\ Active(v) /\ Holding(w) => job[v] # job[w]
    /\ ReportMatchesState

\* A step that only takes loops away from their jobs keeps the ownership.
LEMMA OwnerFrame ==
    ASSUME TypeOK, OwnerInv, UNCHANGED rowVars,
           \A w \in Workers : Holding(w)' =>
              /\ phase'[w] = phase[w] /\ job'[w] = job[w] /\ att'[w] = att[w]
              /\ beat'[w] = beat[w] /\ due'[w] = due[w]
    PROVE  OwnerInv'
  BY DEF TypeOK, OwnerInv, Holding, Active, Starting, GivingUp, ReportMatchesState, rowVars

\* A row no active loop holds can be rewritten, if state and result agree and a
\* loop about to give the row up does not find it resolved otherwise.
LEMMA OwnerRewrite ==
    ASSUME TypeOK, OwnerInv, NEW s \in Submissions,
           UNCHANGED <<worker_id, attempts>>,
           state'  = [state EXCEPT ![s] = state'[s]],
           result' = [result EXCEPT ![s] = result'[s]],
           lease'  = [lease EXCEPT ![s] = lease'[s]],
           state'[s] \in TERMINAL <=> result'[s] # "NULL",
           state'[s] = "FAILED" <=> result'[s] = "ERROR",
           \A w \in Workers : Holding(w)' =>
              /\ phase'[w] = phase[w] /\ job'[w] = job[w] /\ att'[w] = att[w]
              /\ beat'[w] = beat[w] /\ due'[w] = due[w]
              /\ job[w] = s => GivingUp(w) /\ state'[s] \in Queued \cup {"FAILED"}
    PROVE  OwnerInv'
  <1>1. \A r \in Submissions : r # s =>
           state'[r] = state[r] /\ result'[r] = result[r] /\ lease'[r] = lease[r]
    BY DEF TypeOK
  <1>2. ReportMatchesState'
    BY <1>1 DEF OwnerInv, ReportMatchesState
  <1>3. \A w \in Workers : Holding(w)' => Holding(w) /\ job[w] \in Submissions
    BY DEF TypeOK, Holding
  <1>4. \A w \in Workers : Active(w)' => Active(w) /\ job'[w] = job[w] /\ job[w] # s
    BY QueueAssumption DEF Active, Holding, Starting, GivingUp, TypeOK
  <1>5. \A w \in Workers : GivingUp(w)' => state'[job'[w]] \in Queued \cup {"FAILED"}
    BY <1>1, <1>3 DEF OwnerInv, GivingUp, Holding, TypeOK
  <1>6. \A w \in Workers : phase'[w] = "running" => beat'[w] = "on" /\ lease'[job'[w]] > due'[w]
    BY <1>1, <1>3, <1>4 DEF OwnerInv, Holding, Active
  <1>7. \A w \in Workers : Starting(w)' => lease'[job'[w]] > BeatPeriod
    BY <1>1, <1>3, <1>4 DEF OwnerInv, Holding, Active, Starting
  <1>8. \A w \in Workers : Active(w)' => worker_id'[job'[w]] = w /\ state'[job'[w]] \in Queued
    BY <1>1, <1>3, <1>4 DEF OwnerInv, Holding, Active, Starting
  <1>9. \A v, w \in Workers : v # w /\ Active(v)' /\ Holding(w)' => job'[v] # job'[w]
    BY <1>3, <1>4 DEF OwnerInv
  <1> QED
    BY <1>2, <1>5, <1>6, <1>7, <1>8, <1>9 DEF OwnerInv

\* A loop that holds a job holds a submission.
LEMMA HoldsSubmission ==
    ASSUME TypeOK, NEW w \in Workers, phase[w] \in {"claimed", "running", "closing"}
    PROVE  job[w] \in Submissions
  BY DEF TypeOK

\* finish by a loop that may write the row keeps the ownership invariant.
LEMMA OwnerFinish ==
    ASSUME TypeOK, OwnerInv, NEW w \in Workers, NEW st \in TERMINAL,
           phase[w] = "running" \/ (GivingUp(w) /\ st = "FAILED"),
           Finish(job[w], st), ~ Holding(w)',
           \A v \in Workers : v # w =>
              /\ phase'[v] = phase[v] /\ job'[v] = job[v] /\ att'[v] = att[v]
              /\ beat'[v] = beat[v] /\ due'[v] = due[v]
    PROVE  OwnerInv'
  <1> DEFINE s == job[w]
  <1>1. s \in Submissions /\ Holding(w)
    BY HoldsSubmission DEF GivingUp, Holding
  <1>2. /\ state'[s] = st
        /\ result'[s] = IF st = "FAILED" THEN "ERROR" ELSE "REPORT"
        /\ lease'[s] = 0
        /\ UNCHANGED <<worker_id, attempts>>
    BY <1>1 DEF Finish, TypeOK
  <1>3. /\ state'  = [state EXCEPT ![s] = state'[s]]
        /\ result' = [result EXCEPT ![s] = result'[s]]
        /\ lease'  = [lease EXCEPT ![s] = lease'[s]]
    BY <1>1, <1>2 DEF Finish, TypeOK
  <1>4. /\ state'[s] \in TERMINAL <=> result'[s] # "NULL"
        /\ state'[s] = "FAILED" <=> result'[s] = "ERROR"
    BY <1>2
  <1>5. ASSUME NEW v \in Workers, Holding(v)', job[v] = s
        PROVE  GivingUp(v) /\ state'[s] \in Queued \cup {"FAILED"}
    <2>1. v # w /\ Holding(v)
      BY <1>5 DEF Holding
    <2>2. ~ Active(v) /\ ~ Active(w)
      BY <1>1, <1>5, <2>1 DEF OwnerInv
    <2>3. GivingUp(v)
      BY <2>1, <2>2, QueueAssumption DEF Holding, Active, Starting, GivingUp, TypeOK
    <2> QED
      BY <1>2, <2>2, <2>3 DEF Active
  <1>6. \A v \in Workers : Holding(v)' =>
           /\ phase'[v] = phase[v] /\ job'[v] = job[v] /\ att'[v] = att[v]
           /\ beat'[v] = beat[v] /\ due'[v] = due[v]
           /\ job[v] = s => GivingUp(v) /\ state'[s] \in Queued \cup {"FAILED"}
    BY <1>5
  <1> HIDE DEF s
  <1> QED
    BY <1>1, <1>2, <1>3, <1>4, <1>6, OwnerRewrite

\* Without the two zombie faults every step keeps the ownership invariant.
LEMMA OwnerStep ==
    ASSUME NoZombies, TypeOK, AttemptInv, OwnerInv, [Next]_vars
    PROVE  OwnerInv'
  <1> DEFINE Frame == /\ UNCHANGED rowVars
                      /\ \A w \in Workers : Holding(w)' =>
                            /\ phase'[w] = phase[w] /\ job'[w] = job[w] /\ att'[w] = att[w]
                            /\ beat'[w] = beat[w] /\ due'[w] = due[w]
  <1>1. ASSUME Frame PROVE OwnerInv'
    BY <1>1, OwnerFrame
  <1>2. ASSUME NEW c \in Clients, NEW s \in Submissions, Insert(c, s) PROVE OwnerInv'
    <2>1. /\ state' = [state EXCEPT ![s] = "SUBMITTED"] /\ state[s] = "ABSENT"
          /\ UNCHANGED <<worker_id, attempts, result, lease, phase, job, att, beat, due>>
      BY <1>2 DEF Insert, workerVars
    <2>2. state'[s] = "SUBMITTED" /\ result'[s] = "NULL"
      BY <2>1 DEF TypeOK, OwnerInv, ReportMatchesState, TERMINAL
    <2>3. \A w \in Workers : Holding(w) => job[w] # s
      BY <2>1, QueueAssumption
         DEF OwnerInv, Holding, Active, Starting, GivingUp, Queued, TypeOK
    <2>4. /\ state'  = [state EXCEPT ![s] = state'[s]]
          /\ result' = [result EXCEPT ![s] = result'[s]]
          /\ lease'  = [lease EXCEPT ![s] = lease'[s]]
      BY <2>1, <2>2 DEF TypeOK
    <2>5. \A w \in Workers : Holding(w)' =>
              /\ phase'[w] = phase[w] /\ job'[w] = job[w] /\ att'[w] = att[w]
              /\ beat'[w] = beat[w] /\ due'[w] = due[w]
              /\ job[w] = s => GivingUp(w) /\ state'[s] \in Queued \cup {"FAILED"}
      BY <2>1, <2>3 DEF Holding
    <2>6. /\ state'[s] \in TERMINAL <=> result'[s] # "NULL"
          /\ state'[s] = "FAILED" <=> result'[s] = "ERROR"
      BY <2>2 DEF TERMINAL
    <2>7. UNCHANGED <<worker_id, attempts>>
      BY <2>1
    <2> QED
      BY <2>4, <2>5, <2>6, <2>7, OwnerRewrite
  <1>3. ASSUME NEW c \in Clients, NEW s \in Submissions, SeeDegraded(c, s) PROVE Frame
    BY <1>3 DEF SeeDegraded, workerVars
  <1>4. ASSUME NEW c \in Clients, Requeue(c) PROVE OwnerInv'
    <2> DEFINE s == retry[c]
    <2>1. CASE Reopenable(s)
      <3>1. /\ s \in Submissions /\ state[s] = "DEGRADED"
            /\ state'  = [state EXCEPT ![s] = "SUBMITTED"]
            /\ result' = [result EXCEPT ![s] = "NULL"]
            /\ lease'  = [lease EXCEPT ![s] = 0]
            /\ UNCHANGED <<worker_id, attempts, phase, job, att, beat, due>>
        BY <1>4, <2>1 DEF Requeue, Reopen, Reopenable, workerVars, TypeOK
      <3>2. state'[s] = "SUBMITTED" /\ result'[s] = "NULL" /\ lease'[s] = 0
        BY <3>1 DEF TypeOK
      <3>3. \A w \in Workers : Holding(w) => job[w] # s
        BY <3>1, QueueAssumption
           DEF OwnerInv, Holding, Active, Starting, GivingUp, Queued, TypeOK
      <3> HIDE DEF s
      <3> QED
        BY <3>1, <3>2, <3>3, OwnerRewrite DEF TERMINAL, Holding
    <2>2. CASE ~ Reopenable(s)
      BY <1>4, <2>2, <1>1 DEF Requeue, workerVars
    <2> QED
      BY <2>1, <2>2
  <1>5. ASSUME NEW w \in Workers, NEW s \in Submissions, Claim(w, s) PROVE OwnerInv'
    <2> USE QueueAssumption
    <2>1. /\ phase[w] = "idle" /\ state[s] \in Queued /\ lease[s] = 0
          /\ lease'     = [lease EXCEPT ![s] = ClaimLease]
          /\ worker_id' = [worker_id EXCEPT ![s] = w]
          /\ phase'     = [phase EXCEPT ![w] = "claimed"]
          /\ job'       = [job EXCEPT ![w] = s]
          /\ att'       = [att EXCEPT ![w] = attempts[s] + 1]
          /\ UNCHANGED <<state, result, beat, due>>
      BY <1>5 DEF Claim, Claimable
    <2>2. /\ phase'[w] = "claimed" /\ job'[w] = s /\ att'[w] = attempts[s] + 1
          /\ lease'[s] = ClaimLease /\ worker_id'[s] = w
      BY <2>1 DEF TypeOK
    <2>3. \A v \in Workers : v # w => phase'[v] = phase[v] /\ job'[v] = job[v] /\ att'[v] = att[v]
      BY <2>1 DEF TypeOK
    <2>4. \A r \in Submissions : r # s => lease'[r] = lease[r] /\ worker_id'[r] = worker_id[r]
      BY <2>1 DEF TypeOK
    <2>5. \A v \in Workers : Active(v) => job[v] # s
      BY <2>1 DEF OwnerInv, Active, Starting, TypeOK
    <2>6. \A v \in Workers : v # w /\ Active(v)' => Active(v) /\ job'[v] # s /\ job'[v] \in Submissions
      BY <2>3, <2>5, HoldsSubmission DEF Active, Starting
    <2>7. \A v \in Workers : v # w /\ Holding(v)' => Holding(v)
      BY <2>3 DEF Holding
    <2>8. \A v \in Workers : v # w /\ Holding(v) /\ job[v] = s => ~ Active(w)'
      <3> SUFFICES ASSUME NEW v \in Workers, v # w, Holding(v), job[v] = s PROVE ~ Active(w)'
        OBVIOUS
      <3>1. GivingUp(v)
        BY <2>5 DEF Holding, Active, Starting, GivingUp, TypeOK
      <3>2. att[v] > MAX_ATTEMPTS /\ att[v] <= attempts[s]
        BY <3>1 DEF GivingUp, AttemptInv, HasJob
      <3> QED
        BY <2>2, <3>2 DEF Active, Starting, TypeOK
    <2>9. \A v \in Workers : phase'[v] = "running" => beat'[v] = "on" /\ lease'[job'[v]] > due'[v]
      BY <2>1, <2>2, <2>3, <2>4, <2>6 DEF OwnerInv, Active
    <2>10. \A v \in Workers : Starting(v)' => lease'[job'[v]] > BeatPeriod
      BY <2>2, <2>3, <2>4, <2>6 DEF OwnerInv, Active, Starting
    <2>11. \A v \in Workers : Active(v)' => worker_id'[job'[v]] = v /\ state'[job'[v]] \in Queued
      BY <2>1, <2>2, <2>3, <2>4, <2>6 DEF OwnerInv
    <2>12. \A v \in Workers : GivingUp(v)' => state'[job'[v]] \in Queued \cup {"FAILED"}
      BY <2>1, <2>2, <2>3 DEF OwnerInv, GivingUp
    <2>13. \A u, v \in Workers : u # v /\ Active(u)' /\ Holding(v)' => job'[u] # job'[v]
      BY <2>2, <2>3, <2>6, <2>7, <2>8 DEF OwnerInv
    <2>14. ReportMatchesState'
      BY <2>1 DEF OwnerInv, ReportMatchesState
    <2> QED
      BY <2>9, <2>10, <2>11, <2>12, <2>13, <2>14 DEF OwnerInv
  <1>6. ASSUME NEW w \in Workers, GiveUp(w) PROVE OwnerInv'
    <2>1. /\ GivingUp(w) /\ Finish(job[w], "FAILED") /\ ~ Holding(w)'
          /\ \A v \in Workers : v # w =>
              /\ phase'[v] = phase[v] /\ job'[v] = job[v] /\ att'[v] = att[v]
              /\ beat'[v] = beat[v] /\ due'[v] = due[v]
      BY <1>6 DEF GiveUp, Release, Drop, Holding
    <2> QED
      BY <2>1, OwnerFinish DEF TERMINAL
  <1>7. ASSUME NEW w \in Workers, StartRun(w) PROVE OwnerInv'
    <2> USE QueueAssumption
    <2>1. /\ Starting(w) /\ UNCHANGED <<state, lease, worker_id, result, job, att>>
          /\ phase' = [phase EXCEPT ![w] = "running"]
          /\ beat'  = [beat EXCEPT ![w] = "on"]
          /\ due'   = [due EXCEPT ![w] = BeatPeriod]
      BY <1>7 DEF StartRun, rowVars
    <2>2. phase'[w] = "running" /\ beat'[w] = "on" /\ due'[w] = BeatPeriod
      BY <2>1 DEF TypeOK
    <2>3. \A v \in Workers : v # w =>
             phase'[v] = phase[v] /\ beat'[v] = beat[v] /\ due'[v] = due[v]
      BY <2>1 DEF TypeOK
    <2>4. \A v \in Workers : (Active(v)' => Active(v)) /\ (Holding(v)' => Holding(v))
      BY <2>1, <2>2, <2>3 DEF Active, Holding, Starting
    <2>5. \A v \in Workers : phase'[v] = "running" => beat'[v] = "on" /\ lease'[job'[v]] > due'[v]
      BY <2>1, <2>2, <2>3 DEF OwnerInv
    <2>6. \A v \in Workers : (Starting(v)' => Starting(v)) /\ (GivingUp(v)' => GivingUp(v))
      BY <2>1, <2>2, <2>3 DEF Starting, GivingUp
    <2>7. ReportMatchesState'
      BY <2>1 DEF OwnerInv, ReportMatchesState
    <2> QED
      BY <2>1, <2>4, <2>5, <2>6, <2>7 DEF OwnerInv
  <1>8. ASSUME NEW w \in Workers, SetState(w) PROVE OwnerInv'
    <2>1. /\ phase[w] = "running" /\ state' = [state EXCEPT ![job[w]] = "WORKING"]
          /\ UNCHANGED <<attempts, lease, worker_id, result, phase, job, att, beat, due>>
      BY <1>8 DEF SetState
    <2>2. job[w] \in Submissions /\ state[job[w]] \in Queued /\ state'[job[w]] = "WORKING"
      BY <2>1, HoldsSubmission DEF OwnerInv, Active, TypeOK
    <2>3. \A r \in Submissions : r # job[w] => state'[r] = state[r]
      BY <2>1 DEF TypeOK
    <2>4. \A r \in Submissions : (state[r] \in Queued <=> state'[r] \in Queued)
                                 /\ (state'[r] # state[r] => r = job[w])
      BY <2>2, <2>3 DEF Queued
    <2>5. ReportMatchesState'
      BY <2>1, <2>2, <2>3 DEF OwnerInv, ReportMatchesState, Queued, TERMINAL
    <2>6. \A v \in Workers : GivingUp(v) => state'[job[v]] \in Queued \cup {"FAILED"}
      BY <2>2, <2>4, HoldsSubmission DEF OwnerInv, GivingUp, Queued
    <2>7. \A v \in Workers : Active(v) => state'[job[v]] \in Queued
      BY <2>4, HoldsSubmission DEF OwnerInv, Active, Starting
    <2> QED
      BY <2>1, <2>5, <2>6, <2>7 DEF OwnerInv, Active, Starting, GivingUp, Holding
  <1>9. ASSUME NEW w \in Workers, NEW st \in TERMINAL, FinishRun(w, st) PROVE OwnerInv'
    <2>1. /\ phase[w] = "running" /\ Finish(job[w], st)
          /\ ~ Holding(w)'
          /\ \A v \in Workers : v # w =>
              /\ phase'[v] = phase[v] /\ job'[v] = job[v] /\ att'[v] = att[v]
              /\ beat'[v] = beat[v] /\ due'[v] = due[v]
      BY <1>9 DEF FinishRun, TypeOK, Holding
    <2> QED
      BY <2>1, OwnerFinish
  <1>10. ASSUME NEW w \in Workers, CloseRun(w) \/ FinishError(w) PROVE Frame
    BY <1>10 DEF CloseRun, FinishError, Release, Drop, Holding, TypeOK
  <1>11. ASSUME NEW w \in Workers, Heartbeat(w) PROVE OwnerInv'
    <2> USE QueueAssumption
    <2>1. /\ lease' = [lease EXCEPT ![job[w]] = RenewLease]
          /\ due'   = [due EXCEPT ![w] = BeatPeriod]
          /\ UNCHANGED <<state, attempts, worker_id, result, phase, job, att, beat>>
      BY <1>11 DEF Heartbeat
    <2>2. \A v \in Workers : due'[v] <= BeatPeriod /\ (v # w => due'[v] = due[v]) /\ due'[v] \in Nat
      BY <2>1 DEF TypeOK
    <2>3. \A r \in Submissions : lease'[r] \in Nat /\ (lease'[r] > BeatPeriod \/ lease'[r] = lease[r])
      BY <2>1 DEF TypeOK
    <2>4. \A v \in Workers : phase[v] = "running" => beat[v] = "on" /\ lease'[job[v]] > due'[v]
      <3> SUFFICES ASSUME NEW v \in Workers, phase[v] = "running"
                   PROVE  beat[v] = "on" /\ lease'[job[v]] > due'[v]
        OBVIOUS
      <3>1. job[v] \in Submissions /\ beat[v] = "on" /\ lease[job[v]] > due[v]
        BY HoldsSubmission DEF OwnerInv
      <3>2. CASE v = w
        BY <2>1, <2>2, <3>1, <3>2 DEF TypeOK
      <3>3. CASE v # w
        BY <2>2, <2>3, <3>1, <3>3 DEF TypeOK
      <3> QED
        BY <3>2, <3>3
    <2>5. \A v \in Workers : Starting(v) => lease'[job[v]] > BeatPeriod
      BY <2>3, HoldsSubmission DEF OwnerInv, Starting
    <2> QED
      BY <2>1, <2>4, <2>5
         DEF OwnerInv, Active, Starting, GivingUp, Holding, ReportMatchesState
  <1>12. ASSUME NEW w \in Workers, Exit(w) PROVE Frame
    BY <1>12 DEF Exit, Holding, TypeOK
  <1>13. ~ LateBeat /\ \A w \in Workers : ~ LateError(w) /\ ~ HeartbeatError(w)
    BY DEF NoZombies, LateBeat, LateError, HeartbeatError, Fault
  <1>14. ASSUME NEW p \in Processes, Crash(p) PROVE Frame
    BY <1>14 DEF Crash, Drop, Holding, TypeOK
  <1>15. ASSUME NEW p \in Processes, Restart(p) \/ Sigterm(p) PROVE Frame
    BY <1>15 DEF Restart, Sigterm, Holding, TypeOK
  <1>16. ASSUME Tick PROVE OwnerInv'
    <2> USE QueueAssumption
    <2>1. /\ lease' = [s \in Submissions |-> Minus1(lease[s])]
          /\ due'   = [w \in Workers |-> Minus1(due[w])]
          /\ UNCHANGED <<state, attempts, worker_id, result, phase, job, att, beat>>
          /\ \A w \in Workers : ~ Starting(w) /\ (beat[w] = "on" => due[w] > 0)
      BY <1>16 DEF Tick, Elapse, Overdue, TypeOK
    <2>2. ASSUME NEW w \in Workers, phase[w] = "running"
          PROVE  beat[w] = "on" /\ lease'[job[w]] > due'[w]
      <3>1. job[w] \in Submissions /\ beat[w] = "on" /\ lease[job[w]] > due[w] /\ due[w] > 0
        BY <2>1, <2>2, HoldsSubmission DEF OwnerInv
      <3>2. due[w] \in Nat /\ lease[job[w]] \in Nat
        BY <3>1 DEF TypeOK
      <3> QED
        BY <2>1, <3>1, <3>2 DEF Minus1
    <2> QED
      BY <2>1, <2>2 DEF OwnerInv, Active, Starting, GivingUp, Holding, ReportMatchesState
  <1>17. ASSUME UNCHANGED vars PROVE Frame
    BY <1>17 DEF vars, rowVars, workerVars, Holding
  <1> HIDE DEF Frame
  <1> QED
    BY <1>1, <1>2, <1>3, <1>4, <1>5, <1>6, <1>7, <1>8, <1>9, <1>10, <1>11, <1>12, <1>13,
       <1>14, <1>15, <1>16, <1>17
    DEF Next, ClientStep, WorkerStep, ProcessStep, ClaimAny, FinishAny

\* The three invariants hold together when the zombie faults are excluded.
LEMMA OwnerInvariant ==
    ASSUME NoZombies
    PROVE  Spec => [](TypeOK /\ AttemptInv /\ OwnerInv)
  <1>1. Init => TypeOK /\ AttemptInv /\ OwnerInv
    BY QueueAssumption
       DEF Init, TypeOK, AttemptInv, OwnerInv, HasJob, Holding, Active, Starting,
           GivingUp, ReportMatchesState, States, Phases, Results, TERMINAL
  <1>2. TypeOK /\ AttemptInv /\ OwnerInv /\ [Next]_vars
          => (TypeOK /\ AttemptInv /\ OwnerInv)'
    BY TypeStep, AttemptStep, OwnerStep
  <1> QED
    BY <1>1, <1>2, PTL DEF Spec

\* Provided every renewal succeeds in time and no error follows a run's own
\* finish, a running worker is the row's last claimer and the row is unresolved:
\* crashes, shutdowns, failed finishes and resubmissions never lead to a second
\* run.
THEOREM RunnerOwnsRow == NoZombies => (Spec => []OwnsRow)
  <1> SUFFICES ASSUME NoZombies PROVE Spec => []OwnsRow
    OBVIOUS
  <1>1. OwnerInv => OwnsRow
    BY DEF OwnerInv, OwnsRow, Active
  <1> QED
    BY <1>1, OwnerInvariant, PTL

\* Under the same proviso the report a client is served belongs to the state.
THEOREM ReportIsConsistent == NoZombies => (Spec => []ReportMatchesState)
  <1> SUFFICES ASSUME NoZombies PROVE Spec => []ReportMatchesState
    OBVIOUS
  <1>1. OwnerInv => ReportMatchesState
    BY DEF OwnerInv
  <1> QED
    BY <1>1, OwnerInvariant, PTL
=============================================================================
