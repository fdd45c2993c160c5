------------------------------ MODULE JobQueue ------------------------------
(***************************************************************************)
(* The submissions table used as a work queue (db.py), the worker loop     *)
(* that leases jobs from it (worker.py) and the heartbeat that keeps a     *)
(* lease alive during a run (pipeline/run.py).                             *)
(*                                                                         *)
(* One row per idempotency key.  What the pipeline does inside a run is    *)
(* abstracted to the writes the queue can see: set_state to some working   *)
(* state and one finish.  Module Pipeline models the run itself.           *)
(*                                                                         *)
(* Time is a countdown: lease[s] is the time left until the row's lease is *)
(* in the past, and 0 stands for both "lease_expires_at IS NULL" and       *)
(* "lease_expires_at < now()", which no statement of db.py tells apart.    *)
(***************************************************************************)
EXTENDS Integers

CONSTANTS
    Submissions,    \* idempotency keys; each names at most one row
    Workers,        \* worker_loop tasks
    Processes,      \* worker processes, each the set of its worker_loop tasks
    Clients,        \* concurrent POST /submissions requests
    NoJob,          \* "no submission"
    NoWorker,       \* worker_id of a row never claimed
    MAX_ATTEMPTS,   \* worker.py: claims beyond this many do not run
    ClaimLease,     \* lease_seconds(): the lease a claim takes
    RenewLease,     \* LEASE_SECONDS: the lease a heartbeat takes
    BeatPeriod,     \* LEASE_SECONDS / 3: time between heartbeats
    MaxUpdates,     \* bound: set_state calls one run makes
    Faults,         \* the kinds of fault the environment may produce
    MaxFaults       \* bound: how many faults happen in a behaviour

FaultKinds == {"crash", "db_error", "renew_error", "late_error", "late_beat", "sigterm"}

ASSUME QueueAssumption ==
    /\ NoJob \notin Submissions
    /\ NoWorker \notin Workers
    /\ \A p \in Processes : p \subseteq Workers
    /\ MAX_ATTEMPTS \in Nat
    /\ MaxUpdates \in Nat
    /\ BeatPeriod \in Nat \ {0}
    /\ ClaimLease \in Nat /\ ClaimLease > BeatPeriod
    /\ RenewLease \in Nat /\ RenewLease > BeatPeriod
    /\ Faults \subseteq FaultKinds
    /\ MaxFaults \in Nat

VARIABLES
    \* The submissions table.
    state,          \* ABSENT (no row), SUBMITTED, WORKING or a terminal state
    attempts,       \* how often the row has been claimed
    lease,          \* time left on lease_expires_at; 0 = NULL or past
    worker_id,      \* who claimed the row last
    result,         \* the report served to clients: NULL, ERROR or REPORT
    \* The worker loops.
    phase,          \* where the loop is: see Phases
    job,            \* the submission the loop holds
    att,            \* row["attempts"] as the claim returned it
    beat,           \* the heartbeat task: on or off
    due,            \* time left until the heartbeat renews
    updates,        \* set_state calls the run has still to make
    shutdown,       \* loops whose shutdown event is set
    \* create_submission between its SELECT and its UPDATE.
    retry,          \* the DEGRADED row the request has seen
    \* The environment and history.
    faultsLeft,     \* faults that may still happen
    runs,           \* history: attempts whose pipeline was started
    interrupted     \* history: rows some attempt left without a finish

rowVars    == <<state, attempts, lease, worker_id, result>>
workerVars == <<phase, job, att, beat, due, updates, shutdown>>
vars       == <<rowVars, workerVars, retry, faultsLeft, runs, interrupted>>

TERMINAL == {"DONE", "FAILED", "DEGRADED"}
Queued   == {"SUBMITTED", "WORKING"}
States   == {"ABSENT"} \cup Queued \cup TERMINAL
Results  == {"NULL", "ERROR", "REPORT"}

\* idle: polling; claimed: between claim_job and run_submission; running: in
\* _execute; closing: finish is written, container and heartbeat still up.
Phases   == {"idle", "claimed", "running", "closing", "down"}

-----------------------------------------------------------------------------
(* The statements of db.py on one row. *)

Finish(s, st) ==
    /\ state'  = [state EXCEPT ![s] = st]
    /\ result' = [result EXCEPT ![s] = IF st = "FAILED" THEN "ERROR" ELSE "REPORT"]
    /\ lease'  = [lease EXCEPT ![s] = 0]
    /\ UNCHANGED <<attempts, worker_id>>

\* Mutant of Claimable: a lease that has not lapsed does not protect the row.
ClaimableLeased(s) == state[s] \in Queued

\* Mutant of Claimable: only rows no attempt has touched are in the queue.
ClaimableFresh(s) == state[s] = "SUBMITTED" /\ lease[s] = 0

\* claim_job's WHERE clause.
Claimable(s) == state[s] \in Queued /\ lease[s] = 0

\* Mutant of Reopen: the stunted report stays.
ReopenWithReport(s) ==
    /\ state' = [state EXCEPT ![s] = "SUBMITTED"]
    /\ lease' = [lease EXCEPT ![s] = 0]
    /\ UNCHANGED <<attempts, worker_id, result>>

\* create_submission's UPDATE; attempts keeps its value.
Reopen(s) ==
    /\ state'  = [state EXCEPT ![s] = "SUBMITTED"]
    /\ result' = [result EXCEPT ![s] = "NULL"]
    /\ lease'  = [lease EXCEPT ![s] = 0]
    /\ UNCHANGED <<attempts, worker_id>>

\* Mutant of Reopenable: the state read before the UPDATE is trusted.
ReopenableStale(s) == state[s] # "ABSENT"

\* The UPDATE's WHERE clause: the row may have changed since the SELECT.
Reopenable(s) == state[s] = "DEGRADED"

-----------------------------------------------------------------------------
(* POST /submissions: create_submission. *)

\* The INSERT finds no row with this idempotency key.
Insert(c, s) ==
    /\ retry[c] = NoJob
    /\ state[s] = "ABSENT"
    /\ state' = [state EXCEPT ![s] = "SUBMITTED"]
    /\ UNCHANGED <<attempts, lease, worker_id, result, workerVars, retry,
                   faultsLeft, runs, interrupted>>

\* The INSERT conflicts and the SELECT returns a DEGRADED row.  (Any other
\* existing row is returned as it is and nothing changes.)
SeeDegraded(c, s) ==
    /\ retry[c] = NoJob
    /\ state[s] = "DEGRADED"
    /\ retry' = [retry EXCEPT ![c] = s]
    /\ UNCHANGED <<rowVars, workerVars, faultsLeft, runs, interrupted>>

\* The UPDATE puts the row back in the queue, unless somebody else already has.
Requeue(c) ==
    LET s == retry[c] IN
    /\ s # NoJob
    /\ retry' = [retry EXCEPT ![c] = NoJob]
    /\ IF Reopenable(s) THEN Reopen(s) ELSE UNCHANGED rowVars
    /\ UNCHANGED <<workerVars, faultsLeft, runs, interrupted>>

-----------------------------------------------------------------------------
(* The worker loop. *)

\* claim_job: one transaction.  SKIP LOCKED may pass over an older row that
\* another statement holds, so any claimable row can be the one returned.  A
\* claim_job that raises, or returns no row, only makes the loop sleep.
Claim(w, s) ==
    /\ phase[w] = "idle"
    /\ w \notin shutdown
    /\ Claimable(s)
    /\ lease'     = [lease EXCEPT ![s] = ClaimLease]
    /\ worker_id' = [worker_id EXCEPT ![s] = w]
    /\ attempts'  = [attempts EXCEPT ![s] = @ + 1]
    /\ phase'     = [phase EXCEPT ![w] = "claimed"]
    /\ job'       = [job EXCEPT ![w] = s]
    /\ att'       = [att EXCEPT ![w] = attempts[s] + 1]
    /\ UNCHANGED <<state, result, beat, due, updates, shutdown, retry, faultsLeft,
                   runs, interrupted>>

\* The loops of W lose their job and their heartbeat and are at ph.
Drop(W, ph) ==
    /\ phase'   = [w \in Workers |-> IF w \in W THEN ph ELSE phase[w]]
    /\ job'     = [w \in Workers |-> IF w \in W THEN NoJob ELSE job[w]]
    /\ att'     = [w \in Workers |-> IF w \in W THEN 0 ELSE att[w]]
    /\ beat'    = [w \in Workers |-> IF w \in W THEN "off" ELSE beat[w]]
    /\ due'     = [w \in Workers |-> IF w \in W THEN 0 ELSE due[w]]
    /\ updates' = [w \in Workers |-> IF w \in W THEN 0 ELSE updates[w]]

\* The loop goes back to polling: stop is set, the heartbeat task awaited.
Release(w) == Drop({w}, "idle") /\ UNCHANGED shutdown

\* Mutant of Starting: the attempts counter is not looked at.
StartingAlways(w) == phase[w] = "claimed"

GivingUp(w) == phase[w] = "claimed" /\ att[w] > MAX_ATTEMPTS
Starting(w) == phase[w] = "claimed" /\ att[w] <= MAX_ATTEMPTS

\* _handle, attempts exhausted: the row is failed without running it.
GiveUp(w) ==
    /\ GivingUp(w)
    /\ Finish(job[w], "FAILED")
    /\ Release(w)
    /\ UNCHANGED <<retry, faultsLeft, runs, interrupted>>

\* run_submission: the heartbeat task is created and the run begins.
StartRun(w) ==
    /\ Starting(w)
    /\ phase'   = [phase EXCEPT ![w] = "running"]
    /\ beat'    = [beat EXCEPT ![w] = "on"]
    /\ due'     = [due EXCEPT ![w] = BeatPeriod]
    /\ updates' = [updates EXCEPT ![w] = MaxUpdates]
    /\ runs'    = [runs EXCEPT ![job[w]] = @ \cup {att[w]}]
    /\ UNCHANGED <<rowVars, job, att, shutdown, retry, faultsLeft, interrupted>>

\* set_state: UPDATE ... WHERE id = $1, whatever the row's state is.
SetState(w) ==
    /\ phase[w] = "running" /\ updates[w] > 0
    /\ state'   = [state EXCEPT ![job[w]] = "WORKING"]
    /\ updates' = [updates EXCEPT ![w] = @ - 1]
    /\ UNCHANGED <<attempts, lease, worker_id, result, phase, job, att, beat, due,
                   shutdown, retry, faultsLeft, runs, interrupted>>

\* The one finish of a run, in _execute or in an except clause of
\* run_submission; it too is unconditional on the row's state.
FinishRun(w, st) ==
    /\ phase[w] = "running"
    /\ Finish(job[w], st)
    /\ phase' = [phase EXCEPT ![w] = "closing"]
    /\ UNCHANGED <<job, att, beat, due, updates, shutdown, retry, faultsLeft, runs,
                   interrupted>>

\* The container is removed and the loop goes back to polling.
CloseRun(w) ==
    /\ phase[w] = "closing"
    /\ Release(w)
    /\ UNCHANGED <<rowVars, retry, faultsLeft, runs, interrupted>>

\* The heartbeat's wait_for has timed out: renew_lease is to be called.
Overdue(w) == beat[w] = "on" /\ due[w] = 0

\* _heartbeat: renew_lease, unconditional on who owns the row.
Heartbeat(w) ==
    /\ Overdue(w)
    /\ lease' = [lease EXCEPT ![job[w]] = RenewLease]
    /\ due'   = [due EXCEPT ![w] = BeatPeriod]
    /\ UNCHANGED <<state, attempts, worker_id, result, phase, job, att, beat, updates,
                   shutdown, retry, faultsLeft, runs, interrupted>>

\* A loop whose shutdown event is set ends at the top of its next round.
Exit(w) ==
    /\ phase[w] = "idle"
    /\ w \in shutdown
    /\ phase' = [phase EXCEPT ![w] = "down"]
    /\ UNCHANGED <<rowVars, job, att, beat, due, updates, shutdown, retry, faultsLeft,
                   runs, interrupted>>

-----------------------------------------------------------------------------
(* Faults.  Each one uses up part of the bound MaxFaults. *)

Fault(kind) ==
    /\ kind \in Faults
    /\ faultsLeft > 0
    /\ faultsLeft' = faultsLeft - 1

\* The jobs the loops of W hold without having written their finish.
Unfinished(W) == {job[w] : w \in {v \in W : phase[v] \in {"claimed", "running"}}}

\* A worker process dies with all its loops; only the table survives.
Crash(p) ==
    /\ \E w \in p : phase[w] # "down"
    /\ Fault("crash")
    /\ Drop(p, "down")
    /\ interrupted' = interrupted \cup Unfinished(p)
    /\ UNCHANGED <<rowVars, shutdown, retry, runs>>

\* A new worker process takes the place of one whose loops are all over.
Restart(p) ==
    /\ \A w \in p : phase[w] = "down"
    /\ phase'    = [w \in Workers |-> IF w \in p THEN "idle" ELSE phase[w]]
    /\ shutdown' = shutdown \ p
    /\ UNCHANGED <<rowVars, job, att, beat, due, updates, retry, faultsLeft, runs,
                   interrupted>>

\* finish itself raises, in the except clause too: the exception leaves
\* _handle, worker_loop logs it and polls again.  The row keeps its lease.
FinishError(w) ==
    /\ phase[w] = "running" \/ GivingUp(w)
    /\ Fault("db_error")
    /\ Release(w)
    /\ interrupted' = interrupted \cup {job[w]}
    /\ UNCHANGED <<rowVars, retry, runs>>

\* The run raises after its finish was committed (docker rm cannot be spawned,
\* or the reply to the UPDATE is lost): the except clause finishes it again.
LateError(w) ==
    /\ phase[w] = "closing"
    /\ Fault("late_error")
    /\ Finish(job[w], "FAILED")
    /\ Release(w)
    /\ UNCHANGED <<retry, runs, interrupted>>

\* renew_lease raises: nothing in _heartbeat catches it, so the task is over
\* while the run it protects goes on.
HeartbeatError(w) ==
    /\ Overdue(w)
    /\ Fault("renew_error")
    /\ beat' = [beat EXCEPT ![w] = "off"]
    /\ UNCHANGED <<rowVars, phase, job, att, due, updates, shutdown, retry, runs,
                   interrupted>>

\* SIGINT or SIGTERM sets the process's shutdown event; a job in hand goes on.
Sigterm(p) ==
    /\ \E w \in p : phase[w] # "down"
    /\ ~ (p \subseteq shutdown)
    /\ Fault("sigterm")
    /\ shutdown' = shutdown \cup p
    /\ UNCHANGED <<rowVars, phase, job, att, beat, due, updates, retry, runs,
                   interrupted>>

-----------------------------------------------------------------------------
(* Time.  The few statements between claim_job and the heartbeat's creation *)
(* take no time that matters next to a lease; neither does a heartbeat that *)
(* is due, except as a fault.                                               *)

Minus1(n) == IF n = 0 THEN 0 ELSE n - 1

\* One unit of time goes by.
Elapse ==
    /\ \A w \in Workers : ~ Starting(w)
    /\ lease' = [s \in Submissions |-> Minus1(lease[s])]
    /\ due'   = [w \in Workers |-> Minus1(due[w])]
    /\ UNCHANGED <<state, attempts, worker_id, result, phase, job, att, beat, updates,
                   shutdown, retry, runs, interrupted>>

Tick ==
    /\ \A w \in Workers : ~ Overdue(w)
    /\ Elapse
    /\ UNCHANGED faultsLeft

\* Time goes by while renew_lease waits for a connection or the database: its
\* lease may lapse, and the renewal still be carried out afterwards.
LateBeat ==
    /\ \E w \in Workers : Overdue(w)
    /\ Fault("late_beat")
    /\ Elapse

-----------------------------------------------------------------------------

Init ==
    /\ state       = [s \in Submissions |-> "ABSENT"]
    /\ attempts    = [s \in Submissions |-> 0]
    /\ lease       = [s \in Submissions |-> 0]
    /\ worker_id   = [s \in Submissions |-> NoWorker]
    /\ result      = [s \in Submissions |-> "NULL"]
    /\ phase       = [w \in Workers |-> "idle"]
    /\ job         = [w \in Workers |-> NoJob]
    /\ att         = [w \in Workers |-> 0]
    /\ beat        = [w \in Workers |-> "off"]
    /\ due         = [w \in Workers |-> 0]
    /\ updates     = [w \in Workers |-> 0]
    /\ shutdown    = {}
    /\ retry       = [c \in Clients |-> NoJob]
    /\ faultsLeft  = MaxFaults
    /\ runs        = [s \in Submissions |-> {}]
    /\ interrupted = {}

ClientStep(c) ==
    \/ \E s \in Submissions : Insert(c, s) \/ SeeDegraded(c, s)
    \/ Requeue(c)

ClaimAny(w)  == \E s \in Submissions : Claim(w, s)
FinishAny(w) == \E st \in TERMINAL : FinishRun(w, st)

WorkerStep(w) ==
    \/ ClaimAny(w)
    \/ GiveUp(w)
    \/ StartRun(w)
    \/ SetState(w)
    \/ FinishAny(w)
    \/ CloseRun(w)
    \/ Heartbeat(w)
    \/ Exit(w)
    \/ FinishError(w)
    \/ LateError(w)
    \/ HeartbeatError(w)

ProcessStep(p) ==
    \/ Crash(p)
    \/ Restart(p)
    \/ Sigterm(p)

Next ==
    \/ \E c \in Clients : ClientStep(c)
    \/ \E w \in Workers : WorkerStep(w)
    \/ \E p \in Processes : ProcessStep(p)
    \/ Tick
    \/ LateBeat

Spec == Init /\ [][Next]_vars

(* The event loop runs every task that is ready, and time passes.  A run    *)
(* ends provided the docker commands and the model API it awaits return     *)
(* (program runs have timeouts, docker run, docker exec cat and the model   *)
(* call have none).  Nothing obliges a client to submit or an operator to   *)
(* restart a worker.                                                        *)
Fairness ==
    /\ WF_vars(Tick)
    /\ \A w \in Workers :
          /\ WF_vars(ClaimAny(w))
          /\ WF_vars(GiveUp(w))
          /\ WF_vars(StartRun(w))
          /\ WF_vars(FinishAny(w))
          /\ WF_vars(CloseRun(w))
          /\ WF_vars(Heartbeat(w))

FairSpec == Spec /\ Fairness

-----------------------------------------------------------------------------
(* Properties. *)

\* Every variable has its type.
TypeOK ==
    /\ state     \in [Submissions -> States]
    /\ attempts  \in [Submissions -> Nat]
    /\ lease     \in [Submissions -> Nat]
    /\ worker_id \in [Submissions -> Workers \cup {NoWorker}]
    /\ result    \in [Submissions -> Results]
    /\ phase     \in [Workers -> Phases]
    /\ job       \in [Workers -> Submissions \cup {NoJob}]
    /\ att       \in [Workers -> Nat]
    /\ beat      \in [Workers -> {"on", "off"}]
    /\ due       \in [Workers -> 0 .. BeatPeriod]
    /\ updates   \in [Workers -> 0 .. MaxUpdates]
    /\ shutdown  \subseteq Workers
    /\ retry     \in [Clients -> Submissions \cup {NoJob}]
    /\ faultsLeft \in 0 .. MaxFaults
    /\ runs      \in [Submissions -> SUBSET Nat]
    /\ interrupted \subseteq Submissions
    /\ \A w \in Workers : phase[w] \in {"claimed", "running", "closing"}
                             <=> job[w] # NoJob

\* The pipeline of one submission is started at most MAX_ATTEMPTS times in its
\* whole life, whatever crashes, expired leases, lost heartbeats and client
\* resubmissions do (_handle's test on the attempts claim_job returned): every
\* start uses an attempt number of 1 .. MAX_ATTEMPTS that no start used before.
RunsBounded ==
    /\ \A s \in Submissions : runs[s] \subseteq 1 .. MAX_ATTEMPTS
    /\ \A w \in Workers : phase[w] = "claimed" => att[w] \notin runs[job[w]]

\* A worker in the middle of a run is still the one that claimed the row last,
\* and the row is still unresolved: no second worker takes over a job whose
\* heartbeat (_heartbeat, renew_lease) is alive, and nothing else resolves it.
OwnsRow ==
    \A w \in Workers : phase[w] = "running" =>
        /\ worker_id[job[w]] = w
        /\ state[job[w]] \in Queued

\* The report the API serves belongs to the row's state: there is one exactly
\* when the state is terminal, and it is an error report exactly when FAILED
\* (finish, create_submission and set_state write the two separately).
ReportMatchesState ==
    \A s \in Submissions :
        /\ state[s] \in TERMINAL <=> result[s] # "NULL"
        /\ state[s] = "FAILED" <=> result[s] = "ERROR"

\* A submission is given up as "likely crashes the worker" (_handle) only when
\* some attempt at it really ended without a finish.
GivesUpOnlyOnCrashes ==
    \A w \in Workers : GivingUp(w) => job[w] \in interrupted

\* While some worker loop stays up, every submission is eventually resolved and
\* stays so: no crash, lost heartbeat or failed finish strands a row, and
\* DEGRADED rows are not retried for ever.
Settles ==
    <>[](\E w \in Workers : phase[w] # "down" /\ w \notin shutdown)
        => \A s \in Submissions : <>[](state[s] \in TERMINAL \cup {"ABSENT"})

\* What a submission is to a client: see module SubmissionLifecycle.
Status == [s \in Submissions |-> IF state[s] \in Queued THEN "PENDING" ELSE state[s]]
Busy   == {s \in Submissions : \E w \in Workers : phase[w] = "running" /\ job[w] = s}

Lifecycle == INSTANCE SubmissionLifecycle WITH
    MaxRuns <- MAX_ATTEMPTS, status <- Status, report <- result, started <- runs, busy <- Busy

\* The queue implements the lifecycle the API promises its clients.
ImplementsLifecycle == Lifecycle!Spec
=============================================================================
