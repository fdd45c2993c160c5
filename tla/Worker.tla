------------------------------- MODULE Worker -------------------------------
(***************************************************************************)
(* A worker process at work: the loops of module JobQueue together with    *)
(* the sandbox each run needs (pipeline/run.py, runner/docker_runner.py).  *)
(* The loops of one process share a semaphore of Slots sandboxes; a run    *)
(* waits for a slot, starts one container, works in it, and removes it.    *)
(*                                                                         *)
(* Every step that touches a row or a loop is an action of JobQueue        *)
(* conjoined with what it does to the sandboxes, so this specification     *)
(* implements JobQueue's (module WorkerProofs).                            *)
(***************************************************************************)
EXTENDS JobQueue, Sequences, FiniteSets

CONSTANT Slots      \* settings().global_sandbox_slots

ASSUME SlotsAssumption == Slots \in Nat \ {0}

ASSUME ProcessAssumption ==
    /\ \A p \in Processes : IsFiniteSet(p)
    /\ \A p, q \in Processes : p \cap q # {} => p = q
    /\ UNION Processes = Workers

VARIABLES
    stage,          \* where a loop's run is in run_submission: see Stages
    line,           \* per process: the loops waiting for a slot, in order
    free,           \* per process: the semaphore's value
    up,             \* containers on the docker host
    stray           \* history: containers nobody will remove any more

sandboxVars == <<stage, line, free, up, stray>>
allVars     == <<vars, sandboxVars>>

\* out: not in run_submission's with statement; waiting: for a slot; starting:
\* in docker run; up: in the body of _execute; leaving: in docker rm; left: the
\* slot is returned and the except clauses and the heartbeat's end are to come.
Stages  == {"out", "waiting", "starting", "up", "leaving", "left"}
WithSlot == {"starting", "up", "leaving"}

\* The process a loop belongs to.
Home(w) == CHOOSE p \in Processes : w \in p

\* The container of a run: its name is unique, and so is the row's attempt.
Container(w) == <<job[w], att[w]>>
Containers   == Submissions \X Nat

Advance(w, st) == stage' = [stage EXCEPT ![w] = st]

-----------------------------------------------------------------------------
(* run_submission and _execute, the sandbox's part. *)

\* run_submission reaches `async with sandbox_slots()`.
BeginRun(w) ==
    /\ StartRun(w)
    /\ Advance(w, "waiting")
    /\ line' = [line EXCEPT ![Home(w)] = Append(@, w)]
    /\ UNCHANGED <<free, up, stray>>

\* Mutant of Admitted: a loop enters without looking at the value.
AdmittedAlways(w) == line[Home(w)] # << >> /\ Head(line[Home(w)]) = w

\* asyncio.Semaphore serves its waiters in the order they came.
Admitted(w) ==
    /\ free[Home(w)] > 0
    /\ line[Home(w)] # << >>
    /\ Head(line[Home(w)]) = w

Acquire(w) ==
    /\ stage[w] = "waiting"
    /\ Admitted(w)
    /\ Advance(w, "starting")
    /\ line' = [line EXCEPT ![Home(w)] = Tail(@)]
    /\ free' = [free EXCEPT ![Home(w)] = @ - 1]
    /\ UNCHANGED <<vars, up, stray>>

\* Mutant of LeaveSlot: the semaphore is not released.
LeaveSlotHeld(w) == Advance(w, "left") /\ UNCHANGED free

\* The end of `async with sandbox_slots()`, by return or by exception.
LeaveSlot(w) ==
    /\ Advance(w, "left")
    /\ free' = [free EXCEPT ![Home(w)] = @ + 1]

\* Sandbox.start: docker run succeeds.
DockerRun(w) ==
    /\ stage[w] = "starting"
    /\ Advance(w, "up")
    /\ up' = up \cup {Container(w)}
    /\ UNCHANGED <<vars, line, free, stray>>

\* Mutant of DockerRunFails: the slot is returned only by a run that got its
\* container.
DockerRunFailsHeld(w) ==
    /\ stage[w] = "starting"
    /\ Advance(w, "left")
    /\ \E made \in SUBSET {Container(w)} :
          up' = up \cup made /\ stray' = stray \cup made
    /\ UNCHANGED <<vars, line, free>>

\* docker run fails, with or without a container left behind: __aenter__ has
\* raised, so there is no __aexit__ and nobody removes what was created.
DockerRunFails(w) ==
    /\ stage[w] = "starting"
    /\ LeaveSlot(w)
    /\ \E made \in SUBSET {Container(w)} :
          up' = up \cup made /\ stray' = stray \cup made
    /\ UNCHANGED <<vars, line>>

\* _execute calls set_state only inside the sandbox.
Work(w) ==
    /\ stage[w] = "up"
    /\ SetState(w)
    /\ UNCHANGED sandboxVars

\* _execute delivers its report, container and slot still in hand.
Deliver(w) ==
    /\ stage[w] = "up"
    /\ \E st \in {"DONE", "DEGRADED"} : FinishRun(w, st)
    /\ Advance(w, "leaving")
    /\ UNCHANGED <<line, free, up, stray>>

\* The body raises: __aexit__ runs first, the except clause writes later.
BodyRaises(w) ==
    /\ stage[w] = "up"
    /\ Advance(w, "leaving")
    /\ UNCHANGED <<vars, line, free, up, stray>>

\* Mutant of DockerRm: the removal is taken for granted.
DockerRmForgotten(w) ==
    /\ stage[w] = "leaving"
    /\ LeaveSlot(w)
    /\ UNCHANGED <<vars, line, up, stray>>

\* Sandbox.stop: docker rm -f.  Its exit code is not looked at, so a container
\* it could not remove stays.
DockerRm(w) ==
    /\ stage[w] = "leaving"
    /\ LeaveSlot(w)
    /\ \/ up' = up \ {Container(w)} /\ UNCHANGED stray
       \/ stray' = stray \cup {Container(w)} /\ UNCHANGED up
    /\ UNCHANGED <<vars, line>>

\* Mutant of ReportError: the error is reported with the sandbox still open.
ReportErrorEarly(w) ==
    /\ stage[w] \in {"up", "left"}
    /\ FinishRun(w, "FAILED")
    /\ UNCHANGED sandboxVars

\* The except clauses: the run failed inside, the slot is already returned.
ReportError(w) ==
    /\ stage[w] = "left"
    /\ FinishRun(w, "FAILED")
    /\ UNCHANGED sandboxVars

\* The run is over, or its exception leaves run_submission.
End(w) ==
    /\ stage[w] = "left"
    /\ CloseRun(w) \/ FinishError(w) \/ LateError(w)
    /\ Advance(w, "out")
    /\ UNCHANGED <<line, free, up, stray>>

\* The steps of a loop outside the with statement, and of its heartbeat.
Aside(w) ==
    /\ \/ ClaimAny(w)
       \/ GiveUp(w)
       \/ GivingUp(w) /\ FinishError(w)
       \/ Heartbeat(w)
       \/ HeartbeatError(w)
       \/ Exit(w)
    /\ UNCHANGED sandboxVars

\* A process dies with its semaphore and its waiters.  The containers live on:
\* docker run commands under way may still create theirs, docker rm commands
\* may still remove theirs, and no later process looks for any of them.
Die(p) ==
    LET own(st) == {Container(w) : w \in {v \in p : stage[v] = st}} IN
    /\ Crash(p)
    /\ stage' = [w \in Workers |-> IF w \in p THEN "out" ELSE stage[w]]
    /\ line'  = [line EXCEPT ![p] = << >>]
    /\ free'  = [free EXCEPT ![p] = Slots]
    /\ \E made \in SUBSET own("starting"), gone \in SUBSET own("leaving") :
          /\ up'    = (up \cup made) \ gone
          /\ stray' = stray \cup made \cup own("up") \cup (own("leaving") \ gone)

Outside ==
    /\ \/ \E c \in Clients : ClientStep(c)
       \/ \E p \in Processes : Restart(p) \/ Sigterm(p)
       \/ Tick \/ LateBeat
    /\ UNCHANGED sandboxVars

-----------------------------------------------------------------------------

WorkerInit ==
    /\ Init
    /\ stage = [w \in Workers |-> "out"]
    /\ line  = [p \in Processes |-> << >>]
    /\ free  = [p \in Processes |-> Slots]
    /\ up    = {}
    /\ stray = {}

LoopStep(w) ==
    \/ BeginRun(w)
    \/ Acquire(w)
    \/ DockerRun(w)
    \/ DockerRunFails(w)
    \/ Work(w)
    \/ Deliver(w)
    \/ BodyRaises(w)
    \/ DockerRm(w)
    \/ ReportError(w)
    \/ End(w)
    \/ Aside(w)

WorkerNext ==
    \/ \E w \in Workers : LoopStep(w)
    \/ \E p \in Processes : Die(p)
    \/ Outside

WorkerSpec == WorkerInit /\ [][WorkerNext]_allVars

\* JobQueue's fairness, with the end of a run split into its steps: each docker
\* command returns, the body of _execute ends, and the semaphore wakes the
\* first waiter of a free slot.
WorkerFairness ==
    /\ WF_allVars(Tick /\ UNCHANGED sandboxVars)
    /\ \A w \in Workers :
          /\ WF_allVars(ClaimAny(w) /\ UNCHANGED sandboxVars)
          /\ WF_allVars(GiveUp(w) /\ UNCHANGED sandboxVars)
          /\ WF_allVars(Heartbeat(w) /\ UNCHANGED sandboxVars)
          /\ WF_allVars(BeginRun(w))
          /\ WF_allVars(Acquire(w))
          /\ WF_allVars(DockerRun(w) \/ DockerRunFails(w))
          /\ WF_allVars(Deliver(w) \/ BodyRaises(w))
          /\ WF_allVars(DockerRm(w))
          /\ WF_allVars(ReportError(w))
          /\ WF_allVars(End(w))

WorkerFairSpec == WorkerSpec /\ WorkerFairness

-----------------------------------------------------------------------------
(* Properties.  RunsBounded and Settles of JobQueue are checked here too:    *)
(* runs now wait for each other's slots.                                     *)

\* The sandbox's variables have their types, and a loop is in the with
\* statement exactly while JobQueue has it in a run.
SandboxTypeOK ==
    /\ stage \in [Workers -> Stages]
    /\ line \in [Processes -> Seq(Workers)]
    /\ free \in [Processes -> Int]
    /\ up \subseteq Containers
    /\ stray \subseteq Containers
    /\ \A w \in Workers :
          /\ stage[w] \in {"waiting", "starting", "up"} => phase[w] = "running"
          /\ phase[w] \in {"running", "closing"} <=> stage[w] # "out"

\* Every variable of the composition, the queue's included, has its type.
WorkerTypeOK == TypeOK /\ SandboxTypeOK

\* Every slot of a process's semaphore is free or held by exactly one of its
\* runs between docker run and docker rm, whatever fails in between (start,
\* stop and __aexit__ inside `async with sandbox_slots()`): none leaks, and at
\* most Slots runs of a process have a container.
SlotsConserved ==
    \A p \in Processes :
        /\ free[p] \in 0 .. Slots
        /\ Cardinality({w \in p : stage[w] \in WithSlot}) = Slots - free[p]

\* No run waits for nothing: while it waits it stands in its process's line, and
\* a slot is free or held by a run of that process that will return it; and the
\* first in line is one that waits, so that no loop that is gone blocks the rest
\* (the order in which runs raise, finish, die and return slots notwithstanding).
NobodyForgotten ==
    /\ \A w \in Workers : stage[w] = "waiting" =>
          /\ \E i \in 1 .. Len(line[Home(w)]) : line[Home(w)][i] = w
          /\ free[Home(w)] > 0 \/ \E v \in Home(w) : stage[v] \in WithSlot
    /\ \A p \in Processes : line[p] # << >> =>
          Head(line[p]) \in p /\ stage[Head(line[p])] = "waiting"

\* A container on the host belongs to a run that is using it and will remove it,
\* or its process died or its docker command failed: stop removes what start
\* has started on every path of run_submission and never another run's.
OrphansExplained ==
    /\ \A c \in up :
          c \in stray \/ \E w \in Workers : stage[w] \in {"up", "leaving"} /\ Container(w) = c
    /\ \A w \in Workers : stage[w] \in {"up", "leaving"} => Container(w) \in up \ stray
=============================================================================
