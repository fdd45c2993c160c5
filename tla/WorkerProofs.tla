---------------------------- MODULE WorkerProofs ----------------------------
(***************************************************************************)
(* Machine-checked proofs about module Worker, for every number of         *)
(* processes, loops, slots and submissions and every combination of faults.*)
(***************************************************************************)
EXTENDS Worker, JobQueueRefinement, FiniteSetTheorems, SequenceTheorems

-----------------------------------------------------------------------------
(* The composition is an implementation of the queue. *)

\* Every step of the worker is a step of the queue, or touches only sandboxes.
LEMMA StepImplements == [WorkerNext]_allVars => [Next]_vars
  <1> SUFFICES ASSUME [WorkerNext]_allVars PROVE [Next]_vars
    OBVIOUS
  <1>1. ASSUME NEW w \in Workers, LoopStep(w) PROVE WorkerStep(w) \/ UNCHANGED vars
    <2>1. BeginRun(w) => StartRun(w)
      BY DEF BeginRun
    <2>2. Acquire(w) \/ DockerRun(w) \/ DockerRunFails(w) \/ BodyRaises(w) \/ DockerRm(w)
             => UNCHANGED vars
      BY DEF Acquire, DockerRun, DockerRunFails, BodyRaises, DockerRm
    <2>3. Work(w) => SetState(w)
      BY DEF Work
    <2>4. Deliver(w) \/ ReportError(w) => FinishAny(w)
      BY DEF Deliver, ReportError, FinishAny, TERMINAL
    <2>5. End(w) => CloseRun(w) \/ FinishError(w) \/ LateError(w)
      BY DEF End
    <2>6. Aside(w) => WorkerStep(w)
      BY DEF Aside, WorkerStep
    <2> QED
      BY <1>1, <2>1, <2>2, <2>3, <2>4, <2>5, <2>6 DEF LoopStep, WorkerStep
  <1>2. ASSUME NEW p \in Processes, Die(p) PROVE ProcessStep(p)
    BY <1>2 DEF Die, ProcessStep
  <1>3. Outside => Next
    BY DEF Outside, Next, ProcessStep
  <1>4. UNCHANGED allVars => UNCHANGED vars
    BY DEF allVars
  <1> QED
    BY <1>1, <1>2, <1>3, <1>4 DEF WorkerNext, Next

\* The loops with their slots and containers implement JobQueue: everything
\* proved about the queue holds of runs that wait for slots and containers.
THEOREM WorkerImplementsQueue == WorkerSpec => Spec
  <1>1. WorkerInit => Init
    BY DEF WorkerInit
  <1> QED
    BY <1>1, StepImplements, PTL DEF WorkerSpec, Spec

\* A submission's pipeline is started at most MAX_ATTEMPTS times, containers
\* or not.
THEOREM WorkerRunsBounded == WorkerSpec => []RunsBounded
  BY WorkerImplementsQueue, RunsAreBounded, PTL

\* Without the zombie faults a submission's client gets from the workers and their
\* sandboxes what the lifecycle promises.
THEOREM WorkerImplementsLifecycle == NoZombies => (WorkerSpec => ImplementsLifecycle)
  BY WorkerImplementsQueue, QueueImplementsLifecycle

\* Nor does a run waiting for a slot, or working in its container, lose its row.
THEOREM WorkerOwnsRow == NoZombies => (WorkerSpec => []OwnsRow)
  BY WorkerImplementsQueue, RunnerOwnsRow

\* And the report it serves is the one that belongs to the row's state, while
\* runs wait for slots, containers fail and processes die.
THEOREM WorkerReportIsConsistent == NoZombies => (WorkerSpec => []ReportMatchesState)
  BY WorkerImplementsQueue, ReportIsConsistent

-----------------------------------------------------------------------------
(* Type correctness. *)

\* Every loop belongs to exactly one process.
LEMMA HomeFacts ==
    /\ \A w \in Workers : Home(w) \in Processes /\ w \in Home(w)
    /\ \A p \in Processes : \A w \in p : w \in Workers /\ Home(w) = p
  <1>1. \A w \in Workers : Home(w) \in Processes /\ w \in Home(w)
    <2> SUFFICES ASSUME NEW w \in Workers PROVE Home(w) \in Processes /\ w \in Home(w)
      OBVIOUS
    <2>1. \E p \in Processes : w \in p
      BY ProcessAssumption
    <2> QED
      BY <2>1 DEF Home
  <1>2. ASSUME NEW p \in Processes, NEW w \in p PROVE w \in Workers /\ Home(w) = p
    <2>1. w \in Workers
      BY ProcessAssumption
    <2>2. Home(w) \in Processes /\ w \in Home(w) \cap p
      BY <1>1, <2>1
    <2> QED
      BY <2>1, <2>2, ProcessAssumption
  <1> QED
    BY <1>1, <1>2

Running == {"running", "closing"}

\* A loop's run begins at BeginRun and ends at End or Die; every other step
\* leaves each loop in or out of a run.
LEMMA RunFrame ==
    ASSUME TypeOK, (\E w \in Workers : Aside(w) \/ Work(w)) \/ Outside
    PROVE  /\ UNCHANGED sandboxVars
           /\ \A v \in Workers : phase[v] \in Running => phase'[v] = phase[v]
           /\ \A v \in Workers : phase'[v] \in Running => phase'[v] = phase[v]
  <1> USE DEF TypeOK, Running
  <1>1. ASSUME NEW w \in Workers, Aside(w)
        PROVE  /\ UNCHANGED sandboxVars
               /\ \A v \in Workers : phase[v] \in Running => phase'[v] = phase[v]
               /\ \A v \in Workers : phase'[v] \in Running => phase'[v] = phase[v]
    <2>1. CASE ClaimAny(w)
      BY <1>1, <2>1 DEF Aside, ClaimAny, Claim
    <2>2. CASE GiveUp(w) \/ (GivingUp(w) /\ FinishError(w))
      BY <1>1, <2>2 DEF Aside, GiveUp, FinishError, GivingUp, Release, Drop
    <2>3. CASE Heartbeat(w) \/ HeartbeatError(w)
      BY <1>1, <2>3 DEF Aside, Heartbeat, HeartbeatError
    <2>4. CASE Exit(w)
      BY <1>1, <2>4 DEF Aside, Exit
    <2> QED
      BY <1>1, <2>1, <2>2, <2>3, <2>4 DEF Aside
  <1>2. CASE \E w \in Workers : Work(w)
    BY <1>2 DEF Work, SetState
  <1>3. CASE Outside
    <2>1. CASE \E c \in Clients : ClientStep(c)
      BY <1>3, <2>1 DEF Outside, ClientStep, Insert, SeeDegraded, Requeue, workerVars
    <2>2. CASE \E p \in Processes : Restart(p) \/ Sigterm(p)
      BY <1>3, <2>2 DEF Outside, Restart, Sigterm
    <2>3. CASE Tick \/ LateBeat
      BY <1>3, <2>3 DEF Outside, Tick, LateBeat, Elapse
    <2> QED
      BY <1>3, <2>1, <2>2, <2>3 DEF Outside
  <1> QED
    BY <1>1, <1>2, <1>3

\* Every step of the worker keeps the sandbox's variables in their types and
\* in step with the loops.
LEMMA WorkerTypeStep == TypeOK /\ SandboxTypeOK /\ [WorkerNext]_allVars => SandboxTypeOK'
  <1> SUFFICES ASSUME TypeOK, SandboxTypeOK, [WorkerNext]_allVars PROVE SandboxTypeOK'
    OBVIOUS
  <1> USE SlotsAssumption
  <1>a. \A w \in Workers : phase[w] \in Running => Container(w) \in Containers
    BY DEF Running, Container, Containers, TypeOK
  <1>1. ASSUME NEW w \in Workers, BeginRun(w) PROVE SandboxTypeOK'
    <2>1. line' \in [Processes -> Seq(Workers)]
      BY <1>1, HomeFacts DEF BeginRun, SandboxTypeOK
    <2> QED
      BY <1>1, <2>1 DEF BeginRun, StartRun, Advance, SandboxTypeOK, TypeOK, Stages
  <1>2. ASSUME NEW w \in Workers, Acquire(w) PROVE SandboxTypeOK'
    <2>1. line' \in [Processes -> Seq(Workers)] /\ free' \in [Processes -> Int]
      BY <1>2, HomeFacts DEF Acquire, Admitted, SandboxTypeOK
    <2> QED
      BY <1>2, <2>1 DEF Acquire, Advance, SandboxTypeOK, vars, workerVars, Stages
  <1>3. ASSUME NEW w \in Workers, LeaveSlot(w) PROVE free' \in [Processes -> Int]
    BY <1>3, HomeFacts DEF LeaveSlot, SandboxTypeOK
  <1>4. ASSUME NEW w \in Workers, DockerRun(w) PROVE SandboxTypeOK'
    <2>1. Container(w) \in Containers
      BY <1>4, <1>a DEF DockerRun, SandboxTypeOK, Running
    <2> QED
      BY <1>4, <2>1 DEF DockerRun, Advance, SandboxTypeOK, vars, workerVars, Stages
  <1>5. ASSUME NEW w \in Workers, DockerRunFails(w) \/ DockerRm(w) PROVE SandboxTypeOK'
    <2>1. Container(w) \in Containers
      BY <1>5, <1>a DEF DockerRunFails, DockerRm, SandboxTypeOK, Running
    <2>2. LeaveSlot(w) /\ UNCHANGED <<vars, line>>
      BY <1>5 DEF DockerRunFails, DockerRm
    <2>3. up' \subseteq Containers /\ stray' \subseteq Containers
      BY <1>5, <2>1 DEF DockerRunFails, DockerRm, SandboxTypeOK
    <2>4. stage[w] # "out" /\ stage' = [stage EXCEPT ![w] = "left"]
      BY <1>5, <2>2 DEF DockerRunFails, DockerRm, LeaveSlot, Advance
    <2> QED
      BY <1>3, <2>2, <2>3, <2>4 DEF SandboxTypeOK, vars, workerVars, Stages
  <1>6. ASSUME NEW w \in Workers, Deliver(w) \/ BodyRaises(w) PROVE SandboxTypeOK'
    <2>1. /\ stage[w] = "up" /\ stage' = [stage EXCEPT ![w] = "leaving"]
          /\ UNCHANGED <<line, free, up, stray>>
      BY <1>6 DEF Deliver, BodyRaises, Advance
    <2>2. phase' = phase \/ (phase[w] = "running" /\ phase' = [phase EXCEPT ![w] = "closing"])
      BY <1>6 DEF Deliver, BodyRaises, FinishRun, vars, workerVars
    <2> QED
      BY <2>1, <2>2 DEF SandboxTypeOK, TypeOK, Stages
  <1>7. ASSUME NEW w \in Workers, ReportError(w) PROVE SandboxTypeOK'
    BY <1>7 DEF ReportError, FinishRun, sandboxVars, SandboxTypeOK, TypeOK
  <1>8. ASSUME NEW w \in Workers, End(w) PROVE SandboxTypeOK'
    <2>1. Drop({w}, "idle")
      BY <1>8 DEF End, CloseRun, FinishError, LateError, Release
    <2>2. \A v \in Workers : phase'[v] = IF v = w THEN "idle" ELSE phase[v]
      BY <2>1 DEF Drop
    <2>3. stage' = [stage EXCEPT ![w] = "out"] /\ UNCHANGED <<line, free, up, stray>>
      BY <1>8 DEF End, Advance
    <2> QED
      BY <2>2, <2>3 DEF SandboxTypeOK, Stages
  <1>9. ASSUME (\E w \in Workers : Aside(w) \/ Work(w)) \/ Outside PROVE SandboxTypeOK'
    <2>1. /\ UNCHANGED sandboxVars
          /\ \A v \in Workers : phase[v] \in Running => phase'[v] = phase[v]
          /\ \A v \in Workers : phase'[v] \in Running => phase'[v] = phase[v]
      BY <1>9, RunFrame
    <2> QED
      BY <2>1 DEF SandboxTypeOK, sandboxVars, Running
  <1>10. ASSUME NEW p \in Processes, Die(p) PROVE SandboxTypeOK'
    <2>1. p \subseteq Workers
      BY QueueAssumption
    <2>2. \A v \in Workers : phase'[v] = IF v \in p THEN "down" ELSE phase[v]
      BY <1>10 DEF Die, Crash, Drop
    <2>3. stage' = [w \in Workers |-> IF w \in p THEN "out" ELSE stage[w]]
      BY <1>10 DEF Die
    <2>4. line' \in [Processes -> Seq(Workers)] /\ free' \in [Processes -> Int]
      BY <1>10 DEF Die, SandboxTypeOK
    <2>5. \A st \in {"starting", "up", "leaving"} :
             {Container(w) : w \in {v \in p : stage[v] = st}} \subseteq Containers
      BY <1>a, <2>1 DEF SandboxTypeOK, Running
    <2>6. up' \subseteq Containers /\ stray' \subseteq Containers
      BY <1>10, <2>5 DEF Die, SandboxTypeOK
    <2> QED
      BY <2>2, <2>3, <2>4, <2>6 DEF SandboxTypeOK, Stages
  <1>11. CASE UNCHANGED allVars
    BY <1>11 DEF allVars, sandboxVars, vars, workerVars, SandboxTypeOK
  <1> QED
    BY <1>1, <1>2, <1>4, <1>5, <1>6, <1>7, <1>8, <1>9, <1>10, <1>11
    DEF WorkerNext, LoopStep

LEMMA SandboxTypeCorrect == WorkerSpec => []SandboxTypeOK
  <1>1. WorkerInit => SandboxTypeOK
    BY SlotsAssumption DEF WorkerInit, Init, SandboxTypeOK, Stages, Containers
  <1>2. WorkerSpec => []TypeOK
    BY WorkerImplementsQueue, TypeCorrect, PTL
  <1> QED
    BY <1>1, <1>2, WorkerTypeStep, PTL DEF WorkerSpec

\* WorkerTypeOK is an invariant of the worker.
THEOREM WorkerTypeCorrect == WorkerSpec => []WorkerTypeOK
  <1>1. TypeOK /\ SandboxTypeOK => WorkerTypeOK
    BY DEF WorkerTypeOK
  <1>2. WorkerSpec => []TypeOK
    BY WorkerImplementsQueue, TypeCorrect, PTL
  <1> QED
    BY <1>1, <1>2, SandboxTypeCorrect, PTL

-----------------------------------------------------------------------------
(* The slots. *)

Holders(p) == {w \in p : stage[w] \in WithSlot}

\* A loop that takes a slot, or gives one back, moves one unit between the
\* semaphore and the holders; other processes notice nothing.
LEMMA OneSlotMoves ==
    ASSUME SandboxTypeOK, SlotsConserved, NEW w \in Workers, NEW st \in Stages,
           stage' = [stage EXCEPT ![w] = st],
           \/ /\ stage[w] \notin WithSlot /\ st \in WithSlot
              /\ free[Home(w)] > 0
              /\ free' = [free EXCEPT ![Home(w)] = @ - 1]
           \/ /\ stage[w] \in WithSlot /\ st \notin WithSlot
              /\ free' = [free EXCEPT ![Home(w)] = @ + 1]
           \/ /\ stage[w] \in WithSlot <=> st \in WithSlot
              /\ UNCHANGED free
    PROVE  SlotsConserved'
  <1> USE SlotsAssumption
  <1> SUFFICES ASSUME NEW p \in Processes
               PROVE  free'[p] \in 0 .. Slots /\ Cardinality(Holders(p)') = Slots - free'[p]
    BY DEF SlotsConserved, Holders
  <1>1. free[p] \in 0 .. Slots /\ Cardinality(Holders(p)) = Slots - free[p]
    BY DEF SlotsConserved, Holders
  <1>2. IsFiniteSet(Holders(p))
    <2>1. IsFiniteSet(p) /\ Holders(p) \subseteq p
      BY ProcessAssumption DEF Holders
    <2> QED
      BY <2>1, FS_Subset
  <1>3. \A v \in p : v \in Workers /\ stage'[v] = IF v = w THEN st ELSE stage[v]
    BY HomeFacts DEF SandboxTypeOK
  <1>4. CASE p # Home(w)
    <2>1. Holders(p)' = Holders(p)
      BY <1>3, <1>4, HomeFacts DEF Holders
    <2>2. free'[p] = free[p]
      BY <1>4, HomeFacts DEF SandboxTypeOK
    <2> QED
      BY <1>1, <2>1, <2>2
  <1>5. CASE p = Home(w)
    <2>1. w \in p
      BY <1>5, HomeFacts
    <2>2. CASE stage[w] \notin WithSlot /\ st \in WithSlot
      <3>1. Holders(p)' = Holders(p) \cup {w} /\ w \notin Holders(p)
        BY <1>3, <2>1, <2>2 DEF Holders
      <3>2. Cardinality(Holders(p)') = Cardinality(Holders(p)) + 1
        BY <3>1, <1>2, FS_AddElement
      <3>3. free'[p] = free[p] - 1 /\ free[p] > 0
        BY <1>5, <2>2 DEF SandboxTypeOK
      <3> QED
        BY <1>1, <3>2, <3>3
    <2>3. CASE stage[w] \in WithSlot /\ st \notin WithSlot
      <3>1. Holders(p)' = Holders(p) \ {w} /\ w \in Holders(p)
        BY <1>3, <2>1, <2>3 DEF Holders
      <3>2. Cardinality(Holders(p)') = Cardinality(Holders(p)) - 1
        BY <3>1, <1>2, FS_RemoveElement
      <3>4. Cardinality(Holders(p)) # 0
        BY <3>1, <1>2, FS_EmptySet
      <3>3. free'[p] = free[p] + 1
        BY <1>5, <2>3 DEF SandboxTypeOK
      <3> QED
        BY <1>1, <3>2, <3>3, <3>4
    <2>4. CASE stage[w] \in WithSlot <=> st \in WithSlot
      <3>1. Holders(p)' = Holders(p) /\ free'[p] = free[p]
        BY <1>3, <2>1, <2>4 DEF Holders
      <3> QED
        BY <1>1, <3>1
    <2> QED
      BY <2>2, <2>3, <2>4
  <1> QED
    BY <1>4, <1>5

\* No slot of any process leaks or is handed out twice.
LEMMA SlotStep ==
    TypeOK /\ SandboxTypeOK /\ SlotsConserved /\ [WorkerNext]_allVars => SlotsConserved'
  <1> SUFFICES ASSUME TypeOK, SandboxTypeOK, SlotsConserved, [WorkerNext]_allVars
               PROVE  SlotsConserved'
    OBVIOUS
  <1> USE DEF WithSlot, Stages
  <1>1. ASSUME NEW w \in Workers, BeginRun(w) PROVE SlotsConserved'
    <2>1. stage[w] = "out"
      BY <1>1 DEF BeginRun, StartRun, Starting, SandboxTypeOK
    <2> QED
      BY <1>1, <2>1, OneSlotMoves DEF BeginRun, Advance
  <1>2. ASSUME NEW w \in Workers, Acquire(w) PROVE SlotsConserved'
    BY <1>2, OneSlotMoves DEF Acquire, Admitted, Advance
  <1>3. ASSUME NEW w \in Workers, DockerRun(w) PROVE SlotsConserved'
    BY <1>3, OneSlotMoves DEF DockerRun, Advance
  <1>4. ASSUME NEW w \in Workers, DockerRunFails(w) \/ DockerRm(w) PROVE SlotsConserved'
    <2>1. LeaveSlot(w) /\ stage[w] \in {"starting", "leaving"}
      BY <1>4 DEF DockerRunFails, DockerRm
    <2> QED
      BY <2>1, OneSlotMoves DEF LeaveSlot, Advance
  <1>5. ASSUME NEW w \in Workers, Deliver(w) \/ BodyRaises(w) PROVE SlotsConserved'
    <2>1. stage[w] = "up" /\ stage' = [stage EXCEPT ![w] = "leaving"] /\ UNCHANGED free
      BY <1>5 DEF Deliver, BodyRaises, Advance
    <2> QED
      BY <2>1, OneSlotMoves
  <1>6. ASSUME NEW w \in Workers, End(w) PROVE SlotsConserved'
    BY <1>6, OneSlotMoves DEF End, Advance
  <1>7. ASSUME UNCHANGED sandboxVars PROVE SlotsConserved'
    BY <1>7 DEF sandboxVars, SlotsConserved
  <1>8. ASSUME NEW w \in Workers, ReportError(w) \/ Work(w) \/ Aside(w) PROVE UNCHANGED sandboxVars
    BY <1>8 DEF ReportError, Work, Aside
  <1>9. ASSUME NEW p \in Processes, Die(p) PROVE SlotsConserved'
    <2> SUFFICES ASSUME NEW q \in Processes
                 PROVE  /\ free'[q] \in 0 .. Slots
                        /\ Cardinality(Holders(q)') = Slots - free'[q]
      BY DEF SlotsConserved, Holders
    <2>1. /\ stage' = [w \in Workers |-> IF w \in p THEN "out" ELSE stage[w]]
          /\ free' = [free EXCEPT ![p] = Slots]
      BY <1>9 DEF Die
    <2>2. CASE q = p
      <3>1. Holders(q)' = {}
        BY <2>1, <2>2, HomeFacts DEF Holders
      <3> QED
        BY <2>1, <2>2, <3>1, SlotsAssumption, FS_EmptySet DEF SandboxTypeOK
    <2>3. CASE q # p
      <3>1. \A v \in q : stage'[v] = stage[v]
        BY <2>1, <2>3, HomeFacts
      <3>2. Holders(q)' = Holders(q) /\ free'[q] = free[q]
        BY <2>1, <2>3, <3>1 DEF Holders, SandboxTypeOK
      <3> QED
        BY <3>2 DEF SlotsConserved, Holders
    <2> QED
      BY <2>2, <2>3
  <1>10. Outside \/ UNCHANGED allVars => UNCHANGED sandboxVars
    BY DEF Outside, allVars
  <1> QED
    BY <1>1, <1>2, <1>3, <1>4, <1>5, <1>6, <1>7, <1>8, <1>9, <1>10 DEF WorkerNext, LoopStep

\* Slots are conserved whatever fails: see SlotsConserved.
THEOREM SlotsAreConserved == WorkerSpec => []SlotsConserved
  <1>1. WorkerInit => SlotsConserved
    <2> SUFFICES ASSUME WorkerInit, NEW p \in Processes
                 PROVE  free[p] \in 0 .. Slots /\ Cardinality(Holders(p)) = Slots - free[p]
      BY DEF SlotsConserved, Holders
    <2>1. Holders(p) = {}
      BY HomeFacts DEF WorkerInit, Holders, WithSlot
    <2> QED
      BY <2>1, FS_EmptySet, SlotsAssumption DEF WorkerInit
  <1>2. WorkerSpec => []TypeOK
    BY WorkerImplementsQueue, TypeCorrect, PTL
  <1> QED
    BY <1>1, <1>2, SlotStep, SandboxTypeCorrect, PTL DEF WorkerSpec

-----------------------------------------------------------------------------
(* The line of a process's semaphore. *)

\* The line of a process holds its waiting loops, each of them once.
OwnLine(p) ==
    /\ \A i \in 1 .. Len(line[p]) : line[p][i] \in p /\ stage[line[p][i]] = "waiting"
    /\ \A w \in p : stage[w] = "waiting" => \E i \in 1 .. Len(line[p]) : line[p][i] = w
    /\ \A i, j \in 1 .. Len(line[p]) : line[p][i] = line[p][j] => i = j

LineInv == \A p \in Processes : OwnLine(p)

\* A process whose loops and line a step leaves alone.
LEMMA LineElsewhere ==
    ASSUME NEW p \in Processes, OwnLine(p), line'[p] = line[p],
           \A v \in p : stage'[v] = "waiting" <=> stage[v] = "waiting"
    PROVE  OwnLine(p)'
  BY DEF OwnLine

\* A step after which the same loops wait in the same lines.
LEMMA LineFrame ==
    ASSUME LineInv, UNCHANGED line,
           \A v \in Workers : stage'[v] = "waiting" <=> stage[v] = "waiting"
    PROVE  LineInv'
  BY HomeFacts, LineElsewhere DEF LineInv

\* A loop that joins the line of its process joins it at the end.
LEMMA LineJoin ==
    ASSUME SandboxTypeOK, LineInv, NEW w \in Workers, stage[w] = "out",
           stage' = [stage EXCEPT ![w] = "waiting"],
           line' = [line EXCEPT ![Home(w)] = Append(@, w)]
    PROVE  LineInv'
  <1> SUFFICES ASSUME NEW p \in Processes PROVE OwnLine(p)'
    BY DEF LineInv
  <1>1. \A v \in p : v \in Workers /\ Home(v) = p /\ stage'[v] = IF v = w THEN "waiting" ELSE stage[v]
    BY HomeFacts DEF SandboxTypeOK
  <1>2. line[p] \in Seq(Workers) /\ Len(line[p]) \in Nat
    BY DEF SandboxTypeOK
  <1>3. CASE p # Home(w)
    <2>1. line'[p] = line[p] /\ w \notin p
      BY <1>1, <1>3 DEF SandboxTypeOK
    <2>2. \A v \in p : stage'[v] = stage[v]
      BY <1>1, <2>1
    <2>3. OwnLine(p)
      BY DEF LineInv
    <2> QED
      BY <2>1, <2>2, <2>3, LineElsewhere
  <1>4. CASE p = Home(w)
    <2>1. line'[p] = Append(line[p], w) /\ w \in p
      BY <1>4, HomeFacts DEF SandboxTypeOK
    <2>2. /\ Len(line'[p]) = Len(line[p]) + 1
          /\ \A i \in 1 .. Len(line[p]) : line'[p][i] = line[p][i]
          /\ line'[p][Len(line[p]) + 1] = w
      BY <1>2, <2>1, AppendProperties
    <2>3. \A i \in 1 .. Len(line'[p]) : i \in 1 .. Len(line[p]) \/ i = Len(line[p]) + 1
      BY <1>2, <2>2
    <2>4. \A i \in 1 .. Len(line[p]) : /\ line[p][i] \in p /\ line[p][i] # w
                                       /\ stage[line[p][i]] = "waiting"
      BY DEF LineInv, OwnLine
    <2>5. \A i \in 1 .. Len(line'[p]) : line'[p][i] \in p /\ stage'[line'[p][i]] = "waiting"
      BY <1>1, <2>1, <2>2, <2>3, <2>4
    <2>6. Len(line[p]) + 1 \in 1 .. Len(line'[p]) /\ 1 .. Len(line[p]) \subseteq 1 .. Len(line'[p])
      BY <1>2, <2>2
    <2>7. \A v \in p : stage'[v] = "waiting" => \E i \in 1 .. Len(line'[p]) : line'[p][i] = v
      <3> SUFFICES ASSUME NEW v \in p, stage'[v] = "waiting"
                   PROVE  \E i \in 1 .. Len(line'[p]) : line'[p][i] = v
        OBVIOUS
      <3>1. CASE v = w
        BY <2>2, <2>6, <3>1
      <3>2. CASE v # w
        <4>1. PICK i \in 1 .. Len(line[p]) : line[p][i] = v
          BY <1>1, <3>2 DEF LineInv, OwnLine
        <4> QED
          BY <2>2, <2>6, <4>1
      <3> QED
        BY <3>1, <3>2
    <2>8. \A i, j \in 1 .. Len(line'[p]) : line'[p][i] = line'[p][j] => i = j
      <3> SUFFICES ASSUME NEW i \in 1 .. Len(line'[p]), NEW j \in 1 .. Len(line'[p]),
                          line'[p][i] = line'[p][j]
                   PROVE  i = j
        OBVIOUS
      <3>1. CASE i \in 1 .. Len(line[p]) /\ j \in 1 .. Len(line[p])
        BY <2>2, <3>1 DEF LineInv, OwnLine
      <3>2. CASE ~ (i \in 1 .. Len(line[p]) /\ j \in 1 .. Len(line[p]))
        BY <2>2, <2>3, <2>4, <3>2
      <3> QED
        BY <3>1, <3>2
    <2> QED
      BY <2>5, <2>7, <2>8 DEF OwnLine
  <1> QED
    BY <1>3, <1>4

\* The first of a line leaves it for a slot.
LEMMA LineServed ==
    ASSUME SandboxTypeOK, LineInv, NEW w \in Workers, Admitted(w),
           stage' = [stage EXCEPT ![w] = "starting"],
           line' = [line EXCEPT ![Home(w)] = Tail(@)]
    PROVE  LineInv'
  <1> SUFFICES ASSUME NEW p \in Processes PROVE OwnLine(p)'
    BY DEF LineInv
  <1>1. \A v \in p : v \in Workers /\ Home(v) = p /\ stage'[v] = IF v = w THEN "starting" ELSE stage[v]
    BY HomeFacts DEF SandboxTypeOK
  <1>2. line[p] \in Seq(Workers) /\ Len(line[p]) \in Nat
    BY DEF SandboxTypeOK
  <1>3. CASE p # Home(w)
    <2>1. line'[p] = line[p] /\ w \notin p
      BY <1>1, <1>3 DEF SandboxTypeOK
    <2>2. \A v \in p : stage'[v] = stage[v]
      BY <1>1, <2>1
    <2>3. OwnLine(p)
      BY DEF LineInv
    <2> QED
      BY <2>1, <2>2, <2>3, LineElsewhere
  <1>4. CASE p = Home(w)
    <2>1. line[p] # << >> /\ Head(line[p]) = w /\ line'[p] = Tail(line[p])
      BY <1>4 DEF Admitted, SandboxTypeOK
    <2>2. /\ Len(line[p]) > 0 /\ line[p][1] = w
          /\ Len(line'[p]) = Len(line[p]) - 1
          /\ \A i \in 1 .. Len(line'[p]) : line'[p][i] = line[p][i + 1]
      <3>1. Len(line[p]) > 0
        BY <1>2, <2>1, EmptySeq
      <3>2. w = line[p][1]
        BY <1>2, <2>1, <3>1
      <3>3. /\ Len(line'[p]) = Len(line[p]) - 1
            /\ \A i \in 1 .. Len(line'[p]) : line'[p][i] = line[p][i + 1]
        BY <1>2, <2>1, HeadTailProperties
      <3> QED
        BY <3>1, <3>2, <3>3
    <2>3. \A i \in 1 .. Len(line'[p]) : i + 1 \in 1 .. Len(line[p]) /\ i + 1 # 1
      BY <1>2, <2>2
    <2>4. \A i \in 1 .. Len(line'[p]) : line[p][i + 1] # w
      <3> SUFFICES ASSUME NEW i \in 1 .. Len(line'[p]), line[p][i + 1] = w PROVE FALSE
        OBVIOUS
      <3>1. 1 \in 1 .. Len(line[p])
        BY <1>2, <2>2
      <3>2. i + 1 = 1
        BY <2>2, <2>3, <3>1 DEF LineInv, OwnLine
      <3> QED
        BY <2>3, <3>2
    <2>5. \A i \in 1 .. Len(line'[p]) : line'[p][i] \in p /\ stage'[line'[p][i]] = "waiting"
      BY <1>1, <2>2, <2>3, <2>4 DEF LineInv, OwnLine
    <2>6. \A v \in p : stage'[v] = "waiting" => \E i \in 1 .. Len(line'[p]) : line'[p][i] = v
      <3> SUFFICES ASSUME NEW v \in p, stage'[v] = "waiting"
                   PROVE  \E i \in 1 .. Len(line'[p]) : line'[p][i] = v
        OBVIOUS
      <3>1. v # w /\ stage[v] = "waiting"
        BY <1>1
      <3>2. PICK i \in 1 .. Len(line[p]) : line[p][i] = v
        BY <3>1 DEF LineInv, OwnLine
      <3>3. i # 1 /\ i - 1 \in 1 .. Len(line'[p]) /\ (i - 1) + 1 = i
        BY <1>2, <2>2, <3>1, <3>2
      <3> QED
        BY <2>2, <3>2, <3>3
    <2>7. \A i, j \in 1 .. Len(line'[p]) : line'[p][i] = line'[p][j] => i = j
      <3> SUFFICES ASSUME NEW i \in 1 .. Len(line'[p]), NEW j \in 1 .. Len(line'[p]),
                          line'[p][i] = line'[p][j]
                   PROVE  i = j
        OBVIOUS
      <3>1. i + 1 = j + 1
        BY <2>2, <2>3 DEF LineInv, OwnLine
      <3> QED
        BY <3>1
    <2> QED
      BY <2>5, <2>6, <2>7 DEF OwnLine
  <1> QED
    BY <1>3, <1>4

\* Every step keeps the lines and the waiting loops together.
LEMMA LineStep == TypeOK /\ SandboxTypeOK /\ LineInv /\ [WorkerNext]_allVars => LineInv'
  <1> SUFFICES ASSUME TypeOK, SandboxTypeOK, LineInv, [WorkerNext]_allVars PROVE LineInv'
    OBVIOUS
  <1>1. ASSUME NEW w \in Workers, BeginRun(w) PROVE LineInv'
    <2>1. stage[w] = "out"
      BY <1>1 DEF BeginRun, StartRun, Starting, SandboxTypeOK, Stages
    <2> QED
      BY <1>1, <2>1, LineJoin DEF BeginRun, Advance
  <1>2. ASSUME NEW w \in Workers, Acquire(w) PROVE LineInv'
    BY <1>2, LineServed DEF Acquire, Advance
  <1>3. ASSUME NEW w \in Workers, DockerRun(w) \/ DockerRunFails(w) \/ Deliver(w)
                                  \/ BodyRaises(w) \/ DockerRm(w) \/ End(w)
        PROVE  LineInv'
    <2>1. /\ UNCHANGED line /\ stage[w] # "waiting"
          /\ \E st \in Stages \ {"waiting"} : stage' = [stage EXCEPT ![w] = st]
      BY <1>3 DEF DockerRun, DockerRunFails, Deliver, BodyRaises, DockerRm, End, LeaveSlot,
                  Advance, Stages
    <2>2. \A v \in Workers : stage'[v] = "waiting" <=> stage[v] = "waiting"
      BY <2>1 DEF SandboxTypeOK
    <2> QED
      BY <2>1, <2>2, LineFrame
  <1>4. ASSUME UNCHANGED sandboxVars PROVE LineInv'
    BY <1>4, LineFrame DEF sandboxVars
  <1>5. ASSUME NEW w \in Workers, ReportError(w) \/ Work(w) \/ Aside(w) PROVE UNCHANGED sandboxVars
    BY <1>5 DEF ReportError, Work, Aside
  <1>6. ASSUME NEW p \in Processes, Die(p) PROVE LineInv'
    <2>1. /\ stage' = [w \in Workers |-> IF w \in p THEN "out" ELSE stage[w]]
          /\ line' = [line EXCEPT ![p] = << >>]
      BY <1>6 DEF Die
    <2> SUFFICES ASSUME NEW q \in Processes PROVE OwnLine(q)'
      BY DEF LineInv
    <2>2. CASE q = p
      <3>1. line'[q] = << >> /\ Len(line'[q]) = 0
        BY <2>1, <2>2 DEF SandboxTypeOK
      <3>2. \A v \in q : stage'[v] # "waiting"
        BY <2>1, <2>2, HomeFacts
      <3> QED
        BY <3>1, <3>2 DEF OwnLine
    <2>3. CASE q # p
      <3>1. line'[q] = line[q] /\ \A v \in q : stage'[v] = stage[v]
        BY <2>1, <2>3, HomeFacts DEF SandboxTypeOK
      <3> QED
        BY <3>1, LineElsewhere DEF LineInv
    <2> QED
      BY <2>2, <2>3
  <1>7. Outside \/ UNCHANGED allVars => UNCHANGED sandboxVars
    BY DEF Outside, allVars
  <1> QED
    BY <1>1, <1>2, <1>3, <1>4, <1>5, <1>6, <1>7 DEF WorkerNext, LoopStep

\* A run that waits stands in its line behind one that can be served or behind
\* the holders of all slots, for every number of slots, loops and processes:
\* see NobodyForgotten.
THEOREM NobodyIsForgotten == WorkerSpec => []NobodyForgotten
  <1>1. WorkerInit => LineInv
    <2> SUFFICES ASSUME WorkerInit, NEW p \in Processes
                 PROVE  line[p] = << >> /\ Len(line[p]) = 0 /\ \A w \in p : stage[w] = "out"
      BY DEF LineInv, OwnLine
    <2> QED
      BY HomeFacts DEF WorkerInit
  <1>2. SandboxTypeOK /\ SlotsConserved /\ LineInv => NobodyForgotten
    <2> SUFFICES ASSUME SandboxTypeOK, SlotsConserved, LineInv PROVE NobodyForgotten
      OBVIOUS
    <2>1. ASSUME NEW w \in Workers, stage[w] = "waiting"
          PROVE  /\ \E i \in 1 .. Len(line[Home(w)]) : line[Home(w)][i] = w
                 /\ free[Home(w)] > 0 \/ \E v \in Home(w) : stage[v] \in WithSlot
      <3>1. Home(w) \in Processes /\ w \in Home(w)
        BY HomeFacts
      <3>2. free[Home(w)] \in 0 .. Slots /\ Cardinality(Holders(Home(w))) = Slots - free[Home(w)]
        BY <3>1 DEF SlotsConserved, Holders
      <3>3. ASSUME Holders(Home(w)) = {} PROVE free[Home(w)] > 0
        <4>1. Slots - free[Home(w)] = 0
          BY <3>2, <3>3, FS_EmptySet
        <4> QED
          BY <3>2, <4>1, SlotsAssumption
      <3> QED
        BY <2>1, <3>1, <3>3 DEF LineInv, OwnLine, Holders
    <2>2. ASSUME NEW p \in Processes, line[p] # << >>
          PROVE  Head(line[p]) \in p /\ stage[Head(line[p])] = "waiting"
      <3>1. line[p] \in Seq(Workers) /\ Len(line[p]) \in Nat
        BY DEF SandboxTypeOK
      <3>2. Len(line[p]) # 0 /\ Head(line[p]) = line[p][1]
        BY <2>2, <3>1, HeadTailProperties, EmptySeq
      <3>3. 1 \in 1 .. Len(line[p])
        BY <3>1, <3>2
      <3> QED
        BY <3>2, <3>3 DEF LineInv, OwnLine
    <2> QED
      BY <2>1, <2>2 DEF NobodyForgotten
  <1>3. WorkerSpec => []TypeOK
    BY WorkerImplementsQueue, TypeCorrect, PTL
  <1> QED
    BY <1>1, <1>2, <1>3, SandboxTypeCorrect, SlotsAreConserved, LineStep, PTL DEF WorkerSpec

-----------------------------------------------------------------------------
(* The containers. *)

Live(w)  == stage[w] \in {"up", "leaving"}
Fresh(w) == phase[w] = "claimed" \/ stage[w] \in {"waiting", "starting"}

\* OrphansExplained is inductive only with where container names come from: an
\* attempt the row has counted, which a run not yet started has still for itself.
ContainerInv ==
    /\ \A c \in up \cup stray : c[2] <= attempts[c[1]]
    /\ \A w \in Workers : Fresh(w) => Container(w) \notin up \cup stray
    /\ \A c \in up : c \in stray \/ \E w \in Workers : Live(w) /\ Container(w) = c
    /\ \A w \in Workers : Live(w) => Container(w) \in up \ stray

\* Two loops with a job never have the same container.
LEMMA ContainersDiffer ==
    ASSUME TypeOK, AttemptInv
    PROVE  \A v, w \in Workers :
              v # w /\ HasJob(v) /\ HasJob(w) => Container(v) # Container(w)
  BY DEF AttemptInv, Container, HasJob

\* A run that is fresh or live has a job.
LEMMA InRunHasJob ==
    ASSUME SandboxTypeOK
    PROVE  \A w \in Workers : Fresh(w) \/ Live(w) => HasJob(w)
  BY DEF SandboxTypeOK, Fresh, Live, HasJob

\* Loops may only let go of containers they have not begun, and rows be
\* rewritten, as long as no counter falls and no loop gets a job.
LEMMA ContainerFrame ==
    ASSUME ContainerInv, SandboxTypeOK, UNCHANGED <<attempts, up, stray>>,
           \A w \in Workers : Fresh(w)' => Fresh(w) /\ Container(w)' = Container(w),
           \A w \in Workers : Live(w)' <=> Live(w),
           \A w \in Workers : Live(w) => Container(w)' = Container(w)
    PROVE  ContainerInv'
  BY DEF ContainerInv

\* The names of containers are those of attempts that were handed out.
LEMMA ContainerStep ==
    TypeOK /\ AttemptInv /\ SandboxTypeOK /\ ContainerInv /\ [WorkerNext]_allVars
       => ContainerInv'
  <1> SUFFICES ASSUME TypeOK, AttemptInv, SandboxTypeOK, ContainerInv, [WorkerNext]_allVars
               PROVE  ContainerInv'
    OBVIOUS
  <1> DEFINE Frame ==
        /\ UNCHANGED <<attempts, up, stray>>
        /\ \A w \in Workers : Fresh(w)' => Fresh(w) /\ Container(w)' = Container(w)
        /\ \A w \in Workers : Live(w)' <=> Live(w)
        /\ \A w \in Workers : Live(w) => Container(w)' = Container(w)
  <1>a. ASSUME Frame PROVE ContainerInv'
    BY <1>a, ContainerFrame
  <1>b. \A w \in Workers : HasJob(w) => Container(w)[2] <= attempts[Container(w)[1]]
    BY DEF AttemptInv, Container, HasJob
  <1>c. ASSUME UNCHANGED <<job, att>> PROVE \A w \in Workers : Container(w)' = Container(w)
    BY <1>c DEF Container
  <1>1. ASSUME NEW w \in Workers, BeginRun(w) PROVE Frame
    <2>1. \A v \in Workers : phase'[v] = IF v = w THEN "running" ELSE phase[v]
      BY <1>1 DEF BeginRun, StartRun, TypeOK
    <2>2. \A v \in Workers : stage'[v] = IF v = w THEN "waiting" ELSE stage[v]
      BY <1>1 DEF BeginRun, Advance, SandboxTypeOK
    <2>3. phase[w] = "claimed" /\ stage[w] = "out" /\ UNCHANGED <<attempts, job, att, up, stray>>
      BY <1>1 DEF BeginRun, StartRun, Starting, rowVars, SandboxTypeOK
    <2> QED
      BY <1>c, <2>1, <2>2, <2>3 DEF Fresh, Live
  <1>2. ASSUME NEW w \in Workers, Acquire(w) PROVE Frame
    BY <1>2, <1>c DEF Acquire, Advance, vars, rowVars, workerVars, SandboxTypeOK, Fresh, Live
  <1>3. ASSUME NEW w \in Workers, DockerRun(w) PROVE ContainerInv'
    <2>1. /\ stage[w] = "starting" /\ up' = up \cup {Container(w)} /\ stray' = stray
          /\ UNCHANGED <<phase, job, att, attempts>>
      BY <1>3 DEF DockerRun, vars, rowVars, workerVars
    <2>2. \A v \in Workers : stage'[v] = IF v = w THEN "up" ELSE stage[v]
      BY <1>3 DEF DockerRun, Advance, SandboxTypeOK
    <2>3. \A v \in Workers : Container(v)' = Container(v)
      BY <2>1, <1>c
    <2>4. HasJob(w) /\ Container(w) \notin up \cup stray /\ phase[w] = "running"
      BY <2>1, InRunHasJob DEF ContainerInv, Fresh, SandboxTypeOK
    <2>5. \A c \in up' \cup stray' : c[2] <= attempts'[c[1]]
      BY <2>1, <2>4, <1>b DEF ContainerInv
    <2>6. \A v \in Workers : Fresh(v)' => v # w /\ Fresh(v)
      BY <2>1, <2>2, <2>4 DEF Fresh
    <2>7. \A v \in Workers : Fresh(v)' => Container(v)' \notin up' \cup stray'
      BY <2>1, <2>3, <2>4, <2>6, InRunHasJob, ContainersDiffer DEF ContainerInv
    <2>8. \A v \in Workers : Live(v)' <=> v = w \/ Live(v)
      BY <2>2 DEF Live
    <2>9. \A c \in up' : c \in stray' \/ \E v \in Workers : Live(v)' /\ Container(v)' = c
      BY <2>1, <2>3, <2>8 DEF ContainerInv
    <2>10. \A v \in Workers : Live(v)' => Container(v)' \in up' \ stray'
      BY <2>1, <2>3, <2>4, <2>8 DEF ContainerInv
    <2> QED
      BY <2>5, <2>7, <2>9, <2>10 DEF ContainerInv
  <1>4. ASSUME NEW w \in Workers, DockerRunFails(w) PROVE ContainerInv'
    <2>1. /\ stage[w] = "starting" /\ UNCHANGED <<phase, job, att, attempts>>
          /\ \E made \in SUBSET {Container(w)} : up' = up \cup made /\ stray' = stray \cup made
      BY <1>4 DEF DockerRunFails, vars, rowVars, workerVars
    <2>2. \A v \in Workers : stage'[v] = IF v = w THEN "left" ELSE stage[v]
      BY <1>4 DEF DockerRunFails, LeaveSlot, Advance, SandboxTypeOK
    <2>3. \A v \in Workers : Container(v)' = Container(v)
      BY <2>1, <1>c
    <2>4. HasJob(w) /\ phase[w] = "running"
      BY <2>1, InRunHasJob DEF Fresh, SandboxTypeOK
    <2>5. \A c \in up' \cup stray' : c[2] <= attempts'[c[1]]
      BY <2>1, <2>4, <1>b DEF ContainerInv
    <2>6. \A v \in Workers : (Fresh(v)' => v # w /\ Fresh(v)) /\ (Live(v)' <=> v # w /\ Live(v))
      BY <2>1, <2>2, <2>4 DEF Fresh, Live
    <2>7. \A v \in Workers : v # w /\ (Fresh(v) \/ Live(v)) => Container(v) # Container(w)
      BY <2>4, InRunHasJob, ContainersDiffer
    <2>8. ~ Live(w)
      BY <2>1 DEF Live
    <2>9. \A c \in up' : c \in stray' \/ \E v \in Workers : Live(v)' /\ Container(v)' = c
      BY <2>1, <2>3, <2>6, <2>8 DEF ContainerInv
    <2>10. \A v \in Workers : Live(v)' => Container(v)' \in up' \ stray'
      BY <2>1, <2>3, <2>6, <2>7 DEF ContainerInv
    <2>11. \A v \in Workers : Fresh(v)' => Container(v)' \notin up' \cup stray'
      BY <2>1, <2>3, <2>6, <2>7 DEF ContainerInv
    <2> QED
      BY <2>5, <2>9, <2>10, <2>11 DEF ContainerInv
  <1>5. ASSUME NEW w \in Workers, DockerRm(w) PROVE ContainerInv'
    <2>1. /\ stage[w] = "leaving" /\ UNCHANGED <<phase, job, att, attempts>>
          /\ \/ up' = up \ {Container(w)} /\ stray' = stray
             \/ stray' = stray \cup {Container(w)} /\ up' = up
      BY <1>5 DEF DockerRm, vars, rowVars, workerVars
    <2>2. \A v \in Workers : stage'[v] = IF v = w THEN "left" ELSE stage[v]
      BY <1>5 DEF DockerRm, LeaveSlot, Advance, SandboxTypeOK
    <2>3. \A v \in Workers : Container(v)' = Container(v)
      BY <2>1, <1>c
    <2>4. HasJob(w) /\ phase[w] # "claimed"
      BY <2>1, InRunHasJob DEF Live, SandboxTypeOK
    <2>5. \A c \in up' \cup stray' : c[2] <= attempts'[c[1]]
      BY <2>1, <2>4, <1>b DEF ContainerInv
    <2>6. \A v \in Workers : (Fresh(v)' => v # w /\ Fresh(v)) /\ (Live(v)' <=> v # w /\ Live(v))
      BY <2>1, <2>2, <2>4 DEF Fresh, Live
    <2>7. \A v \in Workers : v # w /\ (Fresh(v) \/ Live(v)) => Container(v) # Container(w)
      BY <2>4, InRunHasJob, ContainersDiffer
    <2>8. \A c \in up' : c \in stray' \/ \E v \in Workers : Live(v)' /\ Container(v)' = c
      BY <2>1, <2>3, <2>6 DEF ContainerInv
    <2>9. \A v \in Workers : Live(v)' => Container(v)' \in up' \ stray'
      BY <2>1, <2>3, <2>6, <2>7 DEF ContainerInv
    <2>10. \A v \in Workers : Fresh(v)' => Container(v)' \notin up' \cup stray'
      BY <2>1, <2>3, <2>6, <2>7 DEF ContainerInv
    <2> QED
      BY <2>5, <2>8, <2>9, <2>10 DEF ContainerInv
  <1>6. ASSUME NEW w \in Workers, Deliver(w) \/ BodyRaises(w) PROVE Frame
    <2>1. /\ stage[w] = "up" /\ stage' = [stage EXCEPT ![w] = "leaving"]
          /\ UNCHANGED <<attempts, up, stray, job, att>>
      BY <1>6 DEF Deliver, BodyRaises, Advance, FinishRun, Finish, vars, rowVars, workerVars
    <2>2. \A v \in Workers : phase'[v] = "claimed" => phase[v] = "claimed"
      BY <1>6 DEF Deliver, BodyRaises, FinishRun, vars, workerVars, TypeOK
    <2> QED
      BY <1>c, <2>1, <2>2 DEF Fresh, Live, SandboxTypeOK
  <1>7. ASSUME NEW w \in Workers, ReportError(w) PROVE Frame
    <2>1. UNCHANGED <<sandboxVars, attempts, job, att>>
      BY <1>7 DEF ReportError, FinishRun, Finish
    <2>2. \A v \in Workers : phase'[v] = "claimed" => phase[v] = "claimed"
      BY <1>7 DEF ReportError, FinishRun, TypeOK
    <2> QED
      BY <1>c, <2>1, <2>2 DEF Fresh, Live, sandboxVars
  <1>8. ASSUME NEW w \in Workers, End(w) PROVE Frame
    <2>1. Drop({w}, "idle") /\ UNCHANGED attempts
      BY <1>8 DEF End, CloseRun, FinishError, LateError, Release, Finish, rowVars
    <2>2. stage[w] = "left" /\ stage' = [stage EXCEPT ![w] = "out"] /\ UNCHANGED <<up, stray>>
      BY <1>8 DEF End, Advance
    <2>3. \A v \in Workers : v # w => /\ stage'[v] = stage[v] /\ phase'[v] = phase[v]
                                     /\ Container(v)' = Container(v)
      BY <2>1, <2>2 DEF Drop, Container, SandboxTypeOK
    <2>4. ~ Fresh(w)' /\ ~ Live(w)' /\ ~ Live(w)
      BY <2>1, <2>2 DEF Drop, Fresh, Live, SandboxTypeOK
    <2> QED
      BY <2>1, <2>2, <2>3, <2>4 DEF Fresh, Live
  <1>9. ASSUME NEW w \in Workers, NEW s \in Submissions, Claim(w, s), UNCHANGED sandboxVars
        PROVE  ContainerInv'
    <2>1. /\ attempts' = [attempts EXCEPT ![s] = @ + 1]
          /\ phase[w] = "idle" /\ phase' = [phase EXCEPT ![w] = "claimed"]
          /\ job' = [job EXCEPT ![w] = s] /\ att' = [att EXCEPT ![w] = attempts[s] + 1]
          /\ UNCHANGED <<stage, up, stray>>
      BY <1>9 DEF Claim, sandboxVars
    <2>2. \A r \in Submissions : attempts[r] \in Nat /\ attempts'[r] >= attempts[r]
      BY <2>1 DEF TypeOK
    <2>3. \A c \in up \cup stray : c[1] \in Submissions /\ c[2] \in Nat
      BY DEF SandboxTypeOK, Containers
    <2>4. \A c \in up' \cup stray' : c[2] <= attempts'[c[1]]
      BY <2>1, <2>2, <2>3 DEF ContainerInv
    <2>5. stage[w] = "out"
      BY <2>1 DEF SandboxTypeOK
    <2>6. \A v \in Workers : v # w => /\ Container(v)' = Container(v)
                                     /\ (Fresh(v)' <=> Fresh(v)) /\ (Live(v)' <=> Live(v))
      BY <2>1 DEF Container, Fresh, Live, TypeOK
    <2>7. ~ Live(w) /\ ~ Live(w)'
      BY <2>1, <2>5 DEF Live
    <2>8. Container(w)' = <<s, attempts[s] + 1>>
      BY <2>1 DEF Container, TypeOK
    <2>9. Container(w)' \notin up \cup stray
      <3> SUFFICES ASSUME Container(w)' \in up \cup stray PROVE FALSE
        OBVIOUS
      <3>1. attempts[s] + 1 <= attempts[s]
        BY <2>8 DEF ContainerInv
      <3> QED
        BY <2>2, <3>1
    <2>10. \A v \in Workers : Fresh(v)' => Container(v)' \notin up' \cup stray'
      BY <2>1, <2>6, <2>9 DEF ContainerInv
    <2>11. \A v \in Workers : Live(v)' => Container(v)' \in up' \ stray'
      BY <2>1, <2>6, <2>7 DEF ContainerInv
    <2>12. \A c \in up' : c \in stray' \/ \E v \in Workers : Live(v)' /\ Container(v)' = c
      BY <2>1, <2>6, <2>7 DEF ContainerInv
    <2> QED
      BY <2>4, <2>10, <2>11, <2>12 DEF ContainerInv
  <1>10. ASSUME NEW w \in Workers, Aside(w), ~ ClaimAny(w) PROVE Frame
    <2>1. UNCHANGED sandboxVars
      BY <1>10 DEF Aside
    <2>2. CASE GiveUp(w) \/ (GivingUp(w) /\ FinishError(w))
      <3>1. Drop({w}, "idle") /\ UNCHANGED attempts /\ phase[w] = "claimed"
        BY <2>2 DEF GiveUp, GivingUp, FinishError, Release, Finish, rowVars
      <3>2. stage[w] = "out" /\ phase'[w] = "idle"
        BY <3>1 DEF SandboxTypeOK, Drop
      <3>3. \A v \in Workers : v # w => phase'[v] = phase[v] /\ Container(v)' = Container(v)
        BY <3>1 DEF Drop, Container
      <3> QED
        BY <2>1, <3>1, <3>2, <3>3 DEF Fresh, Live, sandboxVars
    <2>3. CASE Heartbeat(w) \/ HeartbeatError(w)
      <3>1. UNCHANGED <<attempts, phase, job, att>>
        BY <2>3 DEF Heartbeat, HeartbeatError, rowVars
      <3> QED
        BY <2>1, <3>1, <1>c DEF Fresh, Live, sandboxVars
    <2>4. CASE Exit(w)
      <3>1. UNCHANGED <<attempts, job, att>> /\ phase' = [phase EXCEPT ![w] = "down"]
        BY <2>4 DEF Exit, rowVars
      <3> QED
        BY <2>1, <3>1, <1>c DEF Fresh, Live, sandboxVars, TypeOK
    <2> QED
      BY <1>10, <2>2, <2>3, <2>4 DEF Aside
  <1>11. ASSUME NEW w \in Workers, Work(w) PROVE Frame
    <2>1. UNCHANGED <<sandboxVars, attempts, phase, job, att>>
      BY <1>11 DEF Work, SetState
    <2> QED
      BY <2>1, <1>c DEF Fresh, Live, sandboxVars
  <1>12. ASSUME NEW p \in Processes, Die(p) PROVE ContainerInv'
    <2> DEFINE own(st) == {Container(w) : w \in {v \in p : stage[v] = st}}
    <2>1. /\ stage' = [w \in Workers |-> IF w \in p THEN "out" ELSE stage[w]]
          /\ Drop(p, "down") /\ UNCHANGED attempts
      BY <1>12 DEF Die, Crash, rowVars
    <2>2. PICK made \in SUBSET own("starting"), gone \in SUBSET own("leaving") :
             /\ up' = (up \cup made) \ gone
             /\ stray' = stray \cup made \cup own("up") \cup (own("leaving") \ gone)
      BY <1>12 DEF Die
    <2>3. p \subseteq Workers
      BY QueueAssumption
    <2>4. \A v \in Workers : v \notin p => /\ Container(v)' = Container(v)
                                        /\ (Fresh(v)' <=> Fresh(v)) /\ (Live(v)' <=> Live(v))
      BY <2>1 DEF Drop, Container, Fresh, Live
    <2>5. \A v \in p : ~ Fresh(v)' /\ ~ Live(v)'
      BY <2>1, <2>3 DEF Drop, Fresh, Live
    <2>6. \A c \in own("starting") \cup own("up") \cup own("leaving") :
             \E v \in p : c = Container(v) /\ (Fresh(v) \/ Live(v)) /\ HasJob(v)
      BY <2>3, InRunHasJob DEF Fresh, Live
    <2>7. \A v \in Workers : v \notin p /\ (Fresh(v) \/ Live(v)) =>
             Container(v) \notin own("starting") \cup own("up") \cup own("leaving")
      BY <2>3, <2>6, InRunHasJob, ContainersDiffer
    <2>8. own("up") \cup own("leaving") \subseteq up
      BY <2>3 DEF ContainerInv, Live
    <2>9. \A c \in up' \cup stray' : c \in up \cup stray \cup own("starting")
      BY <2>2, <2>8
    <2>10. \A c \in up' \cup stray' : c[2] <= attempts'[c[1]]
      BY <2>1, <2>3, <2>6, <2>9, <1>b DEF ContainerInv
    <2>11. \A v \in Workers : Fresh(v)' => Container(v)' \notin up' \cup stray'
      BY <2>4, <2>5, <2>7, <2>9 DEF ContainerInv
    <2>12. \A v \in Workers : Live(v)' => Container(v)' \in up' \ stray'
      <3> SUFFICES ASSUME NEW v \in Workers, Live(v)' PROVE Container(v)' \in up' \ stray'
        OBVIOUS
      <3>1. v \notin p /\ Live(v) /\ Container(v)' = Container(v)
        BY <2>4, <2>5
      <3>2. Container(v) \in up \ stray
        BY <3>1 DEF ContainerInv
      <3>3. Container(v) \notin own("starting") \cup own("up") \cup own("leaving")
        BY <2>7, <3>1
      <3> QED
        BY <2>2, <3>1, <3>2, <3>3
    <2>13. \A c \in up' : c \in stray' \/ \E v \in Workers : Live(v)' /\ Container(v)' = c
      <3> SUFFICES ASSUME NEW c \in up', c \notin stray'
                   PROVE  \E v \in Workers : Live(v)' /\ Container(v)' = c
        OBVIOUS
      <3>1. c \in up /\ c \notin stray /\ c \notin own("up") \cup own("leaving")
        BY <2>2
      <3>2. PICK v \in Workers : Live(v) /\ Container(v) = c
        BY <3>1 DEF ContainerInv
      <3>3. v \notin p
        BY <3>1, <3>2 DEF Live
      <3> QED
        BY <2>4, <3>2, <3>3
    <2> QED
      BY <2>10, <2>11, <2>12, <2>13 DEF ContainerInv
  <1>13. ASSUME Outside PROVE Frame
    <2>1. UNCHANGED <<sandboxVars, attempts, job, att>>
      BY <1>13 DEF Outside, ClientStep, Insert, SeeDegraded, Requeue, Reopen, Restart, Sigterm,
                   Tick, LateBeat, Elapse, rowVars, workerVars
    <2>2. \A v \in Workers : phase'[v] = "claimed" => phase[v] = "claimed"
      BY <1>13 DEF Outside, ClientStep, Insert, SeeDegraded, Requeue, Restart, Sigterm,
                   Tick, LateBeat, Elapse, workerVars, TypeOK
    <2> QED
      BY <2>1, <2>2, <1>c DEF Fresh, Live, sandboxVars
  <1>14. ASSUME UNCHANGED allVars PROVE Frame
    BY <1>14, <1>c DEF allVars, vars, rowVars, workerVars, sandboxVars, Fresh, Live
  <1>15. ASSUME NEW w \in Workers, Aside(w) PROVE ContainerInv'
    <2>1. CASE ClaimAny(w)
      BY <1>9, <1>15, <2>1 DEF ClaimAny, Aside
    <2>2. CASE ~ ClaimAny(w)
      BY <1>a, <1>10, <1>15, <2>2
    <2> QED
      BY <2>1, <2>2
  <1> HIDE DEF Frame
  <1> QED
    BY <1>a, <1>1, <1>2, <1>3, <1>4, <1>5, <1>6, <1>7, <1>8, <1>11, <1>12, <1>13, <1>14, <1>15
    DEF WorkerNext, LoopStep

\* No container outlives its run except through a crash or a docker command
\* that failed: see OrphansExplained.
THEOREM OrphansAreExplained == WorkerSpec => []OrphansExplained
  <1>1. WorkerInit => AttemptInv /\ ContainerInv
    BY DEF WorkerInit, Init, AttemptInv, HasJob, ContainerInv, Fresh, Live
  <1>2. ContainerInv => OrphansExplained
    BY DEF ContainerInv, OrphansExplained, Live
  <1>3. WorkerSpec => []TypeOK
    BY WorkerImplementsQueue, TypeCorrect, PTL
  <1> QED
    BY <1>1, <1>2, <1>3, SandboxTypeCorrect, StepImplements, AttemptStep, ContainerStep, PTL
    DEF WorkerSpec
=============================================================================
