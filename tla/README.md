# Verification of the stress-test agent

TLA+ models of the service under `src/`: a FastAPI front end, a Postgres table
used as a job queue, worker processes that run one pipeline per submission, a
budgeted model client behind a circuit breaker, a sandbox container per run with
a stress driver inside it, a replay log that doubles as the progress channel, and
the page that follows it.
Paths below are relative to `src/src/stressagent/` unless they start with
`sandbox/` or `migrations/`.

## The system and its parts

| Component | Code | State it keeps | Operations |
|---|---|---|---|
| Job queue | `db.py`, `worker.py`, `pipeline/run.py` | rows of `submissions` (state, attempts, lease, worker, result); worker loops; heartbeat tasks | `create_submission`, `claim_job`, `renew_lease`, `set_state`, `finish`, `_handle`, `worker_loop`, `run_submission`, `_heartbeat` |
| Pipeline | `pipeline/run.py`, `pipeline/stages.py`, `pipeline/context.py` | the `Context` of a run, files in the container, artifacts | `_execute`, `_find_counterexample`, `_author_and_stress`, `analyze`, `author_checker`, `author`, `validate`, `_calibrate_size`, `stress`, `explain` |
| Model client | `llm/client.py` | breaker (`failures`, `opened_at`), the row's `llm_calls` and `tokens_used` | `generate`, `is_open`, `record_success`, `record_failure` |
| Stress driver | `sandbox/driver.py`, `runner/docker_runner.py` (`exec_stream`), `stages.stress` | round, deadline, mismatch, event stream | `main`, `probe`, `shrink`, `shrink_candidates`, `pick_size` |
| Replay log and progress stream | `db.log_step`, `api/main.py` | `agent_steps`, `last_seq` of each stream | `log_step`, `get_steps`, `stream` |
| Sandbox | `runner/docker_runner.py` | one container per run, a semaphore of slots per process | `start`, `stop`, `put_file`, `exec`, `sandbox_slots` |
| Web client | `static/app.js`, `api/main.py` | the Run button, the result panel and log table, one `EventSource` per click, the shared variable `stream` | the submit handler, `finish`, `loadExtras`, `onerror`, reconnects |

How they interact: a client inserts a row; a worker loop leases it and starts
the pipeline and a heartbeat task; the pipeline calls the model client (three
kinds of node, up to six calls) and the sandbox (compiles, test runs, one long
driver stream) and writes its state, its steps and its artifacts to the
database; the API tails the steps. The database is all that API and worker
processes share. Within a worker process the loops share the breaker, the
connection pool and the container slots.

What is hard about it: leases, heartbeats and crashes decide who runs a row;
statements that read and write in two steps (resubmission, `MAX(seq) + 1`,
budget check and billing); one breaker for concurrent runs whose answers arrive
late; nested retry loops with a knob that survives them; a search under two
deadlines whose report crosses a pipe; a reader that tails a table other
transactions append to; runs that queue for a container slot while they hold a
lease; a page whose handlers overlap and share their panels.

## Modules

| Module | Models | Proofs |
|---|---|---|
| `SubmissionLifecycle` | what a client is promised about a submission (abstract) | |
| `JobQueue`, `MCJobQueue` | the table as a queue, worker loops, processes, heartbeats, requests | `JobQueueProofs`, `JobQueueRefinement` |
| `Worker` | `JobQueue` together with container slots and containers | `WorkerProofs` |
| `Pipeline` | one submission's runs, stage by stage | `PipelineProofs` |
| `ModelClient` | concurrent `generate` calls, budgets and the breaker | `ModelClientProofs` |
| `StressDriver` | driver, stdout stream and `stages.stress` | `StressDriverProofs` |
| `ProgressFeed` | what the readers of a submission's progress are promised (abstract) | |
| `ReplayLog` | `agent_steps` with concurrent writers and tailing streams, an implementation of `ProgressFeed` | `ReplayLogProofs` |
| `WebClient` | the page's handlers, its `EventSource`s and the endpoints they call | `WebClientProofs` |

Each module abstracts its neighbours to what it can observe of them: in
`JobQueue` a run is its writes to the row; in `Pipeline` a call of the model is
its kinds of answer and the driver is "a mismatch or none"; `ReplayLog` lets
runs overlap, which happens in `JobQueue` when a heartbeat is lost or late.

### JobQueue

`state`, `attempts`, `lease`, `worker_id` and `result` are the row's columns;
`phase`, `job`, `att`, `beat` and `due` are a loop's place in `worker_loop` /
`_handle` / `run_submission`, the row it was given and its heartbeat task. A
lease is a countdown that `Tick` decrements; time passes over a heartbeat that is
due only as a fault (`LateBeat`: a blocked event loop, a slow UPDATE), after which the
heartbeat may still come, before or after another loop's claim. Actions are one
statement or one await-free stretch each: `Insert`, `SeeDegraded`/`Requeue` (the
SELECT and the later UPDATE with its `AND state = 'DEGRADED'`), `Claim`,
`GiveUp`, `StartRun`, `SetState`, `FinishRun`, `CloseRun`, `Heartbeat`. Faults:
a process crashes with all its loops (`Crash`, `Restart`), SIGTERM, a `finish`
that raises, a `renew_lease` that raises, one that is late, an error while the
container is removed, after the run's own `finish`. `Faults` selects the kinds, `MaxFaults` bounds their number.

### Worker

Every step of a loop is an action of `JobQueue` conjoined with what it does to
the sandboxes: `stage` is the place in `run_submission`'s `async with` statements,
`line` and `free` are the waiters and the value of the semaphore of each process
(`asyncio.Semaphore` is first come, first served), `up` the containers on the
docker host. `BeginRun` joins the line, `Acquire` takes a slot, `DockerRun` and
`DockerRunFails` are `start`, `Work` and `Deliver` the writes of `_execute`,
`BodyRaises` an exception in it, `DockerRm` is `stop`, whose command may fail
unnoticed, `ReportError` the except clauses, which run after slot and container
are gone, and `End` the rest. `Die` crashes a process: its semaphore goes with
it, its containers stay, and docker commands under way may or may not take
effect. `stray` is history: containers that nobody will remove.

### Pipeline

`pc` is the place in `_execute`; each stage is an action whose outcome is chosen
freely among those the code distinguishes (verdict of the judge, validity and
speed of the authored programs, mismatch or not, the three exceptions of the
model client and any other exception). `limit` is the largest size at which the
current brute force answers in time, unknown to the code; `knob` is
`ctx.spec.size_knob_brute_max`, `spec` the stored artifact. `crowded` says that a program whose `exec` timed out
is still running in the container: `Exec` sets it, for programs and for the `py_compile`
of `CheckSyntax`, since `exec` kills the docker
client only, `LeftoverEnds` resets it, and while it holds any probe may be too
slow. `passed`, `sized` and `gens` are history. `CrashAndRerun` and `Resubmit` start a new run, which
keeps the row and the spec artifact only.

### ModelClient

`pc`, `attempt` per run and `failures`, `cooldown` (the time left of
`opened_at + reset_seconds`) for the process-wide breaker. `is_open`'s side
effects (half-open lets callers through) are in `Open`/`HalfOpen`; an await ends
an action, so answers of calls made before a trip arrive after it. The retry
delay is one sleep. `streak` is history: calls failed since the last success.

### StressDriver

A test case is its size. `driver` and `now`, `round`, `size`, `k`, `until` are
the loop variables of `main` and `shrink`; a probe takes `1 .. ProbeMax` time
units and finds a mismatch or not. `pipe` is the stdout of the driver; `host`
is `exec_stream` with its consumer `stress`. The driver may be killed or raise
(`Killed`), hang (`Stalled`), and the host's writes to the database may fail
(`NotesFail`), also the note that `stress` writes of the last event, the one
`exec_stream` makes up when it times out (`DriverTimeout`). `TimingAssumption` is the relation between the budgets and the
stream timeout that `stages.py:362` (`stress_time_budget + 90`) establishes for
a 30 s shrink budget and a probe of at most seven per-run timeouts (35 s).

### ReplayLog

`LogStep` is the subquery (`NextSeq`), `Commit`/`Refuse` the INSERT with its
unique constraint; a stream is `Read` (a snapshot), `Send` in order, `Check`.
As a `ProgressFeed`, the committed rows are the feed, a terminal row is a resolved
submission, what a connection was sent is what its reader received, and a commit,
a sent event, a `done` and a reconnect are its steps; all else changes nothing
a reader could see.
Runs may overlap without limit, crash, raise, overwrite states and be
resubmitted, and a row may be given up while a run that lost its lease still writes.

### WebClient

A handler is numbered by its click; the panel and the table remember whose report
and whose steps they show, which of the handler's calls of `finish` put them there, and
how many steps that report came after. An answer is shown the moment it is served. An action
is what runs between two awaits: `Click` up to the POST, `PostOk`/`PostFails`
after it, `Status` up to `loadExtras`, `Extras` to the end of `finish`. `finish` closes
whatever `stream` holds then; until it does, an `EventSource` whose response has ended
reconnects (`Over`, `Connect`) and is served from sequence number 0, to a second
`done` and a second `finish`. `onerror` looks at the shared variable too. The
endpoint is `PollSteps` (all unseen steps) and then `PollRow` or `Done`; the
worker is `Log` and `Settle`; somebody else may post the same contents (`Resubmit`).

## What the runs check

| Run | Checks | Bounds |
|---|---|---|
| `queue_faults` | `RunsBounded`, `Settles` | 1 row, 3 loops in 2 processes, 1 client, 2 attempts, 2 faults of all six kinds |
| `worker` | types (the queue's and the sandboxes'), `SlotsConserved`, `NobodyForgotten`, `OrphansExplained`, `OwnsRow`, `ReportMatchesState`, refinement of `SubmissionLifecycle`, `Settles` | 1 row, 1 process of 2 loops sharing 1 slot, 2 clients, 2 attempts, 3 faults among crash, failing finish, SIGTERM |
| `queue_lost_beat` | violation: `OwnsRow` | one failing `renew_lease` |
| `queue_resubmit` | violation: `GivesUpOnlyOnCrashes` | no fault at all |
| `client` | types, `BudgetBounded` (call and token overshoot), `TripsOnOutage`, `GenerateShrinks`, `Returns`, `Recovers` | 2 runs, 2 attempts, 2 outages, tokens 0 or 2 |
| `pipeline` | types, `CounterexampleVerified`, `SizeWasMeasured`, `FailingTestReported`, `GenerateCallsBounded`, `Progress`, `Ends` | 3 revisions (as in the code), 2 calibration rounds, estimates 0 and 20 clamped to 1 and 8, brute forces good for size 0, 2 and 20, 2 runs of a row |
| `pipeline_fallback` | violation: `FallbackOnEveryExit` | 1 run |
| `pipeline_undercut` | violation: `SizeIsLargestSustained` | 1 run, estimate 4, brute forces good for 4 and 20, 1 calibration round |
| `driver` | types, the sweep (`SmallSizesSwept`), shrinking (`ReportsSmallestFailure`, `SmallerSizesCleared`), the stream (`ToldTheOutcome`: rounds, report, and a found mismatch lost only with the driver; `TimeoutOnlyWhenStalled`), the deadlines (`EndsInTime`), `Ends` | 4 rounds, sizes 1 to 7, dense below 3, budgets 5 + 3, probes of 1 or 2 |
| `driver_big_report` | violation: `CounterexampleDelivered` | the same |
| `replay_log` | types, `RefusedOnlyByOverlap`, refinement of `ProgressFeed`, `StreamEnds` | 3 runs of 2 steps, 1 stream (streams do not affect one another) |
| `web_client` | types, `SecondFinishToBlame`, `TableComplete`, `ButtonWatched`, `ButtonReturns` | 1 content of the form, 2 clicks, 2 calls of `finish` each, 1 step, 3 failing requests, broken connections or resubmissions by others |

Why these bounds suffice to see the interesting cases: rows do not interact
except by waiting for slots, so one row with competing loops shows every race on
it. `queue_faults` has three loops, two of which share a process, and two faults:
a crash of the worker that took over from a crash, or a lost or late heartbeat and a
crash of the second runner. `worker` drops the second process and adds the slot:
the loop that has claimed a row again after a lapse or a resubmission meets the
other one's slot and container, and three faults hit two successive runs and the
signal. A line holds at most one loop in this run, since one row has one runner at a time;
longer lines are covered by the proof of `NobodyForgotten` only. A lost or late heartbeat and an error after the
run's own `finish` are left out there because `OwnsRow` and the refinement
do not survive them (`queue_lost_beat`); `queue_faults` has them. Two runs of the client
produce stragglers and a shared half-open probe, and with threshold 2 each can
trip the breaker alone or together. Three revisions are the code's own number;
two calibration rounds distinguish "halved once", "halved to the end" and "gave
up"; two runs show what a rerun inherits. `pipeline_undercut` allows one round, so
that the halving survives a rejection in the shortest trace. In the driver the sweep is two rounds
and two sizes are above it, shrinking has dense and geometric candidates, and
time can run out in either phase. On the page two clicks make one handler earlier and one later, and
two calls of `finish` are what it takes for them to meet; panel and table are told apart by
click and call, so one content is enough. Three faults are what it takes to leave an older
table beside a newer report: a stream that is refused, a resubmission by somebody else, a
failing `loadExtras`. The proofs lift these bounds for everything
but liveness.

### Disagreements between code and text

Each violation run exhibits one.

- `queue_lost_beat`: a single failing `renew_lease` ends the heartbeat task
  (`run.py:27-34`); the lease then lapses and a second worker starts the job
  while the first still runs.
- `queue_resubmit`: resubmitting a DEGRADED row keeps `attempts`; after three
  fault-free degraded runs the row is failed as one that crashes workers.
- `pipeline_fallback`: only the model client's exceptions are caught around the
  search, so any other one loses a failing test already in hand, against
  `run.py:193`.
- `pipeline_undercut`: `_calibrate_size` halves the knob in place. When the brute
  force it was halved for is rejected after all, the next revision is calibrated
  from the halved size, not from the estimate, and stressed there, against the
  docstring's "largest size knob the brute force can actually sustain". (A
  program left running by a timed-out `exec` of the rejected revision has the
  same effect, by slowing the probes of the next one.)
- `driver_big_report`: the report is one line, and `readline` takes 64 KiB.

Seen while modelling, and without a run of their own:

- The docstring of `log_step` says that two concurrent writers cannot pick the
  same number; they can, and the unique constraint makes the second one raise
  (`RefusedOnlyByOverlap` shows that it takes two runs). `db.py:3` describes one
  transaction for a transition and its step, the code uses two.
- `config.py:22` calls the budgets hard caps. They are looked at once per `generate`
  and each of up to three attempts is billed; `BudgetBounded` states how far they are
  overshot.
- A brute force too slow at size 1 is reported to the model as "brute force too
  slow", which `stages.py:31` says stays internal.
- Ten halvings of the default ceiling end at 97 and not at 1, so a brute force
  that is only fast below that is rejected, although `stages.py:28` says that halving
  ten times "reaches 1 from any starting point".
- `docker_runner.py:28` calls the semaphore a global cap; each worker process has
  one of its own (`SlotsConserved` is per process).
- A driver that dies between `mismatch` and `done` is reported as "no
  disagreement", since `stress` keeps nothing of the mismatch event. `LostOnlyWithDriver`,
  a part of `ToldTheOutcome`, says that a mismatch is lost without an error in no
  other way.
- An error after the run's own `finish` (while the container is removed) makes the except
  clause write FAILED over the report that was delivered. No text says otherwise and no
  property forbids it: `ReportMatchesState` and the refinement hold without such
  errors (`NoZombies`), `Settles` and `RunsBounded` hold with them, FAILED being terminal too.
- The comment at `client.py:81` says "Half-open: allow one probe through"; every caller
  that looks before the first answer is let through.
- The progress stream may say done before it has sent the last steps. The page asks for
  the steps again, and when the call of `finish` that showed the report also loads
  the table, nothing is missing (`TableComplete`). When an `EventSource` reconnects, the row is
  resubmitted meanwhile and the `loadExtras` of the second call fails, the table of the first
  stays beside the newer report; `TableComplete` says nothing of such a table.
- `app.js:318` says "The stream closes when the server finishes"; an `EventSource`
  reconnects instead, and a second `done` and `finish` follow when that is faster
  than the two requests of the first. The poll that `onerror` falls back to is made
  once, and may show the report of a row that is not finished.
- `TRANSITIONS` in `states.py` is never consulted, and the pipeline does not follow
  it: a run goes from JUDGING to AUTHORING, and to EXPLAINING from everywhere a
  failing official test is returned; ANALYZING and SHRINKING are never written.
- `scripts/submit.py:200` prints "already judged" for every existing row, also
  for one that is still running.

## Fairness

- `JobQueue`: weak fairness of `Tick` and of each loop's own steps. The event
  loop runs every ready task, and runs end as long as the awaited docker and
  model calls return. Clients, restarts, signals and faults are not fair.
  `Settles` assumes that some loop stays up for good.
- `Worker`: the same, with the end of a run split into its steps: docker commands
  return or fail, the body of `_execute` ends, and the semaphore wakes the first
  waiter of a free slot.
- `ModelClient`: weak fairness of each run inside `generate` and of time; no run
  has to call again, and the API need not come back. `Recovers` assumes it does.
- `Pipeline`: weak fairness of the run as a whole. Deadlines, exceptions,
  crashes and resubmissions are not fair.
- `StressDriver`: weak fairness of the driver while it works (its programs run
  under timeouts), of time over a stalled driver, and of the host.
- `ReplayLog`: weak fairness of each run, of giving up once all runs are over, and of
  each open stream.
- `WebClient`: rows settle (what `Settles` shows of the queue), requests are answered
  or fail, an `EventSource` keeps reconnecting and is served. Nobody has to click
  and nothing has to fail. `ButtonReturns` relies on failures being finitely
  many (`MaxFaults`): a connection that breaks for ever is retried for ever.

Deadlock checking is off where the modelled thing ends: a pipeline whose runs
are used up, a driver that has exited, a log whose runs are over, a page whose clicks are
used up. The queue, the worker and the client poll for ever and are checked for
deadlock.

## What is proved

All theorems hold for every value of the constants allowed by the named
assumptions of the modules.

- **Queue.** `TypeCorrect`; `RunsAreBounded` (no row is started more than
  `MAX_ATTEMPTS` times under every combination of faults), by `AttemptInv`: the
  number a loop holds is at most the row's counter, distinct from the number
  other loops hold, and no larger number was started. `RunnerOwnsRow` and
  `ReportIsConsistent` assume `NoZombies` (no failing and no late `renew_lease`, no error
  after the own `finish`), the assumption `queue_lost_beat` shows to be needed;
  their invariant `OwnerInv` says that a loop's heartbeat is on, due before the
  lease runs out, and that the lease is positive while it runs, so no `Claim`
  is enabled. `QueueImplementsLifecycle`: under the same assumption every step
  of the queue is a step of `SubmissionLifecycle` or a stutter.
- **Worker.** `WorkerImplementsQueue`: every step of `Worker` is a step of `JobQueue`
  or leaves its variables alone, so every theorem about the queue holds of the
  worker too (`WorkerRunsBounded`, and without
  zombies `WorkerOwnsRow`, `WorkerReportIsConsistent` and `WorkerImplementsLifecycle`;
  `WorkerTypeCorrect` adds the sandboxes' types). `SlotsAreConserved`: it is
  inductive with the type invariant, because the number of a process's runs
  between `docker run` and `docker rm` changes by one exactly when its semaphore
  does (`OneSlotMoves`). `OrphansAreExplained`: containers, which the model names
  by row and attempt, are different for different runs because the attempts that
  loops hold on one row differ (`AttemptInv` of the queue), so no `docker rm` takes another run's container.
  `NobodyIsForgotten` is the half of a run's getting its slot that needs no fairness:
  a loop that waits is in its process's line, the line's head is a loop that waits,
  and a slot is free or held by a run that will return it. Its invariant `LineInv`
  says that a line holds exactly the waiting loops of its process, each once (`OwnLine`), and
  is kept by joining, by service from the front and by a death of the whole process.
- **Model client.** `BudgetIsBounded`: by `BudgetInv`, which adds
  to the bounds the attempt the run is in, because the budget is only known to
  hold when the loop starts. `BreakerTripsOnOutage`: by `BreakerInv`, the
  breaker's counter never exceeds the calls failed since the last success.
  `GenerateIsBounded`: `StepsLeft`, at most `3 * Attempts`, falls with every step a
  run takes inside `generate` and with nothing else, so `Returns` needs fairness only
  for the steps to be taken.
- **Pipeline.** `TypeCorrect`, with `AuthorInv` (programs are numbered by the
  revision that wrote them), and the four safety properties, from `PipelineInv`, whose parts say
  which gates have been passed at each `pc` (`GateInv`), where the counterexample
  at hand came from (`FindInv`, `FreeInv`) and how many calls are left
  (`CallInv`). `RowsMakeProgress` proves `Progress`, which is what `Ends` rests on:
  `Measure` counts the runs, revisions, calibration rounds and stages left, and the
  program and the deadline each run may still have to see end. A stage is worth two,
  because it may leave a program running (`OneStepIsWorthTwo`), a revision what its
  stages cost (`OneRevisionCosts`), a run what its revisions cost (`RunIsPaid`). The
  type invariant and `ValueInv` keep it a natural number. So a row can take only so
  many steps, whoever takes them; `Ends` adds that it stops in a terminal state.
- **Stress driver.** All safety properties. `DriverEndsInTime` and
  `WorkingDriverIsHeard` rest on `Timing`: in the loop the silence of the stream
  is bounded by the clock, while shrinking by what is left of the shrink budget.
  `OutcomeIsTold` rests on `Stream`: `done` is the last
  event, repeats the driver's report and is written only by an exiting driver, which
  reports a mismatch if it found one (so one that is lost was lost with the driver).
  `ReportIsSmallest` and `ReportIsSearchedFor` rest on `Findings` and on
  `NextCandidateFact`, which takes the existence of least elements from the
  well-foundedness of `<`. `SweepIsDense` needs only that the sweep's sizes
  follow the rounds.
- **Replay log.** `LogHasNoGap`, `OnlyOverlapRefuses`, `StreamsSkipNothing`: a
  number under way is free or taken, never beyond the next one (`LogInv`), and
  what a stream has still to send follows its cursor without a gap
  (`StreamInv`). From these, `LogImplementsFeed`: each step of runs, streams and
  clients is one of `ProgressFeed` or a stutter (`RunFeed`, `SendFeed`, `FeedStep`).
- **Web client.** `TypeCorrect`; `OnlySecondFinishesHarm`, by `CallInv` (what a
  handler's place, its `EventSource` and the numbers of its `finish` calls say about
  each other) and `CleanInv` (as long as no earlier handler has finished twice, all
  earlier ones are over and the last one owns the panel and `stream`);
  `TableIsComplete`, by `TableInv`: reports come after no more steps than are
  logged; a call of `finish` fills the panel before the table, each once, so a table that
  the same call filled has at least the report's steps; and as long as no earlier
  handler has finished twice, panel and table are the same handler's. It does not promise that a
  table filled by another call is complete, which the code does not ensure. `ButtonIsWatched` is what `ButtonReturns` rests on: while
  the button is disabled, a POST or a `finish` is under way or the `EventSource` in
  `stream`, the one that `onerror` looks at, is alive.

Only model-checked: all liveness properties (`Settles`, `Returns`, `Recovers`, both
`Ends`, `StreamEnds`, `ButtonReturns`), because temporal reasoning under fairness
and ENABLED is out of the prover's reach. What they need besides fairness is proved
where it is hard: `Progress` for the pipeline's `Ends`, `GenerateShrinks` for `Returns`,
`NobodyForgotten` for the runs that `Settles` waits for, `EndsInTime` and
`TimeoutOnlyWhenStalled` for the driver's `Ends`, `ButtonWatched` for `ButtonReturns`.
The queue's own `TypeOK` is proved under all faults (`TypeCorrect`) and checked as a
part of `WorkerTypeOK`; `queue_faults` does not repeat it. No invariant of a passing run is left
without a proof.

## What is not modelled

Prompts, schemas and report texts, output comparison, the limits docker enforces,
the seed arithmetic of the driver, the page's sample editor, theme and stage list,
and the command-line scripts: each is data or sequential I/O without state that
others share. `PROJECT.json` lists them with their reasons. One hazard has no
property: the log's contents are numbers here, so nothing relates a state of the
row to its audit entry (`db.py:163`).

## Plan

The modules were written in the order queue and lifecycle, model client, pipeline,
stress driver, replay log, worker and sandboxes, web client. What would come next:

1. A composition of `Worker` and `ReplayLog` in which a step carries the state it
   announces, so that overlapping runs come from lapsed leases and the missing
   transaction around state and step can be stated.
2. `WebClient` on top of `ReplayLog`'s stream instead of its own `PollSteps`.
3. `TRANSITIONS` as a specification of the pipeline's writes, once the code
   consults it.
