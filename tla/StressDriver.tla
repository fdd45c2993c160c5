---------------------------- MODULE StressDriver ----------------------------
(***************************************************************************)
(* The stress loop: sandbox/driver.py inside the container, its stdout     *)
(* read by exec_stream, and stages.stress, which consumes the events.      *)
(*                                                                         *)
(* A test case is known by its size only, and whether it tells the program *)
(* from the reference is chosen freely, so that a generator that fails, an *)
(* input its validator rejects and a brute force that is too slow are all  *)
(* probes that find nothing.  Time is counted in units of which a probe    *)
(* takes at least one; the driver's own statements take none.              *)
(***************************************************************************)
EXTENDS Integers, Sequences

CONSTANTS
    Rounds,         \* --rounds
    SizeMin,        \* --size-min
    SizeMax,        \* --size-max
    SeedsPerSize,   \* --seeds-per-size
    DenseSizes,     \* shrink_candidates sweeps all sizes below this one (31)
    ProgressEvery,  \* rounds between two progress events (25)
    TimeBudget,     \* --time-budget
    ShrinkBudget,   \* the time shrinking may add (30)
    ProbeMax,       \* the longest a probe takes: five programs, each limited
    StreamTimeout,  \* exec_stream's timeout for one event
    LineLimit,      \* largest size whose report fits the 64 KiB readline takes
    NotesFail       \* whether the database may refuse a note or an artifact

ASSUME DriverAssumption ==
    /\ Rounds \in Nat /\ SeedsPerSize \in Nat \ {0} /\ ProgressEvery \in Nat \ {0}
    /\ SizeMin \in Nat \ {0} /\ SizeMax \in Nat
    /\ DenseSizes \in Nat \ {0}
    /\ TimeBudget \in Nat /\ ShrinkBudget \in Nat /\ ProbeMax \in Nat \ {0}
    /\ StreamTimeout \in Nat /\ LineLimit \in Nat
    /\ NotesFail \in BOOLEAN

\* What stages.stress relies on when it asks for stress_time_budget + 90.
ASSUME TimingAssumption ==
    /\ TimeBudget + ProbeMax <= StreamTimeout
    /\ ShrinkBudget + ProbeMax <= StreamTimeout

VARIABLES
    \* The driver.
    driver,         \* loop, shrinking, reporting, exited; killed or stalled
    now,            \* time since the driver started
    round,          \* the for loop of main
    found,          \* size of the first mismatch, 0 = none
    size,           \* shrink: the candidate size at hand, 0 = none left
    k,              \* shrink: seeds tried at this size
    steps,          \* shrink: probes made
    until,          \* shrink: its deadline
    best,           \* size of the mismatch to report, 0 = none
    \* Its stdout.
    pipe,           \* events written and not yet read
    silence,        \* time since the last event was written
    \* exec_stream and stress.
    host,           \* reading, returned or raised
    rounds_run,     \* ctx.rounds_run
    shrink_steps,   \* ctx.shrink_steps
    result,         \* size of the Mismatch stress returns, 0 = None
    \* History.
    tried,          \* sizes probed by the rounds
    failed,         \* sizes at which some probe found a mismatch
    cleared         \* sizes all of whose seeds passed while shrinking

driverVars == <<driver, now, round, found, size, k, steps, until, best>>
hostVars   == <<host, rounds_run, shrink_steps, result>>
history    == <<tried, failed, cleared>>
vars       == <<driverVars, pipe, silence, hostVars, history>>

Least(m, n)    == IF m <= n THEN m ELSE n
Greatest(m, n) == IF m >= n THEN m ELSE n

-----------------------------------------------------------------------------
(* Sizes. *)

\* SMALL_SWEEP_FRACTION of the rounds.
sweep_rounds == Greatest(1, Rounds \div 2)

\* Mutant of swept: the smallest size is left out.
sweptAbove(i) == SizeMin + 1 + (i % Least(SizeMax - SizeMin + 1, sweep_rounds))

swept(i) == SizeMin + (i % Least(SizeMax - SizeMin + 1, sweep_rounds))

\* The sizes pick_size may answer in round i: one size while sweeping, and
\* then a size spread over the whole range by a fixed sequence of fractions.
pick_size(i) ==
    IF SizeMax <= SizeMin THEN {SizeMin}
    ELSE IF i < sweep_rounds THEN {swept(i)}
    ELSE SizeMin .. SizeMax

\* The geometric part of shrink_candidates.
climb[n \in Nat] ==
    IF n = 0 THEN DenseSizes
    ELSE Greatest(climb[n - 1] + 1, (3 * climb[n - 1]) \div 2)

shrink_candidates(f) ==
    {s \in 1 .. f - 1 : s < DenseSizes \/ \E n \in 0 .. f : s = climb[n]}

\* Mutant of NextCandidate: the largest size first.
LargestCandidate(f, s) ==
    LET smaller == {c \in shrink_candidates(f) : s = 0 \/ c < s} IN
    IF smaller = {} THEN 0 ELSE CHOOSE c \in smaller : \A d \in smaller : d <= c

\* The candidate after s for a mismatch of size f: smallest first.
NextCandidate(f, s) ==
    LET larger == {c \in shrink_candidates(f) : c > s} IN
    IF larger = {} THEN 0 ELSE CHOOSE c \in larger : \A d \in larger : c <= d

-----------------------------------------------------------------------------
(* The driver. *)

Events == [event : {"progress", "mismatch", "shrink", "done"},
           rounds : Nat, size : Nat, steps : Nat]

Event(kind, n, s, j) == [event |-> kind, rounds |-> n, size |-> s, steps |-> j]

Progress == IF round % ProgressEvery = 0 THEN <<Event("progress", round, 0, 0)>> ELSE <<>>

\* The events go to stdout, flushed; d is the time the step took.
Write(events, d) ==
    /\ pipe' = pipe \o events
    /\ silence' = IF events = <<>> THEN silence + d ELSE 0

\* A probe that takes d.
probe(d) == now' = now + d

\* The for loop of main goes on.
InTime == round < Rounds /\ now <= TimeBudget

RoundPasses(d, s) ==
    /\ driver = "loop"
    /\ InTime
    /\ s \in pick_size(round)
    /\ probe(d)
    /\ Write(Progress, d)
    /\ round' = round + 1
    /\ tried' = tried \cup {s}
    /\ UNCHANGED <<driver, found, size, k, steps, until, best, failed, cleared, hostVars>>

\* Mutant of ShrinkDeadline: shrinking gets its time whatever has been used up.
ShrinkDeadlineAnew(t) == t + ShrinkBudget

ShrinkDeadline(t) == Least(TimeBudget + ShrinkBudget, t + ShrinkBudget)

\* The round finds a mismatch, which is announced and then shrunk.
RoundFails(d, s) ==
    /\ driver = "loop"
    /\ InTime
    /\ s \in pick_size(round)
    /\ probe(d)
    /\ Write(Progress \o <<Event("mismatch", 0, s, 0)>>, d)
    /\ driver' = "shrinking"
    /\ found' = s
    /\ size' = NextCandidate(s, 0)
    /\ until' = ShrinkDeadline(now')
    /\ tried' = tried \cup {s}
    /\ failed' = failed \cup {s}
    /\ UNCHANGED <<round, k, steps, best, cleared, hostVars>>

\* The time or the rounds are used up without a mismatch.
RoundsOver ==
    /\ driver = "loop"
    /\ ~ InTime
    /\ Write(<<Event("done", round, 0, 0)>>, 0)
    /\ driver' = "exited"
    /\ UNCHANGED <<now, round, found, size, k, steps, until, best, hostVars, history>>

\* Mutant of ShrinkPasses: one seed too many at every size.
ShrinkPassesOneMore(d) ==
    /\ driver = "shrinking"
    /\ size # 0 /\ now <= until
    /\ probe(d)
    /\ Write(<<>>, d)
    /\ steps' = steps + 1
    /\ IF k = SeedsPerSize
         THEN /\ k' = 0 /\ size' = NextCandidate(found, size)
              /\ cleared' = cleared \cup {size}
         ELSE k' = k + 1 /\ UNCHANGED <<size, cleared>>
    /\ UNCHANGED <<driver, round, found, until, best, tried, failed, hostVars>>

\* A seed at a smaller size passes; after the last one, the next size.
ShrinkPasses(d) ==
    /\ driver = "shrinking"
    /\ size # 0 /\ now <= until
    /\ probe(d)
    /\ Write(<<>>, d)
    /\ steps' = steps + 1
    /\ IF k + 1 = SeedsPerSize
         THEN /\ k' = 0 /\ size' = NextCandidate(found, size)
              /\ cleared' = cleared \cup {size}
         ELSE k' = k + 1 /\ UNCHANGED <<size, cleared>>
    /\ UNCHANGED <<driver, round, found, until, best, tried, failed, hostVars>>

\* A seed at a smaller size fails: that is the report.
ShrinkFails(d) ==
    /\ driver = "shrinking"
    /\ size # 0 /\ now <= until
    /\ probe(d)
    /\ Write(<<Event("shrink", 0, size, 0)>>, d)
    /\ steps' = steps + 1
    /\ best' = size
    /\ failed' = failed \cup {size}
    /\ driver' = "reporting"
    /\ UNCHANGED <<round, found, size, k, until, tried, cleared, hostVars>>

\* Mutant of ShrinkOver: the candidate at hand is reported, failed or not.
ShrinkOverAtCandidate ==
    /\ driver = "shrinking"
    /\ size = 0 \/ now > until
    /\ best' = IF size = 0 THEN found ELSE size
    /\ driver' = "reporting"
    /\ UNCHANGED <<now, round, found, size, k, steps, until>>
    /\ UNCHANGED <<pipe, silence, hostVars, history>>

\* No candidate or no time left: the report is the mismatch as found.
ShrinkOver ==
    /\ driver = "shrinking"
    /\ size = 0 \/ now > until
    /\ best' = found
    /\ driver' = "reporting"
    /\ UNCHANGED <<now, round, found, size, k, steps, until>>
    /\ UNCHANGED <<pipe, silence, hostVars, history>>

Report ==
    /\ driver = "reporting"
    /\ Write(<<Event("done", round + 1, best, steps)>>, 0)
    /\ driver' = "exited"
    /\ UNCHANGED <<now, round, found, size, k, steps, until, best, hostVars, history>>

-----------------------------------------------------------------------------
(* The container. *)

Working == {"loop", "shrinking", "reporting"}

\* The container runs out of memory or is removed, or the driver itself raises,
\* as run does on output that is not UTF-8.
Killed ==
    /\ driver \in Working
    /\ driver' = "killed"
    /\ UNCHANGED <<now, round, found, size, k, steps, until, best>>
    /\ UNCHANGED <<pipe, silence, hostVars, history>>

\* The driver does not come back from a probe.
Stalled ==
    /\ driver \in Working
    /\ driver' = "stalled"
    /\ UNCHANGED <<now, round, found, size, k, steps, until, best>>
    /\ UNCHANGED <<pipe, silence, hostVars, history>>

\* Time passes over a stalled driver.
Wait ==
    /\ driver = "stalled"
    /\ silence <= StreamTimeout
    /\ silence' = silence + 1
    /\ UNCHANGED <<driverVars, pipe, hostVars, history>>

-----------------------------------------------------------------------------
(* exec_stream and stress. *)

Reading(kind) ==
    /\ host = "reading"
    /\ pipe # <<>> /\ Head(pipe).event = kind
    /\ pipe' = Tail(pipe)

\* A handler ends by writing to the database: the host goes on as h, or it raises.
Noted(h) == IF NotesFail THEN {h, "raised"} ELSE {h}

OnProgress ==
    /\ Reading("progress")
    /\ rounds_run' = Head(pipe).rounds
    /\ host' \in Noted("reading")
    /\ UNCHANGED <<driverVars, silence, shrink_steps, result, history>>

OnMismatch ==
    /\ Reading("mismatch")
    /\ host' \in Noted("reading")
    /\ UNCHANGED <<driverVars, silence, rounds_run, shrink_steps, result, history>>

OnShrink ==
    /\ Reading("shrink")
    /\ shrink_steps' = shrink_steps + 1
    /\ host' \in Noted("reading")
    /\ UNCHANGED <<driverVars, silence, rounds_run, result, history>>

\* The report is saved and returned; without one, what was run is noted.
OnDone ==
    /\ Reading("done")
    /\ Head(pipe).size <= LineLimit
    /\ rounds_run' = Head(pipe).rounds
    /\ shrink_steps' = IF Head(pipe).size = 0 THEN shrink_steps ELSE Head(pipe).steps
    /\ host' \in Noted("returned")
    /\ result' = IF host' = "returned" THEN Head(pipe).size ELSE 0
    /\ UNCHANGED <<driverVars, silence, history>>

\* readline raises on a line longer than the stream's limit.
LineTooLong ==
    /\ Reading("done")
    /\ Head(pipe).size > LineLimit
    /\ host' = "raised"
    /\ UNCHANGED <<driverVars, silence, rounds_run, shrink_steps, result, history>>

\* Mutant of EndOfStream: the process is gone, so the stream is over.
EndOfStreamUnread ==
    /\ host = "reading"
    /\ driver \in {"exited", "killed"}
    /\ host' = "returned"
    /\ UNCHANGED <<driverVars, pipe, silence, rounds_run, shrink_steps, result, history>>

\* Mutant of EndOfStream: only a driver that said done ends the stream.
EndOfStreamDone ==
    /\ host = "reading"
    /\ pipe = <<>> /\ driver = "exited"
    /\ host' = "returned"
    /\ UNCHANGED <<driverVars, pipe, silence, rounds_run, shrink_steps, result, history>>

\* End of file without a done event: stress returns what it has.
EndOfStream ==
    /\ host = "reading"
    /\ pipe = <<>> /\ driver \in {"exited", "killed"}
    /\ host' = "returned"
    /\ UNCHANGED <<driverVars, pipe, silence, rounds_run, shrink_steps, result, history>>

\* Mutant of TimedOut: the timeout is taken for the whole stream.
TimedOutOverall == now > StreamTimeout

\* wait_for gives up on the next event.
TimedOut == silence > StreamTimeout

\* exec_stream then makes up a done event without a report, which stress notes.
DriverTimeout ==
    /\ host = "reading"
    /\ pipe = <<>> /\ driver \in Working \cup {"stalled"}
    /\ TimedOut
    /\ host' \in Noted("returned")
    /\ UNCHANGED <<driverVars, pipe, silence, rounds_run, shrink_steps, result, history>>

-----------------------------------------------------------------------------

Init ==
    /\ driver = "loop" /\ now = 0 /\ round = 0 /\ found = 0
    /\ size = 0 /\ k = 0 /\ steps = 0 /\ until = 0 /\ best = 0
    /\ pipe = <<>> /\ silence = 0
    /\ host = "reading" /\ rounds_run = 0 /\ shrink_steps = 0 /\ result = 0
    /\ tried = {} /\ failed = {} /\ cleared = {}

Drive ==
    \/ \E d \in 1 .. ProbeMax, s \in SizeMin .. Greatest(SizeMin, SizeMax) :
          RoundPasses(d, s) \/ RoundFails(d, s)
    \/ RoundsOver
    \/ \E d \in 1 .. ProbeMax : ShrinkPasses(d) \/ ShrinkFails(d)
    \/ ShrinkOver
    \/ Report

Consume ==
    \/ OnProgress
    \/ OnMismatch
    \/ OnShrink
    \/ OnDone
    \/ LineTooLong
    \/ EndOfStream
    \/ DriverTimeout

Next == Drive \/ Killed \/ Stalled \/ Wait \/ Consume

Spec == Init /\ [][Next]_vars

(* The driver's programs run under timeouts, the event loop reads on, and   *)
(* time passes.  Nothing need kill or stall the driver.                     *)
FairSpec == Spec /\ WF_vars(Drive) /\ WF_vars(Wait) /\ WF_vars(Consume)

-----------------------------------------------------------------------------
(* Properties. *)

\* Every variable has its type.
TypeOK ==
    /\ driver \in Working \cup {"exited", "killed", "stalled"}
    /\ now \in Nat /\ silence \in Nat /\ until \in Nat /\ steps \in Nat
    /\ round \in 0 .. Rounds
    /\ found \in Nat /\ size \in Nat /\ best \in Nat /\ result \in Nat
    /\ k \in 0 .. SeedsPerSize - 1
    /\ pipe \in Seq(Events)
    /\ host \in {"reading", "returned", "raised"}
    /\ rounds_run \in Nat /\ shrink_steps \in Nat
    /\ tried \subseteq Nat /\ failed \subseteq Nat /\ cleared \subseteq Nat

\* Once the first half of the rounds is over every one of the smallest sizes,
\* as many as there were rounds or sizes, has been probed: the sweep is dense.
SmallSizesSwept ==
    round >= sweep_rounds =>
        SizeMin .. SizeMin + Least(SizeMax - SizeMin + 1, sweep_rounds) - 1 \subseteq tried

\* What is reported was seen to fail, and nothing smaller was: shrinking never
\* turns a mismatch into a guess or into a larger one.
ReportsSmallestFailure ==
    best # 0 => best \in failed /\ \A s \in failed : best <= s

\* Shrinking looked at every smaller candidate size, with all its seeds, before
\* it settled for a larger one, unless its time was up.
SmallerSizesCleared ==
    best # 0 => \A c \in shrink_candidates(found) :
                    c < best => c \in cleared \/ (best = found /\ now > until)

\* The rounds the user is told about were all run, and a run that ends by
\* itself is told in full.
RoundsHonest ==
    /\ rounds_run <= round + 1
    /\ host = "returned" /\ driver = "exited" /\ best = 0 => rounds_run = round

\* A mismatch the driver reports is what stress returns, unless reading the
\* report raised.
ReportDelivered ==
    host = "returned" /\ driver = "exited" => result = best

\* A mismatch that was found is lost without an error only together with the
\* driver: it died or stopped between the mismatch event and done.  (stress
\* keeps nothing of the mismatch event, so then it is lost although that event
\* may have been read.)
LostOnlyWithDriver ==
    host = "returned" /\ found # 0 /\ result = 0 => driver \in {"killed", "stalled"}

\* What stress tells its caller is what happened in the container, although the
\* driver's last events may be unread when its process is gone: the rounds were
\* run, the reported mismatch is returned, and None for a run that found one
\* means that the driver did not live to report it.
ToldTheOutcome == RoundsHonest /\ ReportDelivered /\ LostOnlyWithDriver

\* exec_stream never gives up on a driver that works: the timeout for one
\* event outlasts every silence of the loop and of shrinking.
TimeoutOnlyWhenStalled ==
    host = "returned" => driver \notin Working

\* The driver is over a probe after its two budgets at the latest, however late
\* the mismatch was found.
EndsInTime == now <= TimeBudget + ShrinkBudget + ProbeMax

\* stress comes to an end, whatever happens to the driver.
Ends == <>(host # "reading")

\* A mismatch the driver reports reaches the user: a big counterexample is
\* worth more than none.
CounterexampleDelivered ==
    host # "reading" /\ driver = "exited" => result = best
=============================================================================
