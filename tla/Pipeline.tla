------------------------------ MODULE Pipeline ------------------------------
(***************************************************************************)
(* One submission through pipeline/run.py and pipeline/stages.py: _execute,*)
(* _find_counterexample, _author_and_stress and the stages they call.      *)
(*                                                                         *)
(* What compilers, judged programs, generated programs and the model       *)
(* answer is chosen freely; generated programs are numbered, and the brute *)
(* force of each is as slow as its limit says: above the limit it times    *)
(* out, below it does not, at the limit it may go either way.  A run may   *)
(* be cut short by a crash, or end DEGRADED and be resubmitted, and is     *)
(* then started again on the same row (module JobQueue).  ctx.note only    *)
(* writes to the replay log and is left out, except that it may raise.     *)
(***************************************************************************)
EXTENDS Naturals

CONSTANTS
    MAX_AUTHOR_REVISIONS,
    MAX_SIZE_KNOB,
    MAX_CALIBRATION_STEPS,
    Estimates,      \* size_knob_brute_max as the analyzer may propose it
    Limits,         \* largest size a brute force may manage; 0: not even 1
    MaxRuns         \* bound: runs of the row (worker.MAX_ATTEMPTS)

ASSUME PipelineAssumption ==
    /\ MAX_AUTHOR_REVISIONS \in Nat \ {0}
    /\ MAX_SIZE_KNOB \in Nat \ {0}
    /\ MAX_CALIBRATION_STEPS \in Nat
    /\ Estimates \subseteq Nat
    /\ Limits \subseteq Nat
    /\ MaxRuns \in Nat \ {0}

VARIABLES
    \* Inputs of the submission.
    external,       \* an online judge rejected it (external_verdict WA, TLE or RE)
    \* The database.
    state,          \* the row's state
    report,         \* what finish stored: see Reports
    spec,           \* artifact "spec": the knob in it, 0 = no artifact
    unique,         \* output_unique of the spec
    \* Context and local variables of the run.
    pc,
    verdict,        \* compile_and_judge's verdict
    free,           \* the failing official test: none, small or large
    knob,           \* ctx.spec.size_knob_brute_max, 0 = no spec
    checker,        \* ctx.checker is set
    revision,       \* the for loop over author revisions
    failure,        \* validate's answer: "ok" (an empty string), a description or TOO_SLOW
    author,         \* number of the programs in ctx.author, 0 = none
    limit,          \* how far the brute force of ctx.author goes
    files,          \* number of the programs in the container
    crowded,        \* a program whose exec timed out still runs in the container
    tries,          \* the for loop of _calibrate_size
    mismatch,       \* what _find_counterexample found: none, free or stress
    late,           \* ctx.out_of_time
    runs,           \* runs started on this row
    \* History.
    passed,         \* gates passed: pairs <<programs, gate>>
    sized,          \* last size at which the programs in the container passed
    gens            \* generate calls of this run

inputVars == <<external>>
rowVars   == <<state, report, spec, unique>>
localVars == <<verdict, free, checker, revision, failure, author, limit, mismatch, runs>>
sizeVars  == <<knob, tries, sized>>
containerVars == <<files, crowded>>
vars      == <<external, rowVars, pc, localVars, sizeVars, containerVars, late, passed, gens>>

TERMINAL == {"DONE", "FAILED", "DEGRADED"}
Gates    == {"syntax", "gate2", "gate1"}

\* ERROR: no verdict; verdict: verdict only; free, stress: with the failing
\* official test, or with a counterexample of the stress loop.
Reports  == {"NULL", "ERROR", "verdict", "free", "stress"}

\* The verdict the report carries is a wrong answer, found or asserted.
Overridden == verdict = "AC" /\ external

-----------------------------------------------------------------------------
(* How a run ends. *)

Goto(where) == pc' = where

\* finish, and the end of the run.
Finish(st, rep) ==
    /\ state'  = st
    /\ report' = rep
    /\ Goto("closed")
    /\ UNCHANGED <<spec, unique>>

\* Mutant of WithoutModel: the large failing test is forgotten.
WithoutModelDegraded ==
    /\ Finish("DEGRADED", "verdict")
    /\ UNCHANGED mismatch

\* generate raised ModelUnavailable, BudgetExhausted or MalformedResponse
\* before a minimal counterexample was found.
WithoutModel ==
    \/ /\ free # "none"
       /\ mismatch' = "free"
       /\ state' = "EXPLAINING"
       /\ Goto("explaining")
       /\ UNCHANGED <<report, spec, unique>>
    \/ /\ free = "none"
       /\ Finish("DEGRADED", "verdict")
       /\ UNCHANGED mismatch

\* _author_and_stress returned None: minimal or fallback.
FoundNothing ==
    \/ /\ free # "none"
       /\ mismatch' = "free"
       /\ state' = "EXPLAINING"
       /\ Goto("explaining")
       /\ UNCHANGED <<report, spec, unique>>
    \/ /\ free = "none"
       /\ Finish("DONE", "verdict")
       /\ UNCHANGED mismatch

-----------------------------------------------------------------------------
(* _execute up to the verdict. *)

\* The container is up, COMPILING and JUDGING are written.
StartContainer ==
    /\ pc = "starting"
    /\ state' = "COMPILING"
    /\ Goto("compiling")
    /\ UNCHANGED <<inputVars, report, spec, unique, localVars, sizeVars, containerVars, late, passed, gens>>

BeginJudging ==
    /\ pc = "compiling"
    /\ state' = "JUDGING"
    /\ Goto("judging")
    /\ UNCHANGED <<inputVars, report, spec, unique, localVars, sizeVars, containerVars, late, passed, gens>>

\* compile_and_judge: no failing test comes with any verdict but WA.
compile_and_judge(v, f) ==
    /\ pc = "judging"
    /\ (f # "none") <=> (v = "WA")
    /\ verdict' = v
    /\ free' = f
    /\ Goto("judged")
    /\ UNCHANGED <<inputVars, rowVars, checker, revision, failure, author, limit, mismatch,
                   runs, sizeVars, containerVars, late, passed, gens>>

\* Only a wrong answer, found here or reported by an online judge, goes on; a
\* failing test short enough to read is the counterexample.
JudgeGate ==
    /\ pc = "judged"
    /\ \/ /\ verdict # "WA" /\ ~ Overridden
          /\ Finish("DONE", "verdict")
          /\ UNCHANGED mismatch
       \/ /\ free = "small"
          /\ mismatch' = "free"
          /\ state' = "EXPLAINING"
          /\ Goto("explaining")
          /\ UNCHANGED <<report, spec, unique>>
       \/ /\ verdict = "WA" \/ Overridden
          /\ free # "small"
          /\ Goto("analyzing")
          /\ UNCHANGED <<rowVars, mismatch>>
    /\ UNCHANGED <<inputVars, verdict, free, checker, revision, failure, author, limit, runs,
                   sizeVars, containerVars, late, passed, gens>>

-----------------------------------------------------------------------------
(* _author_and_stress. *)

Clamp(n) == IF n < 1 THEN 1 ELSE IF n > MAX_SIZE_KNOB THEN MAX_SIZE_KNOB ELSE n

AfterAnalysis(u) == Goto(IF u THEN "revising" ELSE "checking")

\* analyze, with a spec saved by an earlier run.
ReuseSpec ==
    /\ pc = "analyzing"
    /\ spec # 0
    /\ knob' = spec
    /\ AfterAnalysis(unique)
    /\ UNCHANGED <<inputVars, rowVars, localVars, tries, sized, containerVars, late, passed, gens>>

\* Mutant of NewSpec: the analyzer's estimate is used as it comes.
NewSpecUnclamped(n, u) ==
    /\ pc = "analyzing"
    /\ spec = 0
    /\ knob' = n
    /\ spec' = n /\ unique' = u
    /\ AfterAnalysis(u)
    /\ gens' = gens + 1
    /\ UNCHANGED <<inputVars, state, report, localVars, tries, sized, containerVars, late, passed>>

\* analyze, with a model call.
NewSpec(n, u) ==
    /\ pc = "analyzing"
    /\ spec = 0
    /\ knob' = Clamp(n)
    /\ spec' = knob' /\ unique' = u
    /\ AfterAnalysis(u)
    /\ gens' = gens + 1
    /\ UNCHANGED <<inputVars, state, report, localVars, tries, sized, containerVars, late, passed>>

author_checker ==
    /\ pc = "checking"
    /\ checker' = TRUE
    /\ gens' = gens + 1
    /\ Goto("revising")
    /\ UNCHANGED <<inputVars, rowVars, verdict, free, revision, failure, author, limit,
                   mismatch, runs, sizeVars, containerVars, late, passed>>

\* Mutant of NextRevision: one revision too many.
NextRevisionInclusive ==
    /\ pc = "revising"
    /\ ~ late
    /\ revision <= MAX_AUTHOR_REVISIONS
    /\ state' = "AUTHORING"
    /\ Goto("authoring")
    /\ UNCHANGED <<inputVars, report, spec, unique, localVars, sizeVars, containerVars, late, passed, gens>>

\* The head of the loop over revisions, the wall clock asked before each one.
NextRevision ==
    /\ pc = "revising"
    /\ ~ late
    /\ revision < MAX_AUTHOR_REVISIONS
    /\ state' = "AUTHORING"
    /\ Goto("authoring")
    /\ UNCHANGED <<inputVars, report, spec, unique, localVars, sizeVars, containerVars, late, passed, gens>>

\* Mutant of OutOfRevisions: the loop has no else clause.
OutOfTimeOnly ==
    /\ pc = "revising"
    /\ late
    /\ FoundNothing
    /\ UNCHANGED <<inputVars, verdict, free, checker, revision, failure, author, limit, runs,
                   sizeVars, containerVars, late, passed, gens>>

\* No time or no revision left: no trustworthy reference implementation.
OutOfRevisions ==
    /\ pc = "revising"
    /\ late \/ revision = MAX_AUTHOR_REVISIONS
    /\ FoundNothing
    /\ UNCHANGED <<inputVars, verdict, free, checker, revision, failure, author, limit, runs,
                   sizeVars, containerVars, late, passed, gens>>

\* author: brute force, generator and validator in one model call.
Author(n) ==
    /\ pc = "authoring"
    /\ author' = author + 1
    /\ limit' = n
    /\ gens' = gens + 1
    /\ state' = "VALIDATING"
    /\ Goto("uploading")
    /\ UNCHANGED <<inputVars, report, spec, unique, verdict, free, checker, revision, failure,
                   mismatch, runs, sizeVars, containerVars, late, passed>>

\* Mutant of Repair: the rejected revision is not counted.
RepairUncounted(why) ==
    /\ failure' = why
    /\ Goto("revising")
    /\ UNCHANGED <<verdict, free, checker, revision, author, limit, mismatch, runs>>

\* validate found fault: the next revision is asked to repair it.
Repair(why) ==
    /\ failure' = why
    /\ revision' = revision + 1
    /\ Goto("revising")
    /\ UNCHANGED <<verdict, free, checker, author, limit, mismatch, runs>>

\* Mutant of Upload: the programs of an earlier revision stay.
UploadOnce ==
    /\ pc = "uploading"
    /\ files' = IF files = 0 THEN author ELSE files
    /\ Goto("syntax")
    /\ UNCHANGED <<inputVars, rowVars, localVars, sizeVars, crowded, late, passed, gens>>

\* validate puts the three programs, and the checker, into the container.
Upload ==
    /\ pc = "uploading"
    /\ files' = author
    /\ Goto("syntax")
    /\ UNCHANGED <<inputVars, rowVars, localVars, sizeVars, crowded, late, passed, gens>>

\* A sequence of commands run in the container with this outcome.  An exec that
\* times out kills the docker client; the program itself goes on in the
\* container.
Exec(outcome) ==
    \/ outcome = "ok" /\ UNCHANGED crowded
    \/ outcome = "description" /\ crowded' \in {crowded, TRUE}
    \/ outcome = "TOO_SLOW" /\ crowded' = TRUE

\* py_compile on each of the three; one that times out has not compiled.
CheckSyntax(ok) ==
    /\ pc = "syntax"
    /\ Exec(IF ok THEN "ok" ELSE "description")
    /\ \/ /\ ok
          /\ passed' = passed \cup {<<files, "syntax">>}
          /\ Goto("probing")
          /\ UNCHANGED localVars
       \/ ~ ok /\ Repair("description") /\ UNCHANGED passed
    /\ UNCHANGED <<inputVars, rowVars, sizeVars, files, late, gens>>

\* The program left behind ends.
LeftoverEnds ==
    /\ crowded
    /\ crowded' = FALSE
    /\ UNCHANGED <<inputVars, rowVars, pc, localVars, sizeVars, files, late, passed, gens>>

\* _probe at a size: generator, validator and brute force succeed, one of them
\* fails, or the brute force times out, for its own slowness or for want of the
\* processor another program holds.
Probe(size, outcome) ==
    /\ Exec(outcome)
    /\ outcome = "TOO_SLOW" => size >= limit \/ crowded
    /\ outcome = "ok" => size <= limit

\* Gate 2 at size 1.  The sentinel is returned like any other failure.
ProbeOne(outcome) ==
    /\ pc = "probing"
    /\ Probe(1, outcome)
    /\ tries' = 0
    /\ \/ /\ outcome = "ok"
          /\ passed' = passed \cup {<<files, "gate2">>}
          /\ Goto("calibrating")
          /\ UNCHANGED localVars
       \/ outcome # "ok" /\ Repair(outcome) /\ UNCHANGED passed
    /\ UNCHANGED <<inputVars, rowVars, knob, sized, files, late, gens>>

Halved(n) == IF n < 2 THEN 1 ELSE n \div 2

\* Mutant of SlowAnswer: calibration goes on with the samples after a halving
\* that was never probed.
SlowAnswerUnprobed ==
    /\ knob' = Halved(knob)
    /\ tries' = tries + 1
    /\ Goto("sampling")
    /\ UNCHANGED localVars

\* The brute force is too slow at the knob: give up at 1, else halve.
SlowAnswer ==
    \/ /\ knob <= 1
       /\ Repair("description")
       /\ UNCHANGED <<knob, tries>>
    \/ /\ knob > 1
       /\ knob' = Halved(knob)
       /\ tries' = tries + 1
       /\ UNCHANGED <<localVars, pc>>

\* One round of _calibrate_size.
Calibrate(outcome) ==
    /\ pc = "calibrating"
    /\ tries < MAX_CALIBRATION_STEPS
    /\ Probe(knob, outcome)
    /\ \/ /\ outcome = "TOO_SLOW"
          /\ SlowAnswer
          /\ UNCHANGED sized
       \/ /\ outcome = "description"
          /\ Repair(outcome)
          /\ UNCHANGED sizeVars
       \/ /\ outcome = "ok"
          /\ sized' = <<files, knob>>
          /\ Goto("sampling")
          /\ UNCHANGED <<localVars, knob, tries>>
    /\ UNCHANGED <<inputVars, rowVars, files, late, passed, gens>>

\* The calibration loop ran out: "could not find a workable size".
NoWorkableSize ==
    /\ pc = "calibrating"
    /\ tries = MAX_CALIBRATION_STEPS
    /\ Repair("description")
    /\ UNCHANGED <<inputVars, rowVars, sizeVars, containerVars, late, passed, gens>>

\* Gate 1: the brute force reproduces the samples.
CheckSamples(ok) ==
    /\ pc = "sampling"
    /\ Exec(IF ok THEN "ok" ELSE "description")
    /\ \/ /\ ok
          /\ passed' = passed \cup {<<files, "gate1">>}
          /\ failure' = "ok"
          /\ state' = "STRESSING"
          /\ Goto("stressing")
          /\ UNCHANGED <<report, spec, unique, verdict, free, checker, revision, author, limit,
                         mismatch, runs>>
       \/ ~ ok /\ Repair("description") /\ UNCHANGED <<passed, rowVars>>
    /\ UNCHANGED <<inputVars, sizeVars, files, late, gens>>

\* stress: the driver finds a mismatch, or none, or stops without a word.
Stress(found) ==
    /\ pc = "stressing"
    /\ \/ /\ found
          /\ mismatch' = "stress"
          /\ state' = "EXPLAINING"
          /\ Goto("explaining")
          /\ UNCHANGED <<report, spec, unique>>
       \/ ~ found /\ FoundNothing
    /\ UNCHANGED <<inputVars, verdict, free, checker, revision, failure, author, limit, runs,
                   sizeVars, containerVars, late, passed, gens>>

\* explain: with or without an answer of the model the counterexample ships.
Explain(ok) ==
    /\ pc = "explaining"
    /\ gens' = gens + 1
    /\ Finish("DONE", mismatch)
    /\ UNCHANGED <<inputVars, localVars, sizeVars, containerVars, late, passed>>

\* analyze, author_checker or author raises one of the model exceptions.
ModelFails ==
    /\ \/ pc = "analyzing" /\ spec = 0
       \/ pc \in {"checking", "authoring"}
    /\ gens' = gens + 1
    /\ WithoutModel
    /\ UNCHANGED <<inputVars, verdict, free, checker, revision, failure, author, limit, runs,
                   sizeVars, containerVars, late, passed>>

-----------------------------------------------------------------------------
(* Exceptions, time and crashes. *)

\* SandboxError or any other exception reaches run_submission.
Raise ==
    /\ pc # "closed"
    /\ Finish("FAILED", "ERROR")
    /\ UNCHANGED <<inputVars, localVars, sizeVars, containerVars, late, passed, gens>>

\* The run has used up max_wall_seconds_per_submission.
Deadline ==
    /\ pc # "closed" /\ ~ late
    /\ late' = TRUE
    /\ UNCHANGED <<inputVars, rowVars, pc, localVars, sizeVars, containerVars, passed, gens>>

\* A new run on the row, with a new container and a new Context.
NewRun ==
    /\ runs < MaxRuns
    /\ runs' = runs + 1
    /\ Goto("starting")
    /\ verdict' = "none" /\ free' = "none" /\ knob' = 0 /\ checker' = FALSE
    /\ revision' = 0 /\ failure' = "ok" /\ author' = 0 /\ limit' = 0 /\ files' = 0
    /\ crowded' = FALSE
    /\ tries' = 0 /\ mismatch' = "none" /\ late' = FALSE
    /\ passed' = {} /\ sized' = <<0, 0>> /\ gens' = 0
    /\ UNCHANGED inputVars

\* The worker dies; the lease lapses and the row is claimed again.
CrashAndRerun ==
    /\ pc # "closed"
    /\ NewRun
    /\ UNCHANGED rowVars

\* create_submission puts a DEGRADED row back in the queue.
Resubmit ==
    /\ pc = "closed" /\ state = "DEGRADED"
    /\ state' = "SUBMITTED" /\ report' = "NULL"
    /\ NewRun
    /\ UNCHANGED <<spec, unique>>

-----------------------------------------------------------------------------

Init ==
    /\ external \in BOOLEAN
    /\ state = "SUBMITTED" /\ report = "NULL" /\ spec = 0 /\ unique = TRUE
    /\ pc = "starting" /\ verdict = "none" /\ free = "none" /\ knob = 0
    /\ checker = FALSE /\ revision = 0 /\ failure = "ok" /\ author = 0 /\ limit = 0
    /\ files = 0 /\ crowded = FALSE /\ tries = 0 /\ mismatch = "none" /\ late = FALSE /\ runs = 1
    /\ passed = {} /\ sized = <<0, 0>> /\ gens = 0

Judge ==
    \/ StartContainer
    \/ BeginJudging
    \/ \E v \in {"AC", "WA", "TLE", "RE", "CE"}, f \in {"none", "small", "large"} :
          compile_and_judge(v, f)
    \/ JudgeGate

Search ==
    \/ ReuseSpec
    \/ \E n \in Estimates, u \in BOOLEAN : NewSpec(n, u)
    \/ author_checker
    \/ NextRevision
    \/ OutOfRevisions
    \/ \E n \in Limits : Author(n)
    \/ Upload
    \/ \E ok \in BOOLEAN : CheckSyntax(ok)
    \/ \E o \in {"ok", "description", "TOO_SLOW"} : ProbeOne(o) \/ Calibrate(o)
    \/ NoWorkableSize
    \/ \E ok \in BOOLEAN : CheckSamples(ok)

Deliver ==
    \/ \E found \in BOOLEAN : Stress(found)
    \/ \E ok \in BOOLEAN : Explain(ok)
    \/ ModelFails

Next ==
    \/ Judge
    \/ Search
    \/ Deliver
    \/ Raise
    \/ LeftoverEnds
    \/ Deadline
    \/ CrashAndRerun
    \/ Resubmit

Spec == Init /\ [][Next]_vars

(* The run goes on as long as what it awaits returns.  Time need not run    *)
(* out, nothing need raise and nobody need crash.                           *)
FairSpec == Spec /\ WF_vars(Judge \/ Search \/ Deliver)

-----------------------------------------------------------------------------
(* Properties. *)

\* Every variable has its type.
TypeOK ==
    /\ external \in BOOLEAN
    /\ state \in {"SUBMITTED", "COMPILING", "JUDGING", "AUTHORING", "VALIDATING",
                  "STRESSING", "EXPLAINING"} \cup TERMINAL
    /\ report \in Reports
    /\ spec \in 0 .. MAX_SIZE_KNOB /\ knob \in 0 .. MAX_SIZE_KNOB
    /\ unique \in BOOLEAN /\ checker \in BOOLEAN /\ late \in BOOLEAN
    /\ crowded \in BOOLEAN
    /\ pc \in {"starting", "compiling", "judging", "judged", "analyzing", "checking",
               "revising", "authoring", "uploading", "syntax", "probing", "calibrating",
               "sampling", "stressing", "explaining", "closed"}
    /\ verdict \in {"none", "AC", "WA", "TLE", "RE", "CE"}
    /\ free \in {"none", "small", "large"}
    /\ revision \in 0 .. MAX_AUTHOR_REVISIONS
    /\ failure \in {"ok", "description", "TOO_SLOW"}
    /\ author \in 0 .. MAX_AUTHOR_REVISIONS /\ files \in 0 .. MAX_AUTHOR_REVISIONS
    /\ limit \in Nat
    /\ tries \in 0 .. MAX_CALIBRATION_STEPS
    /\ mismatch \in {"none", "free", "stress"}
    /\ runs \in 1 .. MaxRuns
    /\ passed \subseteq (Nat \X Gates)
    /\ sized \in Nat \X Nat
    /\ gens \in Nat

\* A counterexample of the stress loop is only ever reported against programs
\* that passed every gate of validate, and these are the newest programs, the
\* ones in the container: a reference of an earlier revision is never used.
CounterexampleVerified ==
    mismatch = "stress" \/ report = "stress" =>
        /\ files = author
        /\ \A g \in Gates : <<files, g>> \in passed

\* The stress loop gets a size the programs in the container were measured to
\* sustain, however often earlier revisions moved the knob.
SizeWasMeasured ==
    pc = "stressing" => sized = <<files, knob>> /\ knob >= 1

\* A failing official test is never lost to the model: a run that saw one and
\* was not cut short by an error reports a counterexample.
FailingTestReported ==
    state \in {"DONE", "DEGRADED"} /\ pc = "closed" /\ free # "none"
        => state = "DONE" /\ report \in {"free", "stress"}

\* A run makes at most one model call to analyse, one for the checker, one per
\* revision and one to explain, on every path.
GenerateCallsBounded == gens <= MAX_AUTHOR_REVISIONS + 3

\* Whatever the programs and the model answer, the runs on a row come to an end
\* and leave it in a terminal state.
Ends == <>[](pc = "closed" /\ state \in TERMINAL)

\* The most steps a revision takes, from the head of the loop to the next one.
RevisionCost == MAX_CALIBRATION_STEPS + 7

\* The most steps the revisions not begun yet take together.
RevisionsLeft(r) == (MAX_AUTHOR_REVISIONS - r) * RevisionCost

\* The most steps left of the revision at work.
RevisionLeft ==
    CASE pc = "authoring"   -> MAX_CALIBRATION_STEPS + 6
      [] pc = "uploading"   -> MAX_CALIBRATION_STEPS + 5
      [] pc = "syntax"      -> MAX_CALIBRATION_STEPS + 4
      [] pc = "probing"     -> MAX_CALIBRATION_STEPS + 3
      [] pc = "calibrating" -> MAX_CALIBRATION_STEPS - tries + 2
      [] pc = "sampling"    -> 1

\* The most steps left of the run.
StepsLeft ==
    CASE pc = "starting"   -> RevisionsLeft(0) + 8
      [] pc = "compiling"  -> RevisionsLeft(0) + 7
      [] pc = "judging"    -> RevisionsLeft(0) + 6
      [] pc = "judged"     -> RevisionsLeft(0) + 5
      [] pc = "analyzing"  -> RevisionsLeft(0) + 4
      [] pc = "checking"   -> RevisionsLeft(0) + 3
      [] pc = "revising"   -> RevisionsLeft(revision) + 2
      [] pc \in {"authoring", "uploading", "syntax", "probing", "calibrating", "sampling"} ->
            RevisionsLeft(revision + 1) + RevisionLeft + 2
      [] pc = "stressing"  -> 2
      [] pc = "explaining" -> 1
      [] pc = "closed"     -> 0

\* What can still happen on the row: a step may leave a program running, which
\* ends by itself, and every run has one deadline.
RunCost == 2 * (RevisionsLeft(0) + 8) + 2
Measure ==
    (MaxRuns - runs) * RunCost + 2 * StepsLeft
        + (IF crowded THEN 1 ELSE 0) + (IF late THEN 0 ELSE 1)

\* Every step, whoever takes it, uses up some of a finite amount of work: no
\* answer of a program or of the model, crash or resubmission makes the nested
\* loops of revisions and calibration rounds go round for nothing.
Progress == [][Measure' \in Nat /\ Measure' < Measure]_vars

\* Every exit of a run that went looking for a smaller counterexample returns
\* the large failing test it had when it found none.
FallbackOnEveryExit ==
    pc = "closed" /\ free = "large" /\ files # 0 => report \in {"free", "stress"}

\* Calibration measures the largest size the brute force sustains, to within a
\* halving: the stress loop gets the analyzer's estimate, or a size whose double
\* is too much (the docstring of _calibrate_size).
SizeIsLargestSustained ==
    pc = "stressing" => knob = spec \/ 2 * knob + 1 >= limit
=============================================================================
