--------------------------- MODULE PipelineProofs ---------------------------
(***************************************************************************)
(* Machine-checked proofs about module Pipeline, for every number of       *)
(* author revisions and calibration steps, every estimate of the analyzer  *)
(* and every speed of the generated brute forces.                          *)
(***************************************************************************)
EXTENDS Pipeline, TLAPS

-----------------------------------------------------------------------------
(* The inductive invariant, one part per concern. *)

Started  == {"starting", "compiling", "judging", "judged", "analyzing", "checking", "revising",
             "authoring", "uploading", "syntax", "probing", "calibrating", "sampling",
             "stressing"}
Uploaded == {"syntax", "probing", "calibrating", "sampling", "stressing"}
Authored == Uploaded \cup {"uploading"}

\* Values the other parts compute with.
ValueInv ==
    /\ pc \in Started \cup {"explaining", "closed"}
    /\ spec \in Nat /\ knob \in Nat /\ tries \in Nat
    /\ revision \in 0 .. MAX_AUTHOR_REVISIONS
    /\ pc \in Authored \cup {"authoring"} => revision < MAX_AUTHOR_REVISIONS
    /\ pc \in Authored \cup {"checking", "revising", "authoring"} => knob >= 1

\* Which gates the programs in the container have passed at each point.
GateInv ==
    /\ pc \in Uploaded => files = author
    /\ pc \in {"probing", "calibrating", "sampling", "stressing"} => <<files, "syntax">> \in passed
    /\ pc \in {"calibrating", "sampling", "stressing"} => <<files, "gate2">> \in passed
    /\ pc = "stressing" => <<files, "gate1">> \in passed
    /\ pc \in {"sampling", "stressing"} => sized = <<files, knob>>

\* What the run has found and what the row says about it.
FindInv ==
    /\ mismatch = "stress" => /\ files = author
                              /\ \A g \in Gates : <<files, g>> \in passed
    /\ pc \in Started => mismatch = "none"
    /\ pc = "explaining" => mismatch \in {"free", "stress"}
    /\ pc # "closed" => report = "NULL" /\ state \notin TERMINAL
    /\ report = "stress" => mismatch = "stress"

\* A failing official test is remembered until the row is closed.
FreeInv ==
    /\ pc \in {"starting", "compiling", "judging"} => free = "none"
    /\ pc = "judged" => (free # "none" <=> verdict = "WA")
    /\ FailingTestReported

\* The model calls made so far, by the place the run has reached.
CallInv ==
    /\ gens \in Nat
    /\ pc \in {"starting", "compiling", "judging", "judged", "analyzing"} => gens = 0
    /\ pc = "checking" => gens <= 1
    /\ pc \in {"revising", "authoring"} => gens <= 2 + revision
    /\ pc \in Authored => gens <= 3 + revision
    /\ pc = "explaining" => gens <= 2 + MAX_AUTHOR_REVISIONS
    /\ GenerateCallsBounded

PipelineInv == ValueInv /\ GateInv /\ FindInv /\ FreeInv /\ CallInv

\* What the proofs need to know of the constants.
LEMMA Revisions == MAX_AUTHOR_REVISIONS \in Nat /\ MAX_AUTHOR_REVISIONS >= 1
  BY PipelineAssumption

\* A new run starts from nothing.
LEMMA NewRunKeeps ==
    ASSUME PipelineInv, NewRun, UNCHANGED <<spec, unique>>,
           report' = "NULL", state' \notin TERMINAL
    PROVE  PipelineInv'
  <1> USE Revisions DEF PipelineInv, NewRun, Goto
  <1>1. ValueInv'
    BY DEF ValueInv, Started, Authored, Uploaded
  <1>2. GateInv'
    BY DEF GateInv, Uploaded
  <1>3. FindInv'
    BY DEF FindInv, Started
  <1>4. FreeInv'
    BY DEF FreeInv, FailingTestReported
  <1>5. CallInv'
    BY DEF CallInv, Authored, Uploaded, GenerateCallsBounded
  <1> QED
    BY <1>1, <1>2, <1>3, <1>4, <1>5

\* Every step keeps the parts of the invariant.
LEMMA PipelineStep == PipelineInv /\ [Next]_vars => PipelineInv'
  <1> SUFFICES ASSUME PipelineInv, [Next]_vars PROVE PipelineInv'
    OBVIOUS
  <1> USE Revisions
          DEF ValueInv, GateInv, FindInv, FreeInv, CallInv, FailingTestReported,
              GenerateCallsBounded, Started, Uploaded, Authored, Gates, TERMINAL,
              inputVars, rowVars, localVars, sizeVars, containerVars, Goto, Finish, Repair
  <1>1. CASE StartContainer \/ BeginJudging
    BY <1>1 DEF PipelineInv, StartContainer, BeginJudging
  <1>2. ASSUME NEW v, NEW f, compile_and_judge(v, f) PROVE PipelineInv'
    BY <1>2 DEF PipelineInv, compile_and_judge
  <1>3. CASE JudgeGate
    BY <1>3 DEF PipelineInv, JudgeGate
  <1>4. CASE ReuseSpec
    BY <1>4 DEF PipelineInv, ReuseSpec, AfterAnalysis
  <1>5. ASSUME NEW n \in Estimates, NEW u \in BOOLEAN, NewSpec(n, u) PROVE PipelineInv'
    <2>1. Clamp(n) \in Nat /\ Clamp(n) >= 1
      BY PipelineAssumption DEF Clamp
    <2>2. pc' \in {"revising", "checking"}
      BY <1>5 DEF NewSpec, AfterAnalysis
    <2>3. gens' = 1
      BY <1>5 DEF PipelineInv, NewSpec
    <2>4. ValueInv' /\ GateInv' /\ FindInv' /\ FreeInv'
      BY <1>5, <2>1, <2>2 DEF PipelineInv, NewSpec
    <2>5. CallInv'
      BY <1>5, <2>2, <2>3 DEF PipelineInv, NewSpec
    <2> QED
      BY <2>4, <2>5 DEF PipelineInv
  <1>6. CASE author_checker
    <2>1. knob >= 1
      BY <1>6 DEF PipelineInv, author_checker
    <2>2. ValueInv' /\ GateInv' /\ FindInv' /\ FreeInv'
      BY <1>6, <2>1 DEF PipelineInv, author_checker
    <2>3. CallInv'
      BY <1>6 DEF PipelineInv, author_checker
    <2> QED
      BY <2>2, <2>3 DEF PipelineInv
  <1>7. CASE NextRevision
    BY <1>7 DEF PipelineInv, NextRevision
  <1>8. CASE OutOfRevisions
    BY <1>8 DEF PipelineInv, OutOfRevisions, FoundNothing
  <1>9. ASSUME NEW n \in Limits, Author(n) PROVE PipelineInv'
    BY <1>9 DEF PipelineInv, Author
  <1>10. CASE Upload
    BY <1>10 DEF PipelineInv, Upload
  <1>11. ASSUME NEW ok \in BOOLEAN, CheckSyntax(ok) PROVE PipelineInv'
    BY <1>11 DEF PipelineInv, CheckSyntax
  <1>12. ASSUME NEW o, ProbeOne(o) PROVE PipelineInv'
    BY <1>12 DEF PipelineInv, ProbeOne
  <1>13. ASSUME NEW o, Calibrate(o) PROVE PipelineInv'
    <2>1. Halved(knob) \in Nat /\ Halved(knob) >= 1
      BY DEF PipelineInv, Halved
    <2> QED
      BY <1>13, <2>1 DEF PipelineInv, Calibrate, SlowAnswer
  <1>14. CASE NoWorkableSize
    BY <1>14 DEF PipelineInv, NoWorkableSize
  <1>15. ASSUME NEW ok \in BOOLEAN, CheckSamples(ok) PROVE PipelineInv'
    BY <1>15 DEF PipelineInv, CheckSamples
  <1>16. ASSUME NEW found \in BOOLEAN, Stress(found) PROVE PipelineInv'
    BY <1>16 DEF PipelineInv, Stress, FoundNothing
  <1>17. ASSUME NEW ok \in BOOLEAN, Explain(ok) PROVE PipelineInv'
    BY <1>17 DEF PipelineInv, Explain
  <1>18. CASE ModelFails
    BY <1>18 DEF PipelineInv, ModelFails, WithoutModel
  <1>19. CASE Raise
    BY <1>19 DEF PipelineInv, Raise
  <1>20. CASE Deadline \/ LeftoverEnds
    BY <1>20 DEF PipelineInv, Deadline, LeftoverEnds
  <1>21. CASE CrashAndRerun
    BY <1>21, NewRunKeeps DEF PipelineInv, CrashAndRerun
  <1>22. CASE Resubmit
    BY <1>22, NewRunKeeps DEF PipelineInv, Resubmit
  <1>23. CASE UNCHANGED vars
    BY <1>23 DEF PipelineInv, vars
  <1> QED
    BY <1>1, <1>2, <1>3, <1>4, <1>5, <1>6, <1>7, <1>8, <1>9, <1>10, <1>11, <1>12, <1>13,
       <1>14, <1>15, <1>16, <1>17, <1>18, <1>19, <1>20, <1>21, <1>22, <1>23
    DEF Next, Judge, Search, Deliver

\* PipelineInv is an invariant.
LEMMA PipelineInvariant == Spec => []PipelineInv
  <1>1. Init => PipelineInv
    BY Revisions
    DEF Init, PipelineInv, ValueInv, GateInv, FindInv, FreeInv, CallInv, FailingTestReported,
        GenerateCallsBounded, Started, Uploaded, Authored, TERMINAL
  <1> QED
    BY <1>1, PipelineStep, PTL DEF Spec

\* A counterexample of the stress loop was found with the newest programs, and
\* these passed the syntax check and both gates.
THEOREM CounterexamplesAreVerified == Spec => []CounterexampleVerified
  <1>1. PipelineInv => CounterexampleVerified
    BY DEF PipelineInv, FindInv, CounterexampleVerified
  <1> QED
    BY <1>1, PipelineInvariant, PTL

\* The stress loop never runs at a size its brute force was not measured at.
THEOREM StressSizeWasMeasured == Spec => []SizeWasMeasured
  <1>1. PipelineInv => SizeWasMeasured
    BY DEF PipelineInv, GateInv, ValueInv, SizeWasMeasured, Authored, Uploaded
  <1> QED
    BY <1>1, PipelineInvariant, PTL

\* No failure of the model loses a failing official test.
THEOREM FailingTestsAreReported == Spec => []FailingTestReported
  <1>1. PipelineInv => FailingTestReported
    BY DEF PipelineInv, FreeInv
  <1> QED
    BY <1>1, PipelineInvariant, PTL

\* A run makes at most MAX_AUTHOR_REVISIONS + 3 calls of generate.
THEOREM ModelCallsAreBounded == Spec => []GenerateCallsBounded
  <1>1. PipelineInv => GenerateCallsBounded
    BY DEF PipelineInv, CallInv
  <1> QED
    BY <1>1, PipelineInvariant, PTL

-----------------------------------------------------------------------------
(* Type correctness: what the numbers of revisions and programs have to do  *)
(* with each other.                                                         *)

\* One set of programs per revision begun.
AuthorInv ==
    /\ pc \in Authored => author <= revision + 1
    /\ pc \in Started \ Authored => author <= revision

\* Every step keeps every variable in its type.
LEMMA TypeStep ==
    PipelineInv /\ TypeOK /\ AuthorInv /\ [Next]_vars => TypeOK' /\ AuthorInv'
  <1> SUFFICES ASSUME PipelineInv, TypeOK, AuthorInv, [Next]_vars
               PROVE  TypeOK' /\ AuthorInv'
    OBVIOUS
  <1>0. /\ MAX_SIZE_KNOB \in Nat /\ MAX_SIZE_KNOB >= 1
        /\ MAX_CALIBRATION_STEPS \in Nat /\ MaxRuns \in Nat /\ MaxRuns >= 1
        /\ \A n \in Limits : n \in Nat
    BY PipelineAssumption
  <1>v. /\ revision \in 0 .. MAX_AUTHOR_REVISIONS
        /\ pc \in Authored \cup {"authoring"} => revision < MAX_AUTHOR_REVISIONS
    BY DEF PipelineInv, ValueInv
  <1> USE Revisions, <1>0
          DEF TypeOK, AuthorInv, Started, Uploaded, Authored, Gates, Reports, TERMINAL,
              inputVars, rowVars, localVars, sizeVars, containerVars, Goto, Finish, Repair
  <1>1. CASE StartContainer \/ BeginJudging
    BY <1>1 DEF StartContainer, BeginJudging
  <1>2. ASSUME NEW v \in {"AC", "WA", "TLE", "RE", "CE"}, NEW f \in {"none", "small", "large"},
               compile_and_judge(v, f)
        PROVE  TypeOK' /\ AuthorInv'
    BY <1>2 DEF compile_and_judge
  <1>3. CASE JudgeGate
    BY <1>3 DEF JudgeGate
  <1>4. CASE ReuseSpec
    BY <1>4 DEF ReuseSpec, AfterAnalysis
  <1>5. ASSUME NEW n \in Estimates, NEW u \in BOOLEAN, NewSpec(n, u)
        PROVE  TypeOK' /\ AuthorInv'
    <2>1. Clamp(n) \in 0 .. MAX_SIZE_KNOB
      BY PipelineAssumption DEF Clamp
    <2>2. knob' \in 0 .. MAX_SIZE_KNOB /\ spec' \in 0 .. MAX_SIZE_KNOB
      BY <1>5, <2>1 DEF NewSpec
    <2>3. pc' \in {"revising", "checking"} /\ gens' \in Nat
      BY <1>5 DEF NewSpec, AfterAnalysis
    <2> QED
      BY <1>5, <2>2, <2>3 DEF NewSpec
  <1>6. CASE author_checker
    BY <1>6 DEF author_checker
  <1>7. CASE NextRevision
    BY <1>7, <1>v DEF NextRevision
  <1>8. CASE OutOfRevisions
    BY <1>8 DEF OutOfRevisions, FoundNothing
  <1>9. ASSUME NEW n \in Limits, Author(n) PROVE TypeOK' /\ AuthorInv'
    <2>1. author' \in 0 .. MAX_AUTHOR_REVISIONS /\ author' <= revision' + 1
      BY <1>9, <1>v DEF Author
    <2> QED
      BY <1>9, <2>1 DEF Author
  <1>10. CASE Upload
    BY <1>10 DEF Upload
  <1>e. ASSUME NEW o, Exec(o) PROVE crowded' \in BOOLEAN
    BY <1>e DEF Exec
  <1>g. ASSUME NEW g \in Gates PROVE <<files, g>> \in Nat \X Gates
    BY <1>g
  <1>11. ASSUME NEW ok \in BOOLEAN, CheckSyntax(ok) PROVE TypeOK' /\ AuthorInv'
    <2>1. passed' \subseteq Nat \X Gates
      BY <1>11, <1>g DEF CheckSyntax
    <2>2. crowded' \in BOOLEAN
      BY <1>11, <1>e DEF CheckSyntax
    <2> QED
      BY <1>11, <1>v, <2>1, <2>2 DEF CheckSyntax
  <1>12. ASSUME NEW o \in {"ok", "description", "TOO_SLOW"}, ProbeOne(o)
         PROVE  TypeOK' /\ AuthorInv'
    <2>1. passed' \subseteq Nat \X Gates
      BY <1>12, <1>g DEF ProbeOne
    <2>2. crowded' \in BOOLEAN
      BY <1>12, <1>e DEF ProbeOne, Probe
    <2> QED
      BY <1>12, <1>v, <2>1, <2>2 DEF ProbeOne
  <1>13. ASSUME NEW o \in {"ok", "description", "TOO_SLOW"}, Calibrate(o)
         PROVE  TypeOK' /\ AuthorInv'
    <2>1. knob > 1 => Halved(knob) \in 0 .. MAX_SIZE_KNOB
      BY DEF Halved
    <2>2. crowded' \in BOOLEAN
      BY <1>13, <1>e DEF Calibrate, Probe
    <2>3. knob' \in 0 .. MAX_SIZE_KNOB /\ tries' \in 0 .. MAX_CALIBRATION_STEPS
      BY <1>13, <2>1 DEF Calibrate, SlowAnswer
    <2>4. sized' \in Nat \X Nat
      BY <1>13 DEF Calibrate
    <2>5. /\ UNCHANGED <<author, files, limit, mismatch, runs, verdict, free, checker>>
          /\ UNCHANGED <<external, state, report, spec, unique, late, passed, gens>>
      BY <1>13 DEF Calibrate, SlowAnswer
    <2>6. \/ pc' = "sampling" /\ revision' = revision /\ failure' = failure
          \/ pc' = pc /\ revision' = revision /\ failure' = failure
          \/ pc' = "revising" /\ revision' = revision + 1 /\ failure' = "description"
      BY <1>13 DEF Calibrate, SlowAnswer
    <2> QED
      BY <1>13, <1>v, <2>2, <2>3, <2>4, <2>5, <2>6 DEF Calibrate
  <1>14. CASE NoWorkableSize
    BY <1>14, <1>v DEF NoWorkableSize
  <1>15. ASSUME NEW ok \in BOOLEAN, CheckSamples(ok) PROVE TypeOK' /\ AuthorInv'
    <2>1. passed' \subseteq Nat \X Gates
      BY <1>15, <1>g DEF CheckSamples
    <2>2. crowded' \in BOOLEAN
      BY <1>15, <1>e DEF CheckSamples
    <2> QED
      BY <1>15, <1>v, <2>1, <2>2 DEF CheckSamples
  <1>16. ASSUME NEW found \in BOOLEAN, Stress(found) PROVE TypeOK' /\ AuthorInv'
    BY <1>16 DEF Stress, FoundNothing
  <1>17. ASSUME NEW ok \in BOOLEAN, Explain(ok) PROVE TypeOK' /\ AuthorInv'
    <2>1. mismatch \in {"free", "stress"}
      BY <1>17 DEF Explain, PipelineInv, FindInv
    <2> QED
      BY <1>17, <2>1 DEF Explain
  <1>18. CASE ModelFails
    BY <1>18 DEF ModelFails, WithoutModel
  <1>19. CASE Raise
    BY <1>19 DEF Raise
  <1>20. CASE Deadline
    BY <1>20 DEF Deadline
  <1>24. CASE LeftoverEnds
    <2>1. crowded' \in BOOLEAN
      BY <1>24 DEF LeftoverEnds
    <2>2. UNCHANGED <<inputVars, rowVars, pc, localVars, sizeVars, files, late, passed, gens>>
      BY <1>24 DEF LeftoverEnds
    <2> QED
      BY <2>1, <2>2
  <1>r. ASSUME NewRun, UNCHANGED <<spec, unique>>,
               state' \in TERMINAL \cup {"SUBMITTED", "COMPILING", "JUDGING", "AUTHORING",
                                        "VALIDATING", "STRESSING", "EXPLAINING"},
               report' \in Reports
        PROVE  TypeOK' /\ AuthorInv'
    <2>1. runs' \in 1 .. MaxRuns
      BY <1>r DEF NewRun
    <2>2. passed' \subseteq Nat \X Gates /\ sized' \in Nat \X Nat
      BY <1>r DEF NewRun
    <2>3. AuthorInv'
      BY <1>r DEF NewRun
    <2>4. checker' \in BOOLEAN /\ late' \in BOOLEAN /\ crowded' \in BOOLEAN
      BY <1>r DEF NewRun
    <2>5. /\ verdict' = "none" /\ free' = "none" /\ knob' = 0 /\ revision' = 0
          /\ failure' = "ok" /\ author' = 0 /\ limit' = 0 /\ files' = 0 /\ tries' = 0
          /\ mismatch' = "none" /\ gens' = 0 /\ pc' = "starting"
          /\ UNCHANGED <<external, spec, unique>>
      BY <1>r DEF NewRun
    <2> QED
      BY <1>r, <2>1, <2>2, <2>3, <2>4, <2>5
  <1>21. CASE CrashAndRerun
    BY <1>21, <1>r DEF CrashAndRerun
  <1>22. CASE Resubmit
    BY <1>22, <1>r DEF Resubmit
  <1>23. CASE UNCHANGED vars
    BY <1>23 DEF vars
  <1> QED
    BY <1>1, <1>2, <1>3, <1>4, <1>5, <1>6, <1>7, <1>8, <1>9, <1>10, <1>11, <1>12, <1>13,
       <1>14, <1>15, <1>16, <1>17, <1>18, <1>19, <1>20, <1>21, <1>22, <1>23, <1>24
    DEF Next, Judge, Search, Deliver

\* TypeOK is an invariant of the pipeline, for every value of the constants.
THEOREM TypeCorrect == Spec => []TypeOK
  <1>1. ASSUME Init PROVE TypeOK /\ AuthorInv
    <2>1. /\ MAX_SIZE_KNOB \in Nat /\ MAX_CALIBRATION_STEPS \in Nat
          /\ MaxRuns \in Nat /\ MaxRuns >= 1
      BY PipelineAssumption
    <2>2. passed \subseteq Nat \X Gates /\ sized \in Nat \X Nat
      BY <1>1 DEF Init
    <2>3. AuthorInv
      BY <1>1 DEF Init, AuthorInv, Started, Authored, Uploaded
    <2>4. /\ external \in BOOLEAN /\ unique \in BOOLEAN /\ checker \in BOOLEAN
          /\ late \in BOOLEAN /\ crowded \in BOOLEAN
      BY <1>1 DEF Init
    <2>5. /\ state = "SUBMITTED" /\ report = "NULL" /\ spec = 0 /\ pc = "starting"
          /\ verdict = "none" /\ free = "none" /\ knob = 0 /\ revision = 0
          /\ failure = "ok" /\ author = 0 /\ limit = 0 /\ files = 0 /\ tries = 0
          /\ mismatch = "none" /\ runs = 1 /\ gens = 0
      BY <1>1 DEF Init
    <2> QED
      BY <2>1, <2>2, <2>3, <2>4, <2>5, Revisions DEF TypeOK, Reports
  <1> QED
    BY <1>1, PipelineInvariant, TypeStep, PTL DEF Spec

-----------------------------------------------------------------------------
(* Progress: every step lowers Measure, so the rows come to an end whatever  *)
(* is fair.                                                                  *)

\* A revision costs RevisionCost.
LEMMA OneRevisionCosts ==
    ASSUME NEW r \in 0 .. MAX_AUTHOR_REVISIONS
    PROVE  /\ RevisionsLeft(r) \in Nat
           /\ RevisionsLeft(r) <= RevisionsLeft(0)
           /\ r < MAX_AUTHOR_REVISIONS => RevisionsLeft(r + 1) \in Nat
           /\ RevisionsLeft(r) = RevisionsLeft(r + 1) + (MAX_CALIBRATION_STEPS + 7)
  <1> DEFINE m == MAX_AUTHOR_REVISIONS
             c == RevisionCost
  <1>1. m \in Nat /\ c \in Nat /\ c = MAX_CALIBRATION_STEPS + 7
    BY PipelineAssumption DEF RevisionCost
  <1>2. ASSUME NEW q \in Nat PROVE q * c \in Nat
    BY <1>1, <1>2
  <1>3. RevisionsLeft(r) \in Nat
    BY <1>1, <1>2 DEF RevisionsLeft
  <1>4. r * c \in Nat /\ RevisionsLeft(0) = RevisionsLeft(r) + r * c
    BY <1>1, <1>2 DEF RevisionsLeft
  <1>5. r < m => RevisionsLeft(r + 1) \in Nat
    <2>1. r < m => m - (r + 1) \in Nat
      BY <1>1
    <2> QED
      BY <1>2, <2>1 DEF RevisionsLeft
  <1>6. RevisionsLeft(r) = RevisionsLeft(r + 1) + c
    BY <1>1 DEF RevisionsLeft
  <1>7. RevisionsLeft(r) <= RevisionsLeft(0)
    BY <1>3, <1>4
  <1>8. RevisionsLeft(r) = RevisionsLeft(r + 1) + (MAX_CALIBRATION_STEPS + 7)
    BY <1>1, <1>6
  <1> HIDE DEF m, c
  <1> QED
    BY <1>3, <1>5, <1>7, <1>8, PipelineAssumption DEF m

\* StepsLeft is a number.
LEMMA StepsLeftNat ==
    ASSUME TypeOK, ValueInv
    PROVE  StepsLeft \in Nat
  <1>1. /\ revision \in 0 .. MAX_AUTHOR_REVISIONS /\ tries \in 0 .. MAX_CALIBRATION_STEPS
        /\ MAX_CALIBRATION_STEPS \in Nat
        /\ pc \in Authored \cup {"authoring"} => revision < MAX_AUTHOR_REVISIONS
    BY PipelineAssumption DEF TypeOK, ValueInv
  <1>2. /\ RevisionsLeft(0) \in Nat /\ RevisionsLeft(revision) \in Nat
        /\ pc \in Authored \cup {"authoring"} => RevisionsLeft(revision + 1) \in Nat
    BY <1>1, Revisions, OneRevisionCosts
  <1>3. pc \in (Authored \cup {"authoring"}) \ {"stressing"} => RevisionLeft \in Nat
    BY <1>1 DEF RevisionLeft, Authored, Uploaded
  <1> QED
    BY <1>2, <1>3 DEF StepsLeft, TypeOK, Authored, Uploaded

\* One step less outweighs a program left running.
LEMMA OneStepIsWorthTwo ==
    ASSUME NEW rest \in Nat, NEW a \in Nat, NEW b \in Nat, b < a,
           NEW x \in {0, 1}, NEW y \in {0, 1}, NEW z \in {0, 1}
    PROVE  /\ rest + 2 * b + y + z \in Nat
           /\ rest + 2 * b + y + z < rest + 2 * a + x + z
  OBVIOUS

\* Steps of a run lower StepsLeft, and with it Measure.
LEMMA RunStepLowers ==
    ASSUME TypeOK, TypeOK', StepsLeft \in Nat, StepsLeft' \in Nat,
           StepsLeft' < StepsLeft, UNCHANGED <<runs, late>>
    PROVE  Measure' \in Nat /\ Measure' < Measure
  <1> DEFINE rest == (MaxRuns - runs) * RunCost
  <1>1. RunCost \in Nat /\ MaxRuns - runs \in Nat
    BY PipelineAssumption, Revisions, OneRevisionCosts DEF RunCost, TypeOK
  <1>2. rest \in Nat /\ rest' = rest
    BY <1>1
  <1> HIDE DEF rest
  <1>3. /\ Measure  = rest + 2 * StepsLeft + (IF crowded THEN 1 ELSE 0) + (IF late THEN 0 ELSE 1)
        /\ Measure' = rest + 2 * StepsLeft' + (IF crowded' THEN 1 ELSE 0) + (IF late THEN 0 ELSE 1)
    BY DEF Measure, rest
  <1> DEFINE before == IF crowded THEN 1 ELSE 0
             after  == IF crowded' THEN 1 ELSE 0
             timely == IF late THEN 0 ELSE 1
  <1>4. before \in {0, 1} /\ after \in {0, 1} /\ timely \in {0, 1}
    OBVIOUS
  <1>5. /\ Measure  = rest + 2 * StepsLeft + before + timely
        /\ Measure' = rest + 2 * StepsLeft' + after + timely
    BY <1>3
  <1> HIDE DEF before, after, timely
  <1> QED
    BY <1>2, <1>4, <1>5, OneStepIsWorthTwo

\* The deadline and the end of a program left behind lower the rest of it.
LEMMA EventLowers ==
    ASSUME TypeOK, StepsLeft \in Nat, Deadline \/ LeftoverEnds
    PROVE  Measure' \in Nat /\ Measure' < Measure
  <1> DEFINE rest == (MaxRuns - runs) * RunCost
  <1>1. RunCost \in Nat /\ MaxRuns - runs \in Nat
    BY PipelineAssumption, Revisions, OneRevisionCosts DEF RunCost, TypeOK
  <1>2. rest \in Nat
    BY <1>1
  <1>3. rest' = rest /\ StepsLeft' = StepsLeft
    BY DEF Deadline, LeftoverEnds, localVars, sizeVars, StepsLeft, RevisionLeft
  <1> HIDE DEF rest
  <1>4. /\ Measure  = rest + 2 * StepsLeft + (IF crowded THEN 1 ELSE 0) + (IF late THEN 0 ELSE 1)
        /\ Measure' = rest + 2 * StepsLeft + (IF crowded' THEN 1 ELSE 0) + (IF late' THEN 0 ELSE 1)
    BY <1>3 DEF Measure, rest
  <1>5. CASE Deadline
    BY <1>2, <1>4, <1>5 DEF Deadline, containerVars
  <1>6. CASE LeftoverEnds
    BY <1>2, <1>4, <1>6 DEF LeftoverEnds
  <1> QED
    BY <1>5, <1>6

\* A run's cost is paid when it is started.
LEMMA RunIsPaid ==
    ASSUME TypeOK, StepsLeft \in Nat, NewRun
    PROVE  Measure' \in Nat /\ Measure' < Measure
  <1> DEFINE c == RunCost
             left == MaxRuns - (runs + 1)
  <1>1. /\ RevisionsLeft(0) \in Nat
        /\ c \in Nat /\ c = 2 * (RevisionsLeft(0) + 8) + 2
        /\ left \in Nat /\ runs \in Nat /\ MaxRuns \in Nat
    BY PipelineAssumption, Revisions, OneRevisionCosts DEF RunCost, TypeOK, NewRun
  <1>2. left * c \in Nat
    BY <1>1
  <1>3. (MaxRuns - runs) * c = left * c + c
    BY <1>1
  <1>4. StepsLeft' = RevisionsLeft(0) + 8
    BY DEF NewRun, Goto, StepsLeft
  <1>5. Measure' = left * c + 2 * (RevisionsLeft(0) + 8) + 1
    BY <1>1, <1>2, <1>4 DEF Measure, NewRun
  <1>6. Measure = left * c + c + 2 * StepsLeft
                    + (IF crowded THEN 1 ELSE 0) + (IF late THEN 0 ELSE 1)
    BY <1>3 DEF Measure
  <1> HIDE DEF c, left
  <1> QED
    BY <1>1, <1>2, <1>5, <1>6 DEF TypeOK

\* The steps of a run that is neither cut short nor over: each one comes nearer
\* to its end.
LEMMA RunStepShrinks ==
    ASSUME TypeOK, PipelineInv, Judge \/ Search \/ Deliver \/ Raise
    PROVE  StepsLeft' < StepsLeft /\ UNCHANGED <<runs, late>>
  <1> DEFINE c == MAX_CALIBRATION_STEPS
             whole == RevisionsLeft(0)
             this == RevisionsLeft(revision)
             later == RevisionsLeft(revision + 1)
             Goal == StepsLeft' < StepsLeft /\ UNCHANGED <<runs, late>>
  <1>1. /\ c \in Nat /\ whole \in Nat /\ this \in Nat /\ this <= whole
        /\ pc \in Authored \cup {"authoring"} => later \in Nat /\ this = later + (c + 7)
        /\ tries \in 0 .. c
    <2>1. /\ revision \in 0 .. MAX_AUTHOR_REVISIONS
          /\ pc \in Authored \cup {"authoring"} => revision < MAX_AUTHOR_REVISIONS
      BY DEF PipelineInv, ValueInv
    <2> QED
      BY <2>1, OneRevisionCosts, Revisions, PipelineAssumption DEF TypeOK
  <1> HIDE DEF whole, this, later
  \* What StepsLeft is before the step ...
  <1>2. /\ pc = "starting" => StepsLeft = whole + 8
        /\ pc = "compiling" => StepsLeft = whole + 7
        /\ pc = "judging" => StepsLeft = whole + 6
        /\ pc = "judged" => StepsLeft = whole + 5
        /\ pc = "analyzing" => StepsLeft = whole + 4
        /\ pc = "checking" => StepsLeft = whole + 3
        /\ pc = "revising" => StepsLeft = this + 2
        /\ pc = "stressing" => StepsLeft = 2
        /\ pc = "explaining" => StepsLeft = 1
    BY DEF StepsLeft, whole, this
  <1>3. /\ pc = "authoring" => StepsLeft = later + (c + 6) + 2
        /\ pc = "uploading" => StepsLeft = later + (c + 5) + 2
        /\ pc = "syntax" => StepsLeft = later + (c + 4) + 2
        /\ pc = "probing" => StepsLeft = later + (c + 3) + 2
        /\ pc = "calibrating" => StepsLeft = later + (c - tries + 2) + 2
        /\ pc = "sampling" => StepsLeft = later + 1 + 2
    BY DEF StepsLeft, RevisionLeft, later
  \* ... and after it.
  <1>4. /\ pc' = "compiling" => StepsLeft' = whole + 7
        /\ pc' = "judging" => StepsLeft' = whole + 6
        /\ pc' = "judged" => StepsLeft' = whole + 5
        /\ pc' = "analyzing" => StepsLeft' = whole + 4
        /\ pc' = "checking" => StepsLeft' = whole + 3
        /\ pc' = "revising" /\ revision' = revision => StepsLeft' = this + 2
        /\ pc' = "revising" /\ revision' = revision + 1 => StepsLeft' = later + 2
        /\ pc' = "stressing" => StepsLeft' = 2
        /\ pc' = "explaining" => StepsLeft' = 1
        /\ pc' = "closed" => StepsLeft' = 0
    BY DEF StepsLeft, whole, this, later
  <1>5. revision' = revision =>
          /\ pc' = "authoring" => StepsLeft' = later + (c + 6) + 2
          /\ pc' = "uploading" => StepsLeft' = later + (c + 5) + 2
          /\ pc' = "syntax" => StepsLeft' = later + (c + 4) + 2
          /\ pc' = "probing" => StepsLeft' = later + (c + 3) + 2
          /\ pc' = "calibrating" => StepsLeft' = later + (c - tries' + 2) + 2
          /\ pc' = "sampling" => StepsLeft' = later + 1 + 2
    BY DEF StepsLeft, RevisionLeft, later
  <1>6. pc # "closed" => StepsLeft \in Nat /\ StepsLeft >= 1
    BY <1>1, <1>2, <1>3 DEF TypeOK, Authored, Uploaded
  <1> USE DEF Goto, Finish, inputVars, rowVars, localVars, sizeVars, containerVars
  <1>j. CASE Judge
    BY <1>j, <1>1, <1>2, <1>4
    DEF Judge, StartContainer, BeginJudging, compile_and_judge, JudgeGate
  <1>a. CASE ReuseSpec \/ \E n \in Estimates, u \in BOOLEAN : NewSpec(n, u)
    <2>1. /\ pc = "analyzing" /\ pc' \in {"revising", "checking"}
          /\ UNCHANGED <<revision, runs, late>>
      BY <1>a DEF ReuseSpec, NewSpec, AfterAnalysis
    <2> QED
      BY <2>1, <1>1, <1>2, <1>4
  <1>c. CASE author_checker
    BY <1>c, <1>1, <1>2, <1>4 DEF author_checker
  <1>n. CASE NextRevision
    <2>1. this = later + (c + 7) /\ later \in Nat
      <3>1. revision \in 0 .. MAX_AUTHOR_REVISIONS /\ revision < MAX_AUTHOR_REVISIONS
        BY <1>n DEF NextRevision, PipelineInv, ValueInv
      <3> QED
        BY <3>1, OneRevisionCosts DEF this, later
    <2> QED
      BY <1>n, <2>1, <1>1, <1>2, <1>5 DEF NextRevision
  <1>o. CASE OutOfRevisions
    BY <1>o, <1>1, <1>2, <1>4 DEF OutOfRevisions, FoundNothing
  <1>u. CASE Upload \/ \E n \in Limits : Author(n)
    BY <1>u, <1>1, <1>3, <1>5 DEF Upload, Author, Authored, Uploaded
  <1>s. ASSUME NEW ok \in BOOLEAN, CheckSyntax(ok) \/ CheckSamples(ok) PROVE Goal
    BY <1>s, <1>1, <1>3, <1>4, <1>5 DEF CheckSyntax, CheckSamples, Repair, Authored, Uploaded
  <1>p. ASSUME NEW o, ProbeOne(o) PROVE Goal
    BY <1>p, <1>1, <1>3, <1>4, <1>5 DEF ProbeOne, Repair, Authored, Uploaded
  <1>b. ASSUME NEW o, Calibrate(o) PROVE Goal
    BY <1>b, <1>1, <1>3, <1>4, <1>5 DEF Calibrate, SlowAnswer, Repair, Authored, Uploaded
  <1>w. CASE NoWorkableSize
    BY <1>w, <1>1, <1>3, <1>4 DEF NoWorkableSize, Repair, Authored, Uploaded
  <1>d. CASE Deliver
    BY <1>d, <1>1, <1>2, <1>3, <1>4
    DEF Deliver, Stress, FoundNothing, Explain, ModelFails, WithoutModel, Authored, Uploaded
  <1>r. CASE Raise
    BY <1>r, <1>4, <1>6 DEF Raise
  <1> QED
    BY <1>j, <1>a, <1>c, <1>n, <1>o, <1>u, <1>s, <1>p, <1>b, <1>w, <1>d, <1>r DEF Search

\* Every step, whoever takes it, uses up some of a finite amount of work,
\* whatever the number of revisions, of calibration rounds and of runs.
THEOREM RowsMakeProgress == Spec => Progress
  <1>1. PipelineInv /\ TypeOK => StepsLeft \in Nat
    BY StepsLeftNat DEF PipelineInv
  <1>2. ASSUME PipelineInv, TypeOK, TypeOK', StepsLeft \in Nat, (StepsLeft \in Nat)', [Next]_vars
        PROVE  [Measure' \in Nat /\ Measure' < Measure]_vars
    <2>1. CASE Judge \/ Search \/ Deliver \/ Raise
      BY <1>2, <2>1, RunStepShrinks, RunStepLowers
    <2>2. CASE Deadline \/ LeftoverEnds
      BY <1>2, <2>2, EventLowers
    <2>3. CASE CrashAndRerun \/ Resubmit
      BY <1>2, <2>3, RunIsPaid DEF CrashAndRerun, Resubmit
    <2> QED
      BY <1>2, <2>1, <2>2, <2>3 DEF Next
  <1> QED
    BY <1>1, <1>2, PipelineInvariant, TypeCorrect, PTL DEF Spec, Progress
=============================================================================
