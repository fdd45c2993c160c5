------------------------- MODULE ModelClientProofs -------------------------
(***************************************************************************)
(* Machine-checked proofs about module ModelClient, for every number of    *)
(* concurrent runs, every budget, retry count and breaker threshold.       *)
(***************************************************************************)
EXTENDS ModelClient, TLAPS

-----------------------------------------------------------------------------
(* Arithmetic of the token bound. *)

\* One more response of at most M tokens fits under one more multiple of M.
LEMMA OneMoreResponse ==
    ASSUME NEW a \in Nat, NEW m \in Nat, NEW cap \in Nat, NEW used \in Nat,
           NEW t \in 0 .. m, used <= cap + a * m
    PROVE  used + t <= cap + (a + 1) * m
  <1>1. (a + 1) * m = a * m + m
    OBVIOUS
  <1> QED
    BY <1>1

\* A loop variable below the number of attempts bounds the product.
LEMMA LoopProduct ==
    ASSUME NEW a \in Nat, NEW n \in Nat, NEW m \in Nat, a <= n
    PROVE  a * m \in Nat /\ n * m \in Nat /\ a * m <= n * m
  <1>1. PICK k \in Nat : n = a + k
    <2>1. n - a \in Nat /\ n = a + (n - a)
      OBVIOUS
    <2> QED
      BY <2>1
  <1>2. n * m = a * m + k * m
    BY <1>1
  <1>3. a * m \in Nat /\ k * m \in Nat
    OBVIOUS
  <1> QED
    BY <1>2, <1>3

-----------------------------------------------------------------------------
(* Type correctness. *)

\* Every step keeps every variable in its type.
LEMMA TypeStep == TypeOK /\ [Next]_vars => TypeOK'
  <1> SUFFICES ASSUME TypeOK, [Next]_vars PROVE TypeOK'
    OBVIOUS
  <1> USE ClientAssumption DEF TypeOK, Resting, Inside
  <1>1. ASSUME NEW r \in Runs, FailFast(r) PROVE TypeOK'
    BY <1>1 DEF FailFast, At, breakerVars
  <1>2. ASSUME NEW r \in Runs, Generate(r) PROVE TypeOK'
    BY <1>2 DEF Generate, is_open_FALSE, At
  <1>3. ASSUME NEW r \in Runs, CheckBudget(r) PROVE TypeOK'
    BY <1>3 DEF CheckBudget, At, breakerVars
  <1>4. ASSUME NEW r \in Runs, Throttled(r) PROVE TypeOK'
    BY <1>4 DEF Throttled, Last, NextAttempt, At, breakerVars
  <1>5. ASSUME NEW r \in Runs, Wake(r) PROVE TypeOK'
    BY <1>5 DEF Wake, At, breakerVars
  <1>6. ASSUME NEW r \in Runs, CallFails(r) PROVE TypeOK'
    BY <1>6 DEF CallFails, record_failure, LogThen, At
  <1>7. ASSUME NEW r \in Runs, Answer(r) PROVE TypeOK'
    BY <1>7 DEF Answer, At, breakerVars
  <1>8. ASSUME NEW r \in Runs, NEW t \in TokenCosts, NEW truncated \in BOOLEAN,
               NEW valid \in BOOLEAN, Account(r, t, truncated, valid)
        PROVE  TypeOK'
    <2>1. t \in Nat
      OBVIOUS
    <2>2. llm_calls' \in [Runs -> Nat] /\ tokens_used' \in [Runs -> Nat]
      BY <1>8, <2>1 DEF Account
    <2>3. pc' \in [Runs -> Resting \cup Inside]
      BY <1>8 DEF Account, LogThen, At
    <2>4. attempt' \in [Runs -> 0 .. Attempts - 1]
      BY <1>8 DEF Account, NextAttempt, Last
    <2>5. failures' \in Nat /\ cooldown' \in 0 .. Reset /\ streak' \in 0 .. Threshold
      BY <1>8 DEF Account, record_success, breakerVars
    <2> QED
      BY <1>8, <2>2, <2>3, <2>4, <2>5 DEF Account
  <1>9. ASSUME NEW r \in Runs, DbError(r) PROVE TypeOK'
    BY <1>9 DEF DbError, At, breakerVars
  <1>10. CASE GoDown \/ GoUp
    BY <1>10 DEF GoDown, GoUp, runVars, breakerVars
  <1>11. CASE Tick
    BY <1>11 DEF Tick, runVars
  <1>12. CASE UNCHANGED vars
    BY <1>12 DEF vars, runVars, breakerVars
  <1> QED
    BY <1>1, <1>2, <1>3, <1>4, <1>5, <1>6, <1>7, <1>8, <1>9, <1>10, <1>11, <1>12
    DEF Next, Proceed, AccountAny

\* TypeOK is an invariant of the client, for every value of the constants.
THEOREM TypeCorrect == Spec => []TypeOK
  <1>1. Init => TypeOK
    BY ClientAssumption DEF Init, TypeOK, Resting, Inside
  <1> QED
    BY <1>1, TypeStep, PTL DEF Spec

-----------------------------------------------------------------------------
(* The budget. *)

InLoop(r) == pc[r] \in {"calling", "sleeping", "answered"}

\* Inside the retry loop the counters have grown by at most what the attempts
\* already made may have cost.
BudgetInv ==
    /\ BudgetBounded
    /\ \A r \in Runs : InLoop(r) =>
          /\ llm_calls[r] + 1 <= CallCap + attempt[r]
          /\ tokens_used[r] <= TokenCap + attempt[r] * MaxTokens

\* Every step keeps the budget invariant.
LEMMA BudgetStep == TypeOK /\ BudgetInv /\ [Next]_vars => BudgetInv'
  <1> SUFFICES ASSUME TypeOK, BudgetInv, [Next]_vars PROVE BudgetInv'
    OBVIOUS
  <1> USE ClientAssumption
  <1> DEFINE Quiet == /\ UNCHANGED <<llm_calls, tokens_used>>
                      /\ \A r \in Runs : InLoop(r)' => InLoop(r) /\ attempt'[r] = attempt[r]
  <1>1. ASSUME Quiet PROVE BudgetInv'
    BY <1>1 DEF BudgetInv, BudgetBounded
  <1>2. ASSUME NEW r \in Runs, FailFast(r) \/ Generate(r) PROVE Quiet
    BY <1>2 DEF FailFast, Generate, At, InLoop, Resting, TypeOK
  <1>3. ASSUME NEW r \in Runs, CheckBudget(r) PROVE BudgetInv'
    <2>1. UNCHANGED <<llm_calls, tokens_used>>
      BY <1>3 DEF CheckBudget
    <2>2. \A q \in Runs : q # r => attempt'[q] = attempt[q] /\ pc'[q] = pc[q]
      BY <1>3 DEF CheckBudget, At, TypeOK
    <2>3. InLoop(r)' => attempt'[r] = 0 /\ ~ Exhausted(r)
      BY <1>3 DEF CheckBudget, At, InLoop, TypeOK
    <2>4. InLoop(r)' => /\ llm_calls'[r] + 1 <= CallCap + attempt'[r]
                        /\ tokens_used'[r] <= TokenCap + attempt'[r] * MaxTokens
      BY <2>1, <2>3 DEF Exhausted, TypeOK
    <2> QED
      BY <2>1, <2>2, <2>4 DEF BudgetInv, BudgetBounded, InLoop
  <1>4. ASSUME NEW r \in Runs, Throttled(r) PROVE BudgetInv'
    <2>1. UNCHANGED <<llm_calls, tokens_used>>
      BY <1>4 DEF Throttled
    <2>2. \A q \in Runs : q # r => attempt'[q] = attempt[q] /\ pc'[q] = pc[q]
      BY <1>4 DEF Throttled, NextAttempt, At, TypeOK
    <2>3. InLoop(r) /\ attempt'[r] = attempt[r] + 1
      BY <1>4 DEF Throttled, NextAttempt, InLoop, TypeOK
    <2>4. /\ llm_calls'[r] + 1 <= CallCap + attempt'[r]
          /\ tokens_used'[r] <= TokenCap + attempt'[r] * MaxTokens
      <3>1. /\ attempt[r] \in Nat /\ llm_calls[r] \in Nat /\ tokens_used[r] \in Nat
            /\ llm_calls[r] + 1 <= CallCap + attempt[r]
            /\ tokens_used[r] <= TokenCap + attempt[r] * MaxTokens
        BY <2>3 DEF BudgetInv, TypeOK
      <3>2. tokens_used[r] + 0 <= TokenCap + (attempt[r] + 1) * MaxTokens
        BY <3>1, OneMoreResponse
      <3> QED
        BY <2>1, <2>3, <3>1, <3>2
    <2> QED
      BY <2>1, <2>2, <2>4 DEF BudgetInv, BudgetBounded, InLoop
  <1>5. ASSUME NEW r \in Runs, Wake(r) \/ CallFails(r) \/ Answer(r) \/ DbError(r) PROVE Quiet
    BY <1>5 DEF Wake, CallFails, Answer, DbError, LogThen, At, InLoop, TypeOK
  <1>6. ASSUME NEW r \in Runs, NEW t \in TokenCosts, NEW truncated \in BOOLEAN,
               NEW valid \in BOOLEAN, Account(r, t, truncated, valid)
        PROVE  BudgetInv'
    <2>1. /\ llm_calls'[r] = llm_calls[r] + 1 /\ tokens_used'[r] = tokens_used[r] + t
          /\ \A q \in Runs : q # r =>
                /\ llm_calls'[q] = llm_calls[q] /\ tokens_used'[q] = tokens_used[q]
      BY <1>6 DEF Account, TypeOK
    <2>2. \A q \in Runs : q # r => attempt'[q] = attempt[q] /\ pc'[q] = pc[q]
      BY <1>6 DEF Account, NextAttempt, LogThen, At, TypeOK
    <2>3. InLoop(r)' => attempt'[r] = attempt[r] + 1
      BY <1>6 DEF Account, NextAttempt, LogThen, At, InLoop, TypeOK
    <2>4. /\ InLoop(r) /\ attempt[r] \in Nat /\ attempt[r] + 1 <= Attempts
          /\ llm_calls[r] \in Nat /\ tokens_used[r] \in Nat /\ t \in 0 .. MaxTokens
      BY <1>6 DEF Account, InLoop, TypeOK
    <2>5. llm_calls'[r] <= CallCap + attempt[r]
      BY <2>1, <2>4 DEF BudgetInv
    <2>6. tokens_used'[r] <= TokenCap + (attempt[r] + 1) * MaxTokens
      BY <2>1, <2>4, OneMoreResponse DEF BudgetInv
    <2>7. llm_calls'[r] <= CallCap + (Attempts - 1)
      BY <2>1, <2>4, <2>5
    <2>8. tokens_used'[r] <= TokenCap + Attempts * MaxTokens
      <3> DEFINE a == attempt[r] + 1
      <3>2. a \in Nat /\ Attempts \in Nat /\ MaxTokens \in Nat /\ a <= Attempts
        BY <2>4
      <3> HIDE DEF a
      <3>3. /\ a * MaxTokens \in Nat /\ Attempts * MaxTokens \in Nat
            /\ a * MaxTokens <= Attempts * MaxTokens
        BY <3>2, LoopProduct
      <3>1. /\ (attempt[r] + 1) * MaxTokens \in Nat /\ Attempts * MaxTokens \in Nat
            /\ (attempt[r] + 1) * MaxTokens <= Attempts * MaxTokens
        BY <3>3 DEF a
      <3> QED
        BY <2>1, <2>4, <2>6, <3>1
    <2>9. InLoop(r)' => /\ llm_calls'[r] + 1 <= CallCap + attempt'[r]
                        /\ tokens_used'[r] <= TokenCap + attempt'[r] * MaxTokens
      BY <2>1, <2>3, <2>4, <2>5, <2>6
    <2>10. BudgetBounded'
      BY <2>1, <2>7, <2>8 DEF BudgetInv, BudgetBounded
    <2> QED
      BY <2>1, <2>2, <2>9, <2>10 DEF BudgetInv, InLoop
  <1>7. ASSUME GoDown \/ GoUp \/ Tick \/ UNCHANGED vars PROVE Quiet
    BY <1>7 DEF GoDown, GoUp, Tick, vars, runVars, InLoop
  <1> HIDE DEF Quiet
  <1> QED
    BY <1>1, <1>2, <1>3, <1>4, <1>5, <1>6, <1>7 DEF Next, Proceed, AccountAny

\* The budget holds initially.
LEMMA BudgetInit == Init => BudgetInv
  <1> SUFFICES ASSUME Init PROVE BudgetInv
    OBVIOUS
  <1>1. Attempts * MaxTokens \in Nat
    BY ClientAssumption
  <1> QED
    BY <1>1, ClientAssumption DEF Init, BudgetInv, BudgetBounded, InLoop

\* However many runs share the process, a submission is never billed for more
\* than max_llm_calls_per_submission + attempts - 1 calls, and overshoots its
\* token cap by at most the responses of one generate.
THEOREM BudgetIsBounded == Spec => []BudgetBounded
  <1>1. BudgetInv => BudgetBounded
    BY DEF BudgetInv
  <1> QED
    BY <1>1, BudgetInit, BudgetStep, TypeCorrect, PTL DEF Spec

-----------------------------------------------------------------------------
(* The breaker. *)

\* The counter never runs ahead of the failures since the last success.
BreakerInv == failures <= streak \/ streak = Threshold

\* Every step keeps the breaker's counter behind the failures it stands for.
LEMMA BreakerStep == TypeOK /\ BreakerInv /\ [Next]_vars => BreakerInv'
  <1> SUFFICES ASSUME TypeOK, BreakerInv, [Next]_vars PROVE BreakerInv'
    OBVIOUS
  <1> USE ClientAssumption DEF BreakerInv, TypeOK
  <1>1. ASSUME NEW r \in Runs, Generate(r) PROVE BreakerInv'
    BY <1>1 DEF Generate, is_open_FALSE, HalfOpen, Tripped
  <1>2. ASSUME NEW r \in Runs, CallFails(r) PROVE BreakerInv'
    BY <1>2 DEF CallFails, record_failure
  <1>3. ASSUME NEW r \in Runs, NEW t \in TokenCosts, NEW truncated \in BOOLEAN,
               NEW valid \in BOOLEAN, Account(r, t, truncated, valid)
        PROVE  BreakerInv'
    BY <1>3 DEF Account, record_success, breakerVars
  <1>4. ASSUME NEW r \in Runs, FailFast(r) \/ CheckBudget(r) \/ Throttled(r) \/ Wake(r)
                               \/ Answer(r) \/ DbError(r)
        PROVE  BreakerInv'
    BY <1>4 DEF FailFast, CheckBudget, Throttled, Wake, Answer, DbError, breakerVars
  <1>5. CASE GoDown \/ GoUp \/ Tick \/ UNCHANGED vars
    BY <1>5 DEF GoDown, GoUp, Tick, vars, breakerVars
  <1> QED
    BY <1>1, <1>2, <1>3, <1>4, <1>5 DEF Next, Proceed, AccountAny

\* The breaker trips only after Threshold failed calls with no success between.
THEOREM BreakerTripsOnOutage == Spec => []TripsOnOutage
  <1>1. Init => BreakerInv
    BY DEF Init, BreakerInv
  <1>2. TypeOK /\ BreakerInv => TripsOnOutage
    BY ClientAssumption DEF TypeOK, BreakerInv, TripsOnOutage, Tripped
  <1> QED
    BY <1>1, <1>2, BreakerStep, TypeCorrect, PTL DEF Spec

-----------------------------------------------------------------------------
(* The retry loop. *)

\* What one step of a run does to its place in generate: it leaves, or goes on in
\* the same attempt, or in the next one if there is one.
Onward(r) ==
    \/ pc'[r] \in Resting
    \/ pc[r] = "budgeting" /\ pc'[r] = "calling" /\ attempt'[r] = 0
    \/ pc[r] = "sleeping" /\ pc'[r] = "calling" /\ attempt'[r] = attempt[r]
    \/ pc[r] = "calling" /\ pc'[r] = "answered" /\ attempt'[r] = attempt[r]
    \/ /\ pc[r] = "calling" /\ pc'[r] = "sleeping"
       /\ attempt[r] # Attempts - 1 /\ attempt'[r] = attempt[r] + 1
    \/ /\ pc[r] = "answered" /\ pc'[r] \in {"calling", "sleeping"}
       /\ attempt[r] # Attempts - 1 /\ attempt'[r] = attempt[r] + 1

\* Each of these brings the end closer.
LEMMA OnwardShrinks ==
    ASSUME TypeOK, TypeOK', NEW r \in Runs, pc[r] \in Inside, Onward(r)
    PROVE  StepsLeft(r)' \in 0 .. StepsLeft(r) - 1
  <1>1. /\ attempt[r] \in 0 .. Attempts - 1 /\ attempt'[r] \in 0 .. Attempts - 1
        /\ Attempts \in Nat \ {0}
    BY ClientAssumption DEF TypeOK
  <1>2. StepsLeft(r) = CASE pc[r] = "answered" -> 3 * (Attempts - 1 - attempt[r]) + 1
                         [] pc[r] = "calling"  -> 3 * (Attempts - 1 - attempt[r]) + 2
                         [] pc[r] = "sleeping" -> 3 * (Attempts - 1 - attempt[r]) + 3
                         [] pc[r] = "budgeting" -> 3 * Attempts
    BY DEF StepsLeft, Inside, Resting
  <1>3. pc'[r] \in Resting => StepsLeft(r)' = 0
    BY DEF StepsLeft, Resting
  <1>4. /\ pc'[r] = "answered" => StepsLeft(r)' = 3 * (Attempts - 1 - attempt'[r]) + 1
        /\ pc'[r] = "calling"  => StepsLeft(r)' = 3 * (Attempts - 1 - attempt'[r]) + 2
        /\ pc'[r] = "sleeping" => StepsLeft(r)' = 3 * (Attempts - 1 - attempt'[r]) + 3
    BY DEF StepsLeft, Resting
  <1>5. StepsLeft(r) \in Nat \ {0}
    BY <1>1, <1>2 DEF Inside
  <1>6. CASE pc'[r] \in Resting
    BY <1>3, <1>5, <1>6
  <1>7. CASE pc'[r] \notin Resting
    BY <1>1, <1>2, <1>4, <1>7 DEF Onward
  <1> QED
    BY <1>6, <1>7

\* A step is taken by one run, or by none, and a run inside generate goes on.
LEMMA OneRunSteps ==
    ASSUME TypeOK, [Next]_vars, NEW r \in Runs, pc[r] \in Inside
    PROVE  Onward(r) \/ UNCHANGED <<pc[r], attempt[r], llm_calls[r], tokens_used[r]>>
  <1> DEFINE Alone(q) == \A x \in Runs : x # q =>
                           UNCHANGED <<pc[x], attempt[x], llm_calls[x], tokens_used[x]>>
  <1> USE DEF TypeOK, At, LogThen, NextAttempt
  <1>1. ASSUME NEW q \in Runs, FailFast(q) \/ Generate(q) PROVE Alone(q) /\ pc[q] \notin Inside
    BY <1>1 DEF FailFast, Generate, Inside, Resting
  <1>2. ASSUME NEW q \in Runs, CheckBudget(q) PROVE Alone(q) /\ Onward(q)
    BY <1>2 DEF CheckBudget, Onward, Resting
  <1>3. ASSUME NEW q \in Runs, Throttled(q) PROVE Alone(q) /\ Onward(q)
    BY <1>3 DEF Throttled, Last, Onward
  <1>4. ASSUME NEW q \in Runs, Wake(q) \/ Answer(q) PROVE Alone(q) /\ Onward(q)
    BY <1>4 DEF Wake, Answer, Onward
  <1>5. ASSUME NEW q \in Runs, CallFails(q) \/ DbError(q) PROVE Alone(q) /\ Onward(q)
    BY <1>5 DEF CallFails, DbError, Onward, Resting
  <1>6. ASSUME NEW q \in Runs, NEW t \in TokenCosts, NEW truncated \in BOOLEAN,
               NEW valid \in BOOLEAN, Account(q, t, truncated, valid)
        PROVE  Alone(q) /\ Onward(q)
    <2>1. Alone(q)
      BY <1>6 DEF Account
    <2>2. Onward(q)
      BY <1>6 DEF Account, Last, Onward, Resting
    <2> QED
      BY <2>1, <2>2
  <1>7. CASE GoDown \/ GoUp \/ Tick \/ UNCHANGED vars
    BY <1>7 DEF GoDown, GoUp, Tick, vars, runVars
  <1> QED
    BY <1>1, <1>2, <1>3, <1>4, <1>5, <1>6, <1>7 DEF Next, Proceed, AccountAny

\* A call of generate takes at most 3 * Attempts steps of its own, for every
\* number of attempts and of concurrent runs, on every mixture of retries.
THEOREM GenerateIsBounded == Spec => GenerateShrinks
  <1>1. TypeOK /\ TypeOK' /\ [Next]_vars =>
           [\A r \in Runs :
               pc[r] \in Inside =>
                   \/ UNCHANGED <<pc[r], attempt[r], llm_calls[r], tokens_used[r]>>
                   \/ StepsLeft(r)' \in 0 .. StepsLeft(r) - 1]_vars
    BY OnwardShrinks, OneRunSteps
  <1> QED
    BY <1>1, TypeCorrect, PTL DEF Spec, GenerateShrinks
=============================================================================
