---------------------------- MODULE ModelClient ----------------------------
(***************************************************************************)
(* llm/client.py: generate, with its per-submission budget, its retries    *)
(* and the circuit breaker all runs of one worker process share.           *)
(*                                                                         *)
(* Each run works on a submission of its own (module JobQueue: OwnsRow)    *)
(* and makes its calls one after the other, so it is also the name of the  *)
(* row whose counters get_usage reads and add_usage advances.  The event   *)
(* loop switches between runs only where generate awaits: get_usage, the   *)
(* API call, asyncio.sleep and add_usage.                                  *)
(***************************************************************************)
EXTENDS Naturals

CONSTANTS
    Runs,           \* run_submission calls of one process
    Attempts,       \* generate's parameter: API calls one generate may make
    CallCap,        \* max_llm_calls_per_submission
    TokenCap,       \* max_tokens_per_submission
    MaxTokens,      \* the most tokens one response is billed for
    TokenCosts,     \* what a response may be billed for
    Threshold,      \* breaker_fail_threshold
    Reset,          \* breaker_reset_seconds
    MaxOutages      \* bound: how often the API goes down

ASSUME ClientAssumption ==
    /\ Attempts \in Nat \ {0}
    /\ CallCap \in Nat /\ TokenCap \in Nat /\ MaxTokens \in Nat
    /\ TokenCosts \subseteq 0 .. MaxTokens
    /\ Threshold \in Nat \ {0}
    /\ Reset \in Nat \ {0}
    /\ MaxOutages \in Nat

VARIABLES
    pc,             \* where the run is in generate, or how its last call ended
    attempt,        \* generate's loop variable
    llm_calls,      \* the row's counters
    tokens_used,
    failures,       \* the breaker's counter
    cooldown,       \* time left of reset_seconds since opened_at
    api,            \* the model API: up or down
    outages,        \* how often the API may still go down
    streak          \* history: failed calls since the last success, at most Threshold

runVars     == <<pc, attempt, llm_calls, tokens_used>>
breakerVars == <<failures, cooldown, streak>>
vars        == <<runVars, breakerVars, api, outages>>

\* Outside generate: no call yet, a value returned, or one of the exceptions
\* (error: what the database raised).
Resting == {"start", "ok", "ModelUnavailable", "BudgetExhausted", "MalformedResponse", "error"}

\* Awaiting get_usage, the API, a backoff sleep, add_usage.
Inside  == {"budgeting", "calling", "sleeping", "answered"}

-----------------------------------------------------------------------------
(* The circuit breaker. *)

Tripped  == failures >= Threshold
Open     == Tripped /\ cooldown > 0
HalfOpen == Tripped /\ cooldown = 0

record_success ==
    /\ failures' = 0
    /\ streak' = 0
    /\ UNCHANGED cooldown

\* Mutant of record_failure: one failed call counts twice.
RecordTwice ==
    /\ failures' = failures + 2
    /\ cooldown' = IF failures' >= Threshold THEN Reset ELSE cooldown
    /\ streak' = IF streak < Threshold THEN streak + 1 ELSE streak

record_failure ==
    /\ failures' = failures + 1
    /\ cooldown' = IF failures' >= Threshold THEN Reset ELSE cooldown
    /\ streak' = IF streak < Threshold THEN streak + 1 ELSE streak

\* is_open returns FALSE; when the window is over it also arms the breaker so
\* that the next failure opens it again.
is_open_FALSE ==
    /\ ~ Open
    /\ failures' = IF HalfOpen THEN Threshold - 1 ELSE failures
    /\ UNCHANGED <<cooldown, streak>>

-----------------------------------------------------------------------------
(* generate. *)

At(r, where) == pc' = [pc EXCEPT ![r] = where]

\* log_step is awaited before generate ends with how, and may raise itself.
LogThen(r, how) == At(r, how) \/ At(r, "error")

\* Mutant of FailFast: a refused call starts the window again.
FailFastRenewed(r) ==
    /\ pc[r] \in Resting
    /\ Open
    /\ At(r, "ModelUnavailable")
    /\ cooldown' = Reset
    /\ UNCHANGED <<attempt, llm_calls, tokens_used, failures, streak, api, outages>>

\* The breaker is open: ModelUnavailable before anything is spent.
FailFast(r) ==
    /\ pc[r] \in Resting
    /\ Open
    /\ At(r, "ModelUnavailable")
    /\ UNCHANGED <<attempt, llm_calls, tokens_used, breakerVars, api, outages>>

Generate(r) ==
    /\ pc[r] \in Resting
    /\ is_open_FALSE
    /\ At(r, "budgeting")
    /\ UNCHANGED <<attempt, llm_calls, tokens_used, api, outages>>

\* Mutant of Exhausted: the token counter is not looked at.
ExhaustedCallsOnly(r) == llm_calls[r] >= CallCap

Exhausted(r) == llm_calls[r] >= CallCap \/ tokens_used[r] > TokenCap

\* get_usage answers: the only budget check of the whole call.
CheckBudget(r) ==
    /\ pc[r] = "budgeting"
    /\ IF Exhausted(r)
         THEN At(r, "BudgetExhausted") /\ UNCHANGED attempt
         ELSE At(r, "calling") /\ attempt' = [attempt EXCEPT ![r] = 0]
    /\ UNCHANGED <<llm_calls, tokens_used, breakerVars, api, outages>>

\* Mutant of Last: the loop runs once too often.
LastLate(r) == attempt[r] = Attempts

Last(r) == attempt[r] = Attempts - 1

\* Mutant of NextAttempt: the loop variable does not move.
SameAttempt(r) == UNCHANGED attempt

NextAttempt(r) == attempt' = [attempt EXCEPT ![r] = @ + 1]

\* The API call raises something retryable and attempts are left.
Throttled(r) ==
    /\ pc[r] = "calling"
    /\ api = "down"
    /\ ~ Last(r)
    /\ At(r, "sleeping")
    /\ NextAttempt(r)
    /\ UNCHANGED <<llm_calls, tokens_used, breakerVars, api, outages>>

\* Mutant of Wake: the attempts are counted from the start again.
WakeAfresh(r) ==
    /\ pc[r] = "sleeping"
    /\ At(r, "calling")
    /\ attempt' = [attempt EXCEPT ![r] = 0]
    /\ UNCHANGED <<llm_calls, tokens_used, breakerVars, api, outages>>

\* The backoff sleep is over.  The breaker is not asked again.
Wake(r) ==
    /\ pc[r] = "sleeping"
    /\ At(r, "calling")
    /\ UNCHANGED <<attempt, llm_calls, tokens_used, breakerVars, api, outages>>

\* The API call raises something final, or the last attempt fails.  The
\* missing API key of client() ends here too.
CallFails(r) ==
    /\ pc[r] = "calling"
    /\ api = "down"
    /\ record_failure
    /\ LogThen(r, "ModelUnavailable")
    /\ UNCHANGED <<attempt, llm_calls, tokens_used, api, outages>>

\* A response arrives and add_usage is on its way.
Answer(r) ==
    /\ pc[r] = "calling"
    /\ api = "up"
    /\ At(r, "answered")
    /\ UNCHANGED <<attempt, llm_calls, tokens_used, breakerVars, api, outages>>

\* add_usage has committed; the response was billed t tokens, may have been
\* truncated and may or may not parse against the schema, directly or after
\* _strip_fence.  A truncated response is parsed only on the last attempt.
Account(r, t, truncated, valid) ==
    /\ pc[r] = "answered"
    /\ llm_calls'   = [llm_calls EXCEPT ![r] = @ + 1]
    /\ tokens_used' = [tokens_used EXCEPT ![r] = @ + t]
    /\ \/ /\ truncated /\ ~ Last(r)
          /\ At(r, "calling") /\ NextAttempt(r)
          /\ UNCHANGED breakerVars
       \/ /\ ~ truncated /\ ~ valid /\ ~ Last(r)
          /\ At(r, "sleeping") /\ NextAttempt(r)
          /\ UNCHANGED breakerVars
       \/ /\ ~ valid /\ Last(r)
          /\ LogThen(r, "MalformedResponse")
          /\ UNCHANGED <<attempt, breakerVars>>
       \/ /\ valid /\ (truncated => Last(r))
          /\ record_success
          /\ LogThen(r, "ok")
          /\ UNCHANGED attempt
    /\ UNCHANGED <<api, outages>>

\* get_usage or add_usage raises; the exception leaves generate.
DbError(r) ==
    /\ pc[r] \in {"budgeting", "answered"}
    /\ At(r, "error")
    /\ UNCHANGED <<attempt, llm_calls, tokens_used, breakerVars, api, outages>>

-----------------------------------------------------------------------------
(* The environment. *)

GoDown ==
    /\ api = "up" /\ outages > 0
    /\ api' = "down" /\ outages' = outages - 1
    /\ UNCHANGED <<runVars, breakerVars>>

GoUp ==
    /\ api = "down"
    /\ api' = "up"
    /\ UNCHANGED <<runVars, breakerVars, outages>>

Tick ==
    /\ cooldown > 0
    /\ cooldown' = cooldown - 1
    /\ UNCHANGED <<runVars, failures, streak, api, outages>>

-----------------------------------------------------------------------------

Init ==
    /\ pc          = [r \in Runs |-> "start"]
    /\ attempt     = [r \in Runs |-> 0]
    /\ llm_calls   = [r \in Runs |-> 0]
    /\ tokens_used = [r \in Runs |-> 0]
    /\ failures    = 0
    /\ cooldown    = 0
    /\ api         = "up"
    /\ outages     = MaxOutages
    /\ streak      = 0

AccountAny(r) ==
    \E t \in TokenCosts, truncated, valid \in BOOLEAN : Account(r, t, truncated, valid)

\* What happens to a call once it has begun.
Proceed(r) ==
    \/ CheckBudget(r)
    \/ Throttled(r)
    \/ Wake(r)
    \/ CallFails(r)
    \/ Answer(r)
    \/ AccountAny(r)
    \/ DbError(r)

Next ==
    \/ \E r \in Runs : FailFast(r) \/ Generate(r) \/ Proceed(r)
    \/ GoDown
    \/ GoUp
    \/ Tick

Spec == Init /\ [][Next]_vars

(* The database and the API answer (or raise), sleeps end and time passes.  *)
(* Nothing obliges a run to call generate again or the API to come back.    *)
FairSpec == Spec /\ WF_vars(Tick) /\ \A r \in Runs : WF_vars(Proceed(r))

-----------------------------------------------------------------------------
(* Properties. *)

\* Every variable has its type.
TypeOK ==
    /\ pc          \in [Runs -> Resting \cup Inside]
    /\ attempt     \in [Runs -> 0 .. Attempts - 1]
    /\ llm_calls   \in [Runs -> Nat]
    /\ tokens_used \in [Runs -> Nat]
    /\ failures    \in Nat
    /\ cooldown    \in 0 .. Reset
    /\ api         \in {"up", "down"}
    /\ outages     \in 0 .. MaxOutages
    /\ streak      \in 0 .. Threshold

\* generate checks the budget once, before up to Attempts billed calls, and lets
\* one more generate through even at exactly the token cap: a submission still
\* overshoots its call cap by less than one generate, and its token cap by the
\* responses of one.
BudgetBounded ==
    \A r \in Runs :
        /\ llm_calls[r] <= CallCap + (Attempts - 1)
        /\ tokens_used[r] <= TokenCap + Attempts * MaxTokens

\* The breaker is tripped only by an outage: Threshold calls have failed since
\* the last one that succeeded, however failures, half-open probes, malformed
\* answers and stragglers interleave.
TripsOnOutage == Tripped => streak >= Threshold

\* The most steps a run may still take before its call of generate is over.
StepsLeft(r) ==
    LET later == 3 * (Attempts - 1 - attempt[r])    \* steps of the attempts to come
    IN  CASE pc[r] \in Resting     -> 0
          [] pc[r] = "answered"   -> later + 1
          [] pc[r] = "calling"    -> later + 2
          [] pc[r] = "sleeping"   -> later + 3
          [] pc[r] = "budgeting"  -> 3 * Attempts

\* The loop is bounded: throttled, truncated and malformed attempts share one
\* counter, and on every mixture of them, whatever the other runs, the breaker
\* and the API do meanwhile, each step of a call brings its end closer.
GenerateShrinks ==
    [][\A r \in Runs :
          pc[r] \in Inside =>
              \/ UNCHANGED <<pc[r], attempt[r], llm_calls[r], tokens_used[r]>>
              \/ StepsLeft(r)' \in 0 .. StepsLeft(r) - 1]_vars

\* generate never hangs: every call returns or raises.
Returns ==
    \A r \in Runs : pc[r] \in Inside ~> pc[r] \in Resting

\* Once the API stays up the breaker does not stay open: calls get through to
\* the API again.
Recovers ==
    <>[](api = "up") => <>[](~ Open)
=============================================================================
