------------------------------ MODULE WebClient ------------------------------
(***************************************************************************)
(* The page (static/app.js) and the endpoints it calls (api/main.py).      *)
(*                                                                         *)
(* Every click on Run starts a handler of its own, which posts the         *)
(* submission, opens an EventSource and waits for its "done" event; finish *)
(* then shows the report and loads the log table, awaiting a request       *)
(* before each.  The handlers share the button, the panels and the         *)
(* variable `stream`.  An EventSource reconnects by itself when the        *)
(* response ends, and the server then streams from the start again.        *)
(***************************************************************************)
EXTENDS Integers

CONSTANTS
    Ids,            \* submissions the form's contents can stand for
    MaxClicks,      \* bound: clicks on Run
    MaxSteps,       \* bound: log entries of a submission
    MaxFinishes,    \* bound: calls of finish by one handler
    MaxFaults       \* bound: requests and connections that fail, and posts of
                    \* the same contents by others

ASSUME WebAssumption ==
    /\ Ids # {}
    /\ MaxClicks \in Nat /\ MaxSteps \in Nat /\ MaxFinishes \in Nat /\ MaxFaults \in Nat

Clicks  == 1 .. MaxClicks
Nothing == 0                    \* no handler: `stream` is null, a panel hidden

VARIABLES
    \* The server, as the endpoints show it.
    row,            \* ABSENT, PENDING, FINAL (DONE or FAILED) or DEGRADED
    steps,          \* entries of agent_steps
    reported,       \* how many of them the row's report came after
    \* The page.
    button,         \* Run is enabled
    clicks,         \* clicks so far; the handlers are numbered by them
    panel,          \* verdict-block: whose report, which of its finish calls
                    \* showed it, and how many steps it came after
    table,          \* log-wrap: whose steps, which call showed them, how many
    stream,         \* the handler whose EventSource `stream` holds
    \* One handler and its EventSource.
    id,             \* the submission the handler posts
    posting,        \* it awaits the POST
    es,             \* its EventSource: none, connecting, open or closed
    poll,           \* where the server's events() is: steps, row or over
    got,            \* steps received since the last (re)connection
    calls,          \* finish calls so far
    finishing,      \* the calls under way
    faultsLeft

serverVars == <<row, steps, reported>>
pageVars   == <<button, clicks, panel, table, stream>>
esVars     == <<id, posting, es, poll, got, calls>>
vars       == <<serverVars, pageVars, esVars, finishing, faultsLeft>>

Terminal == {"FINAL", "DEGRADED"}
NoPanel  == [click |-> Nothing, n |-> 0, steps |-> 0]
Panels   == [click : 0 .. MaxClicks, n : 0 .. MaxFinishes, steps : 0 .. MaxSteps]

\* A call of finish.  arg is what the report it was given came after, or -1 for
\* finish(null, null, null); at is the request it awaits.
Calls == [click : Clicks, n : 1 .. MaxFinishes, arg : -1 .. MaxSteps, at : {"status", "extras"}]

Fail == faultsLeft > 0 /\ faultsLeft' = faultsLeft - 1

-----------------------------------------------------------------------------
(* The server: a worker logs and finishes; see JobQueue and ReplayLog. *)

Log(i) ==
    /\ row[i] = "PENDING" /\ steps[i] < MaxSteps
    /\ steps' = [steps EXCEPT ![i] = @ + 1]
    /\ UNCHANGED <<row, reported, pageVars, esVars, finishing, faultsLeft>>

Settle(i) ==
    /\ row[i] = "PENDING"
    /\ \E st \in Terminal : row' = [row EXCEPT ![i] = st]
    /\ reported' = [reported EXCEPT ![i] = steps[i]]
    /\ UNCHANGED <<steps, pageVars, esVars, finishing, faultsLeft>>

\* POST /submissions: a new or DEGRADED row goes into the queue, any other
\* existing row is left alone.
Post(i) ==
    /\ row' = [row EXCEPT ![i] = IF @ \in {"ABSENT", "DEGRADED"} THEN "PENDING" ELSE @]
    /\ UNCHANGED <<steps, reported>>

\* Somebody else (another page, scripts/submit.py) posts the same contents.
Resubmit(i) ==
    /\ row[i] = "DEGRADED"
    /\ Fail
    /\ Post(i)
    /\ UNCHANGED <<pageVars, esVars, finishing>>

-----------------------------------------------------------------------------
(* The submit handler. *)

\* `if (stream) stream.close()`
CloseStream == es' = [k \in Clicks |-> IF k = stream THEN "closed" ELSE es[k]]

\* Mutant of Click: the button stays enabled.
ClickAgain(i) ==
    /\ button /\ clicks < MaxClicks
    /\ clicks'  = clicks + 1
    /\ panel'   = NoPanel /\ table' = NoPanel
    /\ CloseStream
    /\ id'      = [id EXCEPT ![clicks + 1] = i]
    /\ posting' = posting \cup {clicks + 1}
    /\ UNCHANGED <<serverVars, button, stream, poll, got, calls, finishing, faultsLeft>>

\* The handler up to its first await.
Click(i) ==
    /\ button /\ clicks < MaxClicks
    /\ button'  = FALSE
    /\ clicks'  = clicks + 1
    /\ panel'   = NoPanel /\ table' = NoPanel
    /\ CloseStream
    /\ id'      = [id EXCEPT ![clicks + 1] = i]
    /\ posting' = posting \cup {clicks + 1}
    /\ UNCHANGED <<serverVars, stream, poll, got, calls, finishing, faultsLeft>>

\* The POST returns: the handler opens its EventSource and puts it in `stream`.
PostOk(k) ==
    /\ k \in posting
    /\ Post(id[k])
    /\ posting' = posting \ {k}
    /\ stream'  = k
    /\ es'      = [es EXCEPT ![k] = "connecting"]
    /\ UNCHANGED <<button, clicks, panel, table, id, poll, got, calls, finishing, faultsLeft>>

\* Mutant of PostFails: the catch clause only shows the error.
PostFailsStuck(k) ==
    /\ k \in posting
    /\ Fail
    /\ posting' = posting \ {k}
    /\ Post(id[k]) \/ UNCHANGED serverVars
    /\ UNCHANGED <<pageVars, id, es, poll, got, calls, finishing>>

\* The POST fails, before or after the server has acted on it.
PostFails(k) ==
    /\ k \in posting
    /\ Fail
    /\ posting' = posting \ {k}
    /\ button'  = TRUE
    /\ Post(id[k]) \/ UNCHANGED serverVars
    /\ UNCHANGED <<clicks, panel, table, stream, id, es, poll, got, calls, finishing>>

-----------------------------------------------------------------------------
(* The EventSource of handler k and the endpoint that feeds it. *)

CallFinish(k, arg) ==
    /\ calls[k] < MaxFinishes
    /\ calls'     = [calls EXCEPT ![k] = @ + 1]
    /\ finishing' = finishing \cup
                      {[click |-> k, n |-> calls[k] + 1, arg |-> arg, at |-> "status"]}

\* Mutant of OnError: a closed EventSource is taken for one that reconnects.
OnErrorNever(k) == UNCHANGED <<calls, finishing>>

\* The error event of handler k: onerror looks at `stream`, whichever
\* EventSource that is by now.
OnError(k) ==
    IF es'[stream] = "closed" THEN CallFinish(k, -1) ELSE UNCHANGED <<calls, finishing>>

\* GET /stream: events() starts from seq 0, the first time and every time.
Connect(k) ==
    /\ es[k] = "connecting"
    /\ es'   = [es EXCEPT ![k] = "open"]
    /\ poll' = [poll EXCEPT ![k] = "steps"]
    /\ got'  = [got EXCEPT ![k] = 0]
    /\ UNCHANGED <<serverVars, pageVars, id, posting, calls, finishing, faultsLeft>>

\* The connection is refused with an error status: closed for good.
Reject(k) ==
    /\ es[k] = "connecting"
    /\ Fail
    /\ es' = [es EXCEPT ![k] = "closed"]
    /\ OnError(k)
    /\ UNCHANGED <<serverVars, pageVars, id, posting, poll, got>>

\* The connection is lost; the EventSource will try again.
Break(k) ==
    /\ es[k] = "open"
    /\ Fail
    /\ es' = [es EXCEPT ![k] = "connecting"]
    /\ OnError(k)
    /\ UNCHANGED <<serverVars, pageVars, id, posting, poll, got>>

\* Mutant of PollSteps: steps already sent are sent again.
PollStepsAgain(k) ==
    /\ es[k] = "open" /\ poll[k] = "steps"
    /\ got'  = [got EXCEPT ![k] = @ + steps[id[k]]]
    /\ poll' = [poll EXCEPT ![k] = "row"]
    /\ UNCHANGED <<serverVars, pageVars, id, posting, es, calls, finishing, faultsLeft>>

\* events() sends the steps it has not sent yet ...
PollSteps(k) ==
    /\ es[k] = "open" /\ poll[k] = "steps"
    /\ got'  = [got EXCEPT ![k] = steps[id[k]]]
    /\ poll' = [poll EXCEPT ![k] = "row"]
    /\ UNCHANGED <<serverVars, pageVars, id, posting, es, calls, finishing, faultsLeft>>

\* ... and then reads the row.
PollRow(k) ==
    /\ es[k] = "open" /\ poll[k] = "row"
    /\ row[id[k]] \notin Terminal
    /\ poll' = [poll EXCEPT ![k] = "steps"]
    /\ UNCHANGED <<serverVars, pageVars, id, posting, es, got, calls, finishing, faultsLeft>>

\* It sends "done", for which the listener calls finish, ...
Done(k) ==
    /\ es[k] = "open" /\ poll[k] = "row"
    /\ row[id[k]] \in Terminal
    /\ CallFinish(k, reported[id[k]])
    /\ poll' = [poll EXCEPT ![k] = "over"]
    /\ UNCHANGED <<serverVars, pageVars, id, posting, es, got, faultsLeft>>

\* ... and returns: to an EventSource that nobody has closed yet, the end of the
\* response is a lost connection, and it will try again.
Over(k) ==
    /\ es[k] = "open" /\ poll[k] = "over"
    /\ es' = [es EXCEPT ![k] = "connecting"]
    /\ OnError(k)
    /\ UNCHANGED <<serverVars, pageVars, id, posting, poll, got, faultsLeft>>

-----------------------------------------------------------------------------
(* finish, a call f of handler f.click. *)

Show(f, after) ==
    /\ panel'     = [click |-> f.click, n |-> f.n, steps |-> after]
    /\ finishing' = (finishing \ {f}) \cup {[f EXCEPT !.at = "extras"]}
    /\ UNCHANGED <<serverVars, button, clicks, table, stream, esVars>>

\* GET /submissions/{id}: a row that is not finished has no report yet.
ServedReport(i) == IF row[i] \in Terminal THEN reported[i] ELSE 0

\* The request returns: it is needed for the usage line, and for the whole report
\* when finish was called without one.
Status(f) ==
    /\ f.at = "status"
    /\ Show(f, IF f.arg # -1 THEN f.arg ELSE ServedReport(id[f.click]))
    /\ UNCHANGED faultsLeft

StatusFails(f) ==
    /\ f.at = "status"
    /\ Fail
    /\ Show(f, IF f.arg # -1 THEN f.arg ELSE 0)

\* finish after loadExtras: the button comes back and whatever EventSource
\* `stream` holds now is closed.
Finished(f) ==
    /\ f.at = "extras"
    /\ finishing' = finishing \ {f}
    /\ button'    = TRUE
    /\ CloseStream
    /\ UNCHANGED <<serverVars, clicks, panel, stream, id, posting, poll, got, calls>>

\* Mutant of Extras: the table is filled from the stream's steps.
ExtrasFromStream(f) ==
    /\ Finished(f)
    /\ table' = [click |-> f.click, n |-> f.n, steps |-> got[f.click]]
    /\ UNCHANGED faultsLeft

\* loadExtras: GET /submissions/{id}/steps fills the table.
Extras(f) ==
    /\ Finished(f)
    /\ table' = [click |-> f.click, n |-> f.n, steps |-> steps[id[f.click]]]
    /\ UNCHANGED faultsLeft

\* loadExtras fails: the table stays as it is.
ExtrasFails(f) ==
    /\ Finished(f)
    /\ Fail
    /\ UNCHANGED table

-----------------------------------------------------------------------------

Init ==
    /\ row      = [i \in Ids |-> "ABSENT"]
    /\ steps    = [i \in Ids |-> 0]
    /\ reported = [i \in Ids |-> 0]
    /\ button   = TRUE
    /\ clicks   = 0
    /\ panel    = NoPanel
    /\ table    = NoPanel
    /\ stream   = Nothing
    /\ id       \in [Clicks -> {CHOOSE i \in Ids : TRUE}]
    /\ posting  = {}
    /\ es       = [k \in Clicks |-> "none"]
    /\ poll     = [k \in Clicks |-> "steps"]
    /\ got      = [k \in Clicks |-> 0]
    /\ calls    = [k \in Clicks |-> 0]
    /\ finishing = {}
    /\ faultsLeft = MaxFaults

ServerStep(i) == Log(i) \/ Settle(i) \/ Resubmit(i)

HandlerStep(k) ==
    \/ PostOk(k) \/ PostFails(k)
    \/ Connect(k) \/ Reject(k) \/ Break(k)
    \/ PollSteps(k) \/ PollRow(k) \/ Done(k) \/ Over(k)

FinishStep(f) == Status(f) \/ StatusFails(f) \/ Extras(f) \/ ExtrasFails(f)

Next ==
    \/ \E i \in Ids : ServerStep(i) \/ Click(i)
    \/ \E k \in Clicks : HandlerStep(k)
    \/ \E f \in finishing : FinishStep(f)

Spec == Init /\ [][Next]_vars

\* The worker finishes what is in the queue (JobQueue!Settles), requests are
\* answered or fail, and an EventSource keeps reconnecting and is served.
Fairness ==
    /\ \A i \in Ids : WF_vars(Settle(i))
    /\ \A k \in Clicks :
          /\ WF_vars(PostOk(k) \/ PostFails(k))
          /\ WF_vars(Connect(k) \/ Reject(k))
          /\ WF_vars(PollSteps(k) \/ PollRow(k) \/ Done(k) \/ Over(k))
    /\ WF_vars(\E f \in finishing : FinishStep(f))

FairSpec == Spec /\ Fairness

-----------------------------------------------------------------------------
(* Properties. *)

\* Every variable has its type; a handler has an EventSource only after its POST,
\* and `stream` holds one that exists.
TypeOK ==
    /\ row       \in [Ids -> {"ABSENT", "PENDING"} \cup Terminal]
    /\ steps     \in [Ids -> 0 .. MaxSteps]
    /\ reported  \in [Ids -> 0 .. MaxSteps]
    /\ button    \in BOOLEAN
    /\ clicks    \in 0 .. MaxClicks
    /\ panel     \in Panels
    /\ table     \in Panels
    /\ stream    \in 0 .. MaxClicks
    /\ id        \in [Clicks -> Ids]
    /\ posting   \subseteq 1 .. clicks
    /\ es        \in [Clicks -> {"none", "connecting", "open", "closed"}]
    /\ poll      \in [Clicks -> {"steps", "row", "over"}]
    /\ got       \in [Clicks -> 0 .. MaxSteps]
    /\ calls     \in [Clicks -> 0 .. MaxFinishes]
    /\ finishing \subseteq Calls
    /\ faultsLeft \in 0 .. MaxFaults
    /\ \A k \in Clicks : es[k] # "none" => k \in (1 .. clicks) \ posting
    /\ stream # Nothing => es[stream] # "none"

\* The reader sees the report of the run started last: a panel of an earlier
\* run, or the last run's stream closed before its report was asked for, means
\* that an earlier handler's EventSource reconnected while its finish awaited a
\* request, and finish ran twice (submit handler, finish, `stream`).
SecondFinishToBlame ==
    (\/ panel.click \notin {Nothing, clicks}
     \/ clicks # 0 /\ es[clicks] = "closed" /\ calls[clicks] = 0)
        => \E j \in Clicks : j < clicks /\ calls[j] >= 2

\* Once no finish is under way, a table that the call which showed the report
\* has filled holds every step logged before that report was written, although
\* events() reads the steps before the row and may end the stream without the
\* last of them (loadExtras asks again).  A table filled by another call is not
\* promised to be complete: when an EventSource reconnects, finish runs twice,
\* and the second call's report stands beside the first call's table if the
\* second loadExtras fails (its catch clause leaves the table as it is).  And
\* the table of another handler stands there only if finish ran twice for a
\* handler before the current one.
TableComplete ==
    finishing = {} /\ table.click # Nothing =>
        IF table.click = panel.click
        THEN table.n = panel.n => table.steps >= panel.steps
        ELSE \E j \in Clicks : j < clicks /\ calls[j] >= 2

\* A disabled button is always somebody's to enable: a POST is awaited, a finish
\* is under way, or the EventSource in `stream`, the one onerror looks at, is
\* alive.  The handlers that share button and `stream` never leave it to none.
ButtonWatched ==
    ~ button =>
        \/ posting # {}
        \/ finishing # {}
        \/ stream # Nothing /\ es[stream] \in {"connecting", "open"}

\* The Run button always comes back: every way a handler can end, a failed
\* POST, a refused stream and failed fallback requests included, enables it.
ButtonReturns == []<>button
=============================================================================
