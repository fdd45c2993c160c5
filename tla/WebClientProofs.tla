-------------------------- MODULE WebClientProofs --------------------------
(***************************************************************************)
(* Machine-checked proofs about module WebClient, for every number of      *)
(* submissions, clicks, log entries and failing requests.                  *)
(***************************************************************************)
EXTENDS WebClient, TLAPS

-----------------------------------------------------------------------------
(* Type correctness. *)

\* A further call of finish keeps the types.
LEMMA CallFinishTypes ==
    ASSUME TypeOK, NEW k \in Clicks, NEW arg \in -1 .. MaxSteps, CallFinish(k, arg)
    PROVE  calls' \in [Clicks -> 0 .. MaxFinishes] /\ finishing' \subseteq Calls
  BY WebAssumption DEF CallFinish, TypeOK, Calls

\* The fields of a call under way.
LEMMA CallTypes ==
    ASSUME TypeOK, NEW f \in finishing
    PROVE  /\ f \in Calls /\ f.click \in Clicks
           /\ f.click \in 0 .. MaxClicks /\ f.n \in 0 .. MaxFinishes
  <1>1. f \in Calls
    BY DEF TypeOK
  <1>2. f.click \in Clicks /\ f.n \in 1 .. MaxFinishes
    BY <1>1 DEF Calls
  <1>3. f.click \in 0 .. MaxClicks /\ f.n \in 0 .. MaxFinishes
    BY <1>2, WebAssumption DEF Clicks
  <1> QED
    BY <1>1, <1>2, <1>3

\* Every step keeps every variable in its type.
LEMMA TypeStep == TypeOK /\ [Next]_vars => TypeOK'
  <1> SUFFICES ASSUME TypeOK, [Next]_vars PROVE TypeOK'
    OBVIOUS
  <1> USE WebAssumption DEF TypeOK, serverVars, pageVars, esVars
  <1>s. stream # Nothing => stream \in Clicks /\ es[stream] # "none"
    BY DEF Clicks, Nothing
  <1>c. ASSUME CloseStream
        PROVE  /\ es' \in [Clicks -> {"none", "connecting", "open", "closed"}]
               /\ \A k \in Clicks : es'[k] # "none" => es[k] # "none"
               /\ stream # Nothing => es'[stream] # "none"
    <2>1. \A k \in Clicks : k # Nothing
      BY DEF Clicks, Nothing
    <2>2. es' = [k \in Clicks |-> IF k = stream THEN "closed" ELSE es[k]]
      BY <1>c DEF CloseStream
    <2>3. \A k \in Clicks : es'[k] # "none" => es[k] # "none"
      BY <1>s, <2>1, <2>2
    <2>4. stream # Nothing => es'[stream] # "none"
      BY <1>s, <2>2
    <2> QED
      BY <2>2, <2>3, <2>4
  <1>1. ASSUME NEW i \in Ids, Log(i) PROVE TypeOK'
    BY <1>1 DEF Log
  <1>2. ASSUME NEW i \in Ids, Settle(i) PROVE TypeOK'
    BY <1>2 DEF Settle, Terminal
  <1>3. ASSUME NEW i \in Ids, Click(i) PROVE TypeOK'
    <2>1. clicks + 1 \in Clicks /\ clicks' \in 0 .. MaxClicks /\ posting' \subseteq 1 .. clicks'
      BY <1>3 DEF Click, Clicks
    <2>2. NoPanel \in Panels
      BY DEF NoPanel, Panels, Nothing
    <2>3. id' \in [Clicks -> Ids] /\ panel' \in Panels /\ table' \in Panels
      BY <1>3, <2>1, <2>2 DEF Click
    <2>4. CloseStream /\ UNCHANGED stream /\ clicks' = clicks + 1 /\ posting' = posting \cup {clicks + 1}
      BY <1>3 DEF Click
    <2>5. \A k \in Clicks : es'[k] # "none" => k \in (1 .. clicks') \ posting'
      <3> SUFFICES ASSUME NEW k \in Clicks, es'[k] # "none"
                   PROVE  k \in (1 .. clicks') \ posting'
        OBVIOUS
      <3>1. k \in (1 .. clicks) \ posting
        BY <1>c, <2>4
      <3> QED
        BY <2>4, <3>1
    <2> QED
      BY <1>3, <1>c, <2>1, <2>3, <2>4, <2>5 DEF Click
  <1>a. ASSUME NEW i \in Ids, Post(i) PROVE row' \in [Ids -> {"ABSENT", "PENDING"} \cup Terminal]
    BY <1>a DEF Post
  <1>d. ASSUME NEW i \in Ids, Resubmit(i) PROVE TypeOK'
    BY <1>d, <1>a DEF Resubmit, Post, Fail
  <1>4. ASSUME NEW k \in Clicks, PostOk(k) PROVE TypeOK'
    BY <1>4, <1>a DEF PostOk, Post
  <1>5. ASSUME NEW k \in Clicks, PostFails(k) PROVE TypeOK'
    <2>1. row' \in [Ids -> {"ABSENT", "PENDING"} \cup Terminal] /\ UNCHANGED <<steps, reported>>
      BY <1>5, <1>a DEF PostFails, Post
    <2> QED
      BY <1>5, <2>1 DEF PostFails, Fail
  <1>6. ASSUME NEW k \in Clicks, Connect(k) PROVE TypeOK'
    BY <1>6 DEF Connect
  <1>b. ASSUME NEW k \in Clicks, OnError(k)
        PROVE  calls' \in [Clicks -> 0 .. MaxFinishes] /\ finishing' \subseteq Calls
    BY <1>b, CallFinishTypes DEF OnError
  <1>7. ASSUME NEW k \in Clicks, Reject(k) \/ Break(k) \/ Over(k) PROVE TypeOK'
    <2>1. calls' \in [Clicks -> 0 .. MaxFinishes] /\ finishing' \subseteq Calls
      BY <1>7, <1>b DEF Reject, Break, Over
    <2>2. \E st \in {"connecting", "closed"} : es' = [es EXCEPT ![k] = st] /\ es[k] # "none"
      BY <1>7 DEF Reject, Break, Over
    <2>3. faultsLeft' \in 0 .. MaxFaults
      BY <1>7 DEF Reject, Break, Over, Fail
    <2>4. UNCHANGED <<serverVars, pageVars, id, posting, poll, got>>
      BY <1>7 DEF Reject, Break, Over
    <2>5. \A j \in Clicks : es'[j] # "none" <=> es[j] # "none"
      BY <2>2
    <2>6. stream # Nothing => es'[stream] # "none"
      BY <1>s, <2>5
    <2>7. es' \in [Clicks -> {"none", "connecting", "open", "closed"}]
      BY <2>2
    <2> QED
      BY <2>1, <2>3, <2>4, <2>5, <2>6, <2>7
  <1>8. ASSUME NEW k \in Clicks, PollSteps(k) \/ PollRow(k) PROVE TypeOK'
    BY <1>8 DEF PollSteps, PollRow
  <1>9. ASSUME NEW k \in Clicks, Done(k) PROVE TypeOK'
    <2>1. calls' \in [Clicks -> 0 .. MaxFinishes] /\ finishing' \subseteq Calls
      BY <1>9, CallFinishTypes DEF Done
    <2> QED
      BY <1>9, <2>1 DEF Done
  <1>10. ASSUME NEW f \in finishing, NEW n \in 0 .. MaxSteps, Show(f, n) PROVE
            panel' \in Panels /\ finishing' \subseteq Calls
    <2>1. f \in Calls /\ f.click \in 0 .. MaxClicks /\ f.n \in 0 .. MaxFinishes
      BY CallTypes
    <2>2. panel' \in Panels
      BY <1>10, <2>1 DEF Show, Panels
    <2>3. [f EXCEPT !.at = "extras"] \in Calls
      BY <2>1 DEF Calls
    <2> QED
      BY <1>10, <2>2, <2>3 DEF Show
  <1>11. ASSUME NEW f \in finishing, Status(f) \/ StatusFails(f) PROVE TypeOK'
    <2>1. f.click \in Clicks /\ f.arg \in -1 .. MaxSteps
      BY DEF Calls
    <2>2. \E n \in 0 .. MaxSteps : Show(f, n)
      BY <1>11, <2>1 DEF Status, StatusFails, ServedReport
    <2>3. faultsLeft' \in 0 .. MaxFaults
      BY <1>11 DEF Status, StatusFails, Fail
    <2> QED
      BY <1>10, <2>2, <2>3 DEF Show
  <1>12. ASSUME NEW f \in finishing, Extras(f) \/ ExtrasFails(f) PROVE TypeOK'
    <2>1. f.click \in Clicks /\ f.click \in 0 .. MaxClicks /\ f.n \in 0 .. MaxFinishes
      BY CallTypes
    <2>2. table' \in Panels
      BY <1>12, <2>1 DEF Extras, ExtrasFails, Panels
    <2>3. faultsLeft' \in 0 .. MaxFaults /\ Finished(f)
      BY <1>12 DEF Extras, ExtrasFails, Fail
    <2>4. /\ finishing' \subseteq Calls /\ button' \in BOOLEAN /\ CloseStream
          /\ UNCHANGED <<serverVars, clicks, stream, id, posting, poll, got, calls>>
          /\ panel' \in Panels
      BY <2>3 DEF Finished
    <2> QED
      BY <1>c, <2>2, <2>3, <2>4
  <1>13. CASE UNCHANGED vars
    BY <1>13 DEF vars
  <1> QED
    BY <1>1, <1>2, <1>d, <1>3, <1>4, <1>5, <1>6, <1>7, <1>8, <1>9, <1>11, <1>12, <1>13
    DEF Next, ServerStep, HandlerStep, FinishStep

\* TypeOK is an invariant of the page, for every value of the bounds.
THEOREM TypeCorrect == Spec => []TypeOK
  <1>1. Init => TypeOK
    BY WebAssumption DEF Init, TypeOK, NoPanel, Panels, Nothing, Clicks, Terminal
  <1> QED
    BY <1>1, TypeStep, PTL DEF Spec

-----------------------------------------------------------------------------
(* Calls of finish and EventSources, handler by handler. *)

\* What a handler's counters and its EventSource say about each other: one not
\* clicked yet has none, one that is posting has not been finished, and every
\* call under way has a number of its own among those counted.
CallInv ==
    /\ \A j \in Clicks : j > clicks => es[j] = "none" /\ calls[j] = 0
    /\ \A j \in posting : calls[j] = 0
    /\ \A j \in Clicks : calls[j] > 0 => es[j] # "none"
    /\ \A f \in finishing : f.n <= calls[f.click]
    /\ \A f, g \in finishing : f.click = g.click /\ f.n = g.n => f = g

\* A further call gets a number of its own.
LEMMA CallFinishInv ==
    ASSUME TypeOK, CallInv, NEW k \in Clicks, NEW arg, CallFinish(k, arg)
    PROVE  /\ \A j \in Clicks : calls'[j] = IF j = k THEN calls[k] + 1 ELSE calls[j]
           /\ \A f \in finishing' : f.n <= calls'[f.click]
           /\ \A f, g \in finishing' : f.click = g.click /\ f.n = g.n => f = g
  <1> DEFINE new == [click |-> k, n |-> calls[k] + 1, arg |-> arg, at |-> "status"]
  <1>1. calls' = [calls EXCEPT ![k] = @ + 1] /\ finishing' = finishing \cup {new}
    BY DEF CallFinish
  <1>2. \A j \in Clicks : calls[j] \in Nat
    BY WebAssumption DEF TypeOK
  <1>3. \A j \in Clicks : calls'[j] = IF j = k THEN calls[k] + 1 ELSE calls[j]
    BY <1>1 DEF TypeOK
  <1>4. \A f \in finishing : f.click \in Clicks /\ f.n \in Nat /\ f.n <= calls[f.click]
    BY WebAssumption DEF CallInv, TypeOK, Calls
  <1>5. \A f \in finishing : f.click = k => f.n # calls[k] + 1
    BY <1>2, <1>4
  <1>6. new.click = k /\ new.n = calls[k] + 1
    OBVIOUS
  <1> HIDE DEF new
  <1>7. \A f \in finishing' : f.n <= calls'[f.click]
    BY <1>1, <1>2, <1>3, <1>4, <1>6
  <1>8. \A f, g \in finishing' : f.click = g.click /\ f.n = g.n => f = g
    BY <1>1, <1>5, <1>6 DEF CallInv
  <1> QED
    BY <1>3, <1>7, <1>8

\* `stream` holds the EventSource of a handler that was clicked.
LEMMA StreamClicked ==
    ASSUME TypeOK
    PROVE  /\ stream # Nothing => stream \in Clicks /\ stream <= clicks
           /\ \A j \in Clicks : j # Nothing
           /\ \A j \in posting : j \in Clicks /\ es[j] = "none"
  <1>1. stream # Nothing => stream \in Clicks
    BY DEF TypeOK, Clicks, Nothing
  <1>2. stream # Nothing => stream <= clicks
    BY <1>1 DEF TypeOK
  <1>3. \A j \in posting : j \in Clicks
    BY WebAssumption DEF TypeOK, Clicks
  <1>4. \A j \in posting : es[j] = "none"
    BY <1>3 DEF TypeOK
  <1> QED
    BY <1>1, <1>2, <1>3, <1>4 DEF Clicks, Nothing

\* Closing `stream` only closes an EventSource that exists.
LEMMA CloseStreamFacts ==
    ASSUME TypeOK, CloseStream
    PROVE  /\ \A j \in Clicks : es'[j] = IF j = stream THEN "closed" ELSE es[j]
           /\ \A j \in Clicks : es'[j] # "none" <=> es[j] # "none"
  <1>1. \A j \in Clicks : es'[j] = IF j = stream THEN "closed" ELSE es[j]
    BY DEF CloseStream
  <1>2. \A j \in Clicks : j = stream => es[j] # "none"
    BY StreamClicked DEF TypeOK
  <1> QED
    BY <1>1, <1>2

\* An EventSource event with or without a call of finish.
LEMMA EventInv ==
    ASSUME TypeOK, CallInv, NEW k \in Clicks, NEW arg, es[k] # "none",
           UNCHANGED <<posting, clicks>>,
           \A j \in Clicks : es'[j] # "none" <=> es[j] # "none",
           CallFinish(k, arg) \/ UNCHANGED <<calls, finishing>>
    PROVE  CallInv'
  <1>1. CASE CallFinish(k, arg)
    <2>1. k <= clicks /\ k \notin posting
      BY DEF TypeOK, Clicks
    <2> QED
      BY <1>1, <2>1, CallFinishInv, StreamClicked DEF CallInv
  <1>2. CASE UNCHANGED <<calls, finishing>>
    BY <1>2 DEF CallInv
  <1> QED
    BY <1>1, <1>2

\* Every step keeps the counters and the EventSources in step.
LEMMA CallStep == TypeOK /\ CallInv /\ [Next]_vars => CallInv'
  <1> SUFFICES ASSUME TypeOK, CallInv, [Next]_vars PROVE CallInv'
    OBVIOUS
  <1> USE DEF serverVars, pageVars, esVars
  <1>1. ASSUME UNCHANGED <<esVars, clicks, finishing>> PROVE CallInv'
    BY <1>1 DEF CallInv
  <1>2. ASSUME NEW i \in Ids, ServerStep(i) PROVE CallInv'
    BY <1>1, <1>2 DEF ServerStep, Log, Settle, Resubmit, Post
  <1>3. ASSUME NEW i \in Ids, Click(i) PROVE CallInv'
    <2>1. /\ CloseStream /\ clicks' = clicks + 1 /\ posting' = posting \cup {clicks + 1}
          /\ UNCHANGED <<calls, finishing>> /\ clicks < MaxClicks
      BY <1>3 DEF Click
    <2>2. clicks + 1 \in Clicks /\ clicks \in Nat
      BY <2>1, WebAssumption DEF TypeOK, Clicks
    <2> QED
      BY <2>1, <2>2, CloseStreamFacts DEF CallInv, Clicks
  <1>4. ASSUME NEW k \in Clicks, PostOk(k) PROVE CallInv'
    <2>1. /\ k \in posting /\ posting' = posting \ {k} /\ es' = [es EXCEPT ![k] = "connecting"]
          /\ UNCHANGED <<clicks, calls, finishing>>
      BY <1>4 DEF PostOk
    <2>2. k <= clicks
      BY <2>1 DEF TypeOK
    <2> QED
      BY <2>1, <2>2 DEF CallInv, TypeOK, Clicks
  <1>5. ASSUME NEW k \in Clicks, PostFails(k) PROVE CallInv'
    BY <1>5 DEF PostFails, CallInv
  <1>6. ASSUME NEW k \in Clicks, Connect(k) \/ PollSteps(k) \/ PollRow(k) PROVE CallInv'
    BY <1>6 DEF Connect, PollSteps, PollRow, CallInv, TypeOK
  <1>7. ASSUME NEW k \in Clicks, Reject(k) \/ Break(k) \/ Over(k) PROVE CallInv'
    <2>1. /\ es[k] # "none" /\ UNCHANGED <<posting, clicks>>
          /\ \E st \in {"connecting", "closed"} : es' = [es EXCEPT ![k] = st]
          /\ CallFinish(k, -1) \/ UNCHANGED <<calls, finishing>>
      BY <1>7 DEF Reject, Break, Over, OnError
    <2> QED
      BY <2>1, EventInv DEF TypeOK
  <1>8. ASSUME NEW k \in Clicks, Done(k) PROVE CallInv'
    BY <1>8, EventInv DEF Done
  <1>9. ASSUME NEW f \in finishing, Status(f) \/ StatusFails(f) PROVE CallInv'
    <2>1. /\ finishing' = (finishing \ {f}) \cup {[f EXCEPT !.at = "extras"]}
          /\ UNCHANGED <<esVars, clicks>>
      BY <1>9 DEF Status, StatusFails, Show
    <2>2. /\ [f EXCEPT !.at = "extras"].click = f.click
          /\ [f EXCEPT !.at = "extras"].n = f.n
      BY DEF TypeOK, Calls
    <2> DEFINE later == [f EXCEPT !.at = "extras"]
    <2> HIDE DEF later
    <2>3. \A g \in finishing' : \E h \in finishing :
             g.click = h.click /\ g.n = h.n /\ ((h # f /\ g = h) \/ (h = f /\ g = later))
      BY <2>1, <2>2 DEF later
    <2>4. \A g, h \in finishing' : g.click = h.click /\ g.n = h.n => g = h
      BY <2>3 DEF CallInv
    <2>5. \A g \in finishing' : g.n <= calls'[g.click]
      BY <2>1, <2>3 DEF CallInv
    <2> QED
      BY <2>1, <2>4, <2>5 DEF CallInv
  <1>10. ASSUME NEW f \in finishing, Extras(f) \/ ExtrasFails(f) PROVE CallInv'
    <2>1. /\ CloseStream /\ finishing' = finishing \ {f}
          /\ UNCHANGED <<posting, calls, clicks>>
      BY <1>10 DEF Extras, ExtrasFails, Finished
    <2> QED
      BY <2>1, CloseStreamFacts DEF CallInv
  <1>11. CASE UNCHANGED vars
    BY <1>1, <1>11 DEF vars
  <1> QED
    BY <1>2, <1>3, <1>4, <1>5, <1>6, <1>7, <1>8, <1>9, <1>10, <1>11
    DEF Next, ServerStep, HandlerStep, FinishStep

-----------------------------------------------------------------------------
(* Handlers that run finish once do not disturb later ones. *)

Quiet(j) ==
    /\ j \notin posting
    /\ es[j] \in {"none", "closed"}
    /\ \A f \in finishing : f.click # j

Once(j) == calls[j] <= 1
Clean   == \A j \in Clicks : j < clicks => Once(j)

\* As long as no earlier handler has run finish twice, all earlier handlers are
\* over, `stream` is the current one's, and the button means that it is over.
CleanInv ==
    Clean =>
        /\ panel.click \in {Nothing, clicks}
        /\ clicks # 0 =>
              /\ \A j \in Clicks : j < clicks => Quiet(j)
              /\ es[clicks] # "none" => stream = clicks
              /\ es[clicks] = "closed" => calls[clicks] >= 1
              /\ button /\ Once(clicks) => Quiet(clicks)

\* A handler that still does something is the current one.
LEMMA BusyIsCurrent ==
    ASSUME TypeOK, CallInv, CleanInv, Clean, NEW k \in Clicks, ~ Quiet(k)
    PROVE  k = clicks /\ clicks # 0
  <1>1. k <= clicks
    <2>1. CASE k \in posting \/ es[k] # "none"
      BY <2>1 DEF TypeOK, Clicks
    <2>2. CASE \E f \in finishing : f.click = k
      <3>1. calls[k] > 0
        BY <2>2 DEF CallInv, TypeOK, Calls
      <3> QED
        BY <3>1 DEF CallInv, TypeOK, Clicks
    <2> QED
      BY <2>1, <2>2 DEF Quiet
  <1>2. k > 0 /\ k \in Nat /\ clicks \in Nat
    BY WebAssumption DEF Clicks, TypeOK
  <1> QED
    BY <1>1, <1>2 DEF CleanInv

\* What a step of the current handler k has to leave true.
LEMMA CurrentStep ==
    ASSUME TypeOK, CallInv, CleanInv, [Next]_vars,
           NEW k \in Clicks, ~ Quiet(k), UNCHANGED clicks,
           \A j \in Clicks : calls'[j] >= calls[j] /\ (j # k /\ Quiet(j) => Quiet(j)'),
           Clean => /\ panel'.click \in {panel.click, k}
                    /\ es'[k] # "none" => stream' = k
                    /\ es'[k] = "closed" => calls'[k] >= 1
                    /\ button' /\ Once(k)' => Quiet(k)'
    PROVE  CleanInv'
  <1>a. \A j \in Clicks : calls[j] \in Nat /\ calls'[j] \in Nat
    BY TypeStep, WebAssumption DEF TypeOK
  <1>1. Clean' => Clean
    BY <1>a DEF Clean, Once
  <1>2. ASSUME Clean PROVE k = clicks /\ clicks # 0
    BY <1>2, BusyIsCurrent
  <1> QED
    BY <1>1, <1>2 DEF CleanInv

\* Once events call finish at most, nobody's quiet handler is disturbed.
LEMMA OthersQuiet ==
    ASSUME TypeOK, NEW k \in Clicks, NEW arg,
           CallFinish(k, arg) \/ UNCHANGED <<calls, finishing>>,
           posting' = posting, \A j \in Clicks : j # k => es'[j] = es[j]
    PROVE  \A j \in Clicks : calls'[j] >= calls[j] /\ (j # k /\ Quiet(j) => Quiet(j)')
  <1>1. CASE CallFinish(k, arg)
    BY <1>1, WebAssumption DEF CallFinish, Quiet, TypeOK
  <1>2. CASE UNCHANGED <<calls, finishing>>
    BY <1>2, WebAssumption DEF Quiet, TypeOK
  <1> QED
    BY <1>1, <1>2

\* Every step keeps CleanInv.
LEMMA CleanStep == TypeOK /\ CallInv /\ CleanInv /\ [Next]_vars => CleanInv'
  <1> SUFFICES ASSUME TypeOK, CallInv, CleanInv, [Next]_vars PROVE CleanInv'
    OBVIOUS
  <1> USE DEF serverVars, pageVars, esVars
  <1>1. ASSUME UNCHANGED <<pageVars, esVars, finishing>> PROVE CleanInv'
    BY <1>1 DEF CleanInv, Clean, Once, Quiet
  <1>2. ASSUME NEW i \in Ids, ServerStep(i) PROVE CleanInv'
    BY <1>1, <1>2 DEF ServerStep, Log, Settle, Resubmit, Post
  <1>3. ASSUME NEW i \in Ids, Click(i) PROVE CleanInv'
    <2>1. /\ CloseStream /\ clicks' = clicks + 1 /\ posting' = posting \cup {clicks + 1}
          /\ UNCHANGED <<calls, finishing>> /\ button /\ ~ button' /\ panel' = NoPanel
      BY <1>3 DEF Click
    <2>2. clicks \in Nat /\ clicks + 1 \in Clicks /\ (clicks # 0 => clicks \in Clicks)
      BY <1>3, WebAssumption DEF Click, TypeOK, Clicks
    <2>3. ASSUME Clean' PROVE \A j \in Clicks : j <= clicks => Quiet(j)
      <3>1. Clean /\ (clicks # 0 => Once(clicks))
        BY <2>1, <2>2, <2>3 DEF Clean, Once, Clicks
      <3>2. CASE clicks = 0
        BY <3>2 DEF Clicks
      <3>3. CASE clicks # 0
        BY <2>1, <2>2, <3>1, <3>3 DEF CleanInv, Clicks
      <3> QED
        BY <3>2, <3>3
    <2>4. \A j \in Clicks : j <= clicks /\ Quiet(j) => Quiet(j)'
      BY <2>1, <2>2, CloseStreamFacts DEF Quiet, Clicks
    <2>5. es'[clicks + 1] = "none"
      BY <2>1, <2>2, CloseStreamFacts DEF CallInv
    <2> QED
      BY <2>1, <2>2, <2>3, <2>4, <2>5 DEF CleanInv, NoPanel, Clicks
  <1>4. ASSUME NEW k \in Clicks, PostOk(k) PROVE CleanInv'
    <2>1. /\ k \in posting /\ posting' = posting \ {k} /\ es' = [es EXCEPT ![k] = "connecting"]
          /\ stream' = k /\ UNCHANGED <<button, clicks, panel, calls, finishing>>
      BY <1>4 DEF PostOk
    <2>2. ~ Quiet(k) /\ Once(k) /\ es'[k] = "connecting"
      BY <2>1 DEF Quiet, Once, CallInv, TypeOK
    <2>3. \A j \in Clicks : calls'[j] >= calls[j] /\ (j # k /\ Quiet(j) => Quiet(j)')
      BY <2>1, WebAssumption DEF Quiet, TypeOK
    <2>4. Clean => ~ button
      BY <2>2, BusyIsCurrent DEF CleanInv
    <2> QED
      BY <2>1, <2>2, <2>3, <2>4, CurrentStep
  <1>5. ASSUME NEW k \in Clicks, PostFails(k) PROVE CleanInv'
    <2>1. /\ k \in posting /\ posting' = posting \ {k}
          /\ UNCHANGED <<clicks, panel, stream, es, calls, finishing>>
      BY <1>5 DEF PostFails
    <2>2. ~ Quiet(k) /\ es[k] = "none"
      BY <2>1, StreamClicked DEF Quiet
    <2>3. \A j \in Clicks : calls'[j] >= calls[j] /\ (j # k /\ Quiet(j) => Quiet(j)')
      BY <2>1, WebAssumption DEF Quiet, TypeOK
    <2>4. \A f \in finishing : f.click # k
      BY <2>1, WebAssumption DEF CallInv, TypeOK, Calls
    <2>5. Quiet(k)'
      BY <2>1, <2>2, <2>4 DEF Quiet
    <2> QED
      BY <2>1, <2>2, <2>3, <2>5, CurrentStep
  <1>6. ASSUME NEW k \in Clicks, NEW arg, es[k] \in {"connecting", "open"},
               es'[k] \in {"connecting", "open"} \/ CallFinish(k, arg) \/ stream # k,
               CallFinish(k, arg) \/ UNCHANGED <<calls, finishing>>,
               \A j \in Clicks : j # k => es'[j] = es[j],
               UNCHANGED <<pageVars, posting>>
        PROVE  CleanInv'
    <2>1. ~ Quiet(k)
      BY <1>6 DEF Quiet
    <2>2. \A j \in Clicks : calls'[j] >= calls[j] /\ (j # k /\ Quiet(j) => Quiet(j)')
      BY <1>6, OthersQuiet
    <2>3. Clean => stream = k
      BY <1>6, <2>1, BusyIsCurrent DEF CleanInv
    <2>4. Clean /\ button => ~ Once(k)
      BY <1>6, <2>1, BusyIsCurrent DEF CleanInv
    <2>5. Once(k)' => Once(k)
      BY <2>2, WebAssumption, CallFinishInv, <1>6 DEF Once, TypeOK
    <2>6. CallFinish(k, arg) => calls'[k] >= 1
      BY CallFinishInv, WebAssumption DEF TypeOK
    <2> QED
      BY <1>6, <2>1, <2>2, <2>3, <2>4, <2>5, <2>6, CurrentStep
  <1>7. ASSUME NEW k \in Clicks, Connect(k) \/ PollSteps(k) \/ PollRow(k) \/ Break(k) \/ Over(k)
        PROVE  CleanInv'
    <2>1. /\ es[k] \in {"connecting", "open"} /\ es'[k] \in {"connecting", "open"}
          /\ \A j \in Clicks : j # k => es'[j] = es[j]
          /\ UNCHANGED <<pageVars, posting>>
      BY <1>7 DEF Connect, PollSteps, PollRow, Break, Over, TypeOK
    <2>2. CallFinish(k, -1) \/ UNCHANGED <<calls, finishing>>
      BY <1>7 DEF Connect, PollSteps, PollRow, Break, Over, OnError
    <2> QED
      BY <1>6, <2>1, <2>2
  <1>8. ASSUME NEW k \in Clicks, Done(k) PROVE CleanInv'
    BY <1>6, <1>8 DEF Done
  <1>9. ASSUME NEW k \in Clicks, Reject(k) PROVE CleanInv'
    <2>1. /\ es[k] = "connecting" /\ es' = [es EXCEPT ![k] = "closed"] /\ OnError(k)
          /\ UNCHANGED <<pageVars, posting>>
      BY <1>9 DEF Reject
    <2>2. es'[k] = "closed" /\ \A j \in Clicks : j # k => es'[j] = es[j]
      BY <2>1 DEF TypeOK
    <2>3. stream = k => CallFinish(k, -1)
      BY <2>1, <2>2 DEF OnError
    <2>4. CallFinish(k, -1) \/ UNCHANGED <<calls, finishing>>
      BY <2>1 DEF OnError
    <2> QED
      BY <1>6, <2>1, <2>2, <2>3, <2>4
  <1>10. ASSUME NEW f \in finishing, Status(f) \/ StatusFails(f) PROVE CleanInv'
    <2>1. /\ finishing' = (finishing \ {f}) \cup {[f EXCEPT !.at = "extras"]}
          /\ panel'.click = f.click /\ UNCHANGED <<button, clicks, stream, esVars>>
      BY <1>10 DEF Status, StatusFails, Show
    <2>2. f.click \in Clicks /\ [f EXCEPT !.at = "extras"].click = f.click /\ ~ Quiet(f.click)
      BY DEF TypeOK, Calls, Quiet
    <2>3. \A j \in Clicks : Quiet(j) => Quiet(j)'
      BY <2>1, <2>2 DEF Quiet
    <2>4. Clean /\ button => ~ Once(f.click)
      BY <2>2, BusyIsCurrent DEF CleanInv
    <2>5. /\ Clean /\ es[f.click] # "none" => stream = f.click
          /\ Clean /\ es[f.click] = "closed" => calls[f.click] >= 1
      BY <2>2, BusyIsCurrent DEF CleanInv
    <2>6. \A j \in Clicks : calls'[j] >= calls[j]
      BY <2>1, WebAssumption DEF TypeOK
    <2> QED
      BY <2>1, <2>2, <2>3, <2>4, <2>5, <2>6, CurrentStep DEF Once
  <1>11. ASSUME NEW f \in finishing, Extras(f) \/ ExtrasFails(f) PROVE CleanInv'
    <2>1. /\ finishing' = finishing \ {f} /\ CloseStream
          /\ UNCHANGED <<clicks, panel, stream, posting, calls>>
      BY <1>11 DEF Extras, ExtrasFails, Finished
    <2>2. f.click \in Clicks /\ ~ Quiet(f.click) /\ f.n \in Nat /\ f.n >= 1
      BY WebAssumption DEF TypeOK, Calls, Quiet
    <2>3. \A j \in Clicks : calls'[j] >= calls[j] /\ (Quiet(j) => Quiet(j)')
      BY <2>1, CloseStreamFacts, WebAssumption DEF Quiet, TypeOK
    <2>4. calls[f.click] >= 1 /\ calls[f.click] \in Nat
      BY <2>2, WebAssumption DEF CallInv, TypeOK
    <2>5. es[f.click] # "none" /\ f.click \notin posting
      BY <2>2, <2>4 DEF CallInv
    <2>6. ASSUME Clean PROVE stream = f.click
      BY <2>2, <2>5, <2>6, BusyIsCurrent DEF CleanInv
    <2>7. ASSUME Clean, Once(f.click) PROVE Quiet(f.click)'
      <3>1. es'[f.click] = "closed"
        BY <2>1, <2>2, <2>6, <2>7, CloseStreamFacts
      <3>2. \A g \in finishing : g.click = f.click => g = f
        <4> SUFFICES ASSUME NEW g \in finishing, g.click = f.click PROVE g = f
          OBVIOUS
        <4>1. g.n <= calls[f.click] /\ f.n <= calls[f.click] /\ g.n \in Nat /\ g.n >= 1
          BY WebAssumption DEF CallInv, TypeOK, Calls
        <4>2. g.n = f.n
          BY <2>2, <2>4, <2>7, <4>1 DEF Once
        <4> QED
          BY <4>2 DEF CallInv
      <3> QED
        BY <2>1, <2>5, <3>1, <3>2 DEF Quiet
    <2> QED
      BY <2>1, <2>2, <2>3, <2>4, <2>6, <2>7, CurrentStep DEF Once
  <1>12. CASE UNCHANGED vars
    BY <1>1, <1>12 DEF vars
  <1> QED
    BY <1>2, <1>3, <1>4, <1>5, <1>7, <1>8, <1>9, <1>10, <1>11, <1>12
    DEF Next, ServerStep, HandlerStep, FinishStep

\* The reader sees the report of the last run unless an earlier handler's
\* finish ran twice: see SecondFinishToBlame.
THEOREM OnlySecondFinishesHarm == Spec => []SecondFinishToBlame
  <1>1. Init => CallInv /\ CleanInv
    BY WebAssumption DEF Init, CallInv, CleanInv, Clicks, NoPanel, Nothing, Quiet, Clean, Once
  <1>2. TypeOK /\ CleanInv => SecondFinishToBlame
    <2> SUFFICES ASSUME TypeOK, CleanInv, \A j \in Clicks : j < clicks => ~ (calls[j] >= 2)
                 PROVE  /\ panel.click \in {Nothing, clicks}
                        /\ clicks # 0 /\ es[clicks] = "closed" => calls[clicks] # 0
      BY DEF SecondFinishToBlame
    <2>1. Clean
      BY WebAssumption DEF Clean, Once, TypeOK
    <2> QED
      BY <2>1 DEF CleanInv, TypeOK, Clicks
  <1> QED
    BY <1>1, <1>2, TypeCorrect, CallStep, CleanStep, PTL DEF Spec

-----------------------------------------------------------------------------
(* The table next to the report. *)

\* Reports come after at most the steps there are; a call of finish fills the
\* table once, after it has filled the panel; and as long as no earlier handler
\* runs finish twice, panel and table are of the same handler.
TableInv ==
    /\ \A i \in Ids : reported[i] <= steps[i]
    /\ \A f \in finishing : f.arg <= steps[id[f.click]]
    /\ panel.click # Nothing => panel.steps <= steps[id[panel.click]]
    /\ table.click # Nothing => table.n <= calls[table.click]
    /\ \A f \in finishing : ~ (table.click = f.click /\ table.n = f.n)
    /\ table.click # Nothing /\ table.click = panel.click /\ table.n = panel.n
          => table.steps >= panel.steps
    /\ Clean =>
        /\ table.click \in {Nothing, panel.click}
        /\ \A f \in finishing : f.at = "extras" => panel.click = f.click

\* The types of what TableInv compares.
LEMMA TableTypes ==
    ASSUME TypeOK
    PROVE  /\ \A i \in Ids : steps[i] \in Nat /\ reported[i] \in Nat
           /\ \A k \in Clicks : id[k] \in Ids /\ calls[k] \in Nat /\ k # Nothing
           /\ \A f \in finishing : f.click \in Clicks /\ f.arg \in Int /\ f.n \in Nat /\ f.n >= 1
           /\ panel.click # Nothing => panel.click \in Clicks
           /\ table.click # Nothing => table.click \in Clicks
           /\ panel.steps \in Nat /\ table.steps \in Nat /\ table.n \in Nat
  <1>1. \A i \in Ids : steps[i] \in Nat /\ reported[i] \in Nat
    BY WebAssumption DEF TypeOK
  <1>2. \A k \in Clicks : id[k] \in Ids /\ calls[k] \in Nat /\ k # Nothing
    BY WebAssumption DEF TypeOK, Clicks, Nothing
  <1>3. \A f \in finishing : f.click \in Clicks /\ f.arg \in Int /\ f.n \in Nat /\ f.n >= 1
    BY WebAssumption DEF TypeOK, Calls
  <1>4. panel \in Panels /\ table \in Panels
    BY DEF TypeOK
  <1>5. /\ panel.click \in 0 .. MaxClicks /\ panel.steps \in Nat
        /\ table.click \in 0 .. MaxClicks /\ table.steps \in Nat /\ table.n \in Nat
    BY <1>4, WebAssumption DEF Panels
  <1> QED
    BY <1>1, <1>2, <1>3, <1>5, WebAssumption DEF Clicks, Nothing

\* A call under way while no earlier handler has finished twice is the current
\* handler's.
LEMMA CallerIsCurrent ==
    ASSUME TypeOK, CallInv, CleanInv, Clean, NEW f \in finishing
    PROVE  f.click = clicks /\ clicks # 0 /\ ~ Quiet(clicks)
  <1>1. f.click \in Clicks /\ ~ Quiet(f.click)
    BY TableTypes DEF Quiet
  <1> QED
    BY <1>1, BusyIsCurrent

\* An EventSource event with or without a call of finish.
LEMMA EventTable ==
    ASSUME TypeOK, CallInv, CleanInv, TableInv, NEW k \in Clicks,
           NEW arg, arg <= steps[id[k]],
           UNCHANGED <<serverVars, pageVars, id>>,
           CallFinish(k, arg) \/ UNCHANGED <<calls, finishing>>
    PROVE  TableInv'
  <1> USE DEF serverVars, pageVars
  <1>1. CASE CallFinish(k, arg)
    <2> DEFINE new == [click |-> k, n |-> calls[k] + 1, arg |-> arg, at |-> "status"]
    <2>1. calls' = [calls EXCEPT ![k] = @ + 1] /\ finishing' = finishing \cup {new}
      BY <1>1 DEF CallFinish
    <2>2. new.click = k /\ new.n = calls[k] + 1 /\ new.arg = arg /\ new.at # "extras"
      OBVIOUS
    <2> HIDE DEF new
    <2>3. \A j \in Clicks : calls[j] \in Nat /\ calls'[j] = IF j = k THEN calls[k] + 1 ELSE calls[j]
      BY <2>1, WebAssumption DEF TypeOK
    <2>4. \A g \in finishing' : g.arg <= steps'[id'[g.click]]
      BY <2>1, <2>2 DEF TableInv
    <2>5. table'.click # Nothing => table'.n <= calls'[table'.click]
      BY <2>3, TableTypes DEF TableInv
    <2>6. ~ (table.click = k /\ table.n = calls[k] + 1)
      BY <2>3, TableTypes DEF TableInv
    <2>7. \A g \in finishing' : ~ (table'.click = g.click /\ table'.n = g.n)
      BY <2>1, <2>2, <2>6 DEF TableInv
    <2>8. Clean' => Clean
      BY <2>3 DEF Clean, Once
    <2> QED
      BY <2>1, <2>2, <2>4, <2>5, <2>7, <2>8 DEF TableInv
  <1>2. CASE UNCHANGED <<calls, finishing>>
    BY <1>2 DEF TableInv, Clean, Once
  <1> QED
    BY <1>1, <1>2

\* Every step keeps panel and table together.
LEMMA TableStep ==
    TypeOK /\ CallInv /\ CleanInv /\ TableInv /\ [Next]_vars => TableInv'
  <1> SUFFICES ASSUME TypeOK, CallInv, CleanInv, TableInv, [Next]_vars PROVE TableInv'
    OBVIOUS
  <1> USE DEF serverVars, pageVars, esVars
  <1>1. ASSUME UNCHANGED <<steps, reported, pageVars, id, calls, finishing>> PROVE TableInv'
    BY <1>1 DEF TableInv, Clean, Once
  <1>2. ASSUME NEW i \in Ids, Log(i) PROVE TableInv'
    <2>1. \A h \in Ids : steps'[h] >= steps[h] /\ steps'[h] \in Nat
      BY <1>2, TableTypes DEF Log, TypeOK
    <2>2. UNCHANGED <<row, reported, pageVars, esVars, finishing>>
      BY <1>2 DEF Log
    <2>3. \A h \in Ids : reported'[h] <= steps'[h]
      BY TableTypes, <2>1, <2>2 DEF TableInv
    <2>4. \A f \in finishing : f.arg <= steps'[id[f.click]]
      <3> SUFFICES ASSUME NEW f \in finishing PROVE f.arg <= steps'[id[f.click]]
        OBVIOUS
      <3>1. id[f.click] \in Ids /\ f.arg <= steps[id[f.click]]
        BY TableTypes DEF TableInv
      <3> QED
        BY TableTypes, <2>1, <3>1
    <2>5. panel.click # Nothing => panel.steps <= steps'[id[panel.click]]
      <3> SUFFICES ASSUME panel.click # Nothing PROVE panel.steps <= steps'[id[panel.click]]
        OBVIOUS
      <3>1. id[panel.click] \in Ids /\ panel.steps <= steps[id[panel.click]]
        BY TableTypes DEF TableInv
      <3> QED
        BY TableTypes, <2>1, <3>1
    <2> QED
      BY <2>2, <2>3, <2>4, <2>5 DEF TableInv, Clean, Once
  <1>3. ASSUME NEW i \in Ids, Settle(i) PROVE TableInv'
    <2>1. \A h \in Ids : reported'[h] <= steps[h]
      BY <1>3, TableTypes DEF Settle, TypeOK, TableInv
    <2>2. UNCHANGED <<steps, pageVars, esVars, finishing>>
      BY <1>3 DEF Settle
    <2> QED
      BY <2>1, <2>2 DEF TableInv, Clean, Once
  <1>4. ASSUME NEW i \in Ids, Click(i) PROVE TableInv'
    <2>1. /\ panel' = NoPanel /\ table' = NoPanel /\ id' = [id EXCEPT ![clicks + 1] = i]
          /\ clicks' = clicks + 1 /\ UNCHANGED <<serverVars, calls, finishing>> /\ button
      BY <1>4 DEF Click
    <2>2. \A f \in finishing : f.click <= clicks
      <3> SUFFICES ASSUME NEW f \in finishing PROVE f.click <= clicks
        OBVIOUS
      <3>1. f.click \in Clicks /\ ~ (f.click > clicks)
        BY TableTypes DEF CallInv
      <3> QED
        BY <3>1, WebAssumption DEF TypeOK, Clicks
    <2>3. \A f \in finishing : id'[f.click] = id[f.click]
      <3> SUFFICES ASSUME NEW f \in finishing PROVE id'[f.click] = id[f.click]
        OBVIOUS
      <3>0. clicks \in Nat
        BY WebAssumption DEF TypeOK
      <3>1. f.click \in Clicks /\ f.click # clicks + 1
        BY TableTypes, <2>2, <3>0, WebAssumption DEF Clicks
      <3> QED
        BY <2>1, <3>1 DEF TypeOK
    <2>4. ASSUME Clean' PROVE finishing = {}
      <3> SUFFICES ASSUME NEW f \in finishing PROVE FALSE
        OBVIOUS
      <3>1. f.click \in Clicks /\ f.click <= clicks /\ clicks \in Nat
        BY <2>2, TableTypes, WebAssumption DEF TypeOK
      <3>2. clicks \in Clicks
        BY <3>1, WebAssumption DEF TypeOK, Clicks
      <3>3. Clean /\ Once(clicks)
        BY <2>1, <2>4, <3>1, <3>2, WebAssumption DEF Clean, Once, Clicks
      <3>4. ~ Quiet(clicks) /\ clicks # 0
        BY <3>3, CallerIsCurrent
      <3> QED
        BY <2>1, <3>3, <3>4 DEF CleanInv
    <2>5. \A f \in finishing' : f.arg <= steps'[id'[f.click]]
      BY <2>1, <2>3 DEF TableInv
    <2>6. \A f \in finishing : f.click # Nothing
      BY TableTypes
    <2>7. panel'.click = Nothing /\ table'.click = Nothing
      BY <2>1 DEF NoPanel
    <2> QED
      BY <2>1, <2>4, <2>5, <2>6, <2>7 DEF TableInv
  <1>r. ASSUME NEW i \in Ids, Resubmit(i) PROVE TableInv'
    BY <1>1, <1>r DEF Resubmit, Post
  <1>5. ASSUME NEW k \in Clicks, PostOk(k) \/ PostFails(k) PROVE TableInv'
    BY <1>5 DEF PostOk, PostFails, Post, TableInv, Clean, Once
  <1>6. ASSUME NEW k \in Clicks, Connect(k) \/ PollSteps(k) \/ PollRow(k) PROVE TableInv'
    BY <1>1, <1>6 DEF Connect, PollSteps, PollRow
  <1>7. ASSUME NEW k \in Clicks, Reject(k) \/ Break(k) \/ Over(k) PROVE TableInv'
    <2>1. /\ UNCHANGED <<serverVars, pageVars, id>>
          /\ CallFinish(k, -1) \/ UNCHANGED <<calls, finishing>>
      BY <1>7 DEF Reject, Break, Over, OnError
    <2>2. -1 <= steps[id[k]]
      BY TableTypes
    <2> QED
      BY <2>1, <2>2, EventTable
  <1>8. ASSUME NEW k \in Clicks, Done(k) PROVE TableInv'
    <2>1. /\ UNCHANGED <<serverVars, pageVars, id>>
          /\ CallFinish(k, reported[id[k]])
      BY <1>8 DEF Done
    <2>2. reported[id[k]] <= steps[id[k]]
      BY TableTypes DEF TableInv
    <2> QED
      BY <2>1, <2>2, EventTable
  <1>9. ASSUME NEW f \in finishing, Status(f) \/ StatusFails(f) PROVE TableInv'
    <2>1. PICK after \in Nat : after <= steps[id[f.click]] /\ Show(f, after)
      <3>1. id[f.click] \in Ids /\ f.arg <= steps[id[f.click]]
        BY TableTypes DEF TableInv
      <3>2. f.arg # -1 => f.arg \in Nat
        BY WebAssumption DEF TypeOK, Calls
      <3> QED
        BY <1>9, TableTypes, <3>1, <3>2 DEF Status, StatusFails, ServedReport, TableInv
    <2> DEFINE later == [f EXCEPT !.at = "extras"]
    <2>2. /\ panel' = [click |-> f.click, n |-> f.n, steps |-> after]
          /\ finishing' = (finishing \ {f}) \cup {later}
          /\ UNCHANGED <<serverVars, clicks, table, esVars>>
      BY <2>1 DEF Show
    <2>3. later.click = f.click /\ later.arg = f.arg /\ later.n = f.n
      BY DEF TypeOK, Calls
    <2> HIDE DEF later
    <2>4. \A g \in finishing' : g.arg <= steps'[id'[g.click]]
      BY <2>2, <2>3 DEF TableInv
    <2>5. \A g \in finishing' : ~ (table'.click = g.click /\ table'.n = g.n)
      BY <2>2, <2>3 DEF TableInv
    <2>6. panel'.click = f.click /\ panel'.n = f.n /\ panel'.steps = after
      BY <2>2
    <2>7. ~ (table.click = f.click /\ table.n = f.n)
      BY DEF TableInv
    <2>8. ASSUME Clean' PROVE /\ table'.click \in {Nothing, panel'.click}
                              /\ \A g \in finishing' : panel'.click = g.click
      <3>1. Clean /\ \A g \in finishing : g.click = clicks
        BY <2>2, <2>8, CallerIsCurrent DEF Clean, Once
      <3>2. table.click \in {Nothing, panel.click} /\ panel.click \in {Nothing, clicks}
        BY <3>1 DEF TableInv, CleanInv
      <3> QED
        BY <2>2, <2>3, <2>6, <3>1, <3>2
    <2> QED
      BY <2>1, <2>2, <2>4, <2>5, <2>6, <2>7, <2>8 DEF TableInv
  <1>10. ASSUME NEW f \in finishing, Extras(f) PROVE TableInv'
    <2>1. /\ f.at = "extras" /\ finishing' = finishing \ {f}
          /\ UNCHANGED <<serverVars, clicks, panel, id, calls>>
          /\ table' = [click |-> f.click, n |-> f.n, steps |-> steps[id[f.click]]]
      BY <1>10 DEF Extras, Finished
    <2>2. table'.click = f.click /\ table'.n = f.n /\ table'.steps = steps[id[f.click]]
      BY <2>1
    <2>3. f.n <= calls[f.click] /\ f.click # Nothing
      BY TableTypes DEF CallInv
    <2>4. \A g \in finishing' : ~ (table'.click = g.click /\ table'.n = g.n)
      BY <2>1, <2>2 DEF CallInv
    <2>5. panel.click = f.click => table'.steps >= panel.steps
      BY <2>2, <2>3, TableTypes DEF TableInv
    <2>6. Clean' => Clean /\ panel.click = f.click
      BY <2>1 DEF Clean, Once, TableInv
    <2> QED
      BY <2>1, <2>2, <2>3, <2>4, <2>5, <2>6 DEF TableInv
  <1>11. ASSUME NEW f \in finishing, ExtrasFails(f) PROVE TableInv'
    BY <1>11 DEF ExtrasFails, Finished, TableInv, Clean, Once
  <1>12. CASE UNCHANGED vars
    BY <1>1, <1>12 DEF vars
  <1> QED
    BY <1>2, <1>3, <1>r, <1>4, <1>5, <1>6, <1>7, <1>8, <1>9, <1>10, <1>11, <1>12
    DEF Next, ServerStep, HandlerStep, FinishStep

\* A table filled by the call of finish that showed the report is complete, and
\* another handler's table takes an earlier handler whose finish ran twice, for
\* every number of runs, log entries, second finishes and failures: see
\* TableComplete, which says what it does not promise.
THEOREM TableIsComplete == Spec => []TableComplete
  <1>1. Init => CallInv /\ CleanInv /\ TableInv
    BY WebAssumption
    DEF Init, CallInv, CleanInv, TableInv, Clicks, NoPanel, Nothing, Quiet, Clean, Once
  <1>2. TypeOK /\ TableInv => TableComplete
    <2>1. ASSUME TypeOK, TableInv, table.click # Nothing, table.click # panel.click
          PROVE  \E j \in Clicks : j < clicks /\ calls[j] >= 2
      BY <2>1, TableTypes DEF TableInv, Clean, Once
    <2> QED
      BY <2>1 DEF TableInv, TableComplete
  <1> QED
    BY <1>1, <1>2, TypeCorrect, CallStep, CleanStep, TableStep, PTL DEF Spec

-----------------------------------------------------------------------------
(* Somebody brings the button back. *)

\* Only a click disables the button, and it posts; every other step that takes
\* away what the button waits for, enables it or leaves something else to wait for.
LEMMA WatchedStep == TypeOK /\ ButtonWatched /\ [Next]_vars => ButtonWatched'
  <1> SUFFICES ASSUME TypeOK, ButtonWatched, [Next]_vars, ~ button'
               PROVE  \/ posting' # {} \/ finishing' # {}
                      \/ stream' # Nothing /\ es'[stream'] \in {"connecting", "open"}
    BY DEF ButtonWatched
  <1> DEFINE Watched == \/ posting' # {} \/ finishing' # {}
                        \/ stream' # Nothing /\ es'[stream'] \in {"connecting", "open"}
  <1> USE DEF serverVars, pageVars, esVars
  <1>1. ASSUME UNCHANGED <<button, posting, finishing, stream, es>> PROVE Watched
    BY <1>1 DEF ButtonWatched
  <1>2. ASSUME NEW i \in Ids, ServerStep(i) PROVE Watched
    BY <1>1, <1>2 DEF ServerStep, Log, Settle, Resubmit, Post
  <1>3. ASSUME NEW i \in Ids, Click(i) PROVE Watched
    BY <1>3 DEF Click
  <1>4. ASSUME NEW k \in Clicks, PostOk(k) PROVE Watched
    <2>1. stream' = k /\ es' = [es EXCEPT ![k] = "connecting"]
      BY <1>4 DEF PostOk
    <2> QED
      BY <2>1, StreamClicked DEF TypeOK
  <1>5. ASSUME NEW k \in Clicks, PostFails(k) PROVE Watched
    BY <1>5 DEF PostFails
  <1>6. ASSUME NEW k \in Clicks, PollSteps(k) \/ PollRow(k) PROVE Watched
    BY <1>1, <1>6 DEF PollSteps, PollRow
  <1>7. ASSUME NEW k \in Clicks, Done(k) PROVE Watched
    BY <1>7 DEF Done, CallFinish
  <1>8. ASSUME NEW k \in Clicks, Connect(k) PROVE Watched
    BY <1>8 DEF Connect, ButtonWatched, TypeOK
  <1>9. ASSUME NEW k \in Clicks, Reject(k) \/ Break(k) \/ Over(k) PROVE Watched
    <2>1. /\ \E st \in {"connecting", "closed"} : es' = [es EXCEPT ![k] = st]
          /\ UNCHANGED <<button, stream, posting>> /\ OnError(k)
      BY <1>9 DEF Reject, Break, Over
    <2>2. finishing \subseteq finishing'
      BY <2>1 DEF OnError, CallFinish
    <2>3. ASSUME es'[stream] = "closed" PROVE finishing' # {}
      BY <2>1, <2>3 DEF OnError, CallFinish
    <2>4. ASSUME stream # Nothing, es[stream] \in {"connecting", "open"}, es'[stream] # "closed"
          PROVE  es'[stream] \in {"connecting", "open"}
      BY <2>1, <2>4 DEF TypeOK
    <2> QED
      BY <2>1, <2>2, <2>3, <2>4 DEF ButtonWatched
  <1>10. ASSUME NEW f \in finishing, Status(f) \/ StatusFails(f) PROVE Watched
    BY <1>10 DEF Status, StatusFails, Show
  <1>11. ASSUME NEW f \in finishing, Extras(f) \/ ExtrasFails(f) PROVE Watched
    BY <1>11 DEF Extras, ExtrasFails, Finished
  <1>12. CASE UNCHANGED vars
    BY <1>1, <1>12 DEF vars
  <1> QED
    BY <1>2, <1>3, <1>4, <1>5, <1>6, <1>7, <1>8, <1>9, <1>10, <1>11, <1>12
    DEF Next, ServerStep, HandlerStep, FinishStep

\* A disabled button is always waited for by a handler that will enable it, for
\* every number of clicks, finishes and failures: see ButtonWatched.
THEOREM ButtonIsWatched == Spec => []ButtonWatched
  <1>1. Init => ButtonWatched
    BY DEF Init, ButtonWatched
  <1> QED
    BY <1>1, TypeCorrect, WatchedStep, PTL DEF Spec
=============================================================================
