---------------------- MODULE StressDriverProofs ----------------------
(***************************************************************************)
(* Machine-checked proofs about module StressDriver, for every number of   *)
(* rounds, every range of sizes, and every budget, timeout and probe time  *)
(* that satisfies TimingAssumption.                                        *)
(***************************************************************************)
EXTENDS StressDriver, TLAPS, SequenceTheorems, WellFoundedInduction

-----------------------------------------------------------------------------
(* Sizes. *)

\* A nonempty set of naturals has a least element.
LEMMA LeastExists ==
    ASSUME NEW S \in SUBSET Nat, S # {}
    PROVE  \E c \in S : \A d \in S : c <= d
  <1>1. PICK c \in S : \A d \in S : ~ (<<d, c>> \in OpToRel(<, Nat))
    BY WFMin, NatLessThanWellFounded
  <1>2. \A d \in S : ~ (d < c)
    BY <1>1 DEF OpToRel
  <1>3. \A d \in S : c \in Nat /\ d \in Nat
    OBVIOUS
  <1> QED
    BY <1>2, <1>3

\* The candidate after s is the smallest one above s, and there is none only
\* if no candidate is above s.
LEMMA NextCandidateFact ==
    ASSUME NEW f \in Nat, NEW s \in Nat
    PROVE  /\ NextCandidate(f, s) \in {0} \cup shrink_candidates(f)
           /\ NextCandidate(f, s) = 0 => \A c \in shrink_candidates(f) : c <= s
           /\ NextCandidate(f, s) # 0 =>
                \A c \in shrink_candidates(f) : c < NextCandidate(f, s) => c <= s
  <1> DEFINE larger == {c \in shrink_candidates(f) : c > s}
  <1>1. shrink_candidates(f) \subseteq 1 .. f - 1
    BY DEF shrink_candidates
  <1>2. CASE larger = {}
    BY <1>1, <1>2 DEF NextCandidate
  <1>3. CASE larger # {}
    <2>1. \E c \in larger : \A d \in larger : c <= d
      <3>1. larger \in SUBSET Nat
        BY <1>1
      <3> QED
        BY <3>1, <1>3, LeastExists
    <2> DEFINE n == CHOOSE c \in larger : \A d \in larger : c <= d
    <2>2. n \in larger /\ \A d \in larger : n <= d
      BY <2>1
    <2>3. NextCandidate(f, s) = n
      BY <1>3 DEF NextCandidate
    <2> QED
      BY <1>1, <2>2, <2>3
  <1> QED
    BY <1>2, <1>3

-----------------------------------------------------------------------------
(* The event stream. *)

\* What a sequence holds.
Elems(s) == {s[i] : i \in 1 .. Len(s)}

\* Appending events adds what was appended, and its last one comes last.
LEMMA Appended ==
    ASSUME NEW s \in Seq(Events), NEW t \in Seq(Events)
    PROVE  /\ s \o t \in Seq(Events)
           /\ Elems(s \o t) = Elems(s) \cup Elems(t)
           /\ t # <<>> => s \o t # <<>> /\ (s \o t)[Len(s \o t)] = t[Len(t)]
  <1>1. /\ s \o t \in Seq(Events) /\ Len(s \o t) = Len(s) + Len(t)
        /\ \A i \in 1 .. Len(s) + Len(t) :
              (s \o t)[i] = IF i <= Len(s) THEN s[i] ELSE t[i - Len(s)]
    BY ConcatProperties
  <1>2. Len(s) \in Nat /\ Len(t) \in Nat
    OBVIOUS
  <1>3. Elems(s \o t) \subseteq Elems(s) \cup Elems(t)
    <2> SUFFICES ASSUME NEW i \in 1 .. Len(s) + Len(t)
                 PROVE  (s \o t)[i] \in Elems(s) \cup Elems(t)
      BY <1>1 DEF Elems
    <2>1. CASE i <= Len(s)
      BY <1>1, <1>2, <2>1 DEF Elems
    <2>2. CASE i > Len(s)
      <3>1. i - Len(s) \in 1 .. Len(t) /\ (s \o t)[i] = t[i - Len(s)]
        BY <1>1, <1>2, <2>2
      <3> QED
        BY <3>1 DEF Elems
    <2> QED
      BY <1>2, <2>1, <2>2
  <1>4. \A i \in 1 .. Len(s) : i \in 1 .. Len(s) + Len(t) /\ (s \o t)[i] = s[i]
    BY <1>1, <1>2
  <1>5. \A i \in 1 .. Len(t) : /\ Len(s) + i \in 1 .. Len(s) + Len(t)
                               /\ (s \o t)[Len(s) + i] = t[i]
    BY <1>1, <1>2
  <1>6. Elems(s) \cup Elems(t) \subseteq Elems(s \o t)
    BY <1>1, <1>4, <1>5 DEF Elems
  <1>7. t # <<>> => s \o t # <<>> /\ (s \o t)[Len(s \o t)] = t[Len(t)]
    <2> SUFFICES ASSUME t # <<>> PROVE s \o t # <<>> /\ (s \o t)[Len(s \o t)] = t[Len(t)]
      OBVIOUS
    <2>1. Len(t) \in 1 .. Len(t)
      BY EmptySeq, <1>2
    <2> QED
      BY <1>1, <1>2, <1>5, <2>1, EmptySeq
  <1> QED
    BY <1>1, <1>3, <1>6, <1>7

\* Reading takes the first event and keeps the others in place.
LEMMA Taken ==
    ASSUME NEW s \in Seq(Events), s # <<>>
    PROVE  /\ Head(s) \in Events /\ Head(s) \in Elems(s)
           /\ Tail(s) \in Seq(Events)
           /\ Elems(Tail(s)) \subseteq Elems(s)
           /\ s[Len(s)] # Head(s) =>
                Tail(s) # <<>> /\ Tail(s)[Len(Tail(s))] = s[Len(s)]
  <1>1. Len(s) \in Nat \ {0}
    BY EmptySeq
  <1>2. /\ Head(s) = s[1] /\ Tail(s) \in Seq(Events) /\ Len(Tail(s)) = Len(s) - 1
        /\ \A i \in 1 .. Len(s) - 1 : Tail(s)[i] = s[i + 1]
    BY HeadTailProperties
  <1>3. Head(s) \in Events /\ Head(s) \in Elems(s)
    BY <1>1, <1>2 DEF Elems
  <1>4. \A i \in 1 .. Len(s) - 1 : i + 1 \in 1 .. Len(s)
    BY <1>1
  <1>5. Elems(Tail(s)) \subseteq Elems(s)
    BY <1>2, <1>4 DEF Elems
  <1>6. s[Len(s)] # Head(s) => Tail(s) # <<>> /\ Tail(s)[Len(Tail(s))] = s[Len(s)]
    <2> SUFFICES ASSUME s[Len(s)] # Head(s)
                 PROVE  Tail(s) # <<>> /\ Tail(s)[Len(Tail(s))] = s[Len(s)]
      OBVIOUS
    <2>1. Len(s) - 1 \in 1 .. Len(s) - 1
      BY <1>1, <1>2
    <2> QED
      BY <1>1, <1>2, <2>1, EmptySeq
  <1> QED
    BY <1>2, <1>3, <1>5, <1>6

\* What a stream of events holds are events.
LEMMA ElemsType ==
    ASSUME NEW s \in Seq(Events)
    PROVE  \A e \in Elems(s) : e \in Events /\ e.rounds \in Nat
  <1>1. Elems(s) \subseteq Events
    BY DEF Elems
  <1> QED
    BY <1>1 DEF Events

\* The sequences the driver writes.
LEMMA Single ==
    ASSUME NEW e \in Events
    PROVE  <<e>> \in Seq(Events) /\ Elems(<<e>>) = {e} /\ <<e>> # <<>>
           /\ <<e>>[Len(<<e>>)] = e
  BY DEF Elems

LEMMA Empty == <<>> \in Seq(Events) /\ Elems(<<>>) = {}
  BY DEF Elems

LEMMA EventType ==
    ASSUME NEW kind \in {"progress", "mismatch", "shrink", "done"},
           NEW n \in Nat, NEW s \in Nat, NEW j \in Nat
    PROVE  /\ Event(kind, n, s, j) \in Events
           /\ Event(kind, n, s, j).event = kind /\ Event(kind, n, s, j).rounds = n
           /\ Event(kind, n, s, j).size = s
  BY DEF Event, Events

\* A round's progress event, if any, carries the round's number.
LEMMA ProgressFact ==
    ASSUME round \in Nat
    PROVE  /\ Progress \in Seq(Events)
           /\ \A e \in Elems(Progress) : e.event = "progress" /\ e.rounds = round
  <1>1. CASE Progress = <<>>
    BY <1>1, Empty
  <1>2. CASE Progress = <<Event("progress", round, 0, 0)>>
    BY <1>2, EventType, Single
  <1> QED
    BY <1>1, <1>2 DEF Progress

-----------------------------------------------------------------------------
(* Type correctness. *)

LEMMA Arithmetic ==
    /\ sweep_rounds \in Nat
    /\ \A t \in Nat : ShrinkDeadline(t) \in Nat /\ ShrinkDeadline(t) <= t + ShrinkBudget
                      /\ ShrinkDeadline(t) <= TimeBudget + ShrinkBudget
    /\ \A s \in SizeMin .. Greatest(SizeMin, SizeMax) : s \in Nat \ {0}
  BY DriverAssumption DEF sweep_rounds, ShrinkDeadline, Least, Greatest

\* A candidate size is positive and below the mismatch.
LEMMA CandidateFact ==
    ASSUME NEW f \in Nat, NEW c \in shrink_candidates(f)
    PROVE  c \in Nat /\ 0 < c /\ c < f
  BY DEF shrink_candidates

LEMMA NextCandidateType ==
    ASSUME NEW f \in Nat, NEW s \in Nat
    PROVE  NextCandidate(f, s) \in Nat
  BY NextCandidateFact, CandidateFact

\* Appending keeps the stream a sequence of events and the silence a number.
LEMMA WriteType ==
    ASSUME TypeOK, NEW e \in Seq(Events), NEW d \in Nat, Write(e, d)
    PROVE  pipe' \in Seq(Events) /\ silence' \in Nat
  BY Appended DEF Write, TypeOK

\* What a round that fails writes.
LEMMA MismatchEvents ==
    ASSUME round \in Nat, NEW s \in Nat
    PROVE  LET events == Progress \o <<Event("mismatch", 0, s, 0)>> IN
           /\ events \in Seq(Events) /\ events # <<>>
           /\ \A e \in Elems(events) : e.event # "done" /\ e.rounds <= round
  <1> DEFINE m == Event("mismatch", 0, s, 0)
  <1>1. m \in Events /\ m.event = "mismatch" /\ m.rounds = 0
    BY EventType
  <1>2. /\ <<m>> \in Seq(Events) /\ Elems(<<m>>) = {m} /\ <<m>> # <<>>
    BY <1>1, Single
  <1>3. /\ Progress \in Seq(Events)
        /\ \A e \in Elems(Progress) : e.event = "progress" /\ e.rounds = round
    BY ProgressFact
  <1>4. /\ Progress \o <<m>> \in Seq(Events)
        /\ Elems(Progress \o <<m>>) = Elems(Progress) \cup {m}
        /\ Progress \o <<m>> # <<>>
    BY <1>2, <1>3, Appended
  <1>5. \A e \in Elems(Progress \o <<m>>) : e.event # "done" /\ e.rounds <= round
    BY <1>1, <1>3, <1>4
  <1> QED
    BY <1>4, <1>5

\* Every step keeps every variable in its type.
LEMMA TypeStep == TypeOK /\ [Next]_vars => TypeOK'
  <1> SUFFICES ASSUME TypeOK, [Next]_vars PROVE TypeOK'
    OBVIOUS
  <1> USE DriverAssumption
  <1>0. /\ round \in Nat /\ steps \in Nat /\ size \in Nat /\ found \in Nat /\ best \in Nat
        /\ pipe \in Seq(Events)
    BY DEF TypeOK
  <1>1. ASSUME NEW d \in 1 .. ProbeMax, NEW s \in SizeMin .. Greatest(SizeMin, SizeMax),
               RoundPasses(d, s)
        PROVE  TypeOK'
    <2>1. s \in Nat /\ d \in Nat
      BY Arithmetic
    <2>2. pipe' \in Seq(Events) /\ silence' \in Nat
      <3>1. Progress \in Seq(Events) /\ Write(Progress, d)
        BY <1>0, <1>1, ProgressFact DEF RoundPasses
      <3> QED
        BY <2>1, <3>1, WriteType
    <2> QED
      BY <1>1, <2>1, <2>2 DEF RoundPasses, probe, InTime, hostVars, TypeOK, Working
  <1>2. ASSUME NEW d \in 1 .. ProbeMax, NEW s \in SizeMin .. Greatest(SizeMin, SizeMax),
               RoundFails(d, s)
        PROVE  TypeOK'
    <2>1. s \in Nat /\ d \in Nat /\ NextCandidate(s, 0) \in Nat
      BY Arithmetic, NextCandidateType
    <2>2. pipe' \in Seq(Events) /\ silence' \in Nat
      <3> DEFINE events == Progress \o <<Event("mismatch", 0, s, 0)>>
      <3>1. events \in Seq(Events) /\ Write(events, d)
        BY <1>0, <1>2, <2>1, MismatchEvents DEF RoundFails
      <3> HIDE DEF events
      <3> QED
        BY <2>1, <3>1, WriteType
    <2>3. now' \in Nat /\ until' \in Nat
      BY <1>2, <2>1, Arithmetic DEF RoundFails, probe, TypeOK, Working
    <2> QED
      BY <1>2, <2>1, <2>2, <2>3 DEF RoundFails, hostVars, TypeOK, Working
  <1>3. ASSUME RoundsOver PROVE TypeOK'
    <2> DEFINE e == Event("done", round, 0, 0)
    <2>1. <<e>> \in Seq(Events)
      BY <1>0, EventType, Single
    <2>2. pipe' \in Seq(Events) /\ silence' \in Nat
      <3>1. Write(<<e>>, 0)
        BY <1>3 DEF RoundsOver
      <3> HIDE DEF e
      <3> QED
        BY <2>1, <3>1, WriteType
    <2> QED
      BY <1>3, <2>2 DEF RoundsOver, hostVars, history, TypeOK, Working
  <1>4. ASSUME NEW d \in 1 .. ProbeMax, ShrinkPasses(d) PROVE TypeOK'
    <2>1. pipe' \in Seq(Events) /\ silence' \in Nat
      <3>1. Write(<<>>, d) /\ d \in Nat
        BY <1>4 DEF ShrinkPasses
      <3> QED
        BY <3>1, Empty, WriteType
    <2>2. NextCandidate(found, size) \in Nat
      BY <1>0, NextCandidateType
    <2>3. now' \in Nat /\ steps' \in Nat /\ size' \in Nat /\ k' \in 0 .. SeedsPerSize - 1
      BY <1>4, <2>2 DEF ShrinkPasses, probe, TypeOK, Working
    <2>4. cleared' \subseteq Nat
      BY <1>4 DEF ShrinkPasses, TypeOK, Working
    <2> QED
      BY <1>4, <2>1, <2>3, <2>4 DEF ShrinkPasses, hostVars, TypeOK, Working
  <1>5. ASSUME NEW d \in 1 .. ProbeMax, ShrinkFails(d) PROVE TypeOK'
    <2> DEFINE e == Event("shrink", 0, size, 0)
    <2>1. <<e>> \in Seq(Events)
      BY <1>0, EventType, Single
    <2>2. pipe' \in Seq(Events) /\ silence' \in Nat
      <3>1. Write(<<e>>, d) /\ d \in Nat
        BY <1>5 DEF ShrinkFails
      <3> HIDE DEF e
      <3> QED
        BY <2>1, <3>1, WriteType
    <2>3. now' \in Nat /\ steps' \in Nat
      BY <1>5 DEF ShrinkFails, probe, TypeOK, Working
    <2> QED
      BY <1>5, <2>2, <2>3 DEF ShrinkFails, hostVars, TypeOK, Working
  <1>6. ASSUME ShrinkOver PROVE TypeOK'
    BY <1>6 DEF ShrinkOver, hostVars, history, TypeOK, Working
  <1>7. ASSUME Report PROVE TypeOK'
    <2> DEFINE e == Event("done", round + 1, best, steps)
    <2>1. <<e>> \in Seq(Events)
      BY <1>0, EventType, Single
    <2>2. pipe' \in Seq(Events) /\ silence' \in Nat
      <3>1. Write(<<e>>, 0)
        BY <1>7 DEF Report
      <3> HIDE DEF e
      <3> QED
        BY <2>1, <3>1, WriteType
    <2> QED
      BY <1>7, <2>2 DEF Report, hostVars, history, TypeOK, Working
  <1>8. ASSUME Killed \/ Stalled \/ Wait PROVE TypeOK'
    <2>1. CASE Killed
      BY <2>1 DEF Killed, hostVars, history, TypeOK, Working
    <2>2. CASE Stalled
      BY <2>2 DEF Stalled, hostVars, history, TypeOK, Working
    <2>3. CASE Wait
      BY <2>3 DEF Wait, driverVars, hostVars, history, TypeOK, Working
    <2> QED
      BY <1>8, <2>1, <2>2, <2>3
  <1>9. ASSUME OnProgress \/ OnMismatch \/ OnShrink \/ OnDone \/ LineTooLong PROVE TypeOK'
    <2>1. pipe # <<>> /\ pipe' = Tail(pipe)
      BY <1>9 DEF OnProgress, OnMismatch, OnShrink, OnDone, LineTooLong, Reading
    <2>2. Head(pipe) \in Events /\ pipe' \in Seq(Events)
      BY <1>0, <2>1, Taken
    <2>3. Head(pipe).rounds \in Nat /\ Head(pipe).size \in Nat /\ Head(pipe).steps \in Nat
      BY <2>2 DEF Events
    <2>4. /\ host' \in {"reading", "returned", "raised"}
          /\ rounds_run' \in Nat /\ shrink_steps' \in Nat /\ result' \in Nat
      <3>1. CASE OnProgress \/ OnMismatch \/ OnShrink
        BY <2>3, <3>1 DEF OnProgress, OnMismatch, OnShrink, Noted, TypeOK
      <3>2. CASE OnDone \/ LineTooLong
        BY <2>3, <3>2 DEF OnDone, LineTooLong, Noted, TypeOK
      <3> QED
        BY <1>9, <3>1, <3>2
    <2>5. UNCHANGED <<driverVars, silence, history>>
      BY <1>9 DEF OnProgress, OnMismatch, OnShrink, OnDone, LineTooLong
    <2> QED
      BY <2>2, <2>4, <2>5 DEF driverVars, history, TypeOK, Working
  <1>10. ASSUME EndOfStream \/ DriverTimeout PROVE TypeOK'
    BY <1>10 DEF EndOfStream, DriverTimeout, Noted, driverVars, history, TypeOK, Working
  <1>11. ASSUME UNCHANGED vars PROVE TypeOK'
    BY <1>11 DEF vars, driverVars, hostVars, history, TypeOK, Working
  <1> QED
    BY <1>1, <1>2, <1>3, <1>4, <1>5, <1>6, <1>7, <1>8, <1>9, <1>10, <1>11
    DEF Next, Drive, Consume

LEMMA TypeInit == Init => TypeOK
  BY DriverAssumption, Empty DEF Init, TypeOK, Working

\* TypeOK holds in every behaviour.
THEOREM TypeCorrect == Spec => []TypeOK
  BY TypeInit, TypeStep, PTL DEF Spec

-----------------------------------------------------------------------------
(* Time. *)

\* The clock never runs past what EndsInTime allows, and the silence of a
\* working driver never past the stream's timeout: in the loop it is bounded by
\* the clock, and from the mismatch on by what is left of the shrink budget.
Timing ==
    /\ EndsInTime
    /\ driver = "loop" => silence <= now /\ now <= TimeBudget + ProbeMax
    /\ driver = "shrinking" =>
         until + silence <= now + ShrinkBudget /\ until <= TimeBudget + ShrinkBudget
    /\ driver \in Working => silence <= StreamTimeout

LEMMA TimingInit == Init => Timing
  BY DriverAssumption DEF Init, Timing, EndsInTime, Working

LEMMA TimingStep == TypeOK /\ Timing /\ [Next]_vars => Timing'
  <1> SUFFICES ASSUME TypeOK, Timing, [Next]_vars PROVE Timing'
    OBVIOUS
  <1> USE DriverAssumption, TimingAssumption DEF Timing, EndsInTime, Working
  <1>0. now \in Nat /\ silence \in Nat /\ until \in Nat /\ round \in Nat
    BY DEF TypeOK
  <1>1. ASSUME NEW d \in 1 .. ProbeMax, NEW s \in SizeMin .. Greatest(SizeMin, SizeMax),
               RoundPasses(d, s)
        PROVE  Timing'
    <2>1. silence' <= silence + d
      BY <1>0, <1>1 DEF RoundPasses, Write
    <2>2. silence' \in Nat
      BY <1>0, <1>1 DEF RoundPasses, Write
    <2> QED
      BY <1>0, <1>1, <2>1, <2>2 DEF RoundPasses, InTime, probe
  <1>2. ASSUME NEW d \in 1 .. ProbeMax, NEW s \in SizeMin .. Greatest(SizeMin, SizeMax),
               RoundFails(d, s)
        PROVE  Timing'
    <2>1. silence' = 0
      <3>1. s \in Nat
        BY Arithmetic
      <3> DEFINE events == Progress \o <<Event("mismatch", 0, s, 0)>>
      <3>2. events # <<>> /\ Write(events, d)
        BY <1>0, <1>2, <3>1, MismatchEvents DEF RoundFails
      <3> HIDE DEF events
      <3> QED
        BY <3>2 DEF Write
    <2>2. now' = now + d /\ now <= TimeBudget /\ until' = ShrinkDeadline(now')
          /\ driver' = "shrinking"
      BY <1>2 DEF RoundFails, InTime, probe
    <2>3. until' \in Nat /\ until' <= now' + ShrinkBudget
          /\ until' <= TimeBudget + ShrinkBudget
      BY <1>0, <2>2, Arithmetic
    <2> QED
      BY <1>0, <2>1, <2>2, <2>3
  <1>3. ASSUME RoundsOver PROVE Timing'
    BY <1>3 DEF RoundsOver
  <1>4. ASSUME NEW d \in 1 .. ProbeMax, ShrinkPasses(d) PROVE Timing'
    <2>1. silence' = silence + d
      BY <1>4 DEF ShrinkPasses, Write
    <2> QED
      BY <1>0, <1>4, <2>1 DEF ShrinkPasses, probe
  <1>5. ASSUME NEW d \in 1 .. ProbeMax, ShrinkFails(d) PROVE Timing'
    <2>1. silence' <= silence + d /\ silence' \in Nat
      BY <1>0, <1>5 DEF ShrinkFails, Write
    <2> QED
      BY <1>0, <1>5, <2>1 DEF ShrinkFails, probe
  <1>6. ASSUME ShrinkOver PROVE Timing'
    BY <1>6 DEF ShrinkOver
  <1>7. ASSUME Report PROVE Timing'
    BY <1>7 DEF Report
  <1>8. ASSUME Killed \/ Stalled \/ Wait PROVE Timing'
    BY <1>8 DEF Killed, Stalled, Wait, driverVars
  <1>9. ASSUME Consume PROVE Timing'
    BY <1>9 DEF Consume, OnProgress, OnMismatch, OnShrink, OnDone, LineTooLong,
                EndOfStream, DriverTimeout, driverVars
  <1>10. ASSUME UNCHANGED vars PROVE Timing'
    BY <1>10 DEF vars, driverVars
  <1> QED
    BY <1>1, <1>2, <1>3, <1>4, <1>5, <1>6, <1>7, <1>8, <1>9, <1>10 DEF Next, Drive

\* The driver ends within its two budgets and one probe.
THEOREM DriverEndsInTime == Spec => []EndsInTime
  <1>1. Timing => EndsInTime
    BY DEF Timing
  <1> QED
    BY <1>1, TypeInit, TypeStep, TimingInit, TimingStep, PTL DEF Spec

-----------------------------------------------------------------------------
(* The stream. *)

\* done is the driver's last word: while it is unread it is the last event of
\* the stream and repeats the driver's report, and a driver whose stream was
\* read to its end no longer works.
Stream ==
    /\ \A e \in Elems(pipe) :
         /\ e.rounds <= round + 1
         /\ e.event = "done" =>
              /\ driver = "exited" /\ e.size = best
              /\ best = 0 => e.rounds = round
    /\ driver = "exited" /\ host = "reading" =>
         pipe # <<>> /\ pipe[Len(pipe)].event = "done"
    /\ host = "returned" => driver \notin Working
    /\ RoundsHonest
    /\ ReportDelivered
    /\ driver \in {"loop", "shrinking"} => best = 0
    /\ driver = "loop" => found = 0
    /\ driver = "exited" /\ found # 0 => best # 0
    /\ driver = "shrinking" => found # 0
    /\ driver = "reporting" => best # 0

LEMMA StreamInit == Init => Stream
  BY Empty DEF Init, Stream, RoundsHonest, ReportDelivered, Working

\* What one appended batch of events must satisfy for Stream to survive.
LEMMA StreamAppend ==
    ASSUME TypeOK, NEW b \in Seq(Events), NEW d \in Nat, Write(b, d)
    PROVE  /\ pipe' \in Seq(Events)
           /\ \A e \in Elems(pipe') : e \in Elems(pipe) \/ e \in Elems(b)
           /\ b # <<>> => pipe' # <<>> /\ pipe'[Len(pipe')] = b[Len(b)]
  <1>1. pipe \in Seq(Events) /\ pipe' = pipe \o b
    BY DEF TypeOK, Write
  <1> QED
    BY <1>1, Appended

LEMMA StreamStep == TypeOK /\ Timing /\ Stream /\ [Next]_vars => Stream'
  <1> SUFFICES ASSUME TypeOK, Timing, Stream, [Next]_vars PROVE Stream'
    OBVIOUS
  <1>0. /\ round \in Nat /\ steps \in Nat /\ size \in Nat /\ found \in Nat /\ best \in Nat
        /\ pipe \in Seq(Events) /\ rounds_run \in Nat
        /\ host \in {"reading", "returned", "raised"}
    BY DriverAssumption DEF TypeOK
  <1>1. ASSUME NEW d \in 1 .. ProbeMax, NEW s \in SizeMin .. Greatest(SizeMin, SizeMax),
               RoundPasses(d, s)
        PROVE  Stream'
    <2>1. Progress \in Seq(Events) /\ Write(Progress, d) /\ d \in Nat
      BY <1>0, <1>1, ProgressFact DEF RoundPasses
    <2>2. \A e \in Elems(pipe') : e \in Elems(pipe) \/ e \in Elems(Progress)
      BY <2>1, StreamAppend
    <2>3. \A e \in Elems(Progress) : e.event # "done" /\ e.rounds = round
      BY <1>0, ProgressFact
    <2>4. driver = "loop" /\ driver' = "loop" /\ round' = round + 1
          /\ UNCHANGED <<best, found, hostVars>>
      BY <1>1 DEF RoundPasses
    <2>5. \A e \in Elems(pipe) : e.rounds <= round + 1 /\ e.event # "done"
      BY <2>4 DEF Stream
    <2>6. \A e \in Elems(pipe') : e.rounds <= round' + 1 /\ e.event # "done"
      <3> SUFFICES ASSUME NEW e \in Elems(pipe')
                   PROVE  e.rounds <= round' + 1 /\ e.event # "done"
        OBVIOUS
      <3>1. CASE e \in Elems(Progress)
        BY <1>0, <2>3, <2>4, <3>1
      <3>2. CASE e \in Elems(pipe)
        BY <1>0, <2>4, <2>5, <3>2, ElemsType
      <3> QED
        BY <2>2, <3>1, <3>2
    <2> QED
      BY <1>0, <2>4, <2>6 DEF Stream, RoundsHonest, ReportDelivered, Working, hostVars
  <1>2. ASSUME NEW d \in 1 .. ProbeMax, NEW s \in SizeMin .. Greatest(SizeMin, SizeMax),
               RoundFails(d, s)
        PROVE  Stream'
    <2> DEFINE events == Progress \o <<Event("mismatch", 0, s, 0)>>
    <2>1. s \in Nat \ {0}
      BY Arithmetic
    <2>2. events \in Seq(Events) /\ Write(events, d) /\ d \in Nat
      BY <1>0, <1>2, <2>1, MismatchEvents DEF RoundFails
    <2>3. \A e \in Elems(events) : e.event # "done" /\ e.rounds <= round
      BY <1>0, <2>1, MismatchEvents
    <2> HIDE DEF events
    <2>4. \A e \in Elems(pipe') : e \in Elems(pipe) \/ e \in Elems(events)
      BY <2>2, StreamAppend
    <2>5. driver = "loop" /\ driver' = "shrinking" /\ found' = s
          /\ UNCHANGED <<round, best, hostVars>>
      BY <1>2 DEF RoundFails
    <2>6. \A e \in Elems(events) : e.rounds \in Nat
      BY <2>2, ElemsType
    <2>7. \A e \in Elems(pipe') : e.rounds <= round' + 1 /\ e.event # "done"
      BY <1>0, <2>3, <2>4, <2>5, <2>6 DEF Stream
    <2> QED
      BY <1>0, <2>1, <2>5, <2>7 DEF Stream, RoundsHonest, ReportDelivered, Working, hostVars
  <1>3. ASSUME RoundsOver PROVE Stream'
    <2> DEFINE e == Event("done", round, 0, 0)
    <2>1. /\ <<e>> \in Seq(Events) /\ Elems(<<e>>) = {e} /\ <<e>> # <<>>
          /\ <<e>>[Len(<<e>>)] = e
          /\ e.event = "done" /\ e.rounds = round /\ e.size = 0
      <3>1. e \in Events /\ e.event = "done" /\ e.rounds = round /\ e.size = 0
        BY <1>0, EventType
      <3> HIDE DEF e
      <3> QED
        BY <3>1, Single
    <2>2. Write(<<e>>, 0)
      BY <1>3 DEF RoundsOver
    <2> HIDE DEF e
    <2>3. /\ \A x \in Elems(pipe') : x \in Elems(pipe) \/ x = e
          /\ pipe' # <<>> /\ pipe'[Len(pipe')] = e
      <3> DEFINE b == <<e>>
      <3>1. b \in Seq(Events) /\ Elems(b) = {e} /\ b # <<>> /\ b[Len(b)] = e /\ Write(b, 0)
        BY <2>1, <2>2
      <3> HIDE DEF b
      <3> QED
        BY <3>1, StreamAppend
    <2>4. driver = "loop" /\ driver' = "exited" /\ UNCHANGED <<round, best, found, hostVars>>
      BY <1>3 DEF RoundsOver
    <2> QED
      BY <1>0, <2>1, <2>3, <2>4 DEF Stream, RoundsHonest, ReportDelivered, Working, hostVars
  <1>4. ASSUME NEW d \in 1 .. ProbeMax, ShrinkPasses(d) PROVE Stream'
    <2>1. Write(<<>>, d) /\ d \in Nat
      BY <1>4 DEF ShrinkPasses
    <2>2. \A e \in Elems(pipe') : e \in Elems(pipe)
      BY <2>1, Empty, StreamAppend
    <2>3. driver = "shrinking" /\ UNCHANGED <<driver, round, best, found, hostVars>>
      BY <1>4 DEF ShrinkPasses
    <2> QED
      BY <1>0, <2>2, <2>3 DEF Stream, RoundsHonest, ReportDelivered, Working, hostVars
  <1>5. ASSUME NEW d \in 1 .. ProbeMax, ShrinkFails(d) PROVE Stream'
    <2> DEFINE e == Event("shrink", 0, size, 0)
    <2>1. /\ <<e>> \in Seq(Events) /\ Elems(<<e>>) = {e}
          /\ e.event = "shrink" /\ e.rounds = 0
      <3>1. e \in Events /\ e.event = "shrink" /\ e.rounds = 0
        BY <1>0, EventType
      <3> HIDE DEF e
      <3> QED
        BY <3>1, Single
    <2>2. Write(<<e>>, d) /\ d \in Nat
      BY <1>5 DEF ShrinkFails
    <2> HIDE DEF e
    <2>3. \A x \in Elems(pipe') : x \in Elems(pipe) \/ x = e
      BY <2>1, <2>2, StreamAppend
    <2>4. driver = "shrinking" /\ driver' = "reporting" /\ best' = size /\ size # 0
          /\ UNCHANGED <<round, found, hostVars>>
      BY <1>5 DEF ShrinkFails
    <2> QED
      BY <1>0, <2>1, <2>3, <2>4 DEF Stream, RoundsHonest, ReportDelivered, Working, hostVars
  <1>6. ASSUME ShrinkOver PROVE Stream'
    <2>1. driver = "shrinking" /\ driver' = "reporting" /\ best' = found
          /\ UNCHANGED <<round, found, pipe, hostVars>>
      BY <1>6 DEF ShrinkOver
    <2> QED
      BY <1>0, <2>1 DEF Stream, RoundsHonest, ReportDelivered, Working, hostVars
  <1>7. ASSUME Report PROVE Stream'
    <2> DEFINE e == Event("done", round + 1, best, steps)
    <2>1. /\ <<e>> \in Seq(Events) /\ Elems(<<e>>) = {e} /\ <<e>> # <<>>
          /\ <<e>>[Len(<<e>>)] = e
          /\ e.event = "done" /\ e.rounds = round + 1 /\ e.size = best
      <3>1. e \in Events /\ e.event = "done" /\ e.rounds = round + 1 /\ e.size = best
        <4>1. round + 1 \in Nat
          BY <1>0
        <4> QED
          BY <1>0, <4>1 DEF Event, Events
      <3> HIDE DEF e
      <3> QED
        BY <3>1, Single
    <2>2. Write(<<e>>, 0)
      BY <1>7 DEF Report
    <2> HIDE DEF e
    <2>3. /\ \A x \in Elems(pipe') : x \in Elems(pipe) \/ x = e
          /\ pipe' # <<>> /\ pipe'[Len(pipe')] = e
      <3> DEFINE b == <<e>>
      <3>1. b \in Seq(Events) /\ Elems(b) = {e} /\ b # <<>> /\ b[Len(b)] = e /\ Write(b, 0)
        BY <2>1, <2>2
      <3> HIDE DEF b
      <3> QED
        BY <3>1, StreamAppend
    <2>4. driver = "reporting" /\ driver' = "exited"
          /\ UNCHANGED <<round, best, found, hostVars>>
      BY <1>7 DEF Report
    <2> QED
      BY <1>0, <2>1, <2>3, <2>4 DEF Stream, RoundsHonest, ReportDelivered, Working, hostVars
  <1>8. ASSUME Killed \/ Stalled \/ Wait PROVE Stream'
    <2>1. UNCHANGED <<round, best, found, pipe, hostVars>>
          /\ driver' \in {"killed", "stalled"}
      BY <1>8 DEF Killed, Stalled, Wait, driverVars
    <2>2. \A e \in Elems(pipe) : e.event = "done" => driver = "exited"
      BY DEF Stream
    <2>3. driver # "exited"
      BY <1>8 DEF Killed, Stalled, Wait, Working
    <2> QED
      BY <1>0, <2>1, <2>2, <2>3 DEF Stream, RoundsHonest, ReportDelivered, Working, hostVars
  <1>9. ASSUME OnProgress \/ OnMismatch \/ OnShrink \/ OnDone \/ LineTooLong PROVE Stream'
    <2>1. host = "reading" /\ pipe # <<>> /\ pipe' = Tail(pipe)
          /\ UNCHANGED <<driver, round, best, found>>
      BY <1>9 DEF OnProgress, OnMismatch, OnShrink, OnDone, LineTooLong, Reading, driverVars
    <2>2. /\ Head(pipe) \in Elems(pipe) /\ \A e \in Elems(pipe') : e \in Elems(pipe)
          /\ pipe[Len(pipe)] # Head(pipe) =>
               pipe' # <<>> /\ pipe'[Len(pipe')] = pipe[Len(pipe)]
      BY <1>0, <2>1, Taken
    <2>3. CASE OnProgress \/ OnMismatch \/ OnShrink
      <3>1. Head(pipe).event # "done" /\ UNCHANGED result /\ host' \in {"reading", "raised"}
            /\ rounds_run' \in {rounds_run, Head(pipe).rounds}
        BY <2>3 DEF OnProgress, OnMismatch, OnShrink, Reading, Noted
      <3> QED
        BY <1>0, <2>1, <2>2, <3>1 DEF Stream, RoundsHonest, ReportDelivered, Working
    <2>4. CASE OnDone
      <3>1. /\ Head(pipe).event = "done" /\ host' \in {"returned", "raised"}
            /\ host' = "returned" => result' = Head(pipe).size
            /\ rounds_run' = Head(pipe).rounds
        BY <2>4 DEF OnDone, Reading, Noted
      <3> QED
        BY <1>0, <2>1, <2>2, <3>1 DEF Stream, RoundsHonest, ReportDelivered, Working
    <2>5. CASE LineTooLong
      <3>1. Head(pipe).event = "done" /\ host' = "raised" /\ UNCHANGED <<rounds_run, result>>
        BY <2>5 DEF LineTooLong, Reading
      <3> QED
        BY <1>0, <2>1, <2>2, <3>1 DEF Stream, RoundsHonest, ReportDelivered, Working
    <2> QED
      BY <1>9, <2>3, <2>4, <2>5
  <1>10. ASSUME EndOfStream \/ DriverTimeout PROVE Stream'
    <2>1. /\ host = "reading" /\ host' \in {"returned", "raised"} /\ pipe = <<>>
          /\ UNCHANGED <<driver, round, best, found, pipe, rounds_run, result>>
      BY <1>10 DEF EndOfStream, DriverTimeout, Noted, driverVars
    <2>2. driver # "exited"
      BY <2>1 DEF Stream
    <2>3. driver \notin Working
      <3>1. CASE EndOfStream
        BY <3>1 DEF EndOfStream, Working
      <3>2. CASE DriverTimeout
        <4>1. ~ (silence <= StreamTimeout)
          BY <3>2, DriverAssumption DEF DriverTimeout, TimedOut, TypeOK
        <4> QED
          BY <4>1 DEF Timing
      <3> QED
        BY <1>10, <3>1, <3>2
    <2> QED
      BY <1>0, <2>1, <2>2, <2>3 DEF Stream, RoundsHonest, ReportDelivered, Working
  <1>11. ASSUME UNCHANGED vars PROVE Stream'
    BY <1>11 DEF vars, driverVars, hostVars, Stream, RoundsHonest, ReportDelivered
  <1> QED
    BY <1>1, <1>2, <1>3, <1>4, <1>5, <1>6, <1>7, <1>8, <1>9, <1>10, <1>11
    DEF Next, Drive, Consume

LEMMA StreamHolds == Spec => [](TypeOK /\ Timing /\ Stream)
  BY TypeInit, TypeStep, TimingInit, TimingStep, StreamInit, StreamStep, PTL DEF Spec

\* exec_stream gives up on no driver that still works.
THEOREM WorkingDriverIsHeard == Spec => []TimeoutOnlyWhenStalled
  <1>1. Stream => TimeoutOnlyWhenStalled
    BY DEF Stream, TimeoutOnlyWhenStalled
  <1> QED
    BY <1>1, StreamHolds, PTL

\* The rounds stress tells of were run, what the driver reports is what stress
\* returns, and a mismatch lost without an error was lost with its driver.
THEOREM OutcomeIsTold == Spec => []ToldTheOutcome
  <1>1. TypeOK /\ Stream => ToldTheOutcome
    <2> SUFFICES ASSUME TypeOK, Stream, host = "returned", found # 0, result = 0
                 PROVE  driver \in {"killed", "stalled"}
      BY DEF Stream, ToldTheOutcome, LostOnlyWithDriver
    <2>1. driver \in {"exited", "killed", "stalled"}
      BY DEF Stream, TypeOK
    <2> QED
      BY <2>1 DEF Stream, ReportDelivered
  <1> QED
    BY <1>1, StreamHolds, PTL

-----------------------------------------------------------------------------
(* Shrinking. *)

\* Before the mismatch nothing failed; while shrinking only the mismatch did,
\* and every candidate below the one at hand is cleared.
Findings ==
    /\ driver = "loop" => best = 0 /\ failed = {}
    /\ driver = "shrinking" =>
         /\ best = 0 /\ found # 0 /\ failed = {found}
         /\ size \in {0} \cup shrink_candidates(found)
         /\ \A c \in shrink_candidates(found) : size = 0 \/ c < size => c \in cleared
    /\ driver = "reporting" => best # 0
    /\ ReportsSmallestFailure
    /\ SmallerSizesCleared

LEMMA FindingsInit == Init => Findings
  BY DEF Init, Findings, ReportsSmallestFailure, SmallerSizesCleared

LEMMA FindingsStep == TypeOK /\ Findings /\ [Next]_vars => Findings'
  <1> SUFFICES ASSUME TypeOK, Findings, [Next]_vars PROVE Findings'
    OBVIOUS
  <1> USE DEF Findings, ReportsSmallestFailure, SmallerSizesCleared
  <1>0. size \in Nat /\ found \in Nat /\ now \in Nat /\ until \in Nat
    BY DEF TypeOK
  <1>1. ASSUME NEW d \in 1 .. ProbeMax, NEW s \in SizeMin .. Greatest(SizeMin, SizeMax),
               RoundPasses(d, s)
        PROVE  Findings'
    BY <1>1 DEF RoundPasses
  <1>2. ASSUME NEW d \in 1 .. ProbeMax, NEW s \in SizeMin .. Greatest(SizeMin, SizeMax),
               RoundFails(d, s)
        PROVE  Findings'
    <2>1. s \in Nat \ {0}
      BY Arithmetic
    <2>2. /\ driver = "loop" /\ driver' = "shrinking" /\ found' = s
          /\ size' = NextCandidate(s, 0) /\ failed' = failed \cup {s} /\ UNCHANGED best
      BY <1>2 DEF RoundFails
    <2>3. \A c \in shrink_candidates(s) : c \in Nat /\ 0 < c
      BY <2>1, CandidateFact
    <2>4. /\ size' \in {0} \cup shrink_candidates(s)
          /\ size' = 0 => \A c \in shrink_candidates(s) : c <= 0
          /\ size' # 0 => \A c \in shrink_candidates(s) : c < size' => c <= 0
      BY <2>1, <2>2, NextCandidateFact
    <2>5. \A c \in shrink_candidates(s) : ~ (size' = 0 \/ c < size')
      BY <2>3, <2>4
    <2> QED
      BY <2>1, <2>2, <2>4, <2>5
  <1>3. ASSUME RoundsOver PROVE Findings'
    BY <1>3 DEF RoundsOver, history
  <1>4. ASSUME NEW d \in 1 .. ProbeMax, ShrinkPasses(d) PROVE Findings'
    <2>1. /\ driver = "shrinking" /\ size # 0
          /\ UNCHANGED <<driver, found, best, failed>>
      BY <1>4 DEF ShrinkPasses
    <2>2. CASE k + 1 = SeedsPerSize
      <3>1. size' = NextCandidate(found, size) /\ cleared' = cleared \cup {size}
        BY <1>4, <2>2 DEF ShrinkPasses
      <3>2. /\ size' \in {0} \cup shrink_candidates(found)
            /\ size' = 0 => \A c \in shrink_candidates(found) : c <= size
            /\ size' # 0 => \A c \in shrink_candidates(found) : c < size' => c <= size
        BY <1>0, <3>1, NextCandidateFact
      <3>3. \A c \in shrink_candidates(found) : c <= size => c \in cleared'
        <4>1. \A c \in shrink_candidates(found) : c \in Nat
          BY <1>0, CandidateFact
        <4> QED
          BY <1>0, <2>1, <3>1, <4>1
      <3> QED
        BY <2>1, <3>2, <3>3
    <2>3. CASE k + 1 # SeedsPerSize
      BY <1>4, <2>1, <2>3 DEF ShrinkPasses
    <2> QED
      BY <2>2, <2>3
  <1>5. ASSUME NEW d \in 1 .. ProbeMax, ShrinkFails(d) PROVE Findings'
    <2>1. /\ driver = "shrinking" /\ driver' = "reporting" /\ size # 0 /\ best' = size
          /\ failed' = failed \cup {size} /\ UNCHANGED <<found, cleared>>
      BY <1>5 DEF ShrinkFails
    <2>2. size < found
      BY <1>0, <2>1, CandidateFact
    <2> QED
      BY <1>0, <2>1, <2>2
  <1>6. ASSUME ShrinkOver PROVE Findings'
    <2>1. /\ driver = "shrinking" /\ driver' = "reporting" /\ best' = found
          /\ size = 0 \/ now > until
          /\ UNCHANGED <<found, failed, cleared, now, until>>
      BY <1>6 DEF ShrinkOver, history
    <2> QED
      BY <1>0, <2>1
  <1>7. ASSUME Report PROVE Findings'
    BY <1>7 DEF Report, history
  <1>8. ASSUME Killed \/ Stalled \/ Wait PROVE Findings'
    BY <1>8 DEF Killed, Stalled, Wait, history, driverVars
  <1>9. ASSUME Consume PROVE Findings'
    BY <1>9 DEF Consume, OnProgress, OnMismatch, OnShrink, OnDone, LineTooLong,
                EndOfStream, DriverTimeout, driverVars, history
  <1>10. ASSUME UNCHANGED vars PROVE Findings'
    BY <1>10 DEF vars, driverVars, history
  <1> QED
    BY <1>1, <1>2, <1>3, <1>4, <1>5, <1>6, <1>7, <1>8, <1>9, <1>10 DEF Next, Drive

LEMMA FindingsHold == Spec => []Findings
  BY TypeInit, TypeStep, FindingsInit, FindingsStep, PTL DEF Spec

\* The report was seen to fail and nothing smaller was.
THEOREM ReportIsSmallest == Spec => []ReportsSmallestFailure
  <1>1. Findings => ReportsSmallestFailure
    BY DEF Findings
  <1> QED
    BY <1>1, FindingsHold, PTL

\* Nothing smaller was left out, unless the time was up.
THEOREM ReportIsSearchedFor == Spec => []SmallerSizesCleared
  <1>1. Findings => SmallerSizesCleared
    BY DEF Findings
  <1> QED
    BY <1>1, FindingsHold, PTL

-----------------------------------------------------------------------------
(* The sweep. *)

\* The sizes of the sweep's rounds so far were probed.
Sweep ==
    \A j \in 0 .. round - 1 : j < sweep_rounds =>
        IF SizeMax <= SizeMin THEN SizeMin \in tried ELSE swept(j) \in tried

LEMMA SweepInit == Init => Sweep
  BY DEF Init, Sweep

\* A finished round adds its own size.
LEMMA SweepGrows ==
    ASSUME Sweep, round \in Nat, sweep_rounds \in Nat, NEW s \in pick_size(round),
           tried' = tried \cup {s}, round' \in {round, round + 1}
    PROVE  Sweep'
  <1> SUFFICES ASSUME NEW j \in 0 .. round' - 1, j < sweep_rounds
               PROVE  IF SizeMax <= SizeMin THEN SizeMin \in tried' ELSE swept(j) \in tried'
    BY DEF Sweep, sweep_rounds, Greatest, swept
  <1>1. CASE j \in 0 .. round - 1
    BY <1>1 DEF Sweep
  <1>2. CASE j = round
    BY <1>2 DEF pick_size
  <1>3. j \in 0 .. round - 1 \/ j = round
    <2>1. CASE round' = round
      BY <2>1
    <2>2. CASE round' = round + 1
      BY <2>2
    <2> QED
      BY <2>1, <2>2
  <1> QED
    BY <1>1, <1>2, <1>3

LEMMA SweepStep == TypeOK /\ Sweep /\ [Next]_vars => Sweep'
  <1> SUFFICES ASSUME TypeOK, Sweep, [Next]_vars PROVE Sweep'
    OBVIOUS
  <1>0. round \in Nat /\ sweep_rounds \in Nat
    BY DriverAssumption, Arithmetic DEF TypeOK
  <1>1. ASSUME NEW d, NEW s, RoundPasses(d, s) PROVE Sweep'
    BY <1>0, <1>1, SweepGrows DEF RoundPasses
  <1>2. ASSUME NEW d, NEW s, RoundFails(d, s) PROVE Sweep'
    BY <1>0, <1>2, SweepGrows DEF RoundFails
  <1>3. ASSUME UNCHANGED <<round, tried>> PROVE Sweep'
    BY <1>3 DEF Sweep
  <1>4. ASSUME RoundsOver \/ ShrinkOver \/ Report PROVE UNCHANGED <<round, tried>>
    BY <1>4 DEF RoundsOver, ShrinkOver, Report, history
  <1>5. ASSUME NEW d, ShrinkPasses(d) \/ ShrinkFails(d) PROVE UNCHANGED <<round, tried>>
    BY <1>5 DEF ShrinkPasses, ShrinkFails
  <1>6. ASSUME Killed \/ Stalled \/ Wait PROVE UNCHANGED <<round, tried>>
    BY <1>6 DEF Killed, Stalled, Wait, history, driverVars
  <1>7. ASSUME Consume PROVE UNCHANGED <<round, tried>>
    BY <1>7 DEF Consume, OnProgress, OnMismatch, OnShrink, OnDone, LineTooLong,
                EndOfStream, DriverTimeout, driverVars, history
  <1>8. ASSUME UNCHANGED vars PROVE UNCHANGED <<round, tried>>
    BY <1>8 DEF vars, driverVars, history
  <1> QED
    BY <1>1, <1>2, <1>3, <1>4, <1>5, <1>6, <1>7, <1>8 DEF Next, Drive

\* The sweep misses none of the smallest sizes.
THEOREM SweepIsDense == Spec => []SmallSizesSwept
  <1>1. TypeOK /\ Sweep => SmallSizesSwept
    <2> SUFFICES ASSUME TypeOK, Sweep, round >= sweep_rounds,
                        NEW s \in SizeMin .. SizeMin
                                   + Least(SizeMax - SizeMin + 1, sweep_rounds) - 1
                 PROVE  s \in tried
      BY DEF SmallSizesSwept
    <2> DEFINE j == s - SizeMin
               n == Least(SizeMax - SizeMin + 1, sweep_rounds)
    <2>1. round \in Nat /\ sweep_rounds \in Nat
      BY DriverAssumption, Arithmetic DEF TypeOK
    <2>2. n \in Int /\ n <= sweep_rounds /\ n <= SizeMax - SizeMin + 1
      BY <2>1, DriverAssumption DEF Least
    <2>3. j \in Nat /\ j < n /\ s = SizeMin + j
      BY <2>2, DriverAssumption
    <2>4. j \in 0 .. round - 1 /\ j < sweep_rounds
      BY <2>1, <2>2, <2>3
    <2>5. CASE SizeMax <= SizeMin
      <3>1. s = SizeMin
        BY <2>2, <2>3, <2>5, DriverAssumption
      <3> QED
        BY <2>4, <2>5, <3>1 DEF Sweep
    <2>6. CASE ~ (SizeMax <= SizeMin)
      <3>1. j % n = j
        BY <2>2, <2>3
      <3>2. swept(j) = s
        BY <2>3, <3>1 DEF swept
      <3> QED
        BY <2>4, <2>6, <3>2 DEF Sweep
    <2> QED
      BY <2>5, <2>6
  <1> QED
    BY <1>1, TypeInit, TypeStep, SweepInit, SweepStep, PTL DEF Spec
=============================================================================
