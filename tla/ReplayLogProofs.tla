-------------------------- MODULE ReplayLogProofs --------------------------
(***************************************************************************)
(* Machine-checked proofs about module ReplayLog, for every number of      *)
(* runs, steps and streams.                                                *)
(***************************************************************************)
EXTENDS ReplayLog, TLAPS, SequenceTheorems

-----------------------------------------------------------------------------
(* The log's numbers. *)

\* The log has no gap and is committed in the order of its numbers, however
\* many runs write it: a reader who has seen n has nothing below n to expect.
LogInOrder == \A i \in 1 .. Len(log) : log[i] = i

\* A log without gaps holds the numbers up to its length, so the next one is
\* one past its length.
LEMMA NumbersOfLog ==
    ASSUME log \in Seq(Nat), LogInOrder
    PROVE  Seqs = 1 .. Len(log) /\ NextSeq = Len(log) + 1 /\ Len(log) \in Nat
  <1>1. Len(log) \in Nat
    OBVIOUS
  <1>2. Seqs = 1 .. Len(log)
    BY DEF Seqs, LogInOrder
  <1>3. MaxOf(Seqs) = Len(log)
    <2>1. CASE Len(log) = 0
      <3>1. Seqs = {}
        BY <1>2, <2>1
      <3> QED
        BY <2>1, <3>1 DEF MaxOf
    <2>2. CASE Len(log) > 0
      <3> DEFINE Top(m) == m \in Seqs /\ \A n \in Seqs : n <= m
      <3>1. Len(log) \in Seqs /\ \A n \in Seqs : n <= Len(log)
        BY <1>1, <1>2, <2>2
      <3>2. \A m \in Seqs : (\A n \in Seqs : n <= m) => m = Len(log)
        BY <1>1, <1>2, <3>1
      <3>3. MaxOf(Seqs) = CHOOSE m \in Seqs : \A n \in Seqs : n <= m
        BY <3>1 DEF MaxOf
      <3> QED
        BY <3>1, <3>2, <3>3
    <2> QED
      BY <1>1, <2>1, <2>2
  <1> QED
    BY <1>1, <1>2, <1>3 DEF NextSeq

\* A step logged under the next number leaves no gap.
LEMMA LogGrows ==
    ASSUME log \in Seq(Nat), LogInOrder, NEW n \in 1 .. Len(log) + 1, n \notin Seqs,
           log' = Append(log, n)
    PROVE  n = Len(log) + 1 /\ log' \in Seq(Nat) /\ Len(log') = Len(log) + 1 /\ LogInOrder'
  <1>1. n = Len(log) + 1
    BY NumbersOfLog
  <1>2. /\ log' \in Seq(Nat) /\ Len(log') = Len(log) + 1
        /\ \A i \in 1 .. Len(log) : log'[i] = log[i]
        /\ log'[Len(log) + 1] = n
    BY AppendProperties
  <1>3. \A i \in 1 .. Len(log') : log'[i] = i
    <2> SUFFICES ASSUME NEW i \in 1 .. Len(log) + 1 PROVE log'[i] = i
      BY <1>2
    <2>1. CASE i = Len(log) + 1
      BY <1>1, <1>2, <2>1
    <2>2. CASE i \in 1 .. Len(log)
      BY <1>2, <2>2 DEF LogInOrder
    <2> QED
      BY <2>1, <2>2, NumbersOfLog
  <1> QED
    BY <1>1, <1>2, <1>3 DEF LogInOrder

-----------------------------------------------------------------------------
(* The runs. *)

\* A number under way is free or taken, and is the log's next one as long as no
\* two runs were alive at once.
LogInv ==
    /\ LogInOrder
    /\ RefusedOnlyByOverlap
    /\ \A r \in Runs : pc[r] = "inserting" => seq[r] # 0
    /\ ~ overlapped =>
         /\ \A q, r \in Runs : pc[q] \in Alive /\ pc[r] \in Alive => q = r
         /\ \A r \in Runs : pc[r] = "inserting" => seq[r] = Len(log) + 1

LEMMA LogInit == Init => TypeOK /\ LogInv
  <1> SUFFICES ASSUME Init PROVE TypeOK /\ LogInv
    OBVIOUS
  <1>1. log = <<>> /\ log \in Seq(Nat) /\ Len(log) = 0
    BY DEF Init
  <1>2. TypeOK
    <2>1. /\ seq \in [Runs -> 0 .. Len(log) + 1] /\ written \in [Runs -> 0 .. MaxSteps]
          /\ pc \in [Runs -> Phases]
      BY <1>1, LogAssumption DEF Init, Phases
    <2>2. /\ todo \in [Streams -> SUBSET Nat] /\ last_seq \in [Streams -> Nat]
          /\ got \in [Streams -> Seq(Nat)]
      BY DEF Init
    <2> QED
      BY <1>1, <2>1, <2>2 DEF Init, TypeOK, Queued
  <1>3. LogInv
    BY <1>1 DEF Init, LogInv, LogInOrder, RefusedOnlyByOverlap, Alive
  <1> QED
    BY <1>2, <1>3

LEMMA LogInvStep == TypeOK /\ LogInv /\ [Next]_vars => LogInv'
  <1> SUFFICES ASSUME TypeOK, LogInv, [Next]_vars PROVE LogInv'
    OBVIOUS
  <1>0. log \in Seq(Nat) /\ Len(log) \in Nat /\ LogInOrder /\ pc \in [Runs -> Phases]
        /\ seq \in [Runs -> 0 .. Len(log) + 1] /\ overlapped \in BOOLEAN /\ refused \in BOOLEAN
    BY DEF TypeOK, LogInv
  <1>1. ASSUME NEW r \in Runs, StartRun(r) PROVE LogInv'
    <2>1. /\ UNCHANGED <<log, seq, refused>> /\ pc[r] = "new"
          /\ pc' = [pc EXCEPT ![r] = "running"]
      BY <1>1 DEF StartRun
    <2>2. CASE \E q \in Runs : pc[q] \in Alive
      <3>1. overlapped'
        BY <1>1, <2>2 DEF StartRun
      <3> QED
        BY <1>0, <2>1, <3>1 DEF LogInv, LogInOrder, RefusedOnlyByOverlap, Alive
    <2>3. CASE ~ \E q \in Runs : pc[q] \in Alive
      <3>1. overlapped' = overlapped
        BY <1>0, <1>1, <2>3 DEF StartRun
      <3> QED
        BY <1>0, <2>1, <2>3, <3>1 DEF LogInv, LogInOrder, RefusedOnlyByOverlap, Alive
    <2> QED
      BY <2>2, <2>3
  <1>2. ASSUME NEW r \in Runs, SetState(r) PROVE LogInv'
    BY <1>2 DEF SetState, LogInv, LogInOrder, RefusedOnlyByOverlap
  <1>3. ASSUME NEW r \in Runs, LogStep(r) PROVE LogInv'
    <2>1. /\ UNCHANGED <<log, refused, overlapped>> /\ pc[r] = "running"
          /\ pc' = [pc EXCEPT ![r] = "inserting"] /\ seq' = [seq EXCEPT ![r] = NextSeq]
      BY <1>3 DEF LogStep
    <2>2. NextSeq = Len(log) + 1
      BY <1>0, NumbersOfLog
    <2> QED
      BY <1>0, <2>1, <2>2 DEF LogInv, LogInOrder, RefusedOnlyByOverlap, Alive
  <1>4. ASSUME NEW r \in Runs, Commit(r) PROVE LogInv'
    <2>1. /\ pc[r] = "inserting" /\ seq[r] \notin Seqs /\ log' = Append(log, seq[r])
          /\ seq' = [seq EXCEPT ![r] = 0] /\ pc' = [pc EXCEPT ![r] = "running"]
          /\ UNCHANGED <<overlapped, refused>>
      BY <1>4 DEF Commit
    <2>2. seq[r] \in 1 .. Len(log) + 1
      BY <1>0, <2>1 DEF LogInv
    <2>3. LogInOrder'
      BY <1>0, <2>1, <2>2, LogGrows
    <2>4. \A q \in Runs : pc'[q] = "inserting" => q # r /\ pc[q] = "inserting"
      BY <1>0, <2>1
    <2>5. ~ overlapped => \A q \in Runs : pc'[q] # "inserting"
      BY <2>1, <2>4 DEF LogInv, Alive
    <2> QED
      BY <1>0, <2>1, <2>3, <2>4, <2>5 DEF LogInv, RefusedOnlyByOverlap, Alive
  <1>5. ASSUME NEW r \in Runs, Refuse(r) PROVE LogInv'
    <2>1. /\ pc[r] = "inserting" /\ seq[r] \in Seqs /\ refused'
          /\ seq' = [seq EXCEPT ![r] = 0] /\ pc' = [pc EXCEPT ![r] = "raised"]
          /\ UNCHANGED <<log, overlapped>>
      BY <1>5 DEF Refuse
    <2>2. seq[r] # Len(log) + 1
      BY <1>0, <2>1, NumbersOfLog
    <2>3. overlapped
      BY <2>1, <2>2 DEF LogInv
    <2> QED
      BY <1>0, <2>1, <2>3 DEF LogInv, LogInOrder, RefusedOnlyByOverlap, Alive
  <1>6. ASSUME NEW r \in Runs, Raise(r) \/ Crash(r) PROVE LogInv'
    <2>1. /\ pc[r] \in Alive /\ UNCHANGED <<log, overlapped, refused>>
          /\ seq' = [seq EXCEPT ![r] = 0]
          /\ \/ pc' = [pc EXCEPT ![r] = "raised"]
             \/ pc' = [pc EXCEPT ![r] = "over"]
      BY <1>6 DEF Raise, Crash, Alive
    <2> QED
      BY <1>0, <2>1 DEF LogInv, LogInOrder, RefusedOnlyByOverlap, Alive
  <1>7. ASSUME NEW r \in Runs, Finish(r) PROVE LogInv'
    BY <1>0, <1>7 DEF Finish, LogInv, LogInOrder, RefusedOnlyByOverlap, Alive
  <1>8. ASSUME UNCHANGED <<log, pc, seq, overlapped, refused>> PROVE LogInv'
    BY <1>8 DEF LogInv, LogInOrder, RefusedOnlyByOverlap
  <1>9. ASSUME GiveUp \/ Resubmit \/ UNCHANGED vars
               \/ \E c \in Streams : Serve(c) \/ Open(c) \/ Drop(c)
        PROVE  UNCHANGED <<log, pc, seq, overlapped, refused>>
    BY <1>9 DEF GiveUp, Resubmit, Serve, Read, Send, Check, Open, Drop, runVars, vars
  <1> QED
    BY <1>1, <1>2, <1>3, <1>4, <1>5, <1>6, <1>7, <1>8, <1>9 DEF Next, Advance

\* Every step keeps every variable in its type.
LEMMA TypeStep == TypeOK /\ LogInv /\ [Next]_vars => TypeOK'
  <1> SUFFICES ASSUME TypeOK, LogInv, [Next]_vars PROVE TypeOK'
    OBVIOUS
  <1>0. log \in Seq(Nat) /\ Len(log) \in Nat /\ LogInOrder
        /\ pc \in [Runs -> Phases] /\ seq \in [Runs -> 0 .. Len(log) + 1]
    BY DEF TypeOK, LogInv
  <1> USE LogAssumption DEF Phases, Queued, TERMINAL
  <1>1. ASSUME NEW r \in Runs, StartRun(r) \/ SetState(r) \/ Refuse(r) \/ Raise(r)
                                \/ Finish(r) \/ Crash(r)
        PROVE  TypeOK'
    <2>1. UNCHANGED <<log, written, conn, todo, last_seq, got>>
      BY <1>1 DEF StartRun, SetState, Refuse, Raise, Finish, Crash, streamVars
    <2>2. row' \in Queued \cup TERMINAL
      BY <1>1 DEF StartRun, SetState, Refuse, Raise, Finish, Crash, TypeOK
    <2>3. pc' \in [Runs -> Phases] /\ seq' \in [Runs -> 0 .. Len(log) + 1]
      BY <1>0, <1>1 DEF StartRun, SetState, Refuse, Raise, Finish, Crash
    <2>4. overlapped' \in BOOLEAN /\ refused' \in BOOLEAN
      BY <1>1 DEF StartRun, SetState, Refuse, Raise, Finish, Crash, TypeOK
    <2> QED
      BY <2>1, <2>2, <2>3, <2>4 DEF TypeOK
  <1>2. ASSUME NEW r \in Runs, LogStep(r) PROVE TypeOK'
    <2>1. NextSeq \in 0 .. Len(log) + 1
      BY <1>0, NumbersOfLog
    <2>2. pc' \in [Runs -> Phases] /\ seq' \in [Runs -> 0 .. Len(log) + 1]
      BY <1>0, <1>2, <2>1 DEF LogStep
    <2>3. written' \in [Runs -> 0 .. MaxSteps]
      BY <1>2 DEF LogStep, TypeOK
    <2> QED
      BY <1>2, <2>2, <2>3 DEF LogStep, TypeOK, streamVars
  <1>3. ASSUME NEW r \in Runs, Commit(r) PROVE TypeOK'
    <2>1. /\ pc[r] = "inserting" /\ seq[r] \notin Seqs /\ log' = Append(log, seq[r])
          /\ seq' = [seq EXCEPT ![r] = 0] /\ pc' = [pc EXCEPT ![r] = "running"]
          /\ UNCHANGED <<row, written, overlapped, refused, streamVars>>
      BY <1>3 DEF Commit
    <2>2. seq[r] \in 1 .. Len(log) + 1
      BY <1>0, <2>1 DEF LogInv
    <2>3. log' \in Seq(Nat) /\ Len(log') = Len(log) + 1
      BY <1>0, <2>1, <2>2, LogGrows
    <2>4. pc' \in [Runs -> Phases] /\ seq' \in [Runs -> 0 .. Len(log') + 1]
      BY <1>0, <2>1, <2>3
    <2> QED
      BY <2>1, <2>3, <2>4 DEF TypeOK, streamVars
  <1>4. ASSUME GiveUp \/ Resubmit PROVE TypeOK'
    BY <1>4 DEF GiveUp, Resubmit, TypeOK, streamVars
  <1>5. ASSUME NEW c \in Streams, Open(c) PROVE TypeOK'
    BY <1>5 DEF Open, TypeOK, runVars
  <1>6. ASSUME NEW c \in Streams, Read(c) PROVE TypeOK'
    <2>1. Unseen(c) \in SUBSET Nat
      BY <1>0, NumbersOfLog DEF Unseen
    <2> QED
      BY <1>6, <2>1 DEF Read, TypeOK, runVars
  <1>7. ASSUME NEW c \in Streams, Send(c) PROVE TypeOK'
    <2>1. PICK n \in todo[c] : /\ last_seq' = [last_seq EXCEPT ![c] = n]
                               /\ got' = [got EXCEPT ![c] = Append(@, n)]
                               /\ todo' = [todo EXCEPT ![c] = @ \ {n}]
      BY <1>7 DEF Send
    <2>2. n \in Nat
      BY <2>1 DEF TypeOK
    <2>3. Append(got[c], n) \in Seq(Nat)
      BY <2>2 DEF TypeOK
    <2>4. /\ last_seq' \in [Streams -> Nat] /\ todo' \in [Streams -> SUBSET Nat]
          /\ got' \in [Streams -> Seq(Nat)]
      BY <2>1, <2>2, <2>3 DEF TypeOK
    <2> QED
      BY <1>7, <2>4 DEF Send, TypeOK, runVars
  <1>8. ASSUME NEW c \in Streams, Check(c) \/ Drop(c) PROVE TypeOK'
    BY <1>8 DEF Check, Drop, TypeOK, runVars
  <1>9. ASSUME UNCHANGED vars PROVE TypeOK'
    BY <1>9 DEF vars, runVars, streamVars, TypeOK
  <1> QED
    BY <1>1, <1>2, <1>3, <1>4, <1>5, <1>6, <1>7, <1>8, <1>9 DEF Next, Advance, Serve

LEMMA LogHolds == Spec => [](TypeOK /\ LogInv)
  BY LogInit, TypeStep, LogInvStep, PTL DEF Spec

\* TypeOK holds in every behaviour.
THEOREM TypeCorrect == Spec => []TypeOK
  BY LogHolds, PTL

\* The log is committed without gaps, in the order of its numbers.
THEOREM LogHasNoGap == Spec => []LogInOrder
  <1>1. LogInv => LogInOrder
    BY DEF LogInv
  <1> QED
    BY <1>1, LogHolds, PTL

\* Only a second run of the submission makes log_step fail on its number.
THEOREM OnlyOverlapRefuses == Spec => []RefusedOnlyByOverlap
  <1>1. LogInv => RefusedOnlyByOverlap
    BY DEF LogInv
  <1> QED
    BY <1>1, LogHolds, PTL

-----------------------------------------------------------------------------
(* The streams. *)

\* A connection has received the steps up to its cursor, each once, in order:
\* tailing by number skips no step that is committed late.
StreamExact ==
    \A c \in Streams :
        /\ Len(got[c]) = last_seq[c]
        /\ \A i \in 1 .. Len(got[c]) : got[c][i] = i

\* What a stream has yet to send follows its cursor without a gap.
StreamInv ==
    /\ StreamExact
    /\ \A c \in Streams :
         /\ \E h \in 0 .. Len(log) : todo[c] = last_seq[c] + 1 .. h
         /\ conn[c] # "sending" => todo[c] = {}

LEMMA StreamInit == Init => StreamInv
  <1> SUFFICES ASSUME Init, NEW c \in Streams
               PROVE  /\ got[c] = <<>> /\ last_seq[c] = 0 /\ todo[c] = {}
                      /\ Len(log) = 0 /\ \E h \in 0 .. Len(log) : todo[c] = last_seq[c] + 1 .. h
    BY DEF StreamInv, StreamExact
  <1>1. got[c] = <<>> /\ last_seq[c] = 0 /\ todo[c] = {} /\ Len(log) = 0
    BY DEF Init
  <1>2. todo[c] = last_seq[c] + 1 .. 0
    BY <1>1
  <1> QED
    BY <1>1, <1>2

LEMMA StreamStep == TypeOK /\ LogInv /\ StreamInv /\ [Next]_vars => StreamInv'
  <1> SUFFICES ASSUME TypeOK, LogInv, StreamInv, [Next]_vars PROVE StreamInv'
    OBVIOUS
  <1>0. /\ log \in Seq(Nat) /\ Len(log) \in Nat /\ LogInOrder
        /\ conn \in [Streams -> {"idle", "reading", "sending", "done"}]
        /\ todo \in [Streams -> SUBSET Nat] /\ last_seq \in [Streams -> Nat]
        /\ got \in [Streams -> Seq(Nat)]
    BY DEF TypeOK, LogInv
  <1>1. ASSUME UNCHANGED streamVars, Len(log) <= Len(log'), Len(log') \in Nat PROVE StreamInv'
    BY <1>0, <1>1 DEF streamVars, StreamInv, StreamExact
  <1>2. ASSUME NEW r \in Runs, Commit(r) PROVE StreamInv'
    <2>1. log' = Append(log, seq[r]) /\ UNCHANGED streamVars
      BY <1>2 DEF Commit
    <2>2. seq[r] \in Nat
      BY <1>2 DEF TypeOK
    <2>3. Len(log') = Len(log) + 1
      BY <1>0, <2>1, <2>2
    <2> QED
      BY <1>0, <1>1, <2>1, <2>3
  <1>3. ASSUME UNCHANGED <<log, streamVars>> PROVE StreamInv'
    <2>1. UNCHANGED streamVars /\ Len(log') = Len(log)
      BY <1>3
    <2> QED
      BY <1>0, <1>1, <2>1
  <1>8. ASSUME GiveUp \/ Resubmit \/ UNCHANGED vars PROVE UNCHANGED <<log, streamVars>>
    BY <1>8 DEF GiveUp, Resubmit, vars, runVars
  <1>9. ASSUME NEW r \in Runs, StartRun(r) \/ SetState(r) \/ LogStep(r) \/ Refuse(r)
                                \/ Raise(r) \/ Finish(r) \/ Crash(r)
        PROVE  UNCHANGED <<log, streamVars>>
    BY <1>9 DEF StartRun, SetState, LogStep, Refuse, Raise, Finish, Crash
  <1>4. ASSUME NEW c \in Streams, Open(c) PROVE StreamInv'
    <2>1. /\ conn[c] = "idle" /\ conn' = [conn EXCEPT ![c] = "reading"]
          /\ last_seq' = [last_seq EXCEPT ![c] = 0] /\ got' = [got EXCEPT ![c] = <<>>]
          /\ UNCHANGED <<todo, log>>
      BY <1>4 DEF Open, runVars
    <2>2. todo[c] = {} /\ last_seq'[c] = 0 /\ got'[c] = <<>>
      BY <1>0, <2>1 DEF StreamInv
    <2>3. todo'[c] = last_seq'[c] + 1 .. 0 /\ 0 \in 0 .. Len(log)
      BY <1>0, <2>1, <2>2
    <2>4. \A x \in Streams : x # c => /\ conn'[x] = conn[x] /\ last_seq'[x] = last_seq[x]
                                     /\ got'[x] = got[x] /\ todo'[x] = todo[x]
      BY <1>0, <2>1
    <2>5. StreamExact'
      BY <2>2, <2>4 DEF StreamInv, StreamExact
    <2>6. todo'[c] = {} /\ UNCHANGED log
      BY <2>1, <2>2
    <2> QED
      BY <2>3, <2>4, <2>5, <2>6 DEF StreamInv
  <1>5. ASSUME NEW c \in Streams, Read(c) PROVE StreamInv'
    <2>1. /\ todo' = [todo EXCEPT ![c] = Unseen(c)] /\ conn' = [conn EXCEPT ![c] = "sending"]
          /\ UNCHANGED <<last_seq, got, log>>
      BY <1>5 DEF Read, runVars
    <2>2. Unseen(c) = last_seq[c] + 1 .. Len(log)
      BY <1>0, NumbersOfLog DEF Unseen
    <2> QED
      BY <1>0, <2>1, <2>2 DEF StreamInv, StreamExact
  <1>6. ASSUME NEW c \in Streams, Send(c) PROVE StreamInv'
    <2>1. PICK n \in todo[c] : /\ \A m \in todo[c] : n <= m
                               /\ last_seq' = [last_seq EXCEPT ![c] = n]
                               /\ got' = [got EXCEPT ![c] = Append(@, n)]
                               /\ todo' = [todo EXCEPT ![c] = @ \ {n}]
      BY <1>6 DEF Send
    <2>2. UNCHANGED <<conn, log>> /\ conn[c] = "sending"
      BY <1>6 DEF Send, runVars
    <2>3. PICK h \in 0 .. Len(log) : todo[c] = last_seq[c] + 1 .. h
      BY DEF StreamInv
    <2>4. n = last_seq[c] + 1 /\ todo'[c] = n + 1 .. h
      BY <1>0, <2>1, <2>3
    <2>5. /\ Len(got'[c]) = n /\ \A i \in 1 .. Len(got'[c]) : got'[c][i] = i
      <3>1. /\ Len(got[c]) = last_seq[c] /\ \A i \in 1 .. Len(got[c]) : got[c][i] = i
        BY DEF StreamInv, StreamExact
      <3>2. /\ got'[c] = Append(got[c], n) /\ got[c] \in Seq(Nat) /\ n \in Nat
        BY <1>0, <2>1, <2>4
      <3>3. /\ Len(got'[c]) = Len(got[c]) + 1 /\ got'[c][Len(got[c]) + 1] = n
            /\ \A i \in 1 .. Len(got[c]) : got'[c][i] = got[c][i]
        BY <3>2, AppendProperties
      <3>4. ASSUME NEW i \in 1 .. Len(got'[c]) PROVE got'[c][i] = i
        <4>1. n \in Nat /\ n = Len(got[c]) + 1 /\ Len(got'[c]) = n
          BY <1>0, <2>4, <3>1, <3>3
        <4>2. CASE i = n
          BY <3>3, <4>1, <4>2
        <4>3. CASE i # n
          <5>1. i \in 1 .. Len(got[c])
            BY <4>1, <4>3
          <5> QED
            BY <3>1, <3>3, <5>1
        <4> QED
          BY <4>2, <4>3
      <3> QED
        BY <1>0, <2>4, <3>1, <3>3, <3>4
    <2> QED
      BY <1>0, <2>1, <2>2, <2>3, <2>4, <2>5 DEF StreamInv, StreamExact
  <1>7. ASSUME NEW c \in Streams, Check(c) \/ Drop(c) PROVE StreamInv'
    <2>1. /\ UNCHANGED <<last_seq, got, log>>
          /\ \/ conn[c] = "sending" /\ todo[c] = {} /\ UNCHANGED todo
             \/ todo' = [todo EXCEPT ![c] = {}]
      BY <1>7 DEF Check, Drop, runVars
    <2>2. todo'[c] = {} /\ \A x \in Streams : x # c => todo'[x] = todo[x]
      BY <1>0, <2>1
    <2>3. \A x \in Streams : x # c => conn'[x] = conn[x]
      BY <1>0, <1>7 DEF Check, Drop
    <2>4. todo'[c] = last_seq'[c] + 1 .. 0
      BY <1>0, <2>1, <2>2
    <2>5. 0 \in 0 .. Len(log)
      BY <1>0
    <2> QED
      BY <2>1, <2>2, <2>3, <2>4, <2>5 DEF StreamInv, StreamExact
  <1> QED
    BY <1>2, <1>3, <1>4, <1>5, <1>6, <1>7, <1>8, <1>9 DEF Next, Advance, Serve

\* A stream sends every step up to its cursor once and in order.
THEOREM StreamsSkipNothing == Spec => []StreamExact
  <1>1. StreamInv => StreamExact
    BY DEF StreamInv
  <1> QED
    BY <1>1, LogHolds, StreamInit, StreamStep, PTL DEF Spec

-----------------------------------------------------------------------------
(* The log and its streams implement the abstract feed. *)

LEMMA FeedInit == Init => Feed!Init
  BY DEF Init, Feed!Init, Queued, TERMINAL

\* A step of a run, or of the row, is Publish, Resolve or a stutter.
LEMMA RunFeed ==
    ASSUME TypeOK, LogInv, UNCHANGED streamVars,
           \/ UNCHANGED log
           \/ UNCHANGED row /\ \E r \in Runs : seq[r] # 0 /\ seq[r] \notin Seqs /\ log' = Append(log, seq[r])
    PROVE  [Feed!Next]_(Feed!vars)
  <1>1. CASE UNCHANGED log
    <2>1. (row' \in TERMINAL) = (row \in TERMINAL) \/ (row' \in TERMINAL) = ~ (row \in TERMINAL)
      OBVIOUS
    <2> QED
      BY <1>1, <2>1 DEF streamVars, Feed!Next, Feed!Resolve, Feed!vars
  <1>2. ASSUME NEW r \in Runs, UNCHANGED row, seq[r] # 0, seq[r] \notin Seqs, log' = Append(log, seq[r])
        PROVE  Feed!Next
    <2>1. seq[r] = Len(log) + 1
      BY <1>2, LogGrows DEF TypeOK, LogInv
    <2> QED
      BY <1>2, <2>1 DEF streamVars, Feed!Next, Feed!Publish
  <1> QED
    BY <1>1, <1>2

\* The next step of a stream is the next step of the log.
LEMMA SendFeed ==
    ASSUME TypeOK, LogInv, StreamInv, NEW c \in Streams, Send(c)
    PROVE  Feed!Deliver(c)
  <1>1. PICK n \in todo[c] : /\ \A m \in todo[c] : n <= m
                             /\ got' = [got EXCEPT ![c] = Append(@, n)]
    BY DEF Send
  <1>2. PICK h \in 0 .. Len(log) : todo[c] = last_seq[c] + 1 .. h
    BY DEF StreamInv
  <1>3. last_seq[c] \in Nat /\ Len(log) \in Nat /\ Len(got[c]) = last_seq[c]
    BY DEF TypeOK, StreamInv, StreamExact
  <1>4. n = last_seq[c] + 1 /\ n \in 1 .. Len(log) /\ n = Len(got[c]) + 1
    <2>1. n \in last_seq[c] + 1 .. h /\ h \in Nat /\ h <= Len(log)
      BY <1>1, <1>2, <1>3
    <2>2. last_seq[c] + 1 \in todo[c]
      BY <1>2, <1>3, <2>1
    <2> QED
      BY <1>1, <1>3, <2>1, <2>2
  <1>5. log[n] = n
    BY <1>4 DEF LogInv, LogInOrder
  <1>6. /\ Len(got[c]) < Len(log) /\ conn[c] = "sending"
        /\ got' = [got EXCEPT ![c] = Append(@, log[Len(@) + 1])]
    <2>1. Len(got[c]) < Len(log)
      BY <1>3, <1>4
    <2>2. log[Len(got[c]) + 1] = n
      BY <1>4, <1>5
    <2> QED
      BY <1>1, <2>1, <2>2 DEF Send, TypeOK
  <1> QED
    BY <1>6 DEF Feed!Deliver, Send, runVars

\* Every step of the log and its streams is a step of the feed or a stutter.
LEMMA FeedStep == TypeOK /\ LogInv /\ StreamInv /\ [Next]_vars => [Feed!Next]_(Feed!vars)
  <1> SUFFICES ASSUME TypeOK, LogInv, StreamInv, [Next]_vars PROVE [Feed!Next]_(Feed!vars)
    OBVIOUS
  <1>0. conn \in [Streams -> {"idle", "reading", "sending", "done"}]
    BY DEF TypeOK
  <1>1. ASSUME NEW r \in Runs, Commit(r) PROVE [Feed!Next]_(Feed!vars)
    <2>1. seq[r] # 0
      BY <1>1 DEF Commit, LogInv
    <2> QED
      BY <1>1, <2>1, RunFeed DEF Commit
  <1>2. ASSUME NEW r \in Runs, StartRun(r) \/ SetState(r) \/ LogStep(r) \/ Refuse(r)
                                \/ Raise(r) \/ Finish(r) \/ Crash(r)
        PROVE  UNCHANGED log /\ UNCHANGED streamVars
    BY <1>2 DEF StartRun, SetState, LogStep, Refuse, Raise, Finish, Crash
  <1>3. ASSUME GiveUp \/ Resubmit PROVE UNCHANGED log /\ UNCHANGED streamVars
    BY <1>3 DEF GiveUp, Resubmit
  <1>4. ASSUME NEW c \in Streams, Open(c) PROVE [Feed!Next]_(Feed!vars)
    <2>1. {d \in Streams : conn'[d] = "done"} = {d \in Streams : conn[d] = "done"}
      BY <1>0, <1>4 DEF Open
    <2>2. Feed!StartOver(c)
      BY <1>4, <2>1 DEF Open, runVars, Feed!StartOver
    <2> QED
      BY <2>2 DEF Feed!Next
  <1>5. ASSUME NEW c \in Streams, Read(c) \/ Drop(c) PROVE [Feed!Next]_(Feed!vars)
    <2>1. {d \in Streams : conn'[d] = "done"} = {d \in Streams : conn[d] = "done"}
      BY <1>0, <1>5 DEF Read, Drop
    <2> QED
      BY <1>5, <2>1 DEF Read, Drop, runVars, Feed!vars
  <1>6. ASSUME NEW c \in Streams, Send(c) PROVE [Feed!Next]_(Feed!vars)
    BY <1>6, SendFeed DEF Feed!Next
  <1>7. ASSUME NEW c \in Streams, Check(c) PROVE [Feed!Next]_(Feed!vars)
    <2>1. UNCHANGED <<log, row, got>> /\ conn[c] = "sending"
      BY <1>7 DEF Check, runVars
    <2>2. CASE row \in TERMINAL
      <3>1. {d \in Streams : conn'[d] = "done"} = {d \in Streams : conn[d] = "done"} \cup {c}
        BY <1>0, <1>7, <2>2 DEF Check, Ended
      <3>2. Feed!TellEnd(c)
        BY <2>1, <2>2, <3>1 DEF Feed!TellEnd
      <3> QED
        BY <3>2 DEF Feed!Next
    <2>3. CASE row \notin TERMINAL
      <3>1. {d \in Streams : conn'[d] = "done"} = {d \in Streams : conn[d] = "done"}
        BY <1>0, <1>7, <2>1, <2>3 DEF Check, Ended
      <3> QED
        BY <2>1, <3>1 DEF Feed!vars
    <2> QED
      BY <2>2, <2>3
  <1>8. CASE UNCHANGED vars
    BY <1>8 DEF vars, runVars, streamVars, Feed!vars
  <1> QED
    BY <1>1, <1>2, <1>3, <1>4, <1>5, <1>6, <1>7, <1>8, RunFeed DEF Next, Advance, Serve

\* For every number of runs and of clients, log_step and the streams that tail
\* the log behave as one gapless feed: see ImplementsFeed.
THEOREM LogImplementsFeed == Spec => ImplementsFeed
  BY LogHolds, StreamInit, StreamStep, FeedInit, FeedStep, PTL DEF Spec, ImplementsFeed, Feed!Spec
=============================================================================
