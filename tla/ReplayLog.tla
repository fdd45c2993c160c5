----------------------------- MODULE ReplayLog -----------------------------
(***************************************************************************)
(* The replay log of one submission and the progress streams that tail it: *)
(* log_step (db.py) as the runs of the submission call it, and the events  *)
(* generator of GET /submissions/{id}/stream (api/main.py).                *)
(*                                                                         *)
(* Two runs of one submission may be alive at once, because a lease can    *)
(* lapse under a run (module JobQueue).  A step is its number; who claims  *)
(* the row, and when, is left open.                                        *)
(***************************************************************************)
EXTENDS Integers, Sequences

CONSTANTS
    Runs,           \* runs of the submission, each started at most once
    Streams,        \* clients of the stream endpoint
    MaxSteps        \* bound: steps one run logs

ASSUME LogAssumption == MaxSteps \in Nat

VARIABLES
    row,            \* submissions.state
    log,            \* agent_steps.seq, in the order of the commits
    pc,             \* where a run is: see Phases
    seq,            \* the number the run's INSERT has picked, 0 = none
    written,        \* steps the run has tried to log
    conn,           \* where a stream is: idle, reading, sending or done
    todo,           \* the steps get_steps returned that are still to be sent
    last_seq,       \* the stream's cursor
    got,            \* the steps the client has received on this connection
    overlapped,     \* history: two runs were alive at once
    refused         \* history: some INSERT hit UNIQUE (submission_id, seq)

runVars    == <<row, log, pc, seq, written, overlapped, refused>>
streamVars == <<conn, todo, last_seq, got>>
vars       == <<runVars, streamVars>>

TERMINAL == {"DONE", "FAILED", "DEGRADED"}
Queued   == {"SUBMITTED", "WORKING"}

\* inserting: between the subquery for MAX(seq) and the commit.
Phases == {"new", "running", "inserting", "raised", "over"}
Alive  == {"running", "inserting", "raised"}

-----------------------------------------------------------------------------
(* The runs. *)

Seqs == {log[i] : i \in 1 .. Len(log)}

MaxOf(S) == IF S = {} THEN 0 ELSE CHOOSE m \in S : \A n \in S : n <= m

\* Mutant of NextSeq: numbers in use are skipped, as a database sequence does.
NextSeqReserved == 1 + MaxOf(Seqs \cup {seq[r] : r \in Runs})

\* Mutant of NextSeq: the last number again.
NextSeqOfLast == IF log = <<>> THEN 1 ELSE MaxOf(Seqs)

\* COALESCE(MAX(seq), 0) + 1 over the committed steps.
NextSeq == MaxOf(Seqs) + 1

StartRun(r) ==
    /\ pc[r] = "new"
    /\ row \in Queued
    /\ pc' = [pc EXCEPT ![r] = "running"]
    /\ overlapped' = (overlapped \/ \E q \in Runs : pc[q] \in Alive)
    /\ UNCHANGED <<row, log, seq, written, refused, streamVars>>

\* set_state does not look at the state it replaces.
SetState(r) ==
    /\ pc[r] = "running"
    /\ row' = "WORKING"
    /\ UNCHANGED <<log, pc, seq, written, overlapped, refused, streamVars>>

LogStep(r) ==
    /\ pc[r] = "running"
    /\ written[r] < MaxSteps
    /\ written' = [written EXCEPT ![r] = @ + 1]
    /\ seq' = [seq EXCEPT ![r] = NextSeq]
    /\ pc' = [pc EXCEPT ![r] = "inserting"]
    /\ UNCHANGED <<row, log, overlapped, refused, streamVars>>

Commit(r) ==
    /\ pc[r] = "inserting"
    /\ seq[r] \notin Seqs
    /\ log' = Append(log, seq[r])
    /\ seq' = [seq EXCEPT ![r] = 0]
    /\ pc' = [pc EXCEPT ![r] = "running"]
    /\ UNCHANGED <<row, written, overlapped, refused, streamVars>>

\* The other run's step was committed first: UniqueViolationError.
Refuse(r) ==
    /\ pc[r] = "inserting"
    /\ seq[r] \in Seqs
    /\ refused' = TRUE
    /\ seq' = [seq EXCEPT ![r] = 0]
    /\ pc' = [pc EXCEPT ![r] = "raised"]
    /\ UNCHANGED <<row, log, written, overlapped, streamVars>>

\* The database, the container or the pipeline raises.
Raise(r) ==
    /\ pc[r] \in {"running", "inserting"}
    /\ seq' = [seq EXCEPT ![r] = 0]
    /\ pc' = [pc EXCEPT ![r] = "raised"]
    /\ UNCHANGED <<row, log, written, overlapped, refused, streamVars>>

\* finish, by the pipeline or by run_submission's except clauses.
Finish(r) ==
    /\ \/ pc[r] = "running" /\ row' \in {"DONE", "DEGRADED"}
       \/ pc[r] = "raised" /\ row' = "FAILED"
    /\ pc' = [pc EXCEPT ![r] = "over"]
    /\ UNCHANGED <<log, seq, written, overlapped, refused, streamVars>>

\* The worker dies.
Crash(r) ==
    /\ pc[r] \in Alive
    /\ seq' = [seq EXCEPT ![r] = 0]
    /\ pc' = [pc EXCEPT ![r] = "over"]
    /\ UNCHANGED <<row, log, written, overlapped, refused, streamVars>>

\* _handle fails a row that has used up its attempts; a run that lost its lease
\* may still be writing.
GiveUp ==
    /\ \A r \in Runs : pc[r] # "new"
    /\ row \in Queued
    /\ row' = "FAILED"
    /\ UNCHANGED <<log, pc, seq, written, overlapped, refused, streamVars>>

\* create_submission puts a DEGRADED row back; the log keeps what it has.
Resubmit ==
    /\ row = "DEGRADED"
    /\ row' = "SUBMITTED"
    /\ UNCHANGED <<log, pc, seq, written, overlapped, refused, streamVars>>

-----------------------------------------------------------------------------
(* The streams. *)

\* A client connects, or its EventSource reconnects after Drop.
Open(c) ==
    /\ conn[c] = "idle"
    /\ conn' = [conn EXCEPT ![c] = "reading"]
    /\ last_seq' = [last_seq EXCEPT ![c] = 0]
    /\ got' = [got EXCEPT ![c] = <<>>]
    /\ UNCHANGED <<todo, runVars>>

\* Mutant of Unseen: the step at the cursor is sent again.
UnseenAgain(c) == {n \in Seqs : n >= last_seq[c] /\ n > 0}

\* The steps past the cursor.
Unseen(c) == {n \in Seqs : n > last_seq[c]}

\* get_steps: a snapshot.
Read(c) ==
    /\ conn[c] = "reading"
    /\ todo' = [todo EXCEPT ![c] = Unseen(c)]
    /\ conn' = [conn EXCEPT ![c] = "sending"]
    /\ UNCHANGED <<last_seq, got, runVars>>

\* The steps go out ORDER BY seq.
Send(c) ==
    /\ conn[c] = "sending"
    /\ \E n \in todo[c] :
         /\ \A m \in todo[c] : n <= m
         /\ last_seq' = [last_seq EXCEPT ![c] = n]
         /\ got' = [got EXCEPT ![c] = Append(@, n)]
         /\ todo' = [todo EXCEPT ![c] = @ \ {n}]
    /\ UNCHANGED <<conn, runVars>>

\* Mutant of Ended: a run that failed has not ended.
EndedDone == row = "DONE"

Ended == row \in TERMINAL

\* get_submission after the last step: done, or poll again.
Check(c) ==
    /\ conn[c] = "sending"
    /\ todo[c] = {}
    /\ conn' = [conn EXCEPT ![c] = IF Ended THEN "done" ELSE "reading"]
    /\ UNCHANGED <<todo, last_seq, got, runVars>>

\* The connection breaks.
Drop(c) ==
    /\ conn[c] \in {"reading", "sending"}
    /\ conn' = [conn EXCEPT ![c] = "idle"]
    /\ todo' = [todo EXCEPT ![c] = {}]
    /\ UNCHANGED <<last_seq, got, runVars>>

-----------------------------------------------------------------------------

Init ==
    /\ row = "SUBMITTED"
    /\ log = <<>>
    /\ pc = [r \in Runs |-> "new"]
    /\ seq = [r \in Runs |-> 0]
    /\ written = [r \in Runs |-> 0]
    /\ conn = [c \in Streams |-> "idle"]
    /\ todo = [c \in Streams |-> {}]
    /\ last_seq = [c \in Streams |-> 0]
    /\ got = [c \in Streams |-> <<>>]
    /\ overlapped = FALSE
    /\ refused = FALSE

\* What a run does when nothing goes wrong, or once something has.
Advance(r) == StartRun(r) \/ LogStep(r) \/ Commit(r) \/ Refuse(r) \/ Finish(r)

Serve(c) == Read(c) \/ Send(c) \/ Check(c)

Next ==
    \/ \E r \in Runs : Advance(r) \/ SetState(r) \/ Raise(r) \/ Crash(r)
    \/ GiveUp
    \/ Resubmit
    \/ \E c \in Streams : Serve(c) \/ Open(c) \/ Drop(c)

Spec == Init /\ [][Next]_vars

(* A live worker goes on with its run and the API with its streams; rows    *)
(* left over are claimed (module JobQueue: Settles), for certain only once  *)
(* no run renews their lease.                                               *)
FairSpec ==
    /\ Spec
    /\ \A r \in Runs : WF_vars(Advance(r))
    /\ WF_vars(GiveUp /\ \A r \in Runs : pc[r] = "over")
    /\ \A c \in Streams : WF_vars(Serve(c))

-----------------------------------------------------------------------------
(* Properties. *)

\* Every variable has its type, a number is picked only for an INSERT under
\* way, and it is at most one past the log.
TypeOK ==
    /\ row \in Queued \cup TERMINAL
    /\ log \in Seq(Nat)
    /\ pc \in [Runs -> Phases]
    /\ seq \in [Runs -> 0 .. Len(log) + 1]
    /\ written \in [Runs -> 0 .. MaxSteps]
    /\ conn \in [Streams -> {"idle", "reading", "sending", "done"}]
    /\ todo \in [Streams -> SUBSET Nat]
    /\ last_seq \in [Streams -> Nat]
    /\ got \in [Streams -> Seq(Nat)]
    /\ overlapped \in BOOLEAN /\ refused \in BOOLEAN

\* A run alone is never refused its number: only a second run of the same
\* submission can make log_step raise.
RefusedOnlyByOverlap == refused => overlapped

Feed == INSTANCE ProgressFeed WITH
    Readers  <- Streams,
    feed     <- log,
    resolved <- row \in TERMINAL,
    received <- got,
    ended    <- {c \in Streams : conn[c] = "done"}

\* However many runs write the log at once and however often a client comes
\* back, log and streams are one feed: the steps are committed in the order of
\* their numbers, so a reader that tails by number skips none that commits late;
\* every connection is sent them once and in order; and "done" goes out only in
\* a moment in which the row is terminal, as the last event.
ImplementsFeed == Feed!Spec

\* A stream whose client stays ends: the row comes to a terminal state and the
\* stream sees it, resubmissions and overwritten states notwithstanding.
StreamEnds == \A c \in Streams : conn[c] = "reading" ~> conn[c] \in {"done", "idle"}
=============================================================================
