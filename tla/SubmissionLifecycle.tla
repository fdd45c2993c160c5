------------------------ MODULE SubmissionLifecycle ------------------------
(***************************************************************************)
(* What the service promises about one submission, without leases, workers *)
(* or attempts counters: it is pending until it is resolved, exactly one   *)
(* pipeline works on it at a time and only while it is pending, at most    *)
(* MaxRuns pipelines are ever started for it, a resolution is final unless *)
(* it is DEGRADED, and the report changes only together with the status.   *)
(***************************************************************************)
EXTENDS Naturals

CONSTANTS Submissions, MaxRuns

VARIABLES
    status,     \* ABSENT, PENDING, DONE, FAILED or DEGRADED
    report,     \* NULL while there is none, ERROR or REPORT
    started,    \* the numbers of the runs that were started
    busy        \* the submissions a pipeline is working on

vars == <<status, report, started, busy>>

Init ==
    /\ status  = [s \in Submissions |-> "ABSENT"]
    /\ report  = [s \in Submissions |-> "NULL"]
    /\ started = [s \in Submissions |-> {}]
    /\ busy    = {}

Submit(s) ==
    /\ status[s] = "ABSENT"
    /\ status' = [status EXCEPT ![s] = "PENDING"]
    /\ UNCHANGED <<report, started, busy>>

\* A run takes a number no earlier run had.
Start(s, n) ==
    /\ status[s] = "PENDING" /\ s \notin busy
    /\ n \in 1 .. MaxRuns /\ n \notin started[s]
    /\ started' = [started EXCEPT ![s] = @ \cup {n}]
    /\ busy' = busy \cup {s}
    /\ UNCHANGED <<status, report>>

\* The run at work, and only it, delivers DONE or DEGRADED; a submission
\* nobody works on can only be failed.
Resolve(s, st) ==
    /\ status[s] = "PENDING"
    /\ s \in busy \/ st = "FAILED"
    /\ status' = [status EXCEPT ![s] = st]
    /\ report' = [report EXCEPT ![s] = IF st = "FAILED" THEN "ERROR" ELSE "REPORT"]
    /\ busy' = busy \ {s}
    /\ UNCHANGED started

\* Runs die without a result; their submissions stay pending.
Lose(lost) ==
    /\ busy' = busy \ lost
    /\ UNCHANGED <<status, report, started>>

\* Only a DEGRADED submission is reopened.
Reopen(s) ==
    /\ status[s] = "DEGRADED"
    /\ status' = [status EXCEPT ![s] = "PENDING"]
    /\ report' = [report EXCEPT ![s] = "NULL"]
    /\ UNCHANGED <<started, busy>>

Next ==
    \/ \E s \in Submissions :
          \/ Submit(s)
          \/ \E n \in 1 .. MaxRuns : Start(s, n)
          \/ \E st \in {"DONE", "FAILED", "DEGRADED"} : Resolve(s, st)
          \/ Reopen(s)
    \/ \E lost \in SUBSET Submissions : Lose(lost)

Spec == Init /\ [][Next]_vars
=============================================================================
