----------------------------- MODULE MCJobQueue -----------------------------
(* JobQueue for TLC: each worker loop a process of its own, or two loops in *)
(* one process and a third in another.                                      *)
EXTENDS JobQueue

CONSTANTS w1, w2, w3

\* worker_concurrency = 1: every process has one loop.
SoloProcesses == {{w} : w \in Workers}

\* worker_concurrency = 2 in one process, a third loop in another.
PairProcess == {{w1, w2}, {w3}}
=============================================================================
