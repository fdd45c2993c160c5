---------------------------- MODULE ProgressFeed ----------------------------
(***************************************************************************)
(* What the service promises the readers of one submission's progress,     *)
(* without runs, transactions or connections: the steps form one feed,     *)
(* numbered without a gap, that only grows; a reader receives it from the  *)
(* start, in order, nothing twice and nothing skipped; and it is told the  *)
(* end only while the submission is resolved, after which it is told       *)
(* nothing more.  A reader may start over.  The end may come before the    *)
(* last steps: it is the resolution that is announced, not the feed's end. *)
(***************************************************************************)
EXTENDS Naturals, Sequences

CONSTANT Readers

VARIABLES
    feed,       \* the steps published so far
    resolved,   \* the submission has a result
    received,   \* what a reader has received since it last started
    ended       \* the readers that were told the end

vars == <<feed, resolved, received, ended>>

Init ==
    /\ feed     = <<>>
    /\ resolved = FALSE
    /\ received = [c \in Readers |-> <<>>]
    /\ ended    = {}

\* A run may go on publishing for a submission that is resolved.
Publish ==
    /\ feed' = Append(feed, Len(feed) + 1)
    /\ UNCHANGED <<resolved, received, ended>>

\* A result comes, or is taken back.
Resolve ==
    /\ resolved' = ~ resolved
    /\ UNCHANGED <<feed, received, ended>>

Deliver(c) ==
    /\ c \notin ended
    /\ Len(received[c]) < Len(feed)
    /\ received' = [received EXCEPT ![c] = Append(@, feed[Len(@) + 1])]
    /\ UNCHANGED <<feed, resolved, ended>>

TellEnd(c) ==
    /\ resolved
    /\ ended' = ended \cup {c}
    /\ UNCHANGED <<feed, resolved, received>>

StartOver(c) ==
    /\ c \notin ended
    /\ received' = [received EXCEPT ![c] = <<>>]
    /\ UNCHANGED <<feed, resolved, ended>>

Next ==
    \/ Publish
    \/ Resolve
    \/ \E c \in Readers : Deliver(c) \/ TellEnd(c) \/ StartOver(c)

Spec == Init /\ [][Next]_vars
=============================================================================
