----------------------------- MODULE FinalizedLog -----------------------------
(***************************************************************************)
(* What the engine promises its callers, its subscribers and the peers it  *)
(* serves: a durable log of blocks that only grows, a running view that is *)
(* always the whole log, and announcements that are never taken back, over *)
(* any number of crashes and restarts.                                     *)
(***************************************************************************)
EXTENDS Integers, Sequences

CONSTANT Offline

VARIABLES
    log,   \* durably finalized blocks
    view,  \* the log the running node exposes, Offline when none runs
    told   \* the log the last announcement named

logVars == <<log, view, told>>

Extends(short, long) ==
    /\ Len(short) <= Len(long)
    /\ \A i \in 1 .. Len(short) : long[i] = short[i]

Init == log = <<>> /\ view = Offline /\ told = <<>>

Start == view = Offline /\ view' = log /\ UNCHANGED <<log, told>>

Stop == view' = Offline /\ UNCHANGED <<log, told>>

\* A running node adds one block, or an empty log is replaced by a whole history;
\* the new log is published and announced, or the node stops before or after that.
Finalize ==
    /\ view = log
    /\ log' \in Seq({log'[i] : i \in 1 .. Len(log')})
    /\ Extends(log, log')
    /\ Len(log') = Len(log) + 1 \/ (log = <<>> /\ log' # <<>>)
    /\ \/ view' = log' /\ told' = log'
       \/ view' = Offline /\ told' \in {told, log'}

Next == Start \/ Stop \/ Finalize

Spec == Init /\ [][Next]_logVars
=============================================================================
