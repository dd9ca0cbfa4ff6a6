------------------------------ MODULE MCProcess -------------------------------
(***************************************************************************)
(* What a process must survive: validators that store their votes and lose *)
(* power, commands that share a data directory and are killed, and tasks   *)
(* that fail or ignore the signal to stop.  A behaviour is about one of    *)
(* the three.                                                              *)
(***************************************************************************)
EXTENDS VoteStore, DataDirectory, Supervisor

VARIABLE part

\* Two blocks to vote for in one slot, and a later slot with a smaller round.
MCVote ==
    {[height |-> s[1], round |-> s[2], phase |-> 1, block_hash |-> s[3]] :
        s \in {<<1, 1, "A">>, <<1, 1, "B">>, <<2, 0, "A">>}}

\* Of seven, more than two thirds are five: h1 with either of the others.
MCPower == [v \in Validator |-> IF v = "h1" THEN 3 ELSE 2]

-----------------------------------------------------------------------------
ProcessInit ==
    /\ part \in {"votes", "directory", "tasks"}
    /\ VoteInit /\ DirInit /\ SupInit

ProcessNext ==
    \/ part = "votes" /\ VoteNext /\ UNCHANGED <<dir_vars, sup_vars, part>>
    \/ part = "directory" /\ DirNext /\ UNCHANGED <<vote_vars, sup_vars, part>>
    \/ part = "tasks" /\ SupNext /\ UNCHANGED <<vote_vars, dir_vars, part>>

ProcessSpec ==
    /\ ProcessInit
    /\ [][ProcessNext]_<<vote_vars, dir_vars, sup_vars, part>>
    /\ SupFairness
=============================================================================
