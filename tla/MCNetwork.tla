------------------------------ MODULE MCNetwork -------------------------------
(***************************************************************************)
(* The network for TLC: two nodes and their sessions, with the thresholds  *)
(* of the code, or one node that is sent any answers while it catches up.  *)
(* A behaviour is about one of the two.                                    *)
(***************************************************************************)
EXTENDS Sessions, BlockSync

VARIABLE part

BanAtMinus100 == -100
ThrottleAtMinus40 == -40

\* Three chains: b parts from a after height one, c after height two.
H(height, id, parent) == [height |-> height, id |-> id, parent |-> parent]

MCGenesisHeader == H(0, "g", "none")
ForkedHeaders ==
    {H(1, "a1", "g"), H(2, "a2", "a1"), H(3, "a3", "a2"), H(4, "a4", "a3"),
     H(2, "b2", "a1"), H(3, "b3", "b2"), H(4, "b4", "b3"),
     H(3, "c3", "a2"), H(4, "c4", "c3")}

-----------------------------------------------------------------------------
NetworkInit ==
    /\ part \in {"sessions", "sync"}
    /\ SessionInit /\ SyncInit
    /\ part = "sync" => \A m, n \in Node : genesis[m] = genesis[n]

NetworkNext ==
    \/ part = "sessions" /\ SessionNext /\ UNCHANGED <<sync_vars, part>>
    \/ part = "sync" /\ SyncNext /\ UNCHANGED <<session_vars, part>>

NetworkSpec == NetworkInit /\ [][NetworkNext]_<<session_vars, sync_vars, part>>
=============================================================================
