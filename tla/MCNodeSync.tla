------------------------------ MODULE MCNodeSync ------------------------------
(***************************************************************************)
(* Scores in units of half a failure: two failures throttle a peer and     *)
(* four ban it (in peer.rs four and ten), and two answers make up for one  *)
(* failure (in peer.rs five).                                              *)
(***************************************************************************)
EXTENDS NodeSync

BanAtMinus8 == -8
ThrottleAtMinus4 == -4

Budget(f, d) == [failures |-> f, dials |-> d]

\* Enough lost messages and connections to throttle a peer, or enough failed dials to ban it.
SomeFaults == {Budget(2, 1), Budget(0, 4)}

NoFaults == {Budget(0, 0)}
=============================================================================
