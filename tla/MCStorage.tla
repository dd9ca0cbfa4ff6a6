------------------------------- MODULE MCStorage -------------------------------
(* Instances of Storage for TLC: three state roots that overlap in their nodes. *)
EXTENDS Storage

CONSTANTS r1, r2, r3, n1, n2, n3, x, y

MCNodesOf ==
    [r \in Root |-> CASE r = r1 -> {n1, n2} [] r = r2 -> {n2, n3} [] r = r3 -> {n3}]

MCLeavesOf ==
    [r \in Root |-> [k \in LeafKey |->
        CASE r = r1 -> 1
          [] r = r2 -> IF k = x THEN 2 ELSE NoLeaf
          [] r = r3 -> IF k = y THEN 1 ELSE NoLeaf]]
=============================================================================
