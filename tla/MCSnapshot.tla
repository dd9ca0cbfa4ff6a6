----------------------------- MODULE MCSnapshot -----------------------------
(***************************************************************************)
(* Two domains of two contracts and two codes.  A code record takes six    *)
(* bytes and a node record four, so that a full state needs two or three   *)
(* chunks of fourteen bytes and some chunks are filled to the last byte.   *)
(***************************************************************************)
EXTENDS Snapshot

MCrecord_len(hash) == IF Len(hash) = 1 THEN 4 ELSE 2

MCDamaged == [domain |-> 1, index |-> 1, records |-> <<[kind |-> "code", hash |-> <<"damaged">>]>>]

MCDomain == {1, 2}
=============================================================================
