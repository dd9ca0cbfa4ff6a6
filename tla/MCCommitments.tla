---------------------------- MODULE MCCommitments ----------------------------
(***************************************************************************)
(* Two blocks over five domains.  Three keys of four nibbles: two share an *)
(* extension and one leaves them at the first nibble; a leaf with the      *)
(* short value is embedded in its parent.  The head tree has depth three:  *)
(* two domains part at the last bit.                                       *)
(***************************************************************************)
EXTENDS Commitments

CONSTANTS short, long

MCKey == {<<0, 0, 1, 0>>, <<0, 0, 2, 1>>, <<1, 0, 0, 3>>}

MCValueLen(v) == IF v = short THEN 1 ELSE 8

HeadKeys == <<<<0, 0, 0>>, <<0, 0, 1>>, <<0, 1, 0>>, <<1, 1, 1>>, <<1, 0, 1>>>>

MCHeadKey(d) == HeadKeys[d]
=============================================================================
