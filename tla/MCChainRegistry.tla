--------------------------- MODULE MCChainRegistry ---------------------------
(***************************************************************************)
(* Two domains besides the root, one chain ID to fight over and one spare, *)
(* an owner, the governance account and the zero address.                  *)
(***************************************************************************)
EXTENDS ChainRegistry

CONSTANTS owner, governance, zero, registry, root, a, b

MCAccount == {owner, governance, zero}

MCGenesisBalance == [x \in MCAccount \cup {registry} |-> IF x = owner THEN 5 ELSE 0]
=============================================================================
