------------------------------- MODULE MCMempool -------------------------------
(* Instances of Mempool for TLC. *)
EXTENDS Mempool

CONSTANTS root, child, alice, bob

Tx(s, n, c, fee, tip) ==
    [sender |-> s, nonce |-> n, chain_id |-> c, size |-> 1,
     max_fee |-> fee, max_priority_fee |-> tip]

\* Two senders on the root chain, with a nonce run, a priced and an underpriced
\* replacement, and an envelope for a second chain.
MCTransaction ==
    {Tx(alice, 0, 7, 100, 1), Tx(alice, 0, 7, 110, 2), Tx(alice, 0, 7, 105, 2),
     Tx(alice, 1, 7, 100, 1), Tx(bob, 0, 7, 0, 0), Tx(alice, 0, 8, 100, 1),
     [Tx(bob, 1, 7, 100, 1) EXCEPT !.size = 2]}
=============================================================================
