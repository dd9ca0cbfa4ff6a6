------------------------------- MODULE MCEngine -------------------------------
(* Instances of Engine for TLC. *)
EXTENDS Engine

Tx(s, n, c, fee) ==
    [sender |-> s, nonce |-> n, chain_id |-> c, size |-> 1, gas_limit |-> 2, gas_used |-> 1,
     max_fee |-> fee, max_priority_fee |-> 1,
     executes |-> TRUE, creates |-> NoDomain, new_chain_id |-> 1]

\* On the root chain, a transfer and its replacement and a transfer that never executes;
\* two creations of chain 8 by two senders; a transfer on chain 8.  The replacement and the
\* first creation fit a pool but not one block.
Transfer == Tx(1, 0, 7, 10)
Bumped   == [Tx(1, 0, 7, 20) EXCEPT !.size = 3]
Poison   == [Tx(2, 1, 7, 10) EXCEPT !.executes = FALSE]
Create   == [Tx(1, 1, 7, 10) EXCEPT !.size = 2, !.creates = 2, !.new_chain_id = 8]
Rival    == [Tx(2, 0, 7, 10) EXCEPT !.creates = 3, !.new_chain_id = 8]
OnChild  == Tx(1, 0, 8, 10)

MCTransaction == {Transfer, Bumped, Poison, Create, Rival, OnChild}

MCPeerBody == {{Transfer}, {Transfer, Create, Rival}, {Rival, OnChild}, {OnChild}}

MCGasLimit == [d \in Domain |-> 4]
=============================================================================
