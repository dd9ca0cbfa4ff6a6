------------------------------ MODULE MCScheduler ------------------------------
(***************************************************************************)
(* Five domains, of which a block has room for two when their transactions *)
(* are large: one more than twice that.  Four domains with small ones fill *)
(* more batches than a block may have.                                     *)
(***************************************************************************)
EXTENDS Scheduler

Entry(s, n, gas) ==
    [sender |-> s, nonce |-> n, gas_limit |-> gas, gas_used |-> gas, size |-> 1,
     executes |-> TRUE]

\* Two senders, one with two transactions, of different sizes, of which the last is long.
MixedLoad == {Entry(1, 0, 1), Entry(1, 1, 2), [Entry(2, 0, 1) EXCEPT !.size = 3]}

MCLoad == [d \in Domain |->
    CASE d = 1 -> MixedLoad
      [] d = 2 -> {Entry(1, 0, 1), [Entry(1, 1, 1) EXCEPT !.executes = FALSE]}
      [] OTHER -> {Entry(1, 0, g) : g \in 1 .. 2}]

MCGasLimit == [d \in Domain |-> IF d = 1 THEN 3 ELSE 2]
=============================================================================
