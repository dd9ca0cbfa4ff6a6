----------------------------- MODULE MCFunctions -----------------------------
(***************************************************************************)
(* The base fee and the encodings: functions that every node must compute  *)
(* alike.  A behaviour follows either the fee of a domain or one string of *)
(* bytes.  Gas limits reach nine, odd and even, and fees 40: small fees of *)
(* which an eighth rounds to zero, and fees the last block refuses.  The   *)
(* sample objects have distinct values in their fields, and sit at and     *)
(* just beyond the limits of envelopes, batches, blocks, names, sets and   *)
(* manifests; a block of one batch too many still fits the byte limit.     *)
(***************************************************************************)
EXTENDS FeeMarket, Codecs

Fill(n) == [i \in 1 .. n |-> 3]

ConsensusHeader ==
    [protocol_version |-> 11, network_id |-> 12, height |-> 13, parent_hash |-> 14,
     timestamp |-> 15, batches_root |-> 16, domain_results_root |-> 17,
     domain_heads_root |-> 18, validator_set_hash |-> 19, next_validator_set_hash |-> 20,
     proposer |-> 21]

DomainHeader(d, root) ==
    [protocol_version |-> 11, domain_id |-> d, number |-> 13, parent_hash |-> 14,
     consensus_height |-> 15, transactions_root |-> 16, state_root |-> root,
     receipts_root |-> 17, logs_bloom |-> 18, gas_limit |-> 19, gas_used |-> 20,
     base_fee_per_gas |-> 21]

Batch(txs) == [domain_id |-> 11, parent_domain_block_hash |-> 12, transactions |-> txs]

Descriptor(name, symbol, id, st) ==
    [domain_id |-> 2, parent_domain_id |-> 12, joint_domain_block_hash |-> 13,
     create_tx_hash |-> 14, origin_hash |-> 15, name |-> name, symbol |-> symbol,
     evm_chain_id |-> id, owner |-> 17, protocol_revision |-> 18, gas_limit |-> 19,
     initial_base_fee |-> 20, initial_supply |-> 21, creation_deposit |-> 22, status |-> st]

Genesis(name, symbol, id) ==
    [domain_id |-> 11, parent_domain_id |-> 12, joint_domain_block_hash |-> 13,
     create_tx_hash |-> 14, name |-> name, symbol |-> symbol, evm_chain_id |-> id,
     owner |-> 17, protocol_revision |-> 18, gas_limit |-> 19, initial_base_fee |-> 20,
     initial_supply |-> 21, initial_state_root |-> 22]

Validator(id, power) == [id |-> id, public_key |-> 10 + id, power |-> power]
Validators(vs) == [epoch |-> 1, validators |-> vs]

VoteOf(phase) ==
    [network_id |-> 11, height |-> 12, round |-> 13, phase |-> phase, block_hash |-> 14,
     validator_id |-> 15]

Signature(id) == [id |-> id, signature |-> 20 + id]
Certificate(sigs) ==
    [network_id |-> 11, height |-> 12, round |-> 13, phase |-> 1, block_hash |-> 14,
     signatures |-> sigs]

Block(n, m) ==
    [header |-> ConsensusHeader, batches |-> [i \in 1 .. n |-> Batch(<<Fill(i)>>)],
     domain_blocks |-> [i \in 1 .. m |-> DomainHeader(i, 30 + i)]]

WideBlock(i, j) ==
    [Block(2, 2) EXCEPT !.batches = <<Batch(<<Fill(i)>>), Batch(<<Fill(j)>>)>>]

Config == [chain_id |-> 11, protocol_revision |-> 12, gas_limit |-> 13,
           initial_base_fee_per_gas |-> 14]
OptionalDescriptor(d) == IF d = 1 THEN NoDescriptor ELSE Descriptor(<<4>>, <<5>>, 6, 1)
OneValidator == Validators(<<Validator(1, 5)>>)

StoredCheckpoint(n) ==
    [network_id |-> 11, height |-> 12, consensus_hash |-> 13, timestamp |-> 14,
     validator_set_hash |-> 15, next_validator_set_hash |-> 16, root_domain_id |-> 17,
     governance_address |-> 18, domain_heads_root |-> 19, validator_set |-> OneValidator,
     finality_proof |-> <<>>,
     domains |-> [d \in 1 .. n |->
        [domain_id |-> d, config |-> Config, header |-> DomainHeader(d, 30 + d),
         block_hash |-> 40 + d, state_root |-> 30 + d, descriptor |-> OptionalDescriptor(d)]]]

Chunk(i, bytes) == [index |-> i, bytes |-> bytes, hash |-> 50 + i]
Manifest(height, d, chunks) ==
    [consensus_height |-> height, domain_id |-> d, state_root |-> 30 + d, chunks |-> chunks]

\* One root for the heads of all domains: the last sibling makes up the difference.
HeadsRoot == Digest(<<1, 41, 31, 5, 5>>)
Siblings(d) == <<5, (HeadsRoot - Digest(<<d, 40 + d, 30 + d, 5, 0>>)) % 65521>>

Checkpoint(n, height) ==
    [network_id |-> 11, genesis_hash |-> 12, height |-> height, consensus_hash |-> 14,
     timestamp |-> 15, validator_set_hash |-> Digest(encode_validator_set(OneValidator)),
     next_validator_set_hash |-> 16, domain_heads_root |-> HeadsRoot,
     root_domain_id |-> 17, governance_address |-> 18, validator_set |-> OneValidator,
     finality_proof |-> <<>>,
     domains |-> [d \in 1 .. n |->
        [domain_id |-> d, config |-> Config, header |-> DomainHeader(d, 30 + d),
         block_hash |-> 40 + d, descriptor |-> OptionalDescriptor(d),
         state |-> Manifest(height, d, <<Chunk(0, 1)>>),
         head_proof |-> [root |-> HeadsRoot, domain_id |-> d,
                         value |-> <<40 + d, 30 + d>>, siblings |-> Siblings(d)]]]]

Item(a, keys) == [address |-> a, storage_keys |-> keys]
Transaction(tip, to, input, list, s) ==
    [chain_id |-> 11, nonce |-> 0, max_priority_fee_per_gas |-> tip, max_fee_per_gas |-> 13,
     gas_limit |-> 14, to |-> to, value |-> 15, input |-> input, access_list |-> list,
     y_parity |-> TRUE, r |-> 16, s |-> s]

Log(topics, data) == [address |-> 11, topics |-> topics, data |-> data]
ReceiptOf(ok, logs) ==
    [status |-> ok, cumulative_gas_used |-> 12, logs_bloom |-> 13, logs |-> logs]

Request(name, symbol, gas, fee) ==
    [parent_domain_id |-> <<11, 12>>, name |-> name, symbol |-> symbol, evm_chain_id |-> 13,
     owner |-> 14, gas_limit |-> gas, initial_base_fee |-> fee, initial_supply |-> <<15, 16>>,
     protocol_revision |-> 1]

MCSample ==
    [consensus_header |-> {ConsensusHeader},
     domain_header |-> {DomainHeader(12, 22)},
     domain_batch |-> {Batch(<<>>), Batch(<<Fill(1), Fill(2)>>), Batch(<<Fill(20)>>),
                       Batch(<<Fill(21)>>), Batch(<<Fill(19), Fill(2)>>),
                       Batch(<<Fill(1), Fill(1), Fill(1)>>), Batch(<<<<>>>>)},
     descriptor |-> {Descriptor(n, s, id, st) : n \in {<<>>, <<4, 5>>, Fill(4)},
                         s \in {<<6>>, Fill(3)}, id \in {0, 7}, st \in 0 .. 2},
     genesis |-> {Genesis(n, s, id) : n \in {<<>>, <<4, 5>>, Fill(4)},
                      s \in {<<6>>, Fill(3)}, id \in {0, 7}},
     validator_set |-> {Validators(vs) : vs \in {<<>>, <<Validator(1, 5)>>, <<Validator(1, 0)>>,
                            <<Validator(1, 5), Validator(2, 6)>>,
                            <<Validator(2, 5), Validator(1, 6)>>,
                            <<Validator(1, 5), Validator(1, 6)>>,
                            <<Validator(1, 5), Validator(2, 6), Validator(3, 7)>>}},
     vote |-> {VoteOf(p) : p \in 0 .. 2},
     certificate |-> {Certificate(sigs) : sigs \in {<<>>, <<Signature(1)>>,
                          <<Signature(1), Signature(2)>>, <<Signature(2), Signature(1)>>}},
     block |-> {Block(0, 0), Block(1, 1), Block(1, 0), Block(2, 2), Block(3, 3),
                WideBlock(14, 14), WideBlock(14, 15)},
     stored_checkpoint |-> {StoredCheckpoint(n) : n \in 1 .. 3},
     checkpoint |-> {Checkpoint(n, h) : n \in 1 .. 3, h \in {0, 12}},
     snapshot_manifest |-> {Manifest(12, 13, c) : c \in {<<>>, <<Chunk(0, 1), Chunk(1, 2)>>,
                                <<Chunk(1, 1)>>, <<Chunk(0, 0)>>, <<Chunk(0, 9)>>}},
     eip1559 |-> {Transaction(tip, to, input, list, s) : tip \in {12, 14}, to \in {0, 20},
                      input \in {0, 3, 5}, s \in {0, 17},
                      list \in {<<>>, <<Item(21, <<>>)>>, <<Item(21, <<22, 23>>)>>}}
                 \cup {Transaction(12, 20, 0, list, 17) :
                          list \in {<<Item(21, <<>>), Item(22, <<>>)>>, <<Item(21, Fill(3))>>}},
     receipt |-> {ReceiptOf(ok, logs) : ok \in BOOLEAN,
                      logs \in {<<>>, <<Log(<<14>>, 2)>>, <<Log(<<>>, 20), Log(<<14, 15>>, 0)>>,
                                <<Log(<<14, 15, 16>>, 0)>>, <<Log(<<>>, 11)>>}},
     create_chain |-> {Request(n, s, g, f) :
                           n \in {<<30>>, <<30, Space, 31>>, <<Space, 30, Space, Space>>,
                                  <<Space>>, <<30, 99>>},
                           s \in {<<30>>, <<31>>, <<Space, 31>>, <<32>>},
                           g \in {0, 9, 10}, f \in {40, 41}},
     refund |-> {[domain_id |-> <<11, 12>>]},
     burn |-> {[domain_id |-> <<11, 12>>]},
     gossip |-> {[type |-> "transaction", domain_id |-> 11, envelope |-> Fill(n)] : n \in {0, 2, 21}}
                \cup {[type |-> "finalized", height |-> h, consensus_hash |-> 12,
                       domain_heads_root |-> 13] : h \in {0, 5}},
     reachability |-> {[node_hashes |-> n, leaf_keys |-> k] : n, k \in {<<>>, <<2>>, <<2, 3>>}},
     marker |-> {[height |-> 11, consensus_hash |-> 12, domain_heads_root |-> 13]}]

MCUnit == (0 .. 3) \cup {41, 60, 61, Space} \cup {ListHeader(n) : n \in 0 .. 2}

-----------------------------------------------------------------------------
NoKind == "none"
OneHeader == gas_limit = 1 /\ gas_used = 0 /\ base_fee_per_gas = 0
NoWire == kind = NoKind /\ value = [none |-> TRUE] /\ wire = <<>> /\ edits = 0

FunctionsInit == (FeeInit /\ NoWire) \/ (OneHeader /\ CodecInit)

FunctionsNext ==
    \/ kind = NoKind /\ FeeNext /\ UNCHANGED codec_vars
    \/ Transit /\ UNCHANGED fee_vars

FunctionsSpec == FunctionsInit /\ [][FunctionsNext]_<<fee_vars, codec_vars>>
=============================================================================
