---------------------------- MODULE CanonicalCodec ----------------------------
(***************************************************************************)
(* arbor-codec, canonical.rs: the bytes that Arbor's objects are hashed    *)
(* and stored as.  A byte string is a sequence of units: a field of fixed  *)
(* width, a length, a count, a tag or one byte of a variable field is one  *)
(* unit.  An encoder yields Refused, and a decoder Malformed, in place of  *)
(* an error; which error it is is left out.                                *)
(***************************************************************************)
EXTENDS Integers, SequencesExt

CONSTANTS
    MAX_CANONICAL_OBJECT, MAX_TRANSACTIONS_PER_BATCH, MAX_TRANSACTION_ENVELOPE,
    MAX_ACTIVE_VALIDATORS, MAX_NAME, MAX_SYMBOL,
    NotUtf8       \* a byte that no UTF-8 text holds

Malformed == [malformed |-> TRUE]
Refused == <<>>

CANONICAL_CODEC_VERSION == 1

\* Tags are negative, so that no field has the value of a tag.
CONSENSUS_HEADER_TAG == -1
DOMAIN_HEADER_TAG == -2
DOMAIN_BATCH_TAG == -3
DOMAIN_DESCRIPTOR_TAG == -4
DOMAIN_GENESIS_TAG == -5
VALIDATOR_SET_TAG == -6
VOTE_TAG == -7
QC_TAG == -8

-----------------------------------------------------------------------------
\* Encoder::tagged and Encoder::finish.
tagged(tag, fields) ==
    LET bytes == <<tag, CANONICAL_CODEC_VERSION>> \o fields
    IN  IF Len(bytes) <= MAX_CANONICAL_OBJECT THEN bytes ELSE Refused

put_bytes(b) == <<Len(b)>> \o b

put_each(bs) == <<Len(bs)>> \o FlattenSeq([i \in DOMAIN bs |-> put_bytes(bs[i])])

\* Decoder::tagged: the fields start at unit three.
opens(w, tag) ==
    /\ Len(w) \in 2 .. MAX_CANONICAL_OBJECT
    /\ w[1] = tag
    /\ w[2] = CANONICAL_CODEC_VERSION

\* Mutant: input beyond the last field is left unread.
exactly_at_least(w, tag, n) == opens(w, tag) /\ Len(w) >= n + 2

\* A decoder that reads n fixed fields and finishes.
exactly(w, tag, n) == opens(w, tag) /\ Len(w) = n + 2

\* Decoder::bytes at unit p: the bytes, and where the next field starts.
take_bytes(w, p, limit) ==
    IF p <= Len(w) /\ w[p] \in 0 .. limit /\ p + w[p] <= Len(w)
    THEN [ok |-> TRUE, val |-> SubSeq(w, p + 1, p + w[p]), next |-> p + w[p] + 1]
    ELSE [ok |-> FALSE, val |-> <<>>, next |-> Len(w) + 2]

\* Decoder::count at unit p, and as many items, each read by Take.
take_many(w, p, most, Take(_, _)) ==
    LET step(read, i) == LET t == Take(w, read.next)
                         IN  [ok |-> read.ok /\ t.ok, val |-> Append(read.val, t.val),
                              next |-> t.next]
    IN  IF p <= Len(w) /\ w[p] \in 0 .. most
        THEN FoldLeft(step, [ok |-> TRUE, val |-> <<>>, next |-> p + 1], [i \in 1 .. w[p] |-> i])
        ELSE [ok |-> FALSE, val |-> <<>>, next |-> Len(w) + 2]

take_each(w, p, most, limit) ==
    take_many(w, p, most, LAMBDA v, q : take_bytes(v, q, limit))

\* Decoder::string.
take_string(w, p, limit) ==
    LET t == take_bytes(w, p, limit)
    IN  [t EXCEPT !.ok = @ /\ NotUtf8 \notin ToSet(t.val)]

check_strictly_sorted(ids) == \A i \in 1 .. Len(ids) - 1 : ids[i] < ids[i + 1]

-----------------------------------------------------------------------------
encode_consensus_header(h) ==
    tagged(CONSENSUS_HEADER_TAG,
        <<h.protocol_version, h.network_id, h.height, h.parent_hash, h.timestamp,
          h.batches_root, h.domain_results_root, h.domain_heads_root, h.validator_set_hash,
          h.next_validator_set_hash, h.proposer>>)

decode_consensus_header(w) ==
    IF exactly(w, CONSENSUS_HEADER_TAG, 11)
    THEN [protocol_version |-> w[3], network_id |-> w[4], height |-> w[5],
          parent_hash |-> w[6], timestamp |-> w[7], batches_root |-> w[8],
          domain_results_root |-> w[9], domain_heads_root |-> w[10],
          validator_set_hash |-> w[11], next_validator_set_hash |-> w[12],
          proposer |-> w[13]]
    ELSE Malformed

encode_domain_header(h) ==
    tagged(DOMAIN_HEADER_TAG,
        <<h.protocol_version, h.domain_id, h.number, h.parent_hash, h.consensus_height,
          h.transactions_root, h.state_root, h.receipts_root, h.logs_bloom, h.gas_limit,
          h.gas_used, h.base_fee_per_gas>>)

decode_domain_header(w) ==
    IF exactly(w, DOMAIN_HEADER_TAG, 12)
    THEN [protocol_version |-> w[3], domain_id |-> w[4], number |-> w[5],
          parent_hash |-> w[6], consensus_height |-> w[7], transactions_root |-> w[8],
          state_root |-> w[9], receipts_root |-> w[10], logs_bloom |-> w[11],
          gas_limit |-> w[12], gas_used |-> w[13], base_fee_per_gas |-> w[14]]
    ELSE Malformed

encode_domain_batch(b) ==
    IF /\ Len(b.transactions) <= MAX_TRANSACTIONS_PER_BATCH
       /\ \A t \in ToSet(b.transactions) : Len(t) <= MAX_TRANSACTION_ENVELOPE
    THEN tagged(DOMAIN_BATCH_TAG,
            <<b.domain_id, b.parent_domain_block_hash>> \o put_each(b.transactions))
    ELSE Refused

decode_domain_batch(w) ==
    LET txs == take_each(w, 5, MAX_TRANSACTIONS_PER_BATCH, MAX_TRANSACTION_ENVELOPE)
    IN  IF opens(w, DOMAIN_BATCH_TAG) /\ txs.ok /\ txs.next = Len(w) + 1
        THEN [domain_id |-> w[3], parent_domain_block_hash |-> w[4],
              transactions |-> txs.val]
        ELSE Malformed

-----------------------------------------------------------------------------
\* Mutant: the symbol's limit is left to the decoder.
metadata_fits_unbounded(d) == Len(d.name) <= MAX_NAME /\ d.evm_chain_id # 0

\* The checks that encode_domain_descriptor and encode_domain_genesis begin with.
metadata_fits(d) ==
    Len(d.name) <= MAX_NAME /\ Len(d.symbol) <= MAX_SYMBOL /\ d.evm_chain_id # 0

encode_domain_descriptor(d) ==
    IF metadata_fits(d)
    THEN tagged(DOMAIN_DESCRIPTOR_TAG,
            <<d.domain_id, d.parent_domain_id, d.joint_domain_block_hash, d.create_tx_hash,
              d.origin_hash>> \o put_bytes(d.name) \o put_bytes(d.symbol) \o
            <<d.evm_chain_id, d.owner, d.protocol_revision, d.gas_limit, d.initial_base_fee,
              d.initial_supply, d.creation_deposit, d.status>>)
    ELSE Refused

decode_domain_descriptor(w) ==
    LET name == take_string(w, 8, MAX_NAME)
        symbol == take_string(w, name.next, MAX_SYMBOL)
        p == symbol.next
    IN  IF /\ opens(w, DOMAIN_DESCRIPTOR_TAG) /\ name.ok /\ symbol.ok
           /\ Len(w) = p + 7
           /\ w[p] # 0
           /\ w[p + 7] \in 0 .. 2
        THEN [domain_id |-> w[3], parent_domain_id |-> w[4],
              joint_domain_block_hash |-> w[5], create_tx_hash |-> w[6], origin_hash |-> w[7],
              name |-> name.val, symbol |-> symbol.val, evm_chain_id |-> w[p],
              owner |-> w[p + 1], protocol_revision |-> w[p + 2], gas_limit |-> w[p + 3],
              initial_base_fee |-> w[p + 4], initial_supply |-> w[p + 5],
              creation_deposit |-> w[p + 6], status |-> w[p + 7]]
        ELSE Malformed

encode_domain_genesis(g) ==
    IF metadata_fits(g)
    THEN tagged(DOMAIN_GENESIS_TAG,
            <<g.domain_id, g.parent_domain_id, g.joint_domain_block_hash, g.create_tx_hash>>
            \o put_bytes(g.name) \o put_bytes(g.symbol) \o
            <<g.evm_chain_id, g.owner, g.protocol_revision, g.gas_limit, g.initial_base_fee,
              g.initial_supply, g.initial_state_root>>)
    ELSE Refused

decode_domain_genesis(w) ==
    LET name == take_string(w, 7, MAX_NAME)
        symbol == take_string(w, name.next, MAX_SYMBOL)
        p == symbol.next
    IN  IF /\ opens(w, DOMAIN_GENESIS_TAG) /\ name.ok /\ symbol.ok
           /\ Len(w) = p + 6
           /\ w[p] # 0
        THEN [domain_id |-> w[3], parent_domain_id |-> w[4],
              joint_domain_block_hash |-> w[5], create_tx_hash |-> w[6],
              name |-> name.val, symbol |-> symbol.val, evm_chain_id |-> w[p],
              owner |-> w[p + 1], protocol_revision |-> w[p + 2], gas_limit |-> w[p + 3],
              initial_base_fee |-> w[p + 4], initial_supply |-> w[p + 5],
              initial_state_root |-> w[p + 6]]
        ELSE Malformed

-----------------------------------------------------------------------------
IdsOf(vs) == [i \in DOMAIN vs |-> vs[i].id]

encode_validator_set(s) ==
    LET vs == s.validators
    IN  IF /\ Len(vs) \in 1 .. MAX_ACTIVE_VALIDATORS
           /\ check_strictly_sorted(IdsOf(vs))
           /\ \A v \in ToSet(vs) : v.power # 0
        THEN tagged(VALIDATOR_SET_TAG, <<s.epoch, Len(vs)>> \o
                FlattenSeq([i \in DOMAIN vs |-> <<vs[i].id, vs[i].public_key, vs[i].power>>]))
        ELSE Refused

decode_validator_set(w) ==
    LET vs == [i \in 1 .. w[4] |-> [id |-> w[2 + 3 * i], public_key |-> w[3 + 3 * i],
                                    power |-> w[4 + 3 * i]]]
    IN  IF /\ opens(w, VALIDATOR_SET_TAG)
           /\ Len(w) >= 4 /\ w[4] \in 1 .. MAX_ACTIVE_VALIDATORS
           /\ Len(w) = 4 + 3 * w[4]
           /\ check_strictly_sorted(IdsOf(vs))
           /\ \A v \in ToSet(vs) : v.power # 0
        THEN [epoch |-> w[3], validators |-> vs]
        ELSE Malformed

encode_vote(v) ==
    IF v.phase # 0
    THEN tagged(VOTE_TAG, <<v.network_id, v.height, v.round, v.phase, v.block_hash,
                            v.validator_id>>)
    ELSE Refused

decode_vote(w) ==
    IF exactly(w, VOTE_TAG, 6) /\ w[6] # 0
    THEN [network_id |-> w[3], height |-> w[4], round |-> w[5], phase |-> w[6],
          block_hash |-> w[7], validator_id |-> w[8]]
    ELSE Malformed

encode_quorum_certificate(c) ==
    LET sigs == c.signatures
    IN  IF /\ c.phase # 0
           /\ Len(sigs) \in 1 .. MAX_ACTIVE_VALIDATORS
           /\ check_strictly_sorted(IdsOf(sigs))
        THEN tagged(QC_TAG,
                <<c.network_id, c.height, c.round, c.phase, c.block_hash, Len(sigs)>> \o
                FlattenSeq([i \in DOMAIN sigs |-> <<sigs[i].id, sigs[i].signature>>]))
        ELSE Refused

decode_quorum_certificate(w) ==
    LET sigs == [i \in 1 .. w[8] |-> [id |-> w[7 + 2 * i], signature |-> w[8 + 2 * i]]]
    IN  IF /\ opens(w, QC_TAG)
           /\ Len(w) >= 8 /\ w[6] # 0 /\ w[8] \in 1 .. MAX_ACTIVE_VALIDATORS
           /\ Len(w) = 8 + 2 * w[8]
           /\ check_strictly_sorted(IdsOf(sigs))
        THEN [network_id |-> w[3], height |-> w[4], round |-> w[5], phase |-> w[6],
              block_hash |-> w[7], signatures |-> sigs]
        ELSE Malformed
=============================================================================
