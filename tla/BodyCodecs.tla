------------------------------ MODULE BodyCodecs ------------------------------
(***************************************************************************)
(* The framings that carry canonical objects: block bodies (arbor-chain),  *)
(* stored checkpoints (arbor-consensus), checkpoint manifests and gossip   *)
(* (arbor-network), snapshot manifests (arbor-state) and the records that  *)
(* arbor-storage keeps.  An object inside a framing is a length and its    *)
(* bytes.                                                                  *)
(***************************************************************************)
EXTENDS EnvelopeCodec

CONSTANTS
    MAX_CONSENSUS_BLOCK, MAX_BATCHES_PER_BLOCK,
    MAX_CHECKPOINT_METADATA, MAX_STORED_DOMAINS,
    MAX_DIRECT_REQUEST, MAX_CHECKPOINT_DOMAINS, MAX_FINALITY_PROOF,
    MAX_SNAPSHOT_CHUNKS, MAX_CHUNK_BYTES, SMT_DEPTH

BLOCK_BODY_TAG == -11
STORED_CHECKPOINT_TAG == -12
CHECKPOINT_TAG == -13
SNAPSHOT_TAG == -14
GOSSIP_TRANSACTION == 1
GOSSIP_FINALIZED == 2

Unlimited == 1000          \* longer than any input

NoDescriptor == [absent |-> TRUE]

\* Stands for keccak256: a number made from the bytes.
Digest(bytes) == FoldLeft(LAMBDA h, u : (31 * h + u + 500) % 65521, 7, bytes)

Each(seq, Op(_)) == [i \in DOMAIN seq |-> Op(seq[i])]

\* The readers of length-prefixed fields: a block body's stops at the canonical limit, the
\* cursors over checkpoint metadata and checkpoint manifests at the end of the input.
body_bytes(w, p) == take_bytes(w, p, MAX_CANONICAL_OBJECT)

checkpoint_bytes(w, p) == take_bytes(w, p, Unlimited)

manifest_bytes(w, p) == take_bytes(w, p, Unlimited)

-----------------------------------------------------------------------------
\* A block body binds its header to the ordered batches and results.
encode_consensus_block(block) ==
    LET batches == Each(block.batches, encode_domain_batch)
        results == Each(block.domain_blocks, encode_domain_header)
        out == <<BLOCK_BODY_TAG, CANONICAL_CODEC_VERSION>>
               \o put_bytes(encode_consensus_header(block.header))
               \o put_each(batches) \o put_each(results)
    IN  IF /\ Len(block.batches) = Len(block.domain_blocks)
           /\ Refused \notin ToSet(batches) \cup ToSet(results)
           /\ Len(out) <= MAX_CONSENSUS_BLOCK
        THEN out ELSE Refused

decode_consensus_block(w) ==
    LET header == body_bytes(w, 3)
        batches == take_many(w, header.next, MAX_BATCHES_PER_BLOCK, body_bytes)
        results == take_many(w, batches.next, MAX_BATCHES_PER_BLOCK, body_bytes)
        block == [header |-> decode_consensus_header(header.val),
                  batches |-> Each(batches.val, decode_domain_batch),
                  domain_blocks |-> Each(results.val, decode_domain_header)]
    IN  IF /\ Len(w) \in 2 .. MAX_CONSENSUS_BLOCK
           /\ w[1] = BLOCK_BODY_TAG /\ w[2] = CANONICAL_CODEC_VERSION
           /\ header.ok /\ batches.ok /\ results.ok
           /\ Len(batches.val) = Len(results.val)
           /\ results.next = Len(w) + 1
           /\ Malformed \notin {block.header} \cup ToSet(block.batches)
                               \cup ToSet(block.domain_blocks)
        THEN block ELSE Malformed

-----------------------------------------------------------------------------
encode_config(d) ==
    <<d.domain_id, d.config.chain_id, d.config.protocol_revision, d.config.gas_limit,
      d.config.initial_base_fee_per_gas>>

decode_config(w, p) ==
    [chain_id |-> w[p + 1], protocol_revision |-> w[p + 2], gas_limit |-> w[p + 3],
     initial_base_fee_per_gas |-> w[p + 4]]

\* Only a domain created at run time has a descriptor.
encode_descriptor_option(d) ==
    IF d = NoDescriptor THEN <<>> ELSE encode_domain_descriptor(d)

descriptor_encodes(d) == d # NoDescriptor => encode_domain_descriptor(d) # Refused

decode_descriptor_option(bytes) ==
    IF bytes = <<>> THEN NoDescriptor ELSE decode_domain_descriptor(bytes)

\* encode_checkpoint and decode_checkpoint, up to the state that from_persisted loads.
encode_checkpoint(c) ==
    LET entry(d) == encode_config(d) \o put_bytes(encode_domain_header(d.header))
                    \o <<d.block_hash, d.state_root>>
                    \o put_bytes(encode_descriptor_option(d.descriptor))
        out == <<STORED_CHECKPOINT_TAG, 1, c.network_id, c.height, c.consensus_hash,
                 c.timestamp, c.validator_set_hash, c.next_validator_set_hash,
                 c.root_domain_id, c.governance_address, c.domain_heads_root>>
               \o put_bytes(encode_validator_set(c.validator_set))
               \o put_bytes(c.finality_proof)
               \o <<Len(c.domains)>> \o FlattenSeq(Each(c.domains, entry))
    IN  IF /\ encode_validator_set(c.validator_set) # Refused
           /\ \A d \in ToSet(c.domains) : descriptor_encodes(d.descriptor)
           /\ Len(out) <= MAX_CHECKPOINT_METADATA
        THEN out ELSE Refused

take_checkpoint_domain(w, p) ==
    LET header == checkpoint_bytes(w, p + 5)
        h == header.next
        descriptor == checkpoint_bytes(w, h + 2)
        d == [domain_id |-> w[p], config |-> decode_config(w, p),
              header |-> decode_domain_header(header.val),
              block_hash |-> w[h], state_root |-> w[h + 1],
              descriptor |-> decode_descriptor_option(descriptor.val)]
        ok == header.ok /\ descriptor.ok /\ Malformed \notin {d.header, d.descriptor}
    IN  IF ok THEN [ok |-> TRUE, val |-> d, next |-> descriptor.next]
        ELSE [ok |-> FALSE, val |-> Malformed, next |-> Len(w) + 2]

decode_checkpoint(w) ==
    LET set == checkpoint_bytes(w, 12)
        proof == checkpoint_bytes(w, set.next)
        domains == take_many(w, proof.next, MAX_STORED_DOMAINS, take_checkpoint_domain)
    IN  IF /\ Len(w) \in 11 .. MAX_CHECKPOINT_METADATA
           /\ w[1] = STORED_CHECKPOINT_TAG /\ w[2] = 1
           /\ set.ok /\ proof.ok /\ domains.ok
           /\ decode_validator_set(set.val) # Malformed
           /\ domains.val # <<>> /\ domains.next = Len(w) + 1
        THEN [network_id |-> w[3], height |-> w[4], consensus_hash |-> w[5],
              timestamp |-> w[6], validator_set_hash |-> w[7],
              next_validator_set_hash |-> w[8], root_domain_id |-> w[9],
              governance_address |-> w[10], domain_heads_root |-> w[11],
              validator_set |-> decode_validator_set(set.val), finality_proof |-> proof.val,
              domains |-> domains.val]
        ELSE Malformed

-----------------------------------------------------------------------------
\* SnapshotManifest of arbor-state.
validate_manifest(m) ==
    /\ Len(m.chunks) <= MAX_SNAPSHOT_CHUNKS
    /\ \A i \in DOMAIN m.chunks :
          m.chunks[i].index = i - 1 /\ m.chunks[i].bytes \in 1 .. MAX_CHUNK_BYTES

encode_manifest(m) ==
    IF validate_manifest(m)
    THEN <<SNAPSHOT_TAG, 1, m.consensus_height, m.domain_id, m.state_root, Len(m.chunks)>>
         \o FlattenSeq(Each(m.chunks, LAMBDA c : <<c.index, c.bytes, c.hash>>))
    ELSE Refused

decode_manifest(w) ==
    LET m == [consensus_height |-> w[3], domain_id |-> w[4], state_root |-> w[5],
              chunks |-> [i \in 1 .. w[6] |-> [index |-> w[4 + 3 * i], bytes |-> w[5 + 3 * i],
                                               hash |-> w[6 + 3 * i]]]]
    IN  IF /\ Len(w) >= 6 /\ w[1] = SNAPSHOT_TAG /\ w[2] = 1
           /\ w[6] \in 0 .. MAX_SNAPSHOT_CHUNKS
           /\ Len(w) = 6 + 3 * w[6]
           /\ validate_manifest(m)
        THEN m ELSE Malformed

\* The head that a proof shows is <<>>, or a block hash and a state root.
encode_head_proof(proof) ==
    <<proof.root, proof.domain_id, IF proof.value = <<>> THEN 0 ELSE 1>> \o proof.value
    \o <<Len(proof.siblings)>> \o proof.siblings

take_head_proof(w, p) ==
    LET n == IF w[p + 2] = 1 THEN 2 ELSE 0
        end == p + 3 + n + SMT_DEPTH
    IN  IF /\ p + 2 <= Len(w) /\ w[p + 2] \in {0, 1}
           /\ end <= Len(w) /\ w[p + 3 + n] = SMT_DEPTH
        THEN [ok |-> TRUE, next |-> end + 1,
              val |-> [root |-> w[p], domain_id |-> w[p + 1],
                       value |-> SubSeq(w, p + 3, p + 2 + n),
                       siblings |-> SubSeq(w, p + 4 + n, end)]]
        ELSE [ok |-> FALSE, val |-> Malformed, next |-> Len(w) + 2]

\* DomainHeadProof::verify; the tree itself is in MerkleTrees.
proof_verifies(proof) ==
    /\ Len(proof.siblings) = SMT_DEPTH
    /\ proof.root = Digest(<<proof.domain_id>> \o proof.value \o proof.siblings)

validate_domain(m, d) ==
    /\ validate_manifest(d.state)
    /\ d.state.consensus_height = m.height /\ d.state.domain_id = d.domain_id
    /\ d.state.state_root = d.header.state_root /\ d.header.domain_id = d.domain_id
    /\ d.head_proof.root = m.domain_heads_root /\ d.head_proof.domain_id = d.domain_id
    /\ d.head_proof.value = <<d.block_hash, d.header.state_root>>
    /\ proof_verifies(d.head_proof)

validate_shape(m) ==
    /\ m.height # 0
    /\ Len(m.finality_proof) <= MAX_FINALITY_PROOF
    /\ Len(m.domains) \in 1 .. MAX_CHECKPOINT_DOMAINS
    /\ check_strictly_sorted(Each(m.domains, LAMBDA d : d.domain_id))
    /\ encode_validator_set(m.validator_set) # Refused
    /\ Digest(encode_validator_set(m.validator_set)) = m.validator_set_hash
    /\ \A d \in ToSet(m.domains) : validate_domain(m, d)

encode_checkpoint_manifest(m) ==
    LET entry(d) == encode_config(d) \o put_bytes(encode_domain_header(d.header))
                    \o <<d.block_hash>> \o put_bytes(encode_descriptor_option(d.descriptor))
                    \o put_bytes(encode_manifest(d.state)) \o encode_head_proof(d.head_proof)
        out == <<CHECKPOINT_TAG, 1, m.network_id, m.genesis_hash, m.height, m.consensus_hash,
                 m.timestamp, m.validator_set_hash, m.next_validator_set_hash,
                 m.domain_heads_root, m.root_domain_id, m.governance_address>>
               \o put_bytes(encode_validator_set(m.validator_set))
               \o put_bytes(m.finality_proof)
               \o <<Len(m.domains)>> \o FlattenSeq(Each(m.domains, entry))
    IN  IF /\ validate_shape(m)
           /\ \A d \in ToSet(m.domains) : descriptor_encodes(d.descriptor)
           /\ Len(out) <= MAX_DIRECT_REQUEST
        THEN out ELSE Refused

take_manifest_domain(w, p) ==
    LET header == manifest_bytes(w, p + 5)
        h == header.next
        descriptor == manifest_bytes(w, h + 1)
        state == manifest_bytes(w, descriptor.next)
        proof == take_head_proof(w, state.next)
        d == [domain_id |-> w[p], config |-> decode_config(w, p),
              header |-> decode_domain_header(header.val), block_hash |-> w[h],
              descriptor |-> decode_descriptor_option(descriptor.val),
              state |-> decode_manifest(state.val), head_proof |-> proof.val]
        ok == /\ header.ok /\ descriptor.ok /\ state.ok /\ proof.ok
              /\ Malformed \notin {d.header, d.descriptor, d.state}
    IN  IF ok THEN [ok |-> TRUE, val |-> d, next |-> proof.next]
        ELSE [ok |-> FALSE, val |-> Malformed, next |-> Len(w) + 2]

decode_checkpoint_manifest(w) ==
    LET set == manifest_bytes(w, 13)
        proof == manifest_bytes(w, set.next)
        domains == take_many(w, proof.next, MAX_CHECKPOINT_DOMAINS, take_manifest_domain)
        m == [network_id |-> w[3], genesis_hash |-> w[4], height |-> w[5],
              consensus_hash |-> w[6], timestamp |-> w[7], validator_set_hash |-> w[8],
              next_validator_set_hash |-> w[9], domain_heads_root |-> w[10],
              root_domain_id |-> w[11], governance_address |-> w[12],
              validator_set |-> decode_validator_set(set.val),
              finality_proof |-> proof.val, domains |-> domains.val]
    IN  IF /\ Len(w) \in 12 .. MAX_DIRECT_REQUEST
           /\ w[1] = CHECKPOINT_TAG /\ w[2] = 1
           /\ set.ok /\ proof.ok /\ domains.ok
           /\ m.validator_set # Malformed
           /\ domains.next = Len(w) + 1
           /\ validate_shape(m)
        THEN m ELSE Malformed

-----------------------------------------------------------------------------
validate_gossip(m) ==
    IF m.type = "transaction" THEN Len(m.envelope) \in 1 .. MAX_TRANSACTION_ENVELOPE
    ELSE m.height # 0

encode_gossip(m) ==
    IF ~ validate_gossip(m) THEN Refused
    ELSE IF m.type = "transaction"
         THEN <<1, GOSSIP_TRANSACTION, m.domain_id>> \o put_bytes(m.envelope)
         ELSE <<1, GOSSIP_FINALIZED, m.height, m.consensus_hash, m.domain_heads_root>>

\* decode_gossip, and the validate that handle_gossip adds.
decode_gossip(w) ==
    LET m == IF w[2] = GOSSIP_TRANSACTION
             THEN [type |-> "transaction", domain_id |-> w[3], envelope |-> SubSeq(w, 5, Len(w))]
             ELSE [type |-> "finalized", height |-> w[3], consensus_hash |-> w[4],
                   domain_heads_root |-> w[5]]
    IN  IF /\ Len(w) >= 2 /\ w[1] = 1
           /\ \/ w[2] = GOSSIP_TRANSACTION /\ Len(w) >= 4 /\ Len(w) = 4 + w[4]
              \/ w[2] = GOSSIP_FINALIZED /\ Len(w) = 5
           /\ validate_gossip(m)
        THEN m ELSE Malformed

\* ReachabilityManifest of arbor-storage.
encode_reachability(m) ==
    <<Len(m.node_hashes)>> \o m.node_hashes \o <<Len(m.leaf_keys)>> \o m.leaf_keys

\* A count and as many hashes.
take_hashes(w, p) ==
    IF p <= Len(w) /\ w[p] >= 0 /\ p + w[p] <= Len(w)
    THEN [ok |-> TRUE, val |-> SubSeq(w, p + 1, p + w[p]), next |-> p + w[p] + 1]
    ELSE [ok |-> FALSE, val |-> <<>>, next |-> Len(w) + 2]

decode_reachability(w) ==
    LET nodes == take_hashes(w, 1)
        leaves == take_hashes(w, nodes.next)
    IN  IF /\ nodes.ok /\ leaves.ok /\ leaves.next = Len(w) + 1
           /\ check_strictly_sorted(nodes.val) /\ check_strictly_sorted(leaves.val)
        THEN [node_hashes |-> nodes.val, leaf_keys |-> leaves.val] ELSE Malformed

encode_marker(m) == <<m.height, m.consensus_hash, m.domain_heads_root>>

decode_marker(w) ==
    IF Len(w) = 3 THEN [height |-> w[1], consensus_hash |-> w[2], domain_heads_root |-> w[3]]
    ELSE Malformed
=============================================================================
