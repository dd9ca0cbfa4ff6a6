-------------------------------- MODULE Codecs --------------------------------
(***************************************************************************)
(* One encoding on its way to a decoder: an object is encoded, its bytes   *)
(* may be changed by whoever stores or carries them, and any decoder may   *)
(* be given the result.                                                    *)
(***************************************************************************)
EXTENDS BodyCodecs

CONSTANTS
    Sample,         \* the objects of every kind, among them some that encoders refuse
    Unit,           \* what a unit may be changed to
    MaxEdits,       \* changes made to one string
    LongWire        \* a string longer than this is changed once

Kind == {"consensus_header", "domain_header", "domain_batch", "descriptor", "genesis",
         "validator_set", "vote", "certificate", "block", "stored_checkpoint", "checkpoint",
         "snapshot_manifest", "eip1559", "receipt", "create_chain", "refund", "burn",
         "gossip", "reachability", "marker"}

\* Objects that are hashed or stored under a tag of their own.
TaggedKind == {"consensus_header", "domain_header", "domain_batch", "descriptor", "genesis",
               "validator_set", "vote", "certificate", "block", "stored_checkpoint",
               "checkpoint", "snapshot_manifest"}

\* arbor-system's call data, of which the first unit is the selector.
CallKind == {"create_chain", "refund", "burn"}

VARIABLES kind, value, wire, edits

codec_vars == <<kind, value, wire, edits>>

Encode(k, v) ==
    CASE k = "consensus_header" -> encode_consensus_header(v)
      [] k = "domain_header" -> encode_domain_header(v)
      [] k = "domain_batch" -> encode_domain_batch(v)
      [] k = "descriptor" -> encode_domain_descriptor(v)
      [] k = "genesis" -> encode_domain_genesis(v)
      [] k = "validator_set" -> encode_validator_set(v)
      [] k = "vote" -> encode_vote(v)
      [] k = "certificate" -> encode_quorum_certificate(v)
      [] k = "block" -> encode_consensus_block(v)
      [] k = "stored_checkpoint" -> encode_checkpoint(v)
      [] k = "checkpoint" -> encode_checkpoint_manifest(v)
      [] k = "snapshot_manifest" -> encode_manifest(v)
      [] k = "eip1559" -> encode_eip1559(v)
      [] k = "receipt" -> encode_eip1559_receipt(v)
      [] k = "create_chain" -> encode_create_chain_call(v)
      [] k = "refund" -> encode_domain_id_call(REFUND_DEPOSIT_SELECTOR, v)
      [] k = "burn" -> encode_domain_id_call(BURN_DEPOSIT_SELECTOR, v)
      [] k = "gossip" -> encode_gossip(v)
      [] k = "reachability" -> encode_reachability(v)
      [] k = "marker" -> encode_marker(v)

Decode(k, w) ==
    CASE k = "consensus_header" -> decode_consensus_header(w)
      [] k = "domain_header" -> decode_domain_header(w)
      [] k = "domain_batch" -> decode_domain_batch(w)
      [] k = "descriptor" -> decode_domain_descriptor(w)
      [] k = "genesis" -> decode_domain_genesis(w)
      [] k = "validator_set" -> decode_validator_set(w)
      [] k = "vote" -> decode_vote(w)
      [] k = "certificate" -> decode_quorum_certificate(w)
      [] k = "block" -> decode_consensus_block(w)
      [] k = "stored_checkpoint" -> decode_checkpoint(w)
      [] k = "checkpoint" -> decode_checkpoint_manifest(w)
      [] k = "snapshot_manifest" -> decode_manifest(w)
      [] k = "eip1559" -> decode_eip1559(w)
      [] k = "receipt" -> decode_eip1559_receipt(w)
      [] k = "create_chain" -> decode_create_chain_call(w)
      [] k = "refund" -> decode_domain_id_call(w, REFUND_DEPOSIT_SELECTOR)
      [] k = "burn" -> decode_domain_id_call(w, BURN_DEPOSIT_SELECTOR)
      [] k = "gossip" -> decode_gossip(w)
      [] k = "reachability" -> decode_reachability(w)
      [] k = "marker" -> decode_marker(w)

\* What every decoder makes of a string.
ReadAs(w) == [k \in Kind |-> Decode(k, w)]

-----------------------------------------------------------------------------
CodecInit ==
    /\ kind \in Kind
    /\ value \in Sample[kind]
    /\ wire = Encode(kind, value)
    /\ edits = 0

Changeable == edits < IF Len(wire) > LongWire THEN 1 ELSE MaxEdits

Changed(w) == wire' = w /\ edits' = edits + 1 /\ UNCHANGED <<kind, value>>

Replace(i, u) == Changeable /\ Changed([wire EXCEPT ![i] = u])

Drop(i) == Changeable /\ Changed(RemoveAt(wire, i))

Insert(i, u) == Changeable /\ Changed(InsertAt(wire, i, u))

Transit ==
    /\ wire # Refused
    /\ \/ \E i \in 1 .. Len(wire), u \in Unit \cup ToSet(wire) : Replace(i, u)
       \/ \E i \in 1 .. Len(wire) : Drop(i)
       \/ \E i \in 1 .. Len(wire) + 1, u \in Unit : Insert(i, u)

-----------------------------------------------------------------------------
\* encode_consensus_block counts bytes and leaves the number of batches to `execute`, which
\* refuses such a block before it is encoded.
TooManyBatches == kind = "block" /\ Len(value.batches) > MAX_BATCHES_PER_BLOCK

\* Every object that an encoder accepts is read back by its decoder as it was, the metadata of
\* a createChain call in its normal form: what the encoder lets pass, its decoder lets pass, so
\* that nothing is written that a restarted node or a peer cannot read.  The one exception is a
\* block of more than MAX_BATCHES_PER_BLOCK batches, which only its decoder refuses.
EncodingsReadBack ==
    edits = 0 /\ wire # Refused =>
        Decode(kind, wire) =
            CASE kind = "create_chain" ->
                    [value EXCEPT !.name = normalize_name(@), !.symbol = normalize_symbol(@)]
              [] TooManyBatches -> Malformed
              [] OTHER -> value

\* "Decodes one exact ...": whatever bytes arrive, a decoder accepts only the one encoding of
\* what it returns, so that two different byte strings never stand for one object and a hash of
\* the bytes is a hash of the object.  createChain alone normalises, only once, and nothing but
\* spaces and small letters.  No string is an object of two tagged kinds or of two calls, and
\* what is signed is not an envelope.
EncodingsCanonical ==
    \A read \in {ReadAs(wire)} :
        /\ \A k \in {l \in Kind : read[l] # Malformed} :
              \/ Encode(k, read[k]) = wire
              \/ /\ k = "create_chain" /\ {Space, SmallLetter} \cap ToSet(wire) # {}
                 /\ decode_create_chain_call(encode_create_chain_call(read[k])) = read[k]
        /\ \A family \in {TaggedKind, CallKind, {"eip1559", "receipt"}} :
              \A k, l \in family : Malformed \notin {read[k], read[l]} => k = l
        /\ read["eip1559"] # Malformed =>
              decode_eip1559(encode_eip1559_signing_payload(read["eip1559"])) = Malformed
=============================================================================
