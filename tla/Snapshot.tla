------------------------------ MODULE Snapshot ------------------------------
(***************************************************************************)
(* arbor-network: state snapshots.  A producer packs the trie nodes and    *)
(* the contract code of every domain into chunks, and a height-zero node   *)
(* stages them in any order and rebuilds the state.                        *)
(*                                                                         *)
(* Hashing is injective: a state root is the map of accounts, a chunk hash *)
(* the chunk.  An account is a contract with its code; its trie node is    *)
(* one record.  Execution follows Shanghai: a self-destructed account is   *)
(* removed.  A restarted producer executes its blocks again, and holds the *)
(* same code as before.                                                    *)
(***************************************************************************)
EXTENDS Integers, Sequences, FiniteSets, SequencesExt, FiniteSetsExt, TLC

CONSTANTS Domain, Contract, Code, NoAccount, Damaged, NoBundle,
          record_len(_),               \* length of a record's bytes, by its hash
          MAX_SNAPSHOT_CHUNK_BYTES, CHUNK_FIXED_BYTES, CHUNK_RECORD_FIXED_BYTES,
          MAX_CHUNKS_PER_DOMAIN, MAX_SNAPSHOT_TOTAL_BYTES,
          MaxDeploys, MaxBundles

ASSUME SnapshotAssumption ==
    /\ NoAccount \notin Code
    /\ CHUNK_FIXED_BYTES + CHUNK_RECORD_FIXED_BYTES <= MAX_SNAPSHOT_CHUNK_BYTES

VARIABLES accounts,       \* the finalized account state of every domain of the producer
          contract_code,  \* ExecutionState::contract_code of every domain
          deploys,
          produced,       \* the bundles made so far
          staging,        \* the bundle being downloaded, its staged chunks and their bytes
          imported        \* the outcome of finish

vars == <<accounts, contract_code, deploys, produced, staging, imported>>

-----------------------------------------------------------------------------
Existing(root) == {c \in Contract : root[c] # NoAccount}

referenced(root) == {root[c] : c \in Existing(root)}

\* The records of a state: its nodes and then the code, each in the order of its map.
node_records(root) == {[kind |-> "node", hash |-> <<c, root[c]>>] : c \in Existing(root)}
code_records(code) == {[kind |-> "code", hash |-> <<x>>] : x \in code}
records(root, code) == SetToSeq(node_records(root)) \o SetToSeq(code_records(code))

record_size(record) == CHUNK_RECORD_FIXED_BYTES + record_len(record.hash)

chunk_size(recs) ==
    CHUNK_FIXED_BYTES + FoldLeft(LAMBDA n, r : n + record_size(r), 0, recs)

\* How many records from the front of `recs` go into the next chunk.
fitting(recs) ==
    Max({n \in 0 .. Len(recs) : chunk_size(SubSeq(recs, 1, n)) <= MAX_SNAPSHOT_CHUNK_BYTES})

RECURSIVE pack(_)
pack(recs) ==
    IF fitting(recs) >= Len(recs) THEN <<recs>>
    ELSE LET n == fitting(recs) IN <<SubSeq(recs, 1, n)>> \o pack(SubSeq(recs, n + 1, Len(recs)))

\* encode_state_chunks fails on a record that fits no chunk and on too many chunks.
encodable(recs) ==
    /\ \A i \in 1 .. Len(recs) : chunk_size(<<recs[i]>>) <= MAX_SNAPSHOT_CHUNK_BYTES
    /\ Len(pack(recs)) <= MAX_CHUNKS_PER_DOMAIN

encode_state_chunks(d, root, code) ==
    LET packed == pack(records(root, code))
    IN  [i \in 1 .. Len(packed) |-> [domain |-> d, index |-> i, records |-> packed[i]]]

\* SnapshotBundle: the manifest's roots and, for every domain, its chunks, whose hashes
\* and lengths the manifest lists.
produce ==
    [roots  |-> accounts,
     chunks |-> [d \in Domain |-> encode_state_chunks(d, accounts[d], contract_code[d])]]

Chunks(bundle) == UNION {Range(bundle.chunks[d]) : d \in Domain}

-----------------------------------------------------------------------------
NoStaging == [bundle |-> NoBundle, chunks |-> <<>>, staged_bytes |-> 0]

Init ==
    /\ accounts = [d \in Domain |-> [c \in Contract |-> NoAccount]]
    /\ contract_code = [d \in Domain |-> {}]
    /\ deploys = 0
    /\ produced = {}
    /\ staging = NoStaging
    /\ imported = "no"

\* apply_changes for a contract creation, and for a self-destruct.
Deploy(d, c, x) ==
    /\ deploys < MaxDeploys
    /\ accounts[d][c] = NoAccount
    /\ accounts' = [accounts EXCEPT ![d][c] = x]
    /\ contract_code' = [contract_code EXCEPT ![d] = @ \cup {x}]
    /\ deploys' = deploys + 1
    /\ UNCHANGED <<produced, staging, imported>>

SelfDestruct(d, c) ==
    /\ accounts[d][c] # NoAccount
    /\ accounts' = [accounts EXCEPT ![d][c] = NoAccount]
    /\ UNCHANGED <<contract_code, deploys, produced, staging, imported>>

Produce ==
    /\ Cardinality(produced) < MaxBundles
    /\ \A d \in Domain : encodable(records(accounts[d], contract_code[d]))
    /\ produced' = produced \cup {produce}
    /\ UNCHANGED <<accounts, contract_code, deploys, staging, imported>>

\* SnapshotStaging::new on the manifest of a bundle, for a first download, in the place of one
\* that was dropped, or for another height-zero node.
Begin(bundle) ==
    /\ staging' = [NoStaging EXCEPT !.bundle = bundle]
    /\ imported' = "no"
    /\ UNCHANGED <<accounts, contract_code, deploys, produced>>

\* The declared hash and length.
verify_chunk(d, index, chunk) == chunk = staging.bundle.chunks[d][index]

\* Mutant: the bytes of a replaced chunk are counted again.
stage_chunk_twice(d, index, chunk) ==
    /\ staging.bundle # NoBundle
    /\ index \in DOMAIN staging.bundle.chunks[d]
    /\ verify_chunk(d, index, chunk)
    /\ LET total == staging.staged_bytes + chunk_size(chunk.records)
       IN  /\ total <= MAX_SNAPSHOT_TOTAL_BYTES
           /\ staging' = [staging EXCEPT !.chunks = (<<d, index>> :> chunk) @@ @,
                                         !.staged_bytes = total]
    /\ UNCHANGED <<accounts, contract_code, deploys, produced, imported>>

\* stage_chunk for the chunk a peer sends for (d, index).  A repeated chunk, a refused one
\* and one that would exceed the total change nothing.
stage_chunk(d, index, chunk) ==
    /\ staging.bundle # NoBundle
    /\ index \in DOMAIN staging.bundle.chunks[d]
    /\ verify_chunk(d, index, chunk)
    /\ <<d, index>> \notin DOMAIN staging.chunks
    /\ LET total == staging.staged_bytes + chunk_size(chunk.records)
       IN  /\ total <= MAX_SNAPSHOT_TOTAL_BYTES
           /\ staging' = [staging EXCEPT !.chunks = (<<d, index>> :> chunk) @@ @,
                                         !.staged_bytes = total]
    /\ UNCHANGED <<accounts, contract_code, deploys, produced, imported>>

expected(bundle) == UNION {{<<d, i>> : i \in DOMAIN bundle.chunks[d]} : d \in Domain}

is_complete == Cardinality(DOMAIN staging.chunks) = Cardinality(expected(staging.bundle))

StagedFor(d) == {key \in DOMAIN staging.chunks : key[1] = d}

\* The records decode_state_chunk collects for a domain.
decoded(d) == UNION {Range(staging.chunks[key].records) : key \in StagedFor(d)}

\* decode_state_chunk accepts every chunk: each is the one its key says, and no record comes
\* twice.
decode_state_chunk(d) ==
    /\ \A key \in StagedFor(d) :
          staging.chunks[key].domain = d /\ staging.chunks[key].index = key[2]
    /\ Cardinality(decoded(d)) =
          MapThenSumSet(LAMBDA key : Len(staging.chunks[key].records), StagedFor(d))

\* Mutant: records the root does not refer to are left over.
rebuilt_unchecked(d) ==
    LET root == staging.bundle.roots[d]
    IN  /\ decode_state_chunk(d)
        /\ node_records(root) \cup code_records(referenced(root)) \subseteq decoded(d)

\* The state of a domain is rebuilt: from_persisted finds every node and every code the root
\* refers to, and no code is left over.
rebuilt(d) ==
    LET root == staging.bundle.roots[d]
    IN  /\ decode_state_chunk(d)
        /\ node_records(root) \subseteq decoded(d)
        /\ {r \in decoded(d) : r.kind = "code"} = code_records(referenced(root))

finish ==
    /\ staging.bundle # NoBundle /\ imported = "no"
    /\ is_complete
    /\ imported' = IF \A d \in Domain : rebuilt(d) THEN "state" ELSE "error"
    /\ UNCHANGED <<accounts, contract_code, deploys, produced, staging>>

Next ==
    \/ \E d \in Domain, c \in Contract, x \in Code : Deploy(d, c, x)
    \/ \E d \in Domain, c \in Contract : SelfDestruct(d, c)
    \/ Produce
    \/ \E bundle \in produced : Begin(bundle)
    \/ \E d \in Domain, bundle \in produced :
          \E chunk \in Chunks(bundle) \cup {Damaged} :
             \E index \in 1 .. MAX_CHUNKS_PER_DOMAIN : stage_chunk(d, index, chunk)
    \/ finish

Spec == Init /\ [][Next]_vars

-----------------------------------------------------------------------------
\* stage_chunk accounts every chunk once however often and in whatever order it arrives, so
\* that a download within MAX_SNAPSHOT_TOTAL_BYTES is never refused a chunk for its size.
StagedBytesExact ==
    staging.bundle # NoBundle =>
        staging.staged_bytes =
            MapThenSumSet(LAMBDA key : chunk_size(staging.chunks[key].records),
                          DOMAIN staging.chunks)

\* finish publishes a state only when the staged records are exactly the nodes and the code
\* of the manifest's roots, whatever chunks of other bundles, other domains or damaged ones
\* arrived on the way.
ImportIsSource ==
    imported = "state" =>
        \A d \in Domain :
            decoded(d) = node_records(staging.bundle.roots[d])
                            \cup code_records(referenced(staging.bundle.roots[d]))

\* finish refuses a complete download for one reason only: the producer held code that no
\* account of the checkpoint refers to.  No order or mixture of chunks can spoil a download.
RefusedOnlyForDeadCode ==
    imported = "error" =>
        \E d \in Domain :
            code_records(referenced(staging.bundle.roots[d]))
                # UNION {{r \in Range(chunk.records) : r.kind = "code"} :
                            chunk \in Range(staging.bundle.chunks[d])}

\* finish tells good downloads from bad ones: what it publishes is the producer's state, and
\* what it refuses had dead code in it from the start.
FinishExact == ImportIsSource /\ RefusedOnlyForDeadCode
=============================================================================
