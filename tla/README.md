# Verification of Arbor

TLA+ models of Arbor, the configurations that model-check them with TLC, and
proofs checked by TLAPS. Arbor is a node for one consensus log shared by many
EVM domains. The repository has a single-validator development engine, a network
of listeners that sync from it, and the state, storage and system-contract code
below both. The models follow the code under `src/crates` and the consensus spike
under `src/spikes`; `PROJECT.json` says for every definition which lines it stands
for, lists the hazards the properties are aimed at, and names every run, mutant and
theorem.

A property is checked by the run of its configuration: `tlc -config X.cfg M`, where
`PROJECT.json` names the module `M` of each configuration. The proofs are in the modules whose
names end in `Proofs`; `tlapm XProofs.tla` checks one, which takes from one to seven minutes.
Leaves that Zenon proves name it, because translating a leaf for the SMT solver takes longer
the more a module has stated.

## 1. The system

| Part | Code | State | Operations |
|---|---|---|---|
| Mempool | `arbor-mempool` | entries by domain, sender and nonce; per-sender counters; chain-ID routes | register, insert, reserve, restore, advance nonce |
| Storage | `arbor-storage` | marker, heads, roots with manifests, trie nodes, flat cache | atomic commit, retention pass, crash |
| Engine | `arbor-consensus` | finalized state, mempool, pending proposal, cursor; the database | open, submit, build, abandon, commit, import block, import checkpoint, crash |
| Scheduler | `select_transactions` | cursor | one selection for each block |
| Chain state | `arbor-chain` | finalized domains, heads, descriptors | build and validate a proposal, next base fee, result proofs |
| ChainRegistry | `arbor-system`, `arbor-evm`, `arbor-executor` | registry storage and balances | createChain, refundDeposit, burnDeposit |
| State commitments | `arbor-state`, `arbor-chain` | trie nodes, overlay, domain heads map, result tree | commit, root, prove, verify |
| Snapshots | `arbor-network/src/snapshot.rs` | bundle, staging | produce, stage chunk, finish |
| Sessions | `arbor-network/src/service.rs` | connections, authenticated peers, scores, requests | connect, handshake, request, respond, time out, restart |
| Sync | `arbor-network/src/sync.rs`, `arbor-node/src/networked.rs` | pending actions, downloads | tick, events, header and body import |
| Encodings | `arbor-codec`, and the framings of `arbor-chain`, `arbor-consensus`, `arbor-network`, `arbor-state`, `arbor-storage`, `arbor-system` | none | an encoder and a decoder for each kind of object |
| Data directory | `arbor-cli`, `arbor-node/src/config.rs`, `arbor-network/src/identity.rs` | configuration, database lock, peer key | `node init`, `node run`, creating and loading the key |
| Supervision | `arbor-node/src/supervisor.rs`, `shutdown.rs` | tasks, signal, grace period | join, cancel, abort |
| Vote store | `spikes/consensus` | safety record, its temporary file, what is on the disk | persist before vote, release, restart |

How they interact. A transaction enters the mempool; the engine selects some, takes
them out, executes them on a copy of the finalized state, and either gives them back
or commits the block. The commit is one database transaction, after which memory and
the listeners are told. Blocks also come from peers; a new node first imports a
snapshot. Root transactions may create domains through the registry, whose storage
and the chain state must keep describing the same domains.

What makes it hard: a crash between the transaction and its publication, or between two
prune transactions; a proposal pending while the pool, the chain or the peers move on;
messages on different streams overtaking each other; connections that one end has
forgotten; scores that a timeout lowers while a request is being prepared; two
syncs at once; rounding, padding and packing at their boundaries; a decoder that accepts
more than its encoder writes, or less; commands that share a directory and are killed
halfway; a vote that is on its way to the disk when the power fails.

## 2. Modules

| Module | Models | Theorems in |
|---|---|---|
| `MempoolOps` | the pool's methods as operators on a pool value | |
| `Mempool` | one pool with one outstanding reservation | `LedgerProofs`, `RecoveryProofs` |
| `Storage` | the database with retention step by step | `NodeProofs` |
| `ChainOps` | execution and validation of blocks, as values | |
| `SchedulerOps` | `select_transactions`, and the limits of a block | |
| `Scheduler` | selection over blocks with transactions arriving at will | |
| `EngineOps` | the engine's database and its operations as values; composes `MempoolOps`, `ChainOps`, `SchedulerOps` | `LedgerProofs`, `ChainProofs` |
| `Engine` | the engine over its database and another node | `EngineProofs`, `RecoveryProofs` |
| `FinalizedLog` | what the engine promises: an append-only durable log with announcements | refined by `Engine`, in `EngineProofs` |
| `PeerPolicy` | scores and dispositions | |
| `Sessions` | both ends of the network service of two nodes | `NodeProofs` |
| `SyncOps` | request choice, serving, and the header and body checks | |
| `BlockSync` | one node and any answers to it | `NetworkProofs` |
| `NodeSync` | a listener's event loop against producing peers | `NetworkProofs`, `NodeSyncProofs` |
| `ChainRegistry` | registry calls inside proposals, and the chain state that follows | `DomainProofs` |
| `FeeMarket` | the base fee of one domain | `DomainProofs` |
| `Trie`, `MerkleTrees` | the state trie, the tree of domain heads and the tree of results, with their proofs, as operators | |
| `Commitments` | blocks that change state, heads and results together | |
| `Snapshot` | contract code over time, bundles and staging | |
| `CanonicalCodec`, `EnvelopeCodec`, `BodyCodecs` | encoders and decoders as operators: canonical objects; EIP-1559 envelopes, receipts and registry calls; the framings that carry them | |
| `Codecs` | one string on its way from an encoder to any decoder, changed in transit | |
| `VoteStore` | validators that store a vote before they sign it, over failing files, stops and losses of power | `NodeProofs` |
| `DataDirectory` | overlapping commands on one data directory | `NodeProofs` |
| `Supervisor` | the tasks of a node and the loop that joins them | `NodeProofs` |

Each `MC` module instantiates the module it names. Three of them put together parts that share no
state: `MCNetwork` has `Sessions` and `BlockSync`, `MCFunctions` has `FeeMarket` and `Codecs`, and
`MCProcess` has `VoteStore`, `DataDirectory` and `Supervisor`. A behaviour of such a module is about
one of its parts, chosen in the initial state, and leaves the others alone; the parts do not
interact there. Operators and actions keep the names
of the Rust functions; names of actions that stand for something outside the function
(`Crash`, `Disconnect`, `PeerFinalizes`) are capitalised. A definition that says "Mutant" above it is a
plausible wrong version of the next one; it is used by no specification and shows,
substituted for the right one, that a property can fail.

### How state and actions correspond to the code

* **Mempool.** `pool` is `MempoolIndex`: `entries`, `sender_counts`, `chain_ids` and
  `used_chain_ids`. `reserved` is what the caller of `reserve_hashes` holds. An envelope
  is a record of the fields insertion looks at; its hash is the envelope itself. `Finalize`
  drops what is reserved, `Restore` puts it back.
* **Storage.** A state root stands for its trie; `NodesOf` and `LeavesOf` give the nodes and
  leaves, and roots overlap. `commit` writes everything in one step. `retaining` is the
  rest of the pass of `apply_retention`; each `prune_root` is its own transaction, and a
  `Crash` drops the rest.
* **Engine.** `engine` is the value of `SingleValidatorEngine` or `Down`; `disk` is the
  database. Every method takes `&mut self`, so one call is one step, except that a process
  can stop after the database transaction and before the rest (`Durable`). `Open` is
  `open_with_history` with the replay of every block. The consensus hash of a state is the
  sequence of its blocks, so that equal hashes are equal histories. `peer` is another
  development node that serves blocks and checkpoints.
* **Scheduler.** Entries have a sender, a nonce, a gas limit, the gas they use, a size, and whether they
  execute; `select_transactions` is the loop of the code with its early exits, `within_limits` what
  `ChainMachine::execute` checks afterwards. `BuildFails` is a block that execution refuses: the engine puts
  the transactions back and the error ends the node (`ended`). `skipped` counts the blocks in a row
  that passed over a ready domain.
* **Sessions.** Requests and answers are a set, so they overtake each other. `stale` is the
  set of nodes that still count a connection the other end has closed. `Restart` forgets
  one node's state and may change its genesis. `RespondFails` is an answer to a request whose connection
  is gone: the error ends that node.
* **BlockSync / NodeSync.** `SyncOps` has `next_request`, the server's pages, `verify_response` and
  `import_response`. `BlockSync` feeds it all answers of up to three items over
  a tree of headers (`Headers`), damaged in any one respect. `NodeSync` takes the answers to be honest and
  has everything else: the tick, gossip, connections that either end dials, both handshakes, requests
  the node serves, timeouts, disconnections, failed dials, pings and answers, snapshot downloads, evictions
  and refusals at the peer. An error that reaches `?` in `run_dev_node` ends it, and `stopped` is that
  error. `crossed` and `refused` are history: whose download a failed dial or handshake has
  dropped, and who has refused a chunk.
* **ChainRegistry.** `state` is the root state of the proposal being executed: balances and the
  registry's slots, one map for each slot tag. A call that reverts changes nothing and is
  no step. `Finalize` moves heads and inserts the created domains; `Discard` drops a proposal. `Donate` and `Pay` are
  ordinary transfers to the registry and to the zero address, where burned deposits go too; `given` counts
  the latter.
* **FeeMarket.** `next_base_fee` with saturating 128-bit products; the block is refused when the
  fee exceeds the 64-bit field.
* **Commitments.** `execute` is one block: it runs the batches of some domains, writes leaves of
  the root domain's state, creates domains and collects the results. A trie node is a value and
  its hash is the node; a node has a length, which decides whether its parent embeds it. The
  invariants read every snapshot back from a store that lost nothing or any one node. Roots are
  compared with definitions of the full and of the padded tree that share no shortcut with
  the code; proofs are also put together from the parent block's siblings. `state_proof` ends with the
  verification of its own proof, as the code does; `verify_proof` stands for alloy-trie's.
* **Snapshot.** Accounts refer to code; a self-destruct removes the account and leaves the code.
  `produce` packs records into chunks; `stage_chunk` takes any chunk for any index.
* **Codecs.** `Encode` and `Decode` name the pair of functions of each of twenty kinds. A string is a
  sequence of units; a field of fixed width, a length, a count, a tag and one byte of a variable field
  are one unit each. Limits, orders, counts and the end of the input are as in the code. `Transit`
  replaces, drops or inserts a unit, and the invariants give the result to every decoder. That a cut
  inside a field shifts the bytes of the next one is not represented.
* **VoteStore.** One action for each call that `persist_before_vote` makes to the file system. `path`
  is the record as the running system sees it, `durable` the set of records a loss of power
  may leave: after a rename the old and the new one, and a torn one if the file was not synced. `open_blind` is an
  `open` whose `path.exists()` fails and is taken for "no"; `blind` has the validators it happened to.
* **DataDirectory.** One action for each step of a command that another one can see: the truncation
  and the writing of `config.toml`, opening the database, creating and writing `peer.key`. `stop` kills
  a command anywhere. The file system itself does not fail, so what is shown of the key holds for
  processes that stop and not for a machine that does.
* **Supervisor.** `run_phase` is the place in `run`: the select, the drain, returned. Tasks end by
  themselves in any way, stop after the signal, or ignore it (`Stubborn`) until the grace period ends.

Abstractions common to all modules: a hash is what it is the hash of, so hashing is injective;
a signature names its sender; payloads, names, receipts, logs and, outside the codecs, byte
formats are left out unless a property depends on them. Integers are mathematical except where the code saturates
or refuses (`FeeMarket`, peer scores, replacement prices).

## 3. What the runs check

| Run (configuration) | Properties | What it shows |
|---|---|---|
| `mempool` (`Mempool.cfg`) | `PoolInv`, `OverwriteNeedsBump` | The quota counters and routes are exact and no unpriced replacement happens, through registrations, insertions, reservations, restorations and nonce advances in any order. |
| `storage_full` (`StorageFull.cfg`) | `StorageInv`, `FlatIsHeadOrCleared`, `WindowKept` | With tries that share nodes and a stop between any two prune transactions no retained root loses a node, none leaks, heads and the window stay. |
| `engine` (`Engine.cfg`) | `EngineInv`, `RecoveryExact`, `ProposalCommittable`, `PoolMatchesDomains`, `HistoryServed`, `AdmittedKept`, `FinalizedLogSpec` | With crashes anywhere a database opens again and gives back what was exposed; a pending proposal stays committable; admitted transactions are not lost; the engine implements `FinalizedLog`. |
| `scheduler` (`Scheduler.cfg`) | `SelectionSound`, `NoStarvation` | A selection takes prefixes of nonces within the gas of the block and of each domain; execution refuses it only for its number of batches, its bytes or a transaction that does not execute. A domain within its share is not squeezed out. No ready domain is passed over by as many blocks in a row as there are domains: with up to twice as many domains as a block has room for whatever arrives, with more while the ready ones stay the same. |
| `network` (`Network.cfg`) | `AuthenticatedSameGenesis`, `AnnouncedAtMostOnce`, `BodiesExtendTip`, `HonestAnswerAccepted` | Sessions stay within one network over restarts, stale connections and messages that overtake each other. No answer, intact or not, makes a node fetch bodies off its chain, and no honest answer is refused. |
| `node_sync` (`NodeSync.cfg`) | `StopsExplained`, `OneSyncPath`, `CatchesUp` | One peer that dials and is dialled, evicts snapshots, and is throttled by failures or banned by failed dials. The loop ends only with one of the errors named: an answer to a closed connection, a request to an authenticated peer that is not accepted, a chunk whose download a failed dial or handshake has dropped. It never has two requests to the peer and loses no chunk. It reaches every height of the peer unless it is stranded: ended, the peer banned, connected to a peer nobody will authenticate, or blocked by a download whose chunk was refused. |
| `node_sync_two_peers` (`NodeSyncTwoPeers.cfg`) | `SyncIdempotent`, violated | The finding below. |
| `chain_registry` (`ChainRegistry.cfg`) | `RegistryConsistent`, `InsertNeverFails`, `DepositsAccounted`, `RefundAfterLock` | Registry storage and chain state describe one set of domains, and every deposit is paid out once, whatever else is transferred. |
| `commitments` (`Commitments.cfg`) | `LeavesReadBack`, `RootsAreTreeRoots`, `HeadProofsExact`, `ResultProofsExact` | Roots are those of the textbook trees, a head proof leads to a state that reads back, and proofs verify exactly when they are true; the proof of a key fails only for a lost node or an embedded leaf. |
| `snapshot` (`Snapshot.cfg`) | `StagedBytesExact`, `FinishExact` | What `finish` accepts is the state the bundle was made of, and it refuses a whole bundle only for unreferenced code, whatever order or mixture of chunks arrives. |
| `functions` (`Functions.cfg`) | `FeeFormulaSound`, `FeeFollowsDemand`, `EncodingsReadBack`, `EncodingsCanonical` | The fee formula at its rounding and width boundaries. Every object an encoder accepts is read back by its decoder, but for a block of too many batches; and whatever string arrives, a decoder accepts only the one encoding of what it returns. |
| `process` (`Process.cfg`) | `NoDoubleVote`, `CertificatesAgree`, `PeerIdStable`, `OutcomeHonest`, `ShutsDown` | No validator whose store has seen its record at every start votes twice in a slot, wherever the process or the machine stops; no two blocks are certified for one, where a validator that started without seeing its record counts as Byzantine; a data directory has one peer identity; a process ends after a signal or a failure, and its result names the cause if every task could be joined. |

**Finding.** `node_sync_two_peers`: `PeerAuthenticated` (`networked.rs:357`) asks for a status
whatever is under way, so two peers are synced from at once; the import that comes second
returns an error, and the error ends `run_dev_node`. `src/LEARNINGS.md:303` asks to "make sync
orchestration idempotent rather than spawning parallel imports".

### Bounds, and why they are enough

* *Mempool*: two domains, two senders, nonces 0 and 1, seven envelopes: a nonce run, a priced and
  an underpriced replacement, one that is too large, one for a second chain. Capacity three and
  quota two are both reached. The theorems cover all sizes.
* *Storage*: three roots of which two pairs share a node, three heights and a window of two, so that
  pruning, a kept head and a shared node meet. The theorems cover all sizes.
* *Engine*: three domains (two of them rival creations of one chain ID), six transactions with a
  replacement and one that never executes, three heights: a creation, a block in the created
  domain, and a restart in between. `History = 0` stands for archive retention, which is what the
  node opens.
* *Scheduler*: one to five domains; block gas 4 and transactions of gas 2 make two slots, so that five
  domains are one more than twice the slots. One domain has two senders, three transactions of two
  sizes and a long one; another a transaction that does not execute. Three batches and four bytes are
  the limits of a block, which selections of four domains and of the long transaction exceed.
* *Sessions*: two nodes, two connections at a time and in a life, two networks, one timeout, the
  thresholds of `peer.rs`.
* *BlockSync*: three chains to height four that part after heights one and two, answers of up to
  three items, pages of three headers and two blocks: full, partial and empty pages.
* *NodeSync*: heights to three and a cache of two snapshots, so that the snapshot being downloaded may be
  evicted; two chunks, pages of one block; the peer also dials the node. Two budgets: two failures of
  any kind with one failed dial, or four failed dials. Scores are in half failures: two failures
  throttle a peer and four ban it, where `peer.rs` has four and ten, and two answers make up for a
  failure, where it has five. So throttling, readmission and the ban all happen within the budgets; the
  properties do not depend on how many failures each takes. The theorems cover all values.
* *ChainRegistry*: two domains besides the root, one free chain ID for both, a lock of two blocks,
  three heights, deposits below, at and above the minimum.
* *Commitments*: three keys of four nibbles (an extension, a branch, embedded and hashed leaves), five
  domains at depth three of which two part at the last bit, creations of one and of four domains
  (one to five results), two blocks.
* *Snapshot*: two domains of two contracts and two codes, three deployments, two bundles; record
  sizes make some chunks exactly full.
* *FeeMarket*: every gas limit to nine and fee to 40. The theorems cover all widths.
* *Codecs*: objects of every kind with distinct values in their fields, at and just beyond each limit;
  the limits are small and keep their order: a block may exceed the number of batches and still be short
  enough. Two changes of a short string, one of a string longer
  than seven units, to values that are limits, tags' neighbours, list headers, a byte no text has.
* *VoteStore*: two honest validators and a Byzantine one with powers 3, 2 and 2, so that a quorum
  needs the first; two slots, two blocks, two faults of any kind, which is one during a vote and one
  during the vote after it. A start that does not see the record is one of the faults. The theorems
  cover all sizes.
* *DataDirectory*: two processes, three commands, three keypairs: two that race for the key and one
  that comes later. The theorem covers all sizes.
* *Supervisor*: three tasks, one of which ignores the signal.

`CHECK_DEADLOCK FALSE` is set where the system may stop: `Functions` (a fee that does not fit the
field, a string changed as often as the bound allows), `Commitments` (the last block of the bound),
`Scheduler` and `NodeSync` (an error has ended the node) and `Process` (a process that has returned, and the
bounds on faults and commands). No symmetry is
used.

### Fairness

* `NodeSync`: weak fairness of `Tick` (the reconnect interval), of `Respond` (a peer answers, or the
  request fails within its timeout), and of `Dialed`, `Greeted` and `Welcomed` (a dial is made and a
  handshake arrives, or it fails). Failures of every kind are bounded and not fair. `Gossip` is not fair:
  announcements may be lost. Nor is `IdleClose`: the idle timeout of one minute (`service.rs:283`) closes only
  connections that nothing keeps alive, and gossipsub keeps one alive while its peer is in the mesh.
  That is why a connection without authentication is one of the cases of `Stranded`.
* `Supervisor`: weak fairness of the select, of `join_next` and of the end of the drain, because the
  runtime polls the future of `run`; of `Stop`, because it polls the tasks, and one that is not
  stubborn returns once it sees the token; of `Timeout`, because the grace period is a timer.
  Signals and failures of tasks are not fair.

## 4. What is proved

The theorems hold for all constants that satisfy the named assumptions of their modules, which TLC
evaluates in the runs. Each inductive invariant is an invariant of a run, or is stated in the proof
module from what the runs check.

**Mempool** (`LedgerProofs`, theorems in `RecoveryProofs`). `PoolInv` is inductive: types, exact
counters, distinct chain IDs, and every pooled or reserved entry under its own sender and nonce in
the domain of its chain ID. The last part is what the others need: a restoration puts entries back
where they were, so the counters can be recomputed, and one hash can only have one place
(`HashesHaveOnePlace`). `OverwritesAreBumps` follows step by step.

**Engine.** `EngineInv` is the conjunction of what the layers add:

* `LogInv` (`EngineProofs`): durable chain and announcements are sequences, the marker's height is the
  chain's length, the running engine exposes the marker's chain, a pending result is one block
  longer. It gives the refinement of `FinalizedLog`, step by step, and that what was announced is
  a prefix of the durable chain.
* `RouteInv` (`EngineProofs`): the marker names the domains the engine exposes, only the root before the
  first block; the pool has their chain IDs and no others; a pending proposal is valid and its
  result is its execution. A block keeps the chain IDs of finalized domains and gives a created one
  an ID none of them has (`ExecuteKeepsIds`), so that registering the result routes exactly its
  domains; a checkpoint is imported only at height zero, where nothing but the root can be
  routed. This gives `PoolMatchesDomains` and `ProposalCommittable`.
* `ChainInv` and `LocationInv` (`LedgerProofs`, `ChainProofs`): the database holds exactly the blocks
  above its recovery base, each valid on the state below it, and ends in the state the marker
  names (`Recoverable`); its locations are those of the retained transactions of these blocks
  (`Located`). Every stored height has to be part of the invariant and not only the last:
  `open_with_history` replays them all. A commit keeps the heights below and adds one
  (`BlockRecoverable`), and a checkpoint replaces the base of a database without blocks.
* `PoolKept` (`ChainProofs`): pool and proposal hold entries in their places only, and the block has
  exactly the transactions reserved for it, so that abandoning gives all of them back and
  committing uses up all of their nonces.

`RecoveryProofs` puts them together (`EngineInvariant`) and derives: with archive retention, which is
what the node opens (`History = 0`), a restart succeeds and gives back exactly what was exposed
(`ArchiveRecoversExactly`); with any retention it does so unless a checkpoint was imported
(`ReplayFromGenesisRecovers`), and never opens at another state (`RecoveryNeverDiverges`); history is
served for every retention (`HistoryAlwaysServed`); an admitted transaction is not lost while the process
runs (`AdmittedNeverLost`). That replay computes the recovered state at every height is an induction
over heights. It is made through sets, a least height at which it would fail, because the
provers cannot instantiate an induction principle with a predicate. `FiniteLaws` states what
the lemmas use of finite sets and naturals; `FiniteSetLaws` proves it from the library, so that the library
need not be part of the modules with the long proofs.

**Storage** (`NodeProofs`). `StorageInv` is inductive: retained roots have their nodes, stored nodes have
a root, heads have theirs, and no record lies above the marker. The bound by the marker is
needed for heads: a batch at a new height cannot meet an old record. `WindowNeverPruned` adds that
the cutoff only lies below the window. `FlatNeverStale` needs the heads too: a commit applies a
batch of leaf changes to the flat cache, which gives the leaves of the new head only if the cache had those
of the old one.

**Registry and fees** (`DomainProofs`). The registry's invariant says of the finalized state and of the
one being executed that chain-ID slots, descriptors, creation heights and statuses belong
together, that both agree on what is finalized, and that the account keeps a nonce. It gives
`RegistryConsistent` (descriptors, chain IDs and parents), `InsertNeverFails` and, for the steps,
`RefundAfterLock`. Header types of the fee market are inductive because `validate` refuses a larger fee;
from `U64_MAX * MAX_DOMAIN_BLOCK_GAS <= U128_MAX` and `2 * U64_MAX + 1 <= U128_MAX` no operation
saturates, and the rest is arithmetic of quotients (`FeeFormulaSound`).

**Processes and sessions** (`NodeProofs`).

* `VoteInv` says of every validator that has not opened its store blind that every record the disk may
  hold, and the vote being asked for, is whole and as late as every vote released. Not only the
  present record: after a failed `sync_parent` memory has the old vote and the disk either.
  `NoDoubleVote` follows, because what is admissible after such a record cannot conflict.
  `CertificatesAgree` holds as long as two quorums share a validator that is neither Byzantine nor blind. While
  nobody is blind this is the assumption `QuorumIntersection`, which the run evaluates for its powers.
* `DirInv`: whoever writes the key created the file alone, and nobody has an identity yet. `SupInv`:
  until the token is cancelled every task that ended is one that ended early, so an error can only
  name such a task.
* `AnnouncedInSession`: a node that does not hold the other one as authenticated has announced nothing,
  because `Forget` ends a session and its announcement together. `AnnouncedOnce` follows for any number
  of connections, requests and restarts.

**Block sync** (`NetworkProofs`). `SyncInv`: the node waits only for an answer of a peer that was ahead,
and `BodiesExtendTip`. An import may stop halfway; the step that is not obvious is that the tip it leaves
is still a header of the tree, and below the remote's if it asks on. `HonestPeerNeverRefused` adds
that the tree of headers has one branch below each header (`BranchesAgree`, again by a least height), so
that node and peer agree below the requested range. `HeaderAssumption` says that headers form a tree
with unique identifiers, which is what an injective hash of a header with its parent's hash gives.

**Sync loop** (`NetworkProofs`, `NodeSyncProofs`).

* `LinkInv`: every pending action belongs to an authenticated peer and a peer has one at most; who is
  authenticated is connected. It gives `OneRequestPerPeer`.
* `PathInv`: a peer has one request, and then its download is the one the request belongs to, with the
  chunks before it staged in order, or was dropped by a failed dial or handshake (`crossed`); or it has no
  request, and then no download either, unless it refused a chunk or the node has ended. That every
  remaining chunk is still listed is part of it, since `OneSyncPath` is about the one after next too.
  `OnePathPerPeer` follows for any number of peers, chunks, faults and evictions.
* `StopsAlwaysExplained` adds three invariants. `CauseInv` is the property but for refused answers; it needs
  `PathInv`, which knows why a chunk finds no download. `PeersInv`: a peer serves no snapshot above its
  head. `RunInv`, for a single peer: every pending request can be answered from the peer's present height
  and its answer imported at the node's, because nobody else moves the node in between. With two
  peers this fails, see the finding.

Neither theorem has hypotheses beyond the assumptions of its modules (`NodeAssumption`, `SyncAssumption`, `PolicyAssumption`).

Only model-checked: liveness (`CatchesUp`, `ShutsDown`), because fairness is out of
reach of the prover; sums over sets (`DepositsAccounted`, the gas in `SelectionSound`), the rotation
(`NoStarvation`) and everything built on
recursive operators (`Commitments`, `Snapshot`, the codecs), because induction over data is;
`AuthenticatedSameGenesis`, for which no inductive invariant was found that holds for any number of
connections and restarts.

## 5. Known divergences

Places where the code does something a comment, document or test does not say. The first is the run
`node_sync_two_peers` above. The others can be reproduced by the change given, or follow from
the lines.

* `restore_reserved` has no capacity check (`arbor-mempool/src/lib.rs:311`); transactions admitted
  meanwhile overfill the pool, though the comment at :308 says "restoring them cannot exceed the
  capacity they originally occupied".
* Full retention counts consensus heights (`arbor-storage/src/lib.rs:766`), while :70 says "Retain the
  newest `history` finalized roots per domain". `WindowKept` states what the code does.
* With Full retention and an imported checkpoint, the checkpoint's roots may be pruned and the
  database does not open again (`checkpoint.rs:281`): `Engine.cfg` with `History = 1` violates
  `RecoveryExact`. The node opens its database in archive mode only.
* With nine domains and transactions of the full gas of a domain, of which a block has room for four, a
  domain may wait forever (`arbor-consensus/src/lib.rs:743`): the cursor rotates the domains that are
  ready at that moment, and the others can become ready and idle in step with it. The test at :1818 has eight
  domains. `NoStarvation` holds for eight whatever arrives, and for nine while the ready domains stay
  the same; in `Scheduler.cfg` the limits are four and five.
* `select_transactions` heeds neither `MAX_BATCHES_PER_BLOCK` (`arbor-chain/src/lib.rs:1035`) nor
  `MAX_CONSENSUS_BLOCK_BYTES` (:1123), and a pooled transaction may fail to execute. The build then fails, the
  engine puts the transactions back, and the error leaves `run_dev_node` (`networked.rs:267`): the node ends.
  A restart begins with an empty pool. `SelectionSound` says that these are the only reasons.
* A status request that overtakes the handshake's answer authenticates a peer without the event
  (`service.rs:676`; `LEARNINGS.md:300`).
* `identity_mismatch` subtracts from the present score (`peer.rs:84`), so a peer in good standing is not
  banned at once.
* Ten failed dials ban a persistent peer for good (`service.rs:594`). A peer that evicts the snapshot being
  downloaded leaves a download nobody continues, which also keeps tick and gossip from asking
  (`networked.rs:624`). A connection whose handshakes were lost or refused is neither authenticated nor dialled
  again while it stays open (`networked.rs:162`). These are the cases of `Stranded`; `CatchesUp` without any one of
  them fails.
* Errors of the network service end the node: `respond` when the connection of the request has closed
  meanwhile (`networked.rs:495`, though the message is only an answer nobody waits for), and a status request to
  an authenticated peer that failures have throttled (`networked.rs:167`, :358).
* A dial or a handshake that fails while the same peer is being downloaded from drops the download, and
  the chunk under way then ends the node (`networked.rs:424`).
* Code of a self-destructed contract is bundled and refused by the importer
  (`arbor-network/src/snapshot.rs:541`); `FinishExact` says that nothing else is refused.
* A stop between `create_new` and the write leaves an empty `peer.key`, which every later start
  refuses (`identity.rs:93`); `DataDirectory` reaches it (`key = {0}`). The directory is not synced
  after the key is created, so a loss of power may take the key with it.
* A checkpoint manifest has at most 256 domains (`arbor-network/src/snapshot.rs:26`, checked at :263), a
  stored checkpoint 65,536 (`checkpoint.rs:20`) and the chain no limit; beyond 256 the error of
  `cache_snapshot` ends the node (`networked.rs:131`, :269, :429).
* `encode_consensus_block` does not check `MAX_BATCHES_PER_BLOCK`, which `decode_consensus_block`
  does; `execute` refuses such a block before it is encoded (`arbor-chain/src/lib.rs:1035`).
  `EncodingsReadBack` has this one exception.
* `proof` pushes an embedded child as an element of its own (`mpt.rs:255`), which the verification at its end
  does not expect (:285): for a key whose walk ends in an embedded leaf it returns an error. A leaf is embedded if
  it is shorter than 32 bytes, which no account is; a storage slot with a short value is if its hashed
  key shares enough nibbles with another's. `LeavesReadBack` says that nothing else fails.
* `DurableSafetyStore::open` asks `path.exists()` (`spikes/consensus/src/main.rs:33`), which is `false` also when the
  file system fails to answer; the store then starts without its record and admits a vote that
  conflicts with it. `NoDoubleVote` leaves such a validator out.
* When a task has failed and another ignores the signal to stop, `Supervisor::run` returns `ShutdownTimeout` and
  drops the error of the first (`supervisor.rs:79`).
* `decode_create_chain_call` normalises name and symbol, though the text of its error says "exact
  canonical v1 ABI encoding"; `EncodingsCanonical` allows that one exception and no more.
* With two peers the tick may keep asking the one that lags.
* Two equal subtrees look like a cycle to `walk_child` (`mpt.rs:715`); secure keys make them
  improbable. `produce` does not check the total size `stage_chunk` enforces (`snapshot.rs:489`). A
  base fee beyond 64 bits stops its domain (`spec.rs:89`). The engine never calls `advance_nonce`.

## 6. Not modelled, and what is left

Not modelled, with the reason for each part in `PROJECT.json`:

* bytecode execution, which is revm's; hashing and signatures, which are taken as ideal;
* libp2p, mDNS and the CBOR form of direct messages: external code, or derived by it;
* the consensus-direct mailbox, a bounded channel whose one consumer logs; transaction gossip
  beyond its encoding, which adds one more source of submissions to the engine;
* TOML and argument parsing, printing, `db inspect`, the smoke script, and the text forms of query
  results, which change no state;
* the state-commitment spike, a benchmark no crate uses; test support; empty crates.

What remains in reach: a theorem for `AuthenticatedSameGenesis`, or a larger instance that shows it
depends on the bound on connections; the bytes of a snapshot chunk; the snapshot download of `NodeSync`
composed with `Snapshot`.
