------------------------------ MODULE VoteStore ------------------------------
(***************************************************************************)
(* spikes/consensus: the safety record a validator keeps so that it never  *)
(* signs two blocks for one height, round and phase, whenever it stops.    *)
(* persist_before_vote writes a temporary file, syncs it, renames it over  *)
(* the record and syncs the directory; each of these steps may fail, and   *)
(* the process or the machine may stop between any two.  The caller        *)
(* releases the signature once persist_before_vote has returned Ok.        *)
(*                                                                         *)
(* One failure is beyond the store's means: open asks path.exists(), which *)
(* answers "no" also when the question fails, and then starts without the  *)
(* record it has.  `blind` names the validators to which that happened.    *)
(*                                                                         *)
(* An Option is a set with at most one member, and so is a file: {} when   *)
(* there is none.                                                          *)
(***************************************************************************)
EXTENDS Integers, FiniteSets, Functions

CONSTANTS
    Validator, Byzantine,
    power,              \* DummyApplication.validators
    Vote,               \* the votes that may be asked for
    MaxFaults           \* failures of one kind or another in a behaviour

\* What an unsynced file may hold after a power loss; decode_vote refuses its length.
Torn == [height |-> 0, round |-> 0, phase |-> 0, block_hash |-> "torn"]

power_of(vs) == FoldFunctionOnSet(+, 0, power, vs)

quorum_power == (power_of(Validator) * 2) \div 3 + 1

can_commit(online) == power_of(online) >= quorum_power

ASSUME VoteAssumption ==
    /\ Byzantine \subseteq Validator
    /\ MaxFaults \in Nat
    /\ Torn \notin Vote
    /\ \A v \in Vote : v.height \in Nat /\ v.round \in Nat /\ v.phase \in Nat
    /\ \A a, b \in Vote : (/\ a.height = b.height /\ a.round = b.round
                           /\ a.phase = b.phase /\ a.block_hash = b.block_hash) => a = b

\* Two certificates share a signer that is not among the faulty ones.
quorums_share_outside(faulty) ==
    \A left, right \in SUBSET Validator :
        can_commit(left) /\ can_commit(right) => \E v \in left \cap right : v \notin faulty

check_quorum_intersection_model == quorums_share_outside(Byzantine)

ASSUME QuorumIntersection == check_quorum_intersection_model

Honest == Validator \ Byzantine

VARIABLES
    pc,           \* how far persist_before_vote has come, or "down"
    asked,        \* the vote it was called with
    last_vote,    \* of the store in memory
    temporary,    \* the temporary file
    synced,       \* the temporary file's bytes are on the disk
    path,         \* the record, as the running system sees it
    durable,      \* what the record may be after a power loss
    released,     \* the votes whose signatures were released
    faults,
    blind         \* history: the validators that opened a store without seeing its record

vote_vars == <<pc, asked, last_vote, temporary, synced, path, durable, released, faults, blind>>

-----------------------------------------------------------------------------
same_slot(a, b) == a.height = b.height /\ a.round = b.round /\ a.phase = b.phase

\* (height, round, phase) of a is less than that of b.
earlier(a, b) ==
    \/ a.height < b.height
    \/ a.height = b.height /\ a.round < b.round
    \/ a.height = b.height /\ a.round = b.round /\ a.phase < b.phase

\* Mutant: a second vote of one slot is not compared with the first.
admissible_again(previous, vote) == ~ earlier(vote, previous)

\* Neither Equivocation nor Regression.
admissible(previous, vote) ==
    /\ ~ (same_slot(previous, vote) /\ previous.block_hash # vote.block_hash)
    /\ ~ earlier(vote, previous)

Working == {"opened", "written", "synced", "renamed"}

VoteInit ==
    /\ pc = [v \in Honest |-> "down"]
    /\ asked = [v \in Honest |-> {}]
    /\ last_vote = [v \in Honest |-> {}]
    /\ temporary = [v \in Honest |-> {}]
    /\ synced = [v \in Honest |-> FALSE]
    /\ path = [v \in Honest |-> {}]
    /\ durable = [v \in Honest |-> {{}}]
    /\ released = [v \in Honest |-> {}]
    /\ faults = 0
    /\ blind = {}

\* DurableSafetyStore::open; a record of another length than a vote's is an error.
open(v) ==
    /\ pc[v] = "down" /\ Torn \notin path[v]
    /\ last_vote' = [last_vote EXCEPT ![v] = path[v]]
    /\ pc' = [pc EXCEPT ![v] = "idle"]
    /\ UNCHANGED <<asked, temporary, synced, path, durable, released, faults, blind>>

\* The same when the file system does not answer path.exists().
open_blind(v) ==
    /\ pc[v] = "down" /\ path[v] # {} /\ faults < MaxFaults
    /\ last_vote' = [last_vote EXCEPT ![v] = {}]
    /\ pc' = [pc EXCEPT ![v] = "idle"]
    /\ faults' = faults + 1
    /\ blind' = blind \cup {v}
    /\ UNCHANGED <<asked, temporary, synced, path, durable, released>>

\* persist_before_vote, one action for each call to the file system.  A refused vote changes
\* nothing.
open_temporary(v, vote) ==
    /\ pc[v] = "idle" /\ \A previous \in last_vote[v] : admissible(previous, vote)
    /\ asked' = [asked EXCEPT ![v] = {vote}]
    /\ temporary' = [temporary EXCEPT ![v] = {Torn}]
    /\ synced' = [synced EXCEPT ![v] = FALSE]
    /\ pc' = [pc EXCEPT ![v] = "opened"]
    /\ UNCHANGED <<last_vote, path, durable, released, faults, blind>>

write_all(v) ==
    /\ pc[v] = "opened"
    /\ temporary' = [temporary EXCEPT ![v] = asked[v]]
    /\ pc' = [pc EXCEPT ![v] = "written"]
    /\ UNCHANGED <<asked, last_vote, synced, path, durable, released, faults, blind>>

sync_all(v) ==
    /\ pc[v] = "written"
    /\ synced' = [synced EXCEPT ![v] = TRUE]
    /\ pc' = [pc EXCEPT ![v] = "synced"]
    /\ UNCHANGED <<asked, last_vote, temporary, path, durable, released, faults, blind>>

\* The directory on the disk may have the old name or the new until it is synced.
rename(v) ==
    /\ pc[v] = "synced"
    /\ path' = [path EXCEPT ![v] = temporary[v]]
    /\ durable' = [durable EXCEPT ![v] = @ \cup {temporary[v]}
                                           \cup (IF synced[v] THEN {} ELSE {{Torn}})]
    /\ temporary' = [temporary EXCEPT ![v] = {}]
    /\ pc' = [pc EXCEPT ![v] = "renamed"]
    /\ UNCHANGED <<asked, last_vote, synced, released, faults, blind>>

\* Mutant: the directory is left to the operating system.
sync_parent_later(v) ==
    /\ pc[v] = "renamed"
    /\ last_vote' = [last_vote EXCEPT ![v] = asked[v]]
    /\ pc' = [pc EXCEPT ![v] = "persisted"]
    /\ UNCHANGED <<asked, temporary, synced, path, durable, released, faults, blind>>

\* sync_parent, and the assignment that ends persist_before_vote.
sync_parent(v) ==
    /\ pc[v] = "renamed"
    /\ durable' = [durable EXCEPT ![v] = {path[v]}]
    /\ last_vote' = [last_vote EXCEPT ![v] = asked[v]]
    /\ pc' = [pc EXCEPT ![v] = "persisted"]
    /\ UNCHANGED <<asked, temporary, synced, path, released, faults, blind>>

\* The caller signs and sends the vote.
release(v) ==
    /\ pc[v] = "persisted"
    /\ released' = [released EXCEPT ![v] = @ \cup asked[v]]
    /\ pc' = [pc EXCEPT ![v] = "idle"]
    /\ asked' = [asked EXCEPT ![v] = {}]
    /\ UNCHANGED <<last_vote, temporary, synced, path, durable, faults, blind>>

\* A call to the file system fails: persist_before_vote returns the error, and the store in
\* memory keeps its last vote, whatever the disk has by now.
io_error(v) ==
    /\ pc[v] \in Working /\ faults < MaxFaults
    /\ pc' = [pc EXCEPT ![v] = "idle"]
    /\ asked' = [asked EXCEPT ![v] = {}]
    /\ faults' = faults + 1
    /\ UNCHANGED <<last_vote, temporary, synced, path, durable, released, blind>>

\* The process stops; the file system lives on.
process_crash(v) ==
    /\ pc[v] # "down" /\ faults < MaxFaults
    /\ pc' = [pc EXCEPT ![v] = "down"]
    /\ asked' = [asked EXCEPT ![v] = {}]
    /\ last_vote' = [last_vote EXCEPT ![v] = {}]
    /\ faults' = faults + 1
    /\ UNCHANGED <<temporary, synced, path, durable, released, blind>>

\* The machine stops: the record is one of those that may have reached the disk.
power_loss(v) ==
    /\ faults < MaxFaults
    /\ \E left \in durable[v] :
          /\ path' = [path EXCEPT ![v] = left]
          /\ durable' = [durable EXCEPT ![v] = {left}]
    /\ pc' = [pc EXCEPT ![v] = "down"]
    /\ asked' = [asked EXCEPT ![v] = {}]
    /\ last_vote' = [last_vote EXCEPT ![v] = {}]
    /\ faults' = faults + 1
    /\ UNCHANGED <<temporary, synced, released, blind>>

persist_before_vote(v) ==
    \/ \E vote \in Vote : open_temporary(v, vote)
    \/ write_all(v) \/ sync_all(v) \/ rename(v) \/ sync_parent(v)

VoteStep(v) ==
    \/ open(v) \/ open_blind(v) \/ persist_before_vote(v) \/ release(v)
    \/ io_error(v) \/ process_crash(v) \/ power_loss(v)

VoteNext == \E v \in Honest : VoteStep(v)

VoteSpec == VoteInit /\ [][VoteNext]_vote_vars

-----------------------------------------------------------------------------
VoteTypeOK ==
    /\ pc \in [Honest -> {"down", "idle", "persisted"} \cup Working]
    /\ asked \in [Honest -> SUBSET Vote]
    /\ last_vote \in [Honest -> SUBSET Vote]
    /\ temporary \in [Honest -> SUBSET (Vote \cup {Torn})]
    /\ synced \in [Honest -> BOOLEAN]
    /\ path \in [Honest -> SUBSET Vote]
    /\ durable \in [Honest -> SUBSET SUBSET Vote]
    /\ released \in [Honest -> SUBSET Vote]
    /\ blind \subseteq Honest

one_vote_per_slot(v) == \A a, b \in released[v] : same_slot(a, b) => a = b

\* No validator whose store has seen its record whenever it was opened releases two votes of
\* one height, round and phase for different blocks: whichever call of persist_before_vote
\* fails and wherever the process or the machine stops, the record that
\* DurableSafetyStore::open reads is a vote that forbids the second one.
NoDoubleVote == \A v \in Honest \ blind : one_vote_per_slot(v)

\* Whatever the Byzantine validators sign.
signed(v, vote) == v \in Byzantine \/ vote \in released[v]

certified(vote) ==
    \E signers \in SUBSET Validator :
        can_commit(signers) /\ \A v \in signers : signed(v, vote)

\* No two blocks get a certificate for one height, round and phase, with every honest
\* validator stopping and restarting as it likes, as long as two quorums share a validator that
\* is neither Byzantine nor has opened its store blind: a stat that fails counts as a
\* Byzantine fault, and no other failure does.
CertificatesAgree ==
    quorums_share_outside(Byzantine \cup blind) =>
    \A a, b \in Vote : same_slot(a, b) /\ certified(a) /\ certified(b) => a = b

\* What the content of a record, or a vote asked for, forbids: all that conflicts with what v
\* has released, unless v has opened its store blind.
covers(content, v) ==
    v \in blind \/ \A r \in released[v] : \E w \in content : w = r \/ earlier(r, w)

AskedCovers(v) ==
    pc[v] \in Working \cup {"persisted"} =>
        covers(asked[v], v) /\ \E vote \in Vote : asked[v] = {vote}

FilesFollow(v) ==
    /\ path[v] \in durable[v]
    /\ pc[v] \in {"written", "synced"} => temporary[v] = asked[v]
    /\ pc[v] = "synced" => synced[v]
    /\ pc[v] \in {"renamed", "persisted"} => path[v] = asked[v]
    /\ pc[v] = "persisted" => durable[v] = {asked[v]} /\ last_vote[v] = asked[v]

RecordsCover(v) ==
    /\ \A content \in durable[v] : covers(content, v)
    /\ pc[v] # "down" => covers(last_vote[v], v)

\* At every moment the store in memory, the record, and each record that a power loss may
\* leave, forbid whatever conflicts with a released vote; and the record always opens, since
\* only synced bytes are renamed over it.  This is inductive.
VoteInv ==
    /\ VoteTypeOK
    /\ \A v \in Honest :
          /\ AskedCovers(v) /\ FilesFollow(v) /\ RecordsCover(v)
          /\ v \notin blind => one_vote_per_slot(v)
=============================================================================
