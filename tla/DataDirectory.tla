---------------------------- MODULE DataDirectory ----------------------------
(***************************************************************************)
(* arbor-cli and arbor-network's identity.rs: commands that share one data *)
(* directory.  `node init` and `node run` are processes that may overlap   *)
(* and may be killed at any step.  The directory has config.toml, the      *)
(* database, which one process at a time can have open, and the peer key.  *)
(* What opening does to the database is in Storage and Engine.             *)
(***************************************************************************)
EXTENDS Integers

CONSTANTS
    Process,
    MaxCommands,      \* commands started
    MaxKeys           \* keypairs generated

ASSUME DirectoryAssumption == MaxCommands \in Nat /\ MaxKeys \in Nat

Command == {"init", "init_dev", "run", "run_validator"}
Inits == {"init", "init_dev"}
Place == {"stopped", "config", "write_config", "open_database", "open_engine", "load", "create",
          "write", "serving"}

VARIABLES
    config,       \* config.toml: "absent", "empty" while fs::write runs, "plain" or "dev"
    locked,       \* the process that has the database open, as a set
    key,          \* peer.key: {} when absent, {0} when it holds no whole key
    at,           \* where a process is, "stopped" when there is none
    command,
    loaded,       \* the configuration a process has read
    mine,         \* the keypair it has generated
    peer_ids,     \* the identities that commands went on with
    commands, keys

dir_vars == <<config, locked, key, at, command, loaded, mine, peer_ids, commands, keys>>

-----------------------------------------------------------------------------
DirInit ==
    /\ config = "absent" /\ locked = {} /\ key = {}
    /\ at = [p \in Process |-> "stopped"]
    /\ command = [p \in Process |-> "init"]
    /\ loaded = [p \in Process |-> "absent"]
    /\ mine = [p \in Process |-> 0]
    /\ peer_ids = {} /\ commands = 0 /\ keys = 0

go(p, place) == at' = [at EXCEPT ![p] = place]

start(p, c) ==
    /\ at[p] = "stopped" /\ commands < MaxCommands
    /\ command' = [command EXCEPT ![p] = c]
    /\ go(p, "config")
    /\ commands' = commands + 1
    /\ UNCHANGED <<config, locked, key, loaded, mine, peer_ids, keys>>

\* fs::write truncates the file and then fills it; a configuration that is there is lost.
init_truncate(p) ==
    /\ at[p] = "config" /\ command[p] \in Inits
    /\ config' = "empty"
    /\ go(p, "write_config")
    /\ UNCHANGED <<locked, key, command, loaded, mine, peer_ids, commands, keys>>

init_write(p) ==
    /\ at[p] = "write_config"
    /\ config' = IF command[p] = "init_dev" THEN "dev" ELSE "plain"
    /\ go(p, "open_database")
    /\ UNCHANGED <<locked, key, command, loaded, mine, peer_ids, commands, keys>>

\* Config::load: an empty file lacks required fields.
load_config(p) ==
    /\ at[p] = "config" /\ command[p] \notin Inits
    /\ loaded' = [loaded EXCEPT ![p] = config]
    /\ go(p, IF config \in {"plain", "dev"} THEN "open_database" ELSE "stopped")
    /\ UNCHANGED <<config, locked, key, command, mine, peer_ids, commands, keys>>

\* The first open_database of a command, whose result is dropped at once, and what follows:
\* init ends here, and `run` without a development configuration only waits.
open_database(p) ==
    /\ at[p] = "open_database"
    /\ go(p, IF locked # {} \/ command[p] = "init" THEN "stopped"
             ELSE IF command[p] = "init_dev" \/ loaded[p] = "dev" THEN "open_engine"
             ELSE IF command[p] = "run_validator" THEN "stopped"
             ELSE "serving")
    /\ UNCHANGED <<config, locked, key, command, loaded, mine, peer_ids, commands, keys>>

\* initialize_dev_chain drops the engine before it loads the identity; a running node keeps it.
open_dev_engine(p) ==
    /\ at[p] = "open_engine"
    /\ go(p, IF locked # {} THEN "stopped" ELSE "load")
    /\ locked' = IF locked = {} /\ command[p] \notin Inits THEN {p} ELSE locked
    /\ UNCHANGED <<config, key, command, loaded, mine, peer_ids, commands, keys>>

\* load_or_create_peer_identity returns k, or an error when there is none.
identified(p, k) ==
    /\ peer_ids' = peer_ids \cup k
    /\ go(p, IF k = {} \/ command[p] \in Inits THEN "stopped" ELSE "serving")
    /\ locked' = IF k = {} THEN locked \ {p} ELSE locked

\* load: a file without a whole key is an error, and is never replaced.
load(p) ==
    /\ at[p] = "load" /\ key # {}
    /\ identified(p, key \ {0})
    /\ UNCHANGED <<config, key, command, loaded, mine, commands, keys>>

\* NotFound: a keypair is generated.
generate(p) ==
    /\ at[p] = "load" /\ key = {} /\ keys < MaxKeys
    /\ keys' = keys + 1
    /\ mine' = [mine EXCEPT ![p] = keys']
    /\ go(p, "create")
    /\ UNCHANGED <<config, locked, key, command, loaded, peer_ids, commands>>

\* Mutant: the file is opened with create and truncate.
create_over(p) ==
    /\ at[p] = "create"
    /\ key' = {0}
    /\ go(p, "write")
    /\ UNCHANGED <<config, locked, command, loaded, mine, peer_ids, commands, keys>>

\* options.create_new: one process creates the file, the others load what it makes.
create_new(p) ==
    /\ at[p] = "create"
    /\ key' = IF key = {} THEN {0} ELSE key
    /\ go(p, IF key = {} THEN "write" ELSE "load")
    /\ UNCHANGED <<config, locked, command, loaded, mine, peer_ids, commands, keys>>

write_all_key(p) ==
    /\ at[p] = "write"
    /\ key' = {mine[p]}
    /\ identified(p, {mine[p]})
    /\ UNCHANGED <<config, command, loaded, mine, commands, keys>>

\* The node is asked to stop, or the process is killed; either closes the database.
stop(p) ==
    /\ at[p] # "stopped"
    /\ go(p, "stopped")
    /\ locked' = locked \ {p}
    /\ UNCHANGED <<config, key, command, loaded, mine, peer_ids, commands, keys>>

DirNext ==
    \E p \in Process :
        \/ \E c \in Command : start(p, c)
        \/ init_truncate(p) \/ init_write(p) \/ load_config(p)
        \/ open_database(p) \/ open_dev_engine(p)
        \/ load(p) \/ generate(p) \/ create_new(p) \/ write_all_key(p)
        \/ stop(p)

DirSpec == DirInit /\ [][DirNext]_dir_vars

-----------------------------------------------------------------------------
\* A data directory has one peer identity: whatever commands overlap, fail or are killed, every
\* one that gets past load_or_create_peer_identity has the same keypair, and the file, once it
\* holds a key, holds that one.
PeerIdStable ==
    /\ \A a, b \in peer_ids : a = b
    /\ peer_ids # {} => key = peer_ids

\* The strengthening that is inductive: whoever writes the key has created the file, alone, and
\* nobody has an identity yet.
DirInv ==
    /\ at \in [Process -> Place] /\ mine \in [Process -> Nat] /\ keys \in Nat
    /\ \A a, b \in key : a = b
    /\ 0 \notin peer_ids
    /\ peer_ids = {} \/ peer_ids = key
    /\ \A p \in Process : at[p] \in {"create", "write"} => mine[p] # 0
    /\ \A p \in Process : at[p] = "write" => key = {0} /\ peer_ids = {}
    /\ \A p, q \in Process : at[p] = "write" /\ at[q] = "write" => p = q
=============================================================================
