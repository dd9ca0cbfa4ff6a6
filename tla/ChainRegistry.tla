---------------------------- MODULE ChainRegistry ----------------------------
(***************************************************************************)
(* The native ChainRegistry (arbor-evm, arbor-system) and the chain state  *)
(* that follows it (arbor-executor, arbor-chain).                          *)
(*                                                                         *)
(* A proposal executes root transactions one by one on a clone of the      *)
(* finalized root state.  It is then finalized whole, or dropped when a    *)
(* later transaction is block-invalid.  One action is one call that does   *)
(* not revert; a reverted call changes nothing here, and gas is left out.  *)
(*                                                                         *)
(* The domain ID is derived from the hash of the creating transaction, so  *)
(* it is new in every call.  Descriptor hashes and storage slots are       *)
(* injective: the descriptor slot holds the descriptor, and the registry's *)
(* storage is a record of maps, one for each slot tag.                     *)
(***************************************************************************)
EXTENDS Integers, FiniteSets, FiniteSetsExt

CONSTANTS Domain, RootDomain, ChainId, RootChainId,
          Account, Governance, ZeroAddress, Registry,
          Value, GenesisBalance,
          MIN_CREATION_DEPOSIT, CREATION_DEPOSIT_LOCK_BLOCKS,
          NoDescriptor, RootMarker, NoDomain, NoAccount,
          MaxHeight

ASSUME RegistryAssumption ==
    /\ RootDomain \in Domain /\ RootChainId \in ChainId
    /\ Governance \in Account /\ ZeroAddress \in Account /\ Registry \notin Account
    /\ Value \subseteq Nat /\ GenesisBalance \in [Account \cup {Registry} -> Nat]
    /\ MIN_CREATION_DEPOSIT \in Nat \ {0} /\ CREATION_DEPOSIT_LOCK_BLOCKS \in Nat \ {0}
    /\ NoDomain \notin Domain /\ NoAccount \notin Account
    /\ MaxHeight \in Nat

VARIABLES finalized,  \* FinalizedChainState: height, domains with their descriptors, root state
          state,      \* the root execution state of the proposal being executed
          created     \* created_domains of that proposal

vars == <<finalized, state, created>>

-----------------------------------------------------------------------------
Descriptor ==
    [parent : Domain, evm_chain_id : ChainId, owner : Account, creation_deposit : Value]

ASSUME MarkerAssumption ==
    NoDescriptor # RootMarker /\ NoDescriptor \notin Descriptor /\ RootMarker \notin Descriptor

Slots ==
    [descriptor      : [Domain -> Descriptor \cup {NoDescriptor, RootMarker}],
     chain_id        : [ChainId -> Domain \cup {NoDomain}],
     creation_height : [Domain -> Nat],
     deposit         : [Domain -> Nat],
     unlock          : [Domain -> Nat],
     owner           : [Domain -> Account \cup {NoAccount}],
     status          : [Domain -> {"Unset", "Locked", "Refunded", "Burned"}]]

NoSlots ==
    [descriptor      |-> [d \in Domain |-> NoDescriptor],
     chain_id        |-> [c \in ChainId |-> NoDomain],
     creation_height |-> [d \in Domain |-> 0],
     deposit         |-> [d \in Domain |-> 0],
     unlock          |-> [d \in Domain |-> 0],
     owner           |-> [d \in Domain |-> NoAccount],
     status          |-> [d \in Domain |-> "Unset"]]

\* `given` is history: what plain transfers have sent to the zero address.
State == [balance : [Account \cup {Registry} -> Nat], nonce : Nat, slots : Slots, given : Nat]

root_registry_genesis_storage ==
    [NoSlots EXCEPT !.descriptor[RootDomain] = RootMarker,
                    !.chain_id[RootChainId] = RootDomain]

\* Mutant: an account that EIP-161 takes for empty.
registry_nonce_zero == 0

\* The genesis nonce of the registry account.
registry_nonce == 1

genesis_state ==
    [balance |-> GenesisBalance,
     nonce   |-> registry_nonce,
     slots   |-> root_registry_genesis_storage,
     given   |-> 0]

\* apply_changes of a transaction that touched the registry account: an account that
\* is empty by EIP-161 is removed, and its storage with it.
apply_changes(s) ==
    IF s.nonce = 0 /\ s.balance[Registry] = 0 THEN [s EXCEPT !.slots = NoSlots] ELSE s

transfer(s, from, to, amount) ==
    [s EXCEPT !.balance = [a \in DOMAIN s.balance |->
        s.balance[a] - (IF a = from THEN amount ELSE 0) + (IF a = to THEN amount ELSE 0)]]

\* The height the open proposal will have.
height == finalized.height + 1

-----------------------------------------------------------------------------
Init ==
    /\ finalized = [height      |-> 0,
                    descriptors |-> [d \in {RootDomain} |-> RootMarker],
                    state       |-> genesis_state]
    /\ state = genesis_state
    /\ created = {}

\* A descriptor the request and the deposit allow.
prepare_chain_creation(desc) ==
    desc.owner # ZeroAddress /\ desc.creation_deposit >= MIN_CREATION_DEPOSIT

\* The parent is looked up in the heads finalized before the proposal.  Without a
\* prepared creation the call reverts.
prepare_registry_creation(desc) ==
    desc.parent \in DOMAIN finalized.descriptors /\ prepare_chain_creation(desc)

\* Mutant: no lock period.
unlock_at_creation(h) == h

deposit_unlock_height(h) == h + CREATION_DEPOSIT_LOCK_BLOCKS

creation_storage_writes(s, d, desc) ==
    [s EXCEPT !.slots =
        [@ EXCEPT !.descriptor[d]               = desc,
                  !.chain_id[desc.evm_chain_id] = d,
                  !.creation_height[d]          = height,
                  !.deposit[d]                  = desc.creation_deposit,
                  !.unlock[d]                   = deposit_unlock_height(height),
                  !.owner[d]                    = desc.owner,
                  !.status[d]                   = "Locked"]]

\* Mutant: conflicts are looked up in the finalized state.
creatable_stale(d, desc) ==
    /\ state.slots.descriptor[desc.parent] # NoDescriptor
    /\ state.slots.descriptor[d] = NoDescriptor
    /\ finalized.state.slots.chain_id[desc.evm_chain_id] = NoDomain

\* The registry's own checks, on the storage earlier transactions of the batch left.
creatable(d, desc) ==
    /\ state.slots.descriptor[desc.parent] # NoDescriptor
    /\ state.slots.descriptor[d] = NoDescriptor
    /\ state.slots.chain_id[desc.evm_chain_id] = NoDomain

\* A createChain transaction of `sender`, whose value is the deposit.
CreateChain(sender, d, desc) ==
    /\ state.balance[sender] >= desc.creation_deposit
    /\ prepare_registry_creation(desc)
    /\ creatable(d, desc)
    /\ LET paid == transfer(state, sender, Registry, desc.creation_deposit)
       IN  state' = apply_changes(creation_storage_writes(paid, d, desc))
    /\ created' = created \cup {d}
    /\ UNCHANGED finalized

\* Mutant: the deposit stays locked.
settle_unmarked(d, recipient, next_status) ==
    /\ state.balance[Registry] >= state.slots.deposit[d]
    /\ state' = apply_changes(transfer(state, Registry, recipient, state.slots.deposit[d]))

\* run_deposit_lifecycle from its transfer on: the recipient and the final status.
settle(d, recipient, next_status) ==
    /\ state.balance[Registry] >= state.slots.deposit[d]
    /\ LET paid == transfer(state, Registry, recipient, state.slots.deposit[d])
       IN  state' = apply_changes([paid EXCEPT !.slots.deposit[d] = 0,
                                               !.slots.status[d] = next_status])

locked(d) == state.slots.status[d] = "Locked" /\ state.slots.deposit[d] # 0

refundDeposit(caller, d) ==
    /\ locked(d)
    /\ height >= state.slots.unlock[d]
    /\ caller = state.slots.owner[d]
    /\ settle(d, caller, "Refunded")
    /\ UNCHANGED <<finalized, created>>

burnDeposit(caller, d) ==
    /\ locked(d)
    /\ caller = Governance
    /\ settle(d, ZeroAddress, "Burned")
    /\ UNCHANGED <<finalized, created>>

\* Value that reaches the registry account without calling it: a self-destruct.
Donate(sender, amount) ==
    /\ sender # ZeroAddress /\ amount > 0
    /\ state.balance[sender] >= amount
    /\ state' = apply_changes(transfer(state, sender, Registry, amount))
    /\ UNCHANGED <<finalized, created>>

\* A plain transfer to the zero address, which the registry has no part in.
Pay(sender, amount) ==
    /\ sender # ZeroAddress
    /\ state.balance[sender] >= amount
    /\ state' = [transfer(state, sender, ZeroAddress, amount) EXCEPT !.given = @ + amount]
    /\ UNCHANGED <<finalized, created>>

\* insert_created_domain, on the chain state the proposal started from.
insertable(d) ==
    LET desc == state.slots.descriptor[d]
    IN  /\ d \notin DOMAIN finalized.descriptors
        /\ desc \in Descriptor
        /\ desc.parent \in DOMAIN finalized.descriptors \cup (created \ {d})
        /\ desc.evm_chain_id # RootChainId
        /\ \A e \in DOMAIN finalized.descriptors \ {RootDomain} :
              finalized.descriptors[e].evm_chain_id # desc.evm_chain_id
        /\ \A e \in created \ {d} : state.slots.descriptor[e].evm_chain_id # desc.evm_chain_id

\* ChainMachine::execute and the commit of the proposal; a created domain joins the
\* finalized ones with its descriptor.
Finalize ==
    /\ finalized.height < MaxHeight
    /\ \A d \in created : insertable(d)
    /\ finalized' =
          [height      |-> height,
           descriptors |-> [d \in DOMAIN finalized.descriptors \cup created |->
               IF d \in created THEN state.slots.descriptor[d] ELSE finalized.descriptors[d]],
           state       |-> state]
    /\ created' = {}
    /\ UNCHANGED state

\* A block-invalid transaction, or a failed commit: the clone is dropped.
Discard ==
    /\ state' = finalized.state
    /\ created' = {}
    /\ UNCHANGED finalized

Next ==
    \/ \E sender \in Account \ {ZeroAddress}, d \in Domain, desc \in Descriptor :
          CreateChain(sender, d, desc)
    \/ \E caller \in Account \ {ZeroAddress}, d \in Domain : refundDeposit(caller, d)
    \/ \E caller \in Account \ {ZeroAddress}, d \in Domain : burnDeposit(caller, d)
    \/ \E sender \in Account, amount \in Value : Donate(sender, amount)
    \/ \E sender \in Account, amount \in Value : Pay(sender, amount)
    \/ Finalize
    \/ Discard

Spec == Init /\ [][Next]_vars

-----------------------------------------------------------------------------
Registered(s) == {d \in Domain : s.slots.descriptor[d] # NoDescriptor}

Created(s) == Registered(s) \ {RootDomain}

\* The sum of the deposits the descriptors with a status name.
Deposited(s, status) ==
    MapThenSumSet(LAMBDA d : s.slots.descriptor[d].creation_deposit,
                  {d \in Created(s) : s.slots.status[d] = status})

-----------------------------------------------------------------------------
(***************************************************************************)
(* Type correctness of the chain state, the executing root state and the   *)
(* list of created domains.                                                *)
(***************************************************************************)
TypeOK ==
    /\ state \in State /\ finalized.state \in State
    /\ finalized.height \in Nat
    /\ RootDomain \in DOMAIN finalized.descriptors
    /\ DOMAIN finalized.descriptors \subseteq Domain
    /\ created \subseteq Domain

(***************************************************************************)
(* The domains the chain runs, with their descriptors, are exactly the     *)
(* ones committed in the storage of the root registry: at every point of a *)
(* proposal for `state`, and after every block for the finalized state,    *)
(* which is what from_checkpoint requires when a node restarts.  Needs the *)
(* registry account to survive a balance of zero.                          *)
(***************************************************************************)
DescriptorsCommitted ==
    /\ Registered(finalized.state) = DOMAIN finalized.descriptors
    /\ \A d \in DOMAIN finalized.descriptors :
          finalized.descriptors[d] = finalized.state.slots.descriptor[d]
    /\ Registered(state) = DOMAIN finalized.descriptors \cup created
    /\ DOMAIN finalized.descriptors \cap created = {}

(***************************************************************************)
(* No two registered domains have one EVM chain ID, also when both are     *)
(* created by transactions of one batch; the chain-ID slot names the       *)
(* domain that has it.                                                     *)
(***************************************************************************)
ChainIdsUnique ==
    \A s \in {state, finalized.state} :
        /\ s.slots.chain_id[RootChainId] = RootDomain
        /\ \A d \in Created(s) : s.slots.chain_id[s.slots.descriptor[d].evm_chain_id] = d

(***************************************************************************)
(* insert_created_domain never refuses a domain whose createChain call     *)
(* succeeded: a refusal would make the whole proposal invalid, every time. *)
(***************************************************************************)
InsertNeverFails == \A d \in created : insertable(d)

(***************************************************************************)
(* A domain is created at a strictly greater height than its parent, so    *)
(* the joint block it names was final before the proposal, and genealogy   *)
(* ends at the root.                                                       *)
(***************************************************************************)
ParentFinalizedFirst ==
    \A d \in Created(state) :
        state.slots.creation_height[state.slots.descriptor[d].parent]
            < state.slots.creation_height[d]

(***************************************************************************)
(* What the registry's storage, the open proposal and the finalized chain  *)
(* say of the domains stays one story: the same domains and descriptors,   *)
(* one domain to a chain ID, every parent final before its children.       *)
(***************************************************************************)
RegistryConsistent == DescriptorsCommitted /\ ChainIdsUnique /\ ParentFinalizedFirst

(***************************************************************************)
(* The registry account holds every deposit that is still locked, so the   *)
(* transfer of a refund or a burn never fails for want of balance.         *)
(***************************************************************************)
DepositsBacked == state.balance[Registry] >= Deposited(state, "Locked")

(***************************************************************************)
(* A deposit leaves the supply once if it was burned and not otherwise:    *)
(* besides what was paid to it openly, the zero address has received       *)
(* exactly the burned deposits.                                            *)
(***************************************************************************)
BurnedOnce ==
    state.balance[ZeroAddress] =
        GenesisBalance[ZeroAddress] + Deposited(state, "Burned") + state.given

(***************************************************************************)
(* Every deposit is in one place: in the registry while it is locked, at   *)
(* the zero address when it was burned, and never paid out twice.          *)
(***************************************************************************)
DepositsAccounted == DepositsBacked /\ BurnedOnce

(***************************************************************************)
(* A deposit is never refunded before CREATION_DEPOSIT_LOCK_BLOCKS blocks  *)
(* have passed since the block that created the domain.                    *)
(***************************************************************************)
RefundAfterLock ==
    [][\A d \in Domain :
          state.slots.status[d] = "Locked" /\ state'.slots.status[d] = "Refunded" =>
              height >= state.slots.creation_height[d] + CREATION_DEPOSIT_LOCK_BLOCKS]_vars
=============================================================================
