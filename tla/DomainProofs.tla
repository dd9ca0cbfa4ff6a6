----------------------------- MODULE DomainProofs -----------------------------
(***************************************************************************)
(* The registry of domains, for any sets of domains, chain IDs and         *)
(* accounts, any genesis balances and any lock period; and the base fee of *)
(* a domain, for all widths and gas limits.                                *)
(***************************************************************************)
EXTENDS ChainRegistry, FeeMarket, TLAPS

(***************************************************************************)
(* What holds of a root state whose last block has height at most h.  The  *)
(* nonce keeps the account; the descriptors have a type, own their chain   *)
(* ID and are younger than their parents; and a locked deposit unlocks     *)
(* after the lock period.                                                  *)
(***************************************************************************)
Good(s, h) ==
    /\ s \in State
    /\ s.nonce # 0
    /\ s.slots.descriptor[RootDomain] = RootMarker
    /\ s.slots.creation_height[RootDomain] = 0
    /\ s.slots.chain_id[RootChainId] = RootDomain
    /\ \A d \in Created(s) :
          /\ s.slots.descriptor[d] \in Descriptor
          /\ s.slots.chain_id[s.slots.descriptor[d].evm_chain_id] = d
          /\ s.slots.descriptor[s.slots.descriptor[d].parent] # NoDescriptor
          /\ s.slots.creation_height[s.slots.descriptor[d].parent] < s.slots.creation_height[d]
          /\ s.slots.creation_height[d] <= h
    /\ \A d \in Domain : s.slots.status[d] = "Locked" =>
          s.slots.unlock[d] = s.slots.creation_height[d] + CREATION_DEPOSIT_LOCK_BLOCKS
    /\ \A d \in Domain : s.slots.status[d] # "Unset" => s.slots.descriptor[d] # NoDescriptor

Settled(s) == {d \in Domain : s.slots.status[d] \in {"Refunded", "Burned"}}

\* The proposal agrees with the finalized chain on every finalized domain.
Agrees ==
    /\ \A d \in DOMAIN finalized.descriptors :
          /\ state.slots.descriptor[d] = finalized.descriptors[d]
          /\ state.slots.creation_height[d] <= finalized.height
    /\ \A d \in created :
          state.slots.descriptor[d].parent \in DOMAIN finalized.descriptors
    /\ Settled(finalized.state) \subseteq Settled(state)

IInv ==
    /\ TypeOK
    /\ Good(finalized.state, finalized.height)
    /\ Good(state, height)
    /\ DescriptorsCommitted
    /\ Agrees

-----------------------------------------------------------------------------
(***************************************************************************)
(* A transfer the payer can afford changes the balances and nothing else.  *)
(***************************************************************************)
LEMMA TransferLemma ==
    ASSUME NEW s \in State, NEW from \in Account \cup {Registry},
           NEW to \in Account \cup {Registry}, NEW amount \in Nat,
           s.balance[from] >= amount
    PROVE  /\ transfer(s, from, to, amount) \in State
           /\ transfer(s, from, to, amount).slots = s.slots
           /\ transfer(s, from, to, amount).nonce = s.nonce
  <1> DEFINE B == [a \in DOMAIN s.balance |->
                      s.balance[a] - (IF a = from THEN amount ELSE 0)
                                   + (IF a = to THEN amount ELSE 0)]
  <1>1. s.balance \in [Account \cup {Registry} -> Nat]
    BY Zenon DEF State
  <1>2. B \in [Account \cup {Registry} -> Nat]
    BY <1>1
  <1>3. transfer(s, from, to, amount) = [s EXCEPT !.balance = B]
    BY Zenon DEF transfer
  <1> HIDE DEF B
  <1> QED
    BY <1>2, <1>3, Zenon DEF State

(***************************************************************************)
(* The seven writes of createChain keep a root state good: the descriptor  *)
(* is fresh, its parent is registered at an earlier height and its chain   *)
(* ID is free.                                                             *)
(***************************************************************************)
LEMMA CreationLemma ==
    ASSUME NEW s, finalized.height \in Nat, Good(s, height),
           NEW d \in Domain, NEW desc \in Descriptor,
           s.slots.descriptor[d] = NoDescriptor,
           s.slots.descriptor[desc.parent] # NoDescriptor,
           s.slots.creation_height[desc.parent] < height,
           s.slots.chain_id[desc.evm_chain_id] = NoDomain
    PROVE  LET t == creation_storage_writes(s, d, desc)
           IN  /\ Good(t, height)
               /\ t.nonce = s.nonce
               /\ t.slots.descriptor = [s.slots.descriptor EXCEPT ![d] = desc]
               /\ t.slots.creation_height = [s.slots.creation_height EXCEPT ![d] = height]
               /\ Settled(s) \subseteq Settled(t)
  <1> DEFINE t == creation_storage_writes(s, d, desc)
             u == deposit_unlock_height(height)
  <1>t. /\ height \in Nat /\ u \in Nat /\ u = height + CREATION_DEPOSIT_LOCK_BLOCKS
        /\ desc.parent \in Domain /\ desc.evm_chain_id \in ChainId /\ desc.owner \in Account
        /\ desc.creation_deposit \in Nat
    <2>1. desc.creation_deposit \in Value
      BY Zenon DEF Descriptor
    <2>2. desc.creation_deposit \in Nat
      BY <2>1, RegistryAssumption, Zenon
    <2>3. height \in Nat /\ u \in Nat /\ u = height + CREATION_DEPOSIT_LOCK_BLOCKS
      BY RegistryAssumption DEF height, deposit_unlock_height
    <2> QED
      BY <2>2, <2>3, Zenon DEF Descriptor
  <1> HIDE DEF u
  <1>s. s \in State /\ s.slots \in Slots
    BY Zenon DEF Good, State
  <1>1. t.slots = [[[[[[[s.slots EXCEPT !.descriptor[d] = desc]
                                 EXCEPT !.chain_id[desc.evm_chain_id] = d]
                                 EXCEPT !.creation_height[d] = height]
                                 EXCEPT !.deposit[d] = desc.creation_deposit]
                                 EXCEPT !.unlock[d] = u]
                                 EXCEPT !.owner[d] = desc.owner]
                                 EXCEPT !.status[d] = "Locked"]
    BY <1>s, Zenon DEF creation_storage_writes, State, Slots, u
  <1>2. /\ t.slots.descriptor = [s.slots.descriptor EXCEPT ![d] = desc]
        /\ t.slots.chain_id = [s.slots.chain_id EXCEPT ![desc.evm_chain_id] = d]
        /\ t.slots.creation_height = [s.slots.creation_height EXCEPT ![d] = height]
        /\ t.slots.deposit = [s.slots.deposit EXCEPT ![d] = desc.creation_deposit]
        /\ t.slots.unlock = [s.slots.unlock EXCEPT ![d] = u]
        /\ t.slots.owner = [s.slots.owner EXCEPT ![d] = desc.owner]
        /\ t.slots.status = [s.slots.status EXCEPT ![d] = "Locked"]
    BY <1>1, <1>s DEF Slots
  <1>3. t.nonce = s.nonce /\ t.balance = s.balance
    BY <1>s, Zenon DEF creation_storage_writes, State
  <1>4. t \in State
    <2>1. t.slots \in Slots
      <3>1. /\ t.slots.descriptor \in [Domain -> Descriptor \cup {NoDescriptor, RootMarker}]
            /\ t.slots.chain_id \in [ChainId -> Domain \cup {NoDomain}]
            /\ t.slots.creation_height \in [Domain -> Nat]
            /\ t.slots.deposit \in [Domain -> Nat]
            /\ t.slots.unlock \in [Domain -> Nat]
            /\ t.slots.owner \in [Domain -> Account \cup {NoAccount}]
            /\ t.slots.status \in [Domain -> {"Unset", "Locked", "Refunded", "Burned"}]
        BY <1>2, <1>s, <1>t DEF Slots
      <3>2. t.slots = [descriptor |-> t.slots.descriptor, chain_id |-> t.slots.chain_id,
                       creation_height |-> t.slots.creation_height,
                       deposit |-> t.slots.deposit, unlock |-> t.slots.unlock,
                       owner |-> t.slots.owner, status |-> t.slots.status]
        BY <1>1, <1>s, Zenon DEF Slots
      <3> QED
        BY <3>1, <3>2, Zenon DEF Slots
    <2>2. t = [s EXCEPT !.slots = t.slots]
      BY <1>s DEF creation_storage_writes, State
    <2> HIDE DEF t
    <2> QED
      BY <2>1, <2>2, <1>s, Zenon DEF State
  <1> HIDE DEF t
  <1>5. d # RootDomain /\ desc.evm_chain_id # RootChainId /\ desc # NoDescriptor
    BY MarkerAssumption, RegistryAssumption, Zenon DEF Good
  <1>6. /\ t.slots.descriptor[RootDomain] = RootMarker
        /\ t.slots.creation_height[RootDomain] = 0
        /\ t.slots.chain_id[RootChainId] = RootDomain
    BY <1>2, <1>5, <1>s, RegistryAssumption DEF Good, Slots
  <1>7. ASSUME NEW e \in Created(t)
        PROVE  /\ t.slots.descriptor[e] \in Descriptor
               /\ t.slots.chain_id[t.slots.descriptor[e].evm_chain_id] = e
               /\ t.slots.descriptor[t.slots.descriptor[e].parent] # NoDescriptor
               /\ t.slots.creation_height[t.slots.descriptor[e].parent] < t.slots.creation_height[e]
               /\ t.slots.creation_height[e] <= height
    <2>0. e \in Domain /\ e # RootDomain
      BY Zenon DEF Created, Registered
    <2>1. CASE e = d
      <3>1. desc.parent # d
        BY Zenon
      <3>2. t.slots.descriptor[e] = desc
        BY <2>1, <1>2, <1>s, Zenon DEF Slots
      <3> QED
        BY <2>1, <3>1, <3>2, <1>2, <1>s, <1>t DEF Slots
    <2>2. CASE e # d
      <3>1. e \in Created(s) /\ t.slots.descriptor[e] = s.slots.descriptor[e]
        BY <2>0, <2>2, <1>2, <1>s, Zenon DEF Created, Registered, Slots
      <3> DEFINE g == s.slots.descriptor[e]
      <3>2. /\ g \in Descriptor
            /\ s.slots.chain_id[g.evm_chain_id] = e
            /\ s.slots.descriptor[g.parent] # NoDescriptor
            /\ s.slots.creation_height[g.parent] < s.slots.creation_height[e]
            /\ s.slots.creation_height[e] <= height
        BY <3>1, Zenon DEF Good
      <3>3. g.parent \in Domain /\ g.evm_chain_id \in ChainId
        BY <3>2, Zenon DEF Descriptor
      <3> HIDE DEF g
      <3>4. g.parent # d /\ g.evm_chain_id # desc.evm_chain_id
        BY <3>2, <2>0, RegistryAssumption, Zenon
      <3>5. t.slots.descriptor[e] = g
        BY <3>1, Zenon DEF g
      <3> QED
        BY <3>2, <3>3, <3>4, <3>5, <2>0, <2>2, <1>2, <1>s, <1>t DEF Slots
    <2> QED
      BY <2>1, <2>2, Zenon
  <1>8. ASSUME NEW e \in Domain, t.slots.status[e] = "Locked"
        PROVE  t.slots.unlock[e] = t.slots.creation_height[e] + CREATION_DEPOSIT_LOCK_BLOCKS
    BY <1>8, <1>2, <1>s, <1>t DEF Good, Slots
  <1>9. \A e \in Domain : t.slots.status[e] # "Unset" => t.slots.descriptor[e] # NoDescriptor
    BY <1>2, <1>5, <1>s DEF Good, Slots
  <1>10. Good(t, height)
    BY <1>3, <1>4, <1>6, <1>7, <1>8, <1>9, Zenon DEF Good
  <1>11. Settled(s) \subseteq Settled(t)
    <2>1. d \notin Settled(s)
      BY Zenon DEF Good, Settled
    <2> QED
      BY <2>1, <1>2, <1>s DEF Settled, Slots
  <1> QED
    BY <1>2, <1>3, <1>10, <1>11, Zenon DEF t

(***************************************************************************)
(* A change of balances alone keeps a root state good.                     *)
(***************************************************************************)
LEMMA BalanceLemma ==
    ASSUME NEW s, NEW t \in State, NEW h, Good(s, h),
           t.slots = s.slots, t.nonce = s.nonce
    PROVE  Good(t, h)
  BY ZenonT(40) DEF Good, Created, Registered

(***************************************************************************)
(* A refund or a burn changes no descriptor, chain ID or height and keeps  *)
(* the root state good.                                                    *)
(***************************************************************************)
LEMMA SettleLemma ==
    ASSUME NEW h, Good(state, h), NEW d \in Domain, NEW recipient \in Account,
           NEW next_status \in {"Refunded", "Burned"},
           state.slots.status[d] = "Locked", settle(d, recipient, next_status)
    PROVE  /\ Good(state', h)
           /\ state'.slots.descriptor = state.slots.descriptor
           /\ state'.slots.creation_height = state.slots.creation_height
           /\ state'.slots.status = [state.slots.status EXCEPT ![d] = next_status]
           /\ Settled(state) \subseteq Settled(state')
  <1> DEFINE amount == state.slots.deposit[d]
             paid == transfer(state, Registry, recipient, amount)
  <1>1. state \in State /\ state.slots \in Slots /\ amount \in Nat
    BY Zenon DEF Good, State, Slots
  <1>2. state.balance[Registry] >= amount
    BY Zenon DEF settle
  <1> HIDE DEF amount
  <1>3. paid \in State /\ paid.slots = state.slots /\ paid.nonce = state.nonce
    BY <1>1, <1>2, TransferLemma, ZenonT(40)
  <1>4. state' = apply_changes([paid EXCEPT !.slots.deposit[d] = 0,
                                            !.slots.status[d] = next_status])
    BY Zenon DEF settle, paid, amount
  <1> HIDE DEF paid
  <1> DEFINE x == [[state.slots EXCEPT !.deposit[d] = 0] EXCEPT !.status[d] = next_status]
  <1>5. [paid EXCEPT !.slots.deposit[d] = 0, !.slots.status[d] = next_status]
          = [paid EXCEPT !.slots = x]
    BY <1>1, <1>3, Zenon DEF State, Slots
  <1>6. x \in Slots
    BY <1>1, Zenon DEF Slots
  <1>7. /\ x.descriptor = state.slots.descriptor /\ x.chain_id = state.slots.chain_id
        /\ x.creation_height = state.slots.creation_height /\ x.unlock = state.slots.unlock
        /\ x.status = [state.slots.status EXCEPT ![d] = next_status]
    BY <1>1, Zenon DEF Slots
  <1> HIDE DEF x
  <1>8. state' = [paid EXCEPT !.slots = x]
    BY <1>3, <1>4, <1>5, Zenon DEF apply_changes, State, Good
  <1>9. state' \in State /\ state'.slots = x /\ state'.nonce = state.nonce
    BY <1>3, <1>6, <1>8, Zenon DEF State
  <1>10. \A e \in Domain : x.status[e] = "Locked" => state.slots.status[e] = "Locked"
    BY <1>1, <1>7, Zenon DEF Slots
  <1>11. Created(state') = Created(state)
    BY <1>7, <1>9, Zenon DEF Created, Registered
  <1>12. \A e \in Domain : state'.slots.status[e] = "Locked" =>
            state'.slots.unlock[e] = state'.slots.creation_height[e] + CREATION_DEPOSIT_LOCK_BLOCKS
    BY <1>7, <1>9, <1>10, Zenon DEF Good
  <1>13. \A e \in Domain : state'.slots.status[e] # "Unset" => state.slots.status[e] # "Unset"
    BY <1>1, <1>7, <1>9, Zenon DEF Slots
  <1>14. Good(state', h)
    BY <1>7, <1>9, <1>11, <1>12, <1>13 DEF Good
  <1>15. Settled(state) \subseteq Settled(state')
    BY <1>1, <1>7, <1>9, Zenon DEF Slots, Settled
  <1> QED
    BY <1>7, <1>9, <1>14, <1>15, Zenon

(***************************************************************************)
(* A good root state stays good as the height grows, and no domain in it   *)
(* is younger than the height.                                             *)
(***************************************************************************)
LEMMA HeightLemma ==
    ASSUME NEW s, NEW h \in Nat, Good(s, h)
    PROVE  /\ Good(s, h + 1)
           /\ \A d \in Registered(s) : s.slots.creation_height[d] <= h
  <1>1. s.slots.creation_height \in [Domain -> Nat]
    BY Zenon DEF Good, State, Slots
  <1>2. \A d \in Created(s) : d \in Domain /\ s.slots.creation_height[d] <= h
    BY Zenon DEF Good, Created, Registered
  <1>3. \A d \in Created(s) : s.slots.creation_height[d] <= h + 1
    BY <1>1, <1>2
  <1>4. Good(s, h + 1)
    BY <1>3, Zenon DEF Good
  <1>5. \A d \in Registered(s) : s.slots.creation_height[d] <= h
    BY <1>2 DEF Good, Created
  <1> QED
    BY <1>4, <1>5, Zenon

-----------------------------------------------------------------------------
\* The genesis registry satisfies the invariant.
LEMMA InitLemma == Init => IInv
  <1> SUFFICES ASSUME Init PROVE IInv
    BY Zenon
  <1> DEFINE g == genesis_state
  <1>1. NoSlots \in Slots
    BY RegistryAssumption, Zenon DEF NoSlots, Slots
  <1>2. /\ g.slots = root_registry_genesis_storage
        /\ g.nonce = 1 /\ g.balance = GenesisBalance
        /\ g.slots.descriptor = [NoSlots.descriptor EXCEPT ![RootDomain] = RootMarker]
        /\ g.slots.chain_id = [NoSlots.chain_id EXCEPT ![RootChainId] = RootDomain]
        /\ g.slots.creation_height = NoSlots.creation_height
        /\ g.slots.status = NoSlots.status
    BY Zenon DEF genesis_state, registry_nonce, root_registry_genesis_storage, NoSlots
  <1>3. g.slots \in Slots
    BY <1>1, RegistryAssumption, Zenon DEF genesis_state, root_registry_genesis_storage, Slots
  <1>4. g \in State
    BY <1>3, RegistryAssumption, Zenon DEF genesis_state, registry_nonce, State
  <1>5. finalized.state = g /\ state = g /\ finalized.height = 0 /\ created = {}
        /\ finalized.descriptors = [d \in {RootDomain} |-> RootMarker]
    BY Zenon DEF Init
  <1> HIDE DEF g
  <1>6. g.slots.descriptor = [d \in Domain |-> IF d = RootDomain THEN RootMarker ELSE NoDescriptor]
    BY <1>2, Zenon DEF NoSlots
  <1>7. Registered(g) = {RootDomain} /\ Created(g) = {}
    BY <1>6, MarkerAssumption, RegistryAssumption DEF Registered, Created
  <1>8. \A d \in Domain : g.slots.creation_height[d] = 0 /\ g.slots.status[d] = "Unset"
    BY <1>2, Zenon DEF NoSlots
  <1>9. g.slots.chain_id[RootChainId] = RootDomain
    BY <1>2, RegistryAssumption, Zenon DEF NoSlots
  <1>10. \A h : Good(g, h)
    BY <1>2, <1>4, <1>6, <1>7, <1>8, <1>9, RegistryAssumption DEF Good
  <1>11. TypeOK
    BY <1>4, <1>5, RegistryAssumption DEF TypeOK
  <1>12. DescriptorsCommitted
    BY <1>5, <1>6, <1>7, RegistryAssumption, Zenon DEF DescriptorsCommitted
  <1>13. Agrees
    BY <1>5, <1>6, <1>8, RegistryAssumption DEF Agrees
  <1> QED
    BY <1>5, <1>10, <1>11, <1>12, <1>13, Zenon DEF IInv

(***************************************************************************)
(* A step of the proposal that registers the set `fresh` of new domains    *)
(* and otherwise changes no descriptor or height keeps the invariant.      *)
(***************************************************************************)
LEMMA ProposalLemma ==
    ASSUME IInv, Good(state', height), UNCHANGED finalized,
           Settled(state) \subseteq Settled(state'),
           \/ /\ UNCHANGED created
              /\ state'.slots.descriptor = state.slots.descriptor
              /\ state'.slots.creation_height = state.slots.creation_height
           \/ \E d \in Domain, desc \in Descriptor :
                 /\ state.slots.descriptor[d] = NoDescriptor
                 /\ desc.parent \in DOMAIN finalized.descriptors
                 /\ created' = created \cup {d}
                 /\ state'.slots.descriptor = [state.slots.descriptor EXCEPT ![d] = desc]
                 /\ state'.slots.creation_height = [state.slots.creation_height EXCEPT ![d] = height]
    PROVE  IInv'
  <1>1. state' \in State /\ finalized' = finalized /\ height' = height
    BY Zenon DEF Good, height
  <1>2. Good(finalized.state, finalized.height)' /\ Good(state, height)'
    <2>1. Good(state', height')
      BY <1>1, Zenon
    <2>2. Good(finalized'.state, finalized'.height)
      BY <1>1, Zenon DEF IInv
    <2> QED
      BY <2>1, <2>2, Zenon DEF Good, Created, Registered
  <1>3. created' \subseteq Domain
    BY Zenon DEF IInv, TypeOK
  <1>4. TypeOK'
    BY <1>1, <1>3, Zenon DEF IInv, TypeOK
  <1>s. state.slots \in Slots
    BY Zenon DEF IInv, TypeOK, State
  <1>5. CASE /\ UNCHANGED created
             /\ state'.slots.descriptor = state.slots.descriptor
             /\ state'.slots.creation_height = state.slots.creation_height
    BY <1>1, <1>2, <1>4, <1>5 DEF IInv, DescriptorsCommitted, Registered, Agrees, Settled
  <1>6. ASSUME NEW d \in Domain, NEW desc \in Descriptor,
               state.slots.descriptor[d] = NoDescriptor,
               desc.parent \in DOMAIN finalized.descriptors,
               created' = created \cup {d},
               state'.slots.descriptor = [state.slots.descriptor EXCEPT ![d] = desc],
               state'.slots.creation_height = [state.slots.creation_height EXCEPT ![d] = height]
        PROVE  IInv'
    <2>1. desc # NoDescriptor
      BY MarkerAssumption, Zenon
    <2>2. d \notin Registered(state) /\ Registered(state)' = Registered(state) \cup {d}
      BY <1>6, <1>s, <2>1 DEF Registered, Slots
    <2>3. d \notin DOMAIN finalized.descriptors /\ d \notin created
      BY <2>2, Zenon DEF IInv, DescriptorsCommitted
    <2>4. DescriptorsCommitted'
      BY <1>1, <1>6, <2>2, <2>3 DEF IInv, DescriptorsCommitted, Registered
    <2>5. \A e \in Domain \ {d} :
              /\ state'.slots.descriptor[e] = state.slots.descriptor[e]
              /\ state'.slots.creation_height[e] = state.slots.creation_height[e]
      BY <1>6, <1>s, Zenon DEF Slots
    <2>6. state'.slots.descriptor[d] = desc
      BY <1>6, <1>s, Zenon DEF Slots
    <2>7. Agrees'
      BY <1>1, <1>6, <2>3, <2>5, <2>6, Zenon DEF IInv, TypeOK, Agrees, Settled
    <2> QED
      BY <1>2, <1>4, <2>4, <2>7, Zenon DEF IInv
  <1> QED
    BY <1>5, <1>6, Zenon

\* Under the invariant insert_created_domain meets none of its refusals.
LEMMA InsertLemma == IInv => InsertNeverFails
  <1> SUFFICES ASSUME IInv, NEW d \in created PROVE insertable(d)
    BY Zenon DEF InsertNeverFails
  <1> DEFINE desc == state.slots.descriptor[d]
  <1>1. /\ d \notin DOMAIN finalized.descriptors
        /\ created \subseteq Created(state)
        /\ DOMAIN finalized.descriptors \ {RootDomain} \subseteq Created(state)
    BY Zenon DEF IInv, TypeOK, DescriptorsCommitted, Created
  <1>2. /\ desc \in Descriptor
        /\ desc.parent \in DOMAIN finalized.descriptors
        /\ state.slots.chain_id[desc.evm_chain_id] = d
    BY <1>1, Zenon DEF IInv, Good, Agrees
  <1>3. desc.evm_chain_id # RootChainId
    BY <1>1, <1>2, ZenonT(40) DEF IInv, Good, TypeOK
  <1>4. ASSUME NEW e \in Created(state), e # d
        PROVE  state.slots.descriptor[e].evm_chain_id # desc.evm_chain_id
    BY <1>2, <1>4, Zenon DEF IInv, Good
  <1>5. \A e \in DOMAIN finalized.descriptors \ {RootDomain} :
            finalized.descriptors[e].evm_chain_id # desc.evm_chain_id
    <2> SUFFICES ASSUME NEW e \in DOMAIN finalized.descriptors \ {RootDomain}
                 PROVE  finalized.descriptors[e].evm_chain_id # desc.evm_chain_id
      BY Zenon
    <2>1. finalized.descriptors[e] = state.slots.descriptor[e]
      BY Zenon DEF IInv, Agrees
    <2> HIDE DEF desc
    <2> QED
      BY <2>1, <1>1, <1>4, Zenon
  <1>6. \A e \in created \ {d} : state.slots.descriptor[e].evm_chain_id # desc.evm_chain_id
    BY <1>1, <1>4, Zenon
  <1> QED
    BY <1>1, <1>2, <1>3, <1>5, <1>6, Zenon DEF insertable

\* Building, dropping and committing a proposal keep the invariant.
LEMMA NextLemma == IInv /\ [Next]_vars => IInv'
  <1> SUFFICES ASSUME IInv, [Next]_vars PROVE IInv'
    BY Zenon
  <1>s. /\ state \in State /\ Good(state, height) /\ finalized.height \in Nat
        /\ state.slots \in Slots /\ state.nonce # 0
    BY Zenon DEF IInv, TypeOK, Good, State
  <1>1. ASSUME NEW sender \in Account \ {ZeroAddress}, NEW d \in Domain, NEW desc \in Descriptor,
               CreateChain(sender, d, desc)
        PROVE  IInv'
    <2> DEFINE paid == transfer(state, sender, Registry, desc.creation_deposit)
               t == creation_storage_writes(paid, d, desc)
    <2>1. desc.creation_deposit \in Nat /\ desc.parent \in Domain
      <3>1. desc.creation_deposit \in Value /\ desc.parent \in Domain
        BY Zenon DEF Descriptor
      <3> QED
        BY <3>1, RegistryAssumption, Zenon
    <2>2. paid \in State /\ paid.slots = state.slots /\ paid.nonce = state.nonce
      BY <1>1, <1>s, <2>1, TransferLemma DEF CreateChain
    <2>3. /\ state' = apply_changes(t) /\ created' = created \cup {d} /\ UNCHANGED finalized
          /\ desc.parent \in DOMAIN finalized.descriptors
          /\ state.slots.descriptor[d] = NoDescriptor
          /\ state.slots.descriptor[desc.parent] # NoDescriptor
          /\ state.slots.chain_id[desc.evm_chain_id] = NoDomain
      BY <1>1, Zenon DEF CreateChain, prepare_registry_creation, creatable
    <2> HIDE DEF paid
    <2>4. Good(paid, height)
      BY <1>s, <2>2, BalanceLemma, Zenon
    <2>5. state.slots.creation_height[desc.parent] < height
      BY <1>s, <2>1, <2>3 DEF IInv, Agrees, height, Slots
    <2>6. /\ Good(t, height) /\ t.nonce = paid.nonce
          /\ t.slots.descriptor = [paid.slots.descriptor EXCEPT ![d] = desc]
          /\ t.slots.creation_height = [paid.slots.creation_height EXCEPT ![d] = height]
          /\ Settled(paid) \subseteq Settled(t)
      BY <1>s, <2>2, <2>3, <2>4, <2>5, CreationLemma
    <2> HIDE DEF t
    <2>7. state' = t
      BY <1>s, <2>2, <2>3, <2>6, Zenon DEF apply_changes
    <2>8. Settled(state) \subseteq Settled(state')
      BY <2>2, <2>6, <2>7, Zenon DEF Settled
    <2> QED
      BY <2>2, <2>3, <2>6, <2>7, <2>8, ProposalLemma, Zenon
  <1>2. ASSUME NEW caller \in Account \ {ZeroAddress}, NEW d \in Domain, refundDeposit(caller, d)
        PROVE  IInv'
    <2>1. /\ state.slots.status[d] = "Locked" /\ settle(d, caller, "Refunded")
          /\ UNCHANGED <<finalized, created>>
      BY <1>2, Zenon DEF refundDeposit, locked
    <2> QED
      BY <1>s, <2>1, SettleLemma, ProposalLemma, Zenon
  <1>3. ASSUME NEW caller \in Account \ {ZeroAddress}, NEW d \in Domain, burnDeposit(caller, d)
        PROVE  IInv'
    <2>1. /\ state.slots.status[d] = "Locked" /\ settle(d, ZeroAddress, "Burned")
          /\ UNCHANGED <<finalized, created>>
      BY <1>3, Zenon DEF burnDeposit, locked
    <2> QED
      BY <1>s, <2>1, RegistryAssumption, SettleLemma, ProposalLemma, Zenon
  <1>4. ASSUME NEW sender \in Account, NEW amount \in Value, Donate(sender, amount)
        PROVE  IInv'
    <2> DEFINE paid == transfer(state, sender, Registry, amount)
    <2>1. paid \in State /\ paid.slots = state.slots /\ paid.nonce = state.nonce
      BY <1>4, <1>s, RegistryAssumption, TransferLemma DEF Donate
    <2>2. state' = apply_changes(paid) /\ UNCHANGED <<finalized, created>>
      BY <1>4, Zenon DEF Donate
    <2> HIDE DEF paid
    <2>3. state' = paid
      BY <1>s, <2>1, <2>2, Zenon DEF apply_changes
    <2>4. Good(state', height)
      BY <1>s, <2>1, <2>3, BalanceLemma, Zenon
    <2>5. Settled(state) \subseteq Settled(state')
      BY <2>1, <2>3, Zenon DEF Settled
    <2> QED
      BY <2>1, <2>2, <2>3, <2>4, <2>5, ProposalLemma, Zenon
  <1>8. ASSUME NEW sender \in Account, NEW amount \in Value, Pay(sender, amount)
        PROVE  IInv'
    <2> DEFINE paid == transfer(state, sender, ZeroAddress, amount)
    <2>n. amount \in Nat
      BY RegistryAssumption, Zenon
    <2>1. paid \in State /\ paid.slots = state.slots /\ paid.nonce = state.nonce
      BY <1>8, <1>s, <2>n, RegistryAssumption, TransferLemma DEF Pay
    <2>2. state' = [paid EXCEPT !.given = @ + amount] /\ UNCHANGED <<finalized, created>>
      BY <1>8, Zenon DEF Pay
    <2> HIDE DEF paid
    <2>3. paid.given + amount \in Nat
      BY <2>n, <2>1 DEF State
    <2>4. state' \in State /\ state'.slots = state.slots /\ state'.nonce = state.nonce
      BY <2>1, <2>2, <2>3, Zenon DEF State
    <2>5. Good(state', height)
      BY <1>s, <2>4, BalanceLemma, Zenon
    <2>6. Settled(state) \subseteq Settled(state')
      BY <2>4, Zenon DEF Settled
    <2> QED
      BY <2>2, <2>4, <2>5, <2>6, ProposalLemma, Zenon
  <1>5. CASE Finalize
    <2>1. /\ finalized'.height = height /\ finalized'.state = state
          /\ created' = {} /\ state' = state
          /\ finalized'.descriptors = [d \in DOMAIN finalized.descriptors \cup created |->
               IF d \in created THEN state.slots.descriptor[d] ELSE finalized.descriptors[d]]
      BY <1>5, Zenon DEF Finalize
    <2>2. /\ DOMAIN finalized'.descriptors = DOMAIN finalized.descriptors \cup created
          /\ Registered(state) = DOMAIN finalized'.descriptors
      BY <2>1, Zenon DEF IInv, DescriptorsCommitted
    <2>3. \A d \in DOMAIN finalized'.descriptors :
              finalized'.descriptors[d] = state.slots.descriptor[d]
      BY <2>1, <2>2, Zenon DEF IInv, Agrees
    <2>4. TypeOK'
      BY <1>s, <2>1, <2>2 DEF IInv, TypeOK, height
    <2>5. Good(state, height) /\ Good(state, height + 1)
      BY <1>s, HeightLemma DEF height
    <2>6. Good(finalized'.state, finalized'.height) /\ Good(state', height')
      BY <2>1, <2>5, Zenon DEF height
    <2>7. Good(finalized.state, finalized.height)' /\ Good(state, height)'
      BY <2>6, Zenon DEF Good, Created, Registered
    <2>8. DescriptorsCommitted'
      BY <2>1, <2>2, <2>3, Zenon DEF DescriptorsCommitted, Registered
    <2>9. \A d \in Registered(state) : state.slots.creation_height[d] <= height
      BY <1>s, HeightLemma DEF height
    <2>10. Agrees'
      BY <2>1, <2>2, <2>3, <2>9, Zenon DEF Agrees, Settled
    <2> QED
      BY <2>4, <2>7, <2>8, <2>10, Zenon DEF IInv
  <1>6. CASE Discard
    <2>1. state' = finalized.state /\ created' = {} /\ finalized' = finalized /\ height' = height
      BY <1>6, Zenon DEF Discard, height
    <2>2. TypeOK'
      BY <2>1, Zenon DEF IInv, TypeOK
    <2>3. Good(finalized.state, finalized.height) /\ Good(finalized.state, height)
      BY <1>s, HeightLemma, Zenon DEF IInv, height
    <2>4. Good(finalized'.state, finalized'.height) /\ Good(state', height')
      BY <2>1, <2>3, Zenon
    <2>5. Good(finalized.state, finalized.height)' /\ Good(state, height)'
      BY <2>4, Zenon DEF Good, Created, Registered
    <2>6. DescriptorsCommitted'
      BY <2>1, Zenon DEF IInv, DescriptorsCommitted, Registered
    <2>7. \A d \in Registered(finalized.state) :
              finalized.state.slots.creation_height[d] <= finalized.height
      BY <1>s, <2>3, HeightLemma, Zenon
    <2>8. Agrees'
      BY <2>1, <2>7, Zenon DEF IInv, DescriptorsCommitted, Agrees, Settled
    <2> QED
      BY <2>2, <2>5, <2>6, <2>8, Zenon DEF IInv
  <1>7. CASE UNCHANGED vars
    BY <1>7, Zenon DEF vars, IInv, TypeOK, Good, Created, Registered, DescriptorsCommitted, Agrees, Settled, height
  <1> QED
    BY <1>1, <1>2, <1>3, <1>4, <1>5, <1>6, <1>7, <1>8, Zenon DEF Next

-----------------------------------------------------------------------------
(***************************************************************************)
(* The registry storage, the finalized domains and the domains a proposal  *)
(* creates agree after any sequence of createChain calls, refunds, burns,  *)
(* donations, finalized and dropped proposals.                             *)
(***************************************************************************)
THEOREM Invariant == Spec => []IInv
  BY InitLemma, NextLemma, PTL DEF Spec

(***************************************************************************)
(* Every operation of the registry keeps the types, in particular every    *)
(* balance is a natural number.                                            *)
(***************************************************************************)
THEOREM TypeCorrect == Spec => []TypeOK
  <1>1. IInv => TypeOK
    BY Zenon DEF IInv
  <1> QED
    BY <1>1, Invariant, PTL

(***************************************************************************)
(* The finalized domains are the ones committed in the root registry, so   *)
(* validate_checkpoint_descriptors accepts any finalized state.            *)
(***************************************************************************)
THEOREM Committed == Spec => []DescriptorsCommitted
  <1>1. IInv => DescriptorsCommitted
    BY Zenon DEF IInv
  <1> QED
    BY <1>1, Invariant, PTL

(***************************************************************************)
(* No two domains share an EVM chain ID, whatever a batch creates.         *)
(***************************************************************************)
THEOREM UniqueChainIds == Spec => []ChainIdsUnique
  <1>1. IInv => ChainIdsUnique
    BY Zenon DEF IInv, Good, ChainIdsUnique
  <1> QED
    BY <1>1, Invariant, PTL

(***************************************************************************)
(* insert_created_domain accepts every domain the registry created.        *)
(***************************************************************************)
THEOREM InsertsSucceed == Spec => []InsertNeverFails
  BY InsertLemma, Invariant, PTL

(***************************************************************************)
(* A parent is finalized before its child is created.                      *)
(***************************************************************************)
THEOREM ParentFirst == Spec => []ParentFinalizedFirst
  <1>1. IInv => ParentFinalizedFirst
    BY Zenon DEF IInv, Good, ParentFinalizedFirst
  <1> QED
    BY <1>1, Invariant, PTL

(***************************************************************************)
(* The three together: storage, proposal and finalized chain agree on the  *)
(* domains, for any number of domains, accounts and blocks.                *)
(***************************************************************************)
THEOREM RegistryAlwaysConsistent == Spec => []RegistryConsistent
  <1>1. DescriptorsCommitted /\ ChainIdsUnique /\ ParentFinalizedFirst => RegistryConsistent
    BY Zenon DEF RegistryConsistent
  <1> QED
    BY <1>1, Committed, UniqueChainIds, ParentFirst, PTL

(***************************************************************************)
(* No refund before the lock period has passed.                            *)
(***************************************************************************)
THEOREM RefundsWait == Spec => RefundAfterLock
  <1> DEFINE A == \A d \in Domain :
          state.slots.status[d] = "Locked" /\ state'.slots.status[d] = "Refunded" =>
              height >= state.slots.creation_height[d] + CREATION_DEPOSIT_LOCK_BLOCKS
  <1>1. IInv /\ [Next]_vars => [A]_vars
    <2> SUFFICES ASSUME IInv, Next, NEW d \in Domain,
                        state.slots.status[d] = "Locked", state'.slots.status[d] = "Refunded"
                 PROVE  height >= state.slots.creation_height[d] + CREATION_DEPOSIT_LOCK_BLOCKS
      BY Zenon
    <2>s. state.slots \in Slots /\ state \in State /\ finalized.height \in Nat
      BY Zenon DEF IInv, TypeOK, State
    <2>1. ASSUME NEW sender \in Account \ {ZeroAddress}, NEW e \in Domain, NEW desc \in Descriptor,
                 CreateChain(sender, e, desc)
          PROVE  FALSE
      <3> DEFINE paid == transfer(state, sender, Registry, desc.creation_deposit)
                 t == creation_storage_writes(paid, e, desc)
      <3>1. paid.slots = state.slots /\ paid.nonce = state.nonce /\ state.nonce # 0
        BY <2>s, Zenon DEF transfer, State, IInv, Good
      <3>2. state' = apply_changes(t)
        BY <2>1, Zenon DEF CreateChain
      <3>3. paid = [balance |-> paid.balance, nonce |-> paid.nonce, slots |-> paid.slots,
                  given |-> paid.given]
        BY <2>s DEF transfer, State
      <3> HIDE DEF paid
      <3>4. t.nonce = state.nonce
            /\ t.slots.status = [state.slots.status EXCEPT ![e] = "Locked"]
        BY <2>s, <3>1, <3>3, Zenon DEF creation_storage_writes, Slots
      <3> HIDE DEF t
      <3>5. state'.slots.status = [state.slots.status EXCEPT ![e] = "Locked"]
        BY <3>1, <3>2, <3>4, Zenon DEF apply_changes
      <3> QED
        BY <2>s, <3>5, Zenon DEF Slots
    <2>2. ASSUME NEW caller \in Account \ {ZeroAddress}, NEW e \in Domain, refundDeposit(caller, e)
          PROVE  height >= state.slots.creation_height[d] + CREATION_DEPOSIT_LOCK_BLOCKS
      <3>1. /\ state.slots.status[e] = "Locked" /\ settle(e, caller, "Refunded")
            /\ height >= state.slots.unlock[e]
        BY <2>2, Zenon DEF refundDeposit, locked
      <3>2. state'.slots.status = [state.slots.status EXCEPT ![e] = "Refunded"]
        BY <3>1, SettleLemma, Zenon DEF IInv
      <3>3. d = e
        BY <2>s, <3>2, Zenon DEF Slots
      <3> QED
        BY <3>1, <3>3, Zenon DEF IInv, Good
    <2>3. ASSUME NEW caller \in Account \ {ZeroAddress}, NEW e \in Domain, burnDeposit(caller, e)
          PROVE  FALSE
      <3>1. state.slots.status[e] = "Locked" /\ settle(e, ZeroAddress, "Burned")
        BY <2>3, Zenon DEF burnDeposit, locked
      <3>2. state'.slots.status = [state.slots.status EXCEPT ![e] = "Burned"]
        BY <3>1, SettleLemma, RegistryAssumption, Zenon DEF IInv
      <3> QED
        BY <2>s, <3>2, Zenon DEF Slots
    <2>4. ASSUME NEW sender \in Account, NEW amount \in Value, Donate(sender, amount)
          PROVE  FALSE
      <3> DEFINE paid == transfer(state, sender, Registry, amount)
      <3>1. paid.slots = state.slots /\ paid.nonce = state.nonce /\ state.nonce # 0
        BY <2>s, Zenon DEF transfer, State, IInv, Good
      <3>2. state' = apply_changes(paid)
        BY <2>4, Zenon DEF Donate
      <3> HIDE DEF paid
      <3> QED
        BY <3>1, <3>2, Zenon DEF apply_changes
    <2>7. ASSUME NEW sender \in Account, NEW amount \in Value, Pay(sender, amount)
          PROVE  FALSE
      <3> DEFINE paid == transfer(state, sender, ZeroAddress, amount)
      <3>1. paid.slots = state.slots
        BY <2>s, Zenon DEF transfer, State
      <3>2. state' = [paid EXCEPT !.given = @ + amount]
        BY <2>7, Zenon DEF Pay
      <3>3. paid \in [balance : {paid.balance}, nonce : Nat, slots : Slots, given : Nat]
        BY <2>s, Zenon DEF transfer, State
      <3> HIDE DEF paid
      <3> QED
        BY <3>1, <3>2, <3>3, Zenon
    <2>5. CASE Finalize
      BY <2>5, Zenon DEF Finalize
    <2>6. CASE Discard
      BY <2>6, Zenon DEF Discard, IInv, Agrees, Settled
    <2> QED
      BY <2>1, <2>2, <2>3, <2>4, <2>5, <2>6, <2>7, Zenon DEF Next
  <1> QED
    BY <1>1, Invariant, PTL DEF Spec, RefundAfterLock

-----------------------------------------------------------------------------
\* The base fee.

\* A product grows with either factor.
LEMMA MulMono ==
    ASSUME NEW a \in Nat, NEW b \in Nat, NEW c \in Nat, b <= c
    PROVE  /\ a * b \in Nat /\ a * c \in Nat
           /\ a * b <= a * c
OBVIOUS

\* The defining bounds of a natural quotient.
LEMMA DivBounds ==
    ASSUME NEW a \in Nat, NEW b \in Nat, b > 0
    PROVE  /\ a \div b \in Nat
           /\ b * (a \div b) <= a
           /\ a < b * (a \div b) + b
OBVIOUS

\* A quotient below the bound its dividend gives.
LEMMA QuotientBound ==
    ASSUME NEW a \in Nat, NEW b \in Nat, NEW c \in Nat, b > 0, a <= b * c
    PROVE  a \div b <= c
<1>1. a \div b \in Nat /\ b * (a \div b) <= a
  BY DivBounds, Zenon
<1>2. ASSUME a \div b > c PROVE FALSE
  <2> DEFINE q == a \div b
  <2>1. q \in Nat /\ c + 1 <= q
    BY <1>1, <1>2
  <2>2. b * (c + 1) <= b * q
    BY <2>1, MulMono, c + 1 \in Nat, Zenon
  <2>3. b * (c + 1) = b * c + b
    OBVIOUS
  <2>4. b * c \in Nat /\ b * q <= a
    BY <1>1, <2>1, MulMono
  <2> QED
    BY <2>1, <2>2, <2>3, <2>4
<1> QED
  BY <1>1, <1>2

\* A quotient grows with its dividend.
LEMMA DivMono ==
    ASSUME NEW a \in Nat, NEW b \in Nat, NEW c \in Nat, b > 0, a <= c
    PROVE  a \div b <= c \div b
<1>1. c \div b \in Nat /\ c < b * (c \div b) + b
  BY DivBounds, Zenon
<1>2. a \div b \in Nat /\ b * (a \div b) <= a
  BY DivBounds, Zenon
<1>3. ASSUME a \div b > c \div b PROVE FALSE
  <2> DEFINE q == c \div b
             p == a \div b
  <2>1. q \in Nat /\ p \in Nat /\ q + 1 <= p
    BY <1>1, <1>2, <1>3
  <2>2. b * (q + 1) <= b * p
    BY <2>1, MulMono, q + 1 \in Nat, Zenon
  <2>3. b * (q + 1) = b * q + b
    BY <2>1
  <2> HIDE DEF q, p
  <2>4. b * q \in Nat /\ b * p \in Nat
    BY <2>1, MulMono
  <2>5. b * p <= a /\ c < b * q + b
    BY <1>1, <1>2, Zenon DEF p, q
  <2> QED
    BY <2>2, <2>3, <2>4, <2>5
<1> QED
  BY <1>1, <1>2, <1>3

-----------------------------------------------------------------------------
\* The product of a fee that fits the EVM field with an amount of gas does not saturate.
LEMMA ProductFits ==
    ASSUME NEW fee \in 0 .. U64_MAX, NEW delta \in 0 .. MAX_DOMAIN_BLOCK_GAS
    PROVE  /\ fee * delta \in Nat
           /\ fee * delta <= U128_MAX
           /\ saturating_mul(fee, delta) = fee * delta
<1>1. /\ U64_MAX \in Nat /\ U128_MAX \in Nat /\ MAX_DOMAIN_BLOCK_GAS \in Nat
      /\ U64_MAX * MAX_DOMAIN_BLOCK_GAS <= U128_MAX
      /\ fee \in Nat /\ fee <= U64_MAX
      /\ delta \in Nat /\ delta <= MAX_DOMAIN_BLOCK_GAS
  BY FeeMarketAssumption
<1>2. fee * delta \in Nat /\ fee * delta <= fee * MAX_DOMAIN_BLOCK_GAS
  BY <1>1, MulMono, Zenon
<1>3. /\ MAX_DOMAIN_BLOCK_GAS * fee \in Nat
      /\ MAX_DOMAIN_BLOCK_GAS * fee <= MAX_DOMAIN_BLOCK_GAS * U64_MAX
      /\ MAX_DOMAIN_BLOCK_GAS * U64_MAX \in Nat
  BY <1>1, MulMono, Zenon
<1>4. /\ fee * MAX_DOMAIN_BLOCK_GAS = MAX_DOMAIN_BLOCK_GAS * fee
      /\ U64_MAX * MAX_DOMAIN_BLOCK_GAS = MAX_DOMAIN_BLOCK_GAS * U64_MAX
  BY <1>1
<1>5. fee * delta <= U128_MAX
  BY <1>1, <1>2, <1>3, <1>4
<1> QED
  BY <1>1, <1>2, <1>5 DEF saturating_mul, saturated

\* The step of the fee: at most an eighth when the distance is at most the target, and at
\* most the fee when it is one more, as it can be for an odd gas limit.
LEMMA ShareBounds ==
    ASSUME NEW fee \in 0 .. U64_MAX, NEW delta \in 0 .. MAX_DOMAIN_BLOCK_GAS,
           NEW target \in Nat, target > 0
    PROVE  /\ share(fee, delta, target) \in Nat
           /\ delta <= target => 8 * share(fee, delta, target) <= fee
           /\ delta <= target + 1 => share(fee, delta, target) <= fee
<1> DEFINE product == fee * delta
           q == product \div target
<1>1. fee \in Nat /\ delta \in Nat
  BY FeeMarketAssumption
<1>2. product \in Nat /\ saturating_mul(fee, delta) = product
  BY ProductFits, Zenon
<1>3. share(fee, delta, target) = q \div 8
  BY <1>2, Zenon DEF share
<1>4. q \in Nat
  BY <1>2, DivBounds, Zenon
<1> HIDE DEF product, q
<1>5. q \div 8 \in Nat /\ 8 * (q \div 8) <= q
  BY <1>4
<1>6. ASSUME delta <= target PROVE q <= fee
  <2>1. product <= fee * target
    BY <1>1, <1>6, MulMono, Zenon DEF product
  <2>2. fee * target = target * fee
    BY <1>1
  <2> QED
    BY <1>1, <1>2, <2>1, <2>2, QuotientBound, Zenon DEF q
<1>7. ASSUME delta <= target + 1 PROVE q <= 2 * fee
  <2>1. target + 1 <= 2 * target /\ 2 * target \in Nat /\ target + 1 \in Nat /\ 2 * fee \in Nat
    BY <1>1
  <2>2. product <= fee * (2 * target)
    <3>1. delta <= 2 * target
      BY <1>1, <1>7, <2>1
    <3> QED
      BY <1>1, <2>1, <3>1, MulMono, Zenon DEF product
  <2>3. fee * (2 * target) = target * (2 * fee)
    BY <1>1
  <2> QED
    BY <1>1, <1>2, <2>1, <2>2, <2>3, QuotientBound, Zenon DEF q
<1> QED
  BY <1>1, <1>3, <1>4, <1>5, <1>6, <1>7

\* The step grows with the distance from the target.
LEMMA ShareMono ==
    ASSUME NEW fee \in 0 .. U64_MAX,
           NEW d \in 0 .. MAX_DOMAIN_BLOCK_GAS, NEW e \in 0 .. MAX_DOMAIN_BLOCK_GAS, d <= e,
           NEW target \in Nat, target > 0
    PROVE  share(fee, d, target) <= share(fee, e, target)
<1>1. fee \in Nat /\ d \in Nat /\ e \in Nat
  BY FeeMarketAssumption
<1>2. fee * d \in Nat /\ fee * e \in Nat /\ fee * d <= fee * e
  BY <1>1, MulMono, Zenon
<1>3. saturating_mul(fee, d) = fee * d /\ saturating_mul(fee, e) = fee * e
  BY ProductFits, Zenon
<1>4. /\ (fee * d) \div target \in Nat /\ (fee * e) \div target \in Nat
      /\ (fee * d) \div target <= (fee * e) \div target
  BY <1>2, DivMono, DivBounds, Zenon
<1>5. ((fee * d) \div target) \div 8 <= ((fee * e) \div target) \div 8
  BY <1>4, DivMono
<1> QED
  BY <1>3, <1>5, Zenon DEF share

Target(limit) == limit \div 2

\* next_base_fee case by case, without saturation.
LEMMA NextFee ==
    ASSUME NEW limit \in 1 .. MAX_DOMAIN_BLOCK_GAS, NEW used \in 0 .. limit,
           NEW fee \in 0 .. U64_MAX
    PROVE  LET t == Target(limit)
               n == next_base_fee(limit, used, fee)
           IN  /\ t \in Nat
               /\ t = 0 \/ used = t => n = fee
               /\ t # 0 /\ used > t =>
                     /\ used - t \in 0 .. MAX_DOMAIN_BLOCK_GAS
                     /\ n = fee + at_least_one(share(fee, used - t, t))
                     /\ n > fee
               /\ t # 0 /\ used < t =>
                     /\ t - used \in 0 .. MAX_DOMAIN_BLOCK_GAS
                     /\ n = fee - share(fee, t - used, t)
                     /\ 8 * share(fee, t - used, t) <= fee
                     /\ n <= fee
               /\ n \in Nat
<1> DEFINE t == Target(limit)
           n == next_base_fee(limit, used, fee)
<1>1. /\ limit \in Nat /\ used \in Nat /\ fee \in Nat /\ used <= limit /\ limit <= MAX_DOMAIN_BLOCK_GAS
      /\ fee <= U64_MAX /\ U64_MAX \in Nat /\ U128_MAX \in Nat /\ MAX_DOMAIN_BLOCK_GAS \in Nat
      /\ 2 * U64_MAX + 1 <= U128_MAX
  BY FeeMarketAssumption
<1>2. t \in Nat /\ t <= limit /\ limit <= 2 * t + 1
  BY <1>1 DEF Target
<1>3. ASSUME t = 0 \/ used = t PROVE n = fee
  BY <1>3, Zenon DEF next_base_fee, Target
<1>4. ASSUME t # 0, used > t
      PROVE  /\ used - t \in 0 .. MAX_DOMAIN_BLOCK_GAS
             /\ n = fee + at_least_one(share(fee, used - t, t))
             /\ n > fee /\ n \in Nat
  <2> DEFINE s == share(fee, used - t, t)
  <2>1. used - t \in 0 .. MAX_DOMAIN_BLOCK_GAS /\ used - t <= t + 1 /\ t > 0
    BY <1>1, <1>2, <1>4
  <2>2. s \in Nat /\ s <= fee
    BY <1>2, <2>1, ShareBounds, Zenon
  <2>3. n = saturated(fee + at_least_one(s))
    BY <1>4 DEF next_base_fee, Target
  <2> HIDE DEF s, n
  <2>4. at_least_one(s) \in Nat /\ at_least_one(s) >= 1 /\ at_least_one(s) <= fee + 1
    BY <1>1, <2>2 DEF at_least_one
  <2>5. n = fee + at_least_one(s)
    BY <1>1, <2>3, <2>4 DEF saturated
  <2> QED
    BY <1>1, <2>1, <2>4, <2>5 DEF s
<1>5. ASSUME t # 0, used < t
      PROVE  /\ t - used \in 0 .. MAX_DOMAIN_BLOCK_GAS
             /\ n = fee - share(fee, t - used, t)
             /\ 8 * share(fee, t - used, t) <= fee
             /\ n <= fee /\ n \in Nat
  <2> DEFINE s == share(fee, t - used, t)
  <2>1. t - used \in 0 .. MAX_DOMAIN_BLOCK_GAS /\ t - used <= t /\ t > 0
    BY <1>1, <1>2, <1>5
  <2>2. s \in Nat /\ 8 * s <= fee
    BY <1>2, <2>1, ShareBounds, Zenon
  <2>3. ~(used > t) /\ ~(used = t)
    BY <1>1, <1>2, <1>5
  <2>4. n = IF s > fee THEN 0 ELSE fee - s
    BY <1>5, <2>3, Zenon DEF next_base_fee, Target
  <2> HIDE DEF s, n
  <2> QED
    BY <1>1, <2>1, <2>2, <2>4 DEF s
<1>6. n \in Nat
  BY <1>1, <1>2, <1>3, <1>4, <1>5
<1> QED
  BY <1>2, <1>3, <1>4, <1>5, <1>6, Zenon

-----------------------------------------------------------------------------
\* execute_domain, which refuses a fee that does not fit, keeps the header within its types.
LEMMA FeeTypeStep == FeeTypeOK /\ [FeeNext]_fee_vars => FeeTypeOK'
<1> SUFFICES ASSUME FeeTypeOK, [FeeNext]_fee_vars PROVE FeeTypeOK'
  BY Zenon
<1>1. ASSUME NEW used \in 1 .. gas_limit, execute_domain(used) PROVE FeeTypeOK'
  <2> DEFINE fee == next_base_fee(gas_limit, gas_used, base_fee_per_gas)
  <2>1. fee \in Nat
    BY NextFee, Zenon DEF FeeTypeOK
  <2>2. fee <= U64_MAX /\ base_fee_per_gas' = fee /\ gas_used' = used /\ gas_limit' = gas_limit
    BY <1>1, Zenon DEF execute_domain, validate_fee
  <2> QED
    BY <2>1, <2>2, FeeMarketAssumption DEF FeeTypeOK
<1>2. CASE UNCHANGED fee_vars
  BY <1>2, Zenon DEF FeeTypeOK, fee_vars
<1> QED
  BY <1>1, <1>2, Zenon DEF FeeNext

\* Every reachable header is within the bounds that DomainConfig::validate sets for the first
\* one: the fee always fits the EVM's field.
THEOREM FeeTypeCorrect == FeeSpec => []FeeTypeOK
<1>1. FeeInit => FeeTypeOK
  BY FeeMarketAssumption DEF FeeInit, FeeTypeOK
<1> QED
  BY <1>1, FeeTypeStep, PTL DEF FeeSpec

\* No operation of next_base_fee saturates, for any field widths and gas limits with
\* U64_MAX * MAX_DOMAIN_BLOCK_GAS <= U128_MAX.
THEOREM NeverSaturates == FeeSpec => []NoSaturation
<1>1. FeeTypeOK => NoSaturation
  <2> SUFFICES ASSUME FeeTypeOK PROVE NoSaturation
    BY Zenon
  <2> DEFINE t == gas_limit \div 2
  <2>1. /\ gas_limit \in Nat /\ gas_limit <= MAX_DOMAIN_BLOCK_GAS /\ MAX_DOMAIN_BLOCK_GAS \in Nat
        /\ base_fee_per_gas \in 0 .. U64_MAX /\ base_fee_per_gas \in Nat
        /\ U64_MAX \in Nat /\ U128_MAX \in Nat /\ 2 * U64_MAX + 1 <= U128_MAX
    BY FeeMarketAssumption DEF FeeTypeOK
  <2>2. t \in Nat /\ gas_limit - t <= t + 1 /\ t <= gas_limit
    BY <2>1
  <2> HIDE DEF t
  <2>3. ASSUME NEW delta \in 0 .. gas_limit - t
        PROVE  /\ base_fee_per_gas * delta <= U128_MAX
               /\ t # 0 => base_fee_per_gas + share(base_fee_per_gas, delta, t) + 1 <= U128_MAX
    <3>1. delta \in 0 .. MAX_DOMAIN_BLOCK_GAS /\ delta <= t + 1
      BY <2>1, <2>2
    <3>2. base_fee_per_gas * delta <= U128_MAX
      BY <2>1, <3>1, ProductFits, Zenon
    <3>3. ASSUME t # 0
          PROVE  base_fee_per_gas + share(base_fee_per_gas, delta, t) + 1 <= U128_MAX
      <4>1. /\ share(base_fee_per_gas, delta, t) \in Nat
            /\ share(base_fee_per_gas, delta, t) <= base_fee_per_gas
        BY <2>1, <2>2, <3>1, <3>3, ShareBounds
      <4> QED
        BY <2>1, <4>1
    <3> QED
      BY <3>2, <3>3, Zenon
  <2> QED
    BY <2>3, Zenon DEF NoSaturation, t
<1> QED
  BY <1>1, FeeTypeCorrect, PTL

\* More gas used never lowers the next fee.
THEOREM FeeMonotone == FeeSpec => []DemandNeverLowersFee
<1>1. FeeTypeOK => DemandNeverLowersFee
  <2> SUFFICES ASSUME FeeTypeOK, NEW used \in 0 .. gas_limit - 1
               PROVE  next_base_fee(gas_limit, used, base_fee_per_gas)
                          <= next_base_fee(gas_limit, used + 1, base_fee_per_gas)
    BY Zenon DEF DemandNeverLowersFee
  <2> DEFINE t == Target(gas_limit)
             fee == base_fee_per_gas
             n == next_base_fee(gas_limit, used, fee)
             m == next_base_fee(gas_limit, used + 1, fee)
  <2>1. /\ gas_limit \in 1 .. MAX_DOMAIN_BLOCK_GAS /\ fee \in 0 .. U64_MAX
        /\ used \in 0 .. gas_limit /\ used + 1 \in 0 .. gas_limit
        /\ gas_limit \in Nat /\ used \in Nat /\ fee \in Nat
    BY FeeMarketAssumption DEF FeeTypeOK
  <2>2. t \in Nat /\ n \in Nat /\ m \in Nat
    BY <2>1, NextFee, Zenon
  <2>3. CASE t = 0 \/ used >= t
    <3>1. CASE t = 0
      BY <2>1, <2>2, <3>1, NextFee
    <3>2. CASE t # 0 /\ used = t
      BY <2>1, <2>2, <3>2, NextFee
    <3>3. CASE t # 0 /\ used > t
      <4>1. used + 1 > t /\ used - t <= (used + 1) - t
        BY <2>1, <2>2, <3>3
      <4>2. /\ used - t \in 0 .. MAX_DOMAIN_BLOCK_GAS
            /\ n = fee + at_least_one(share(fee, used - t, t))
        BY <2>1, <3>3, NextFee, Zenon
      <4>3. /\ (used + 1) - t \in 0 .. MAX_DOMAIN_BLOCK_GAS
            /\ m = fee + at_least_one(share(fee, (used + 1) - t, t))
        BY <2>1, <3>3, <4>1, NextFee, Zenon
      <4>4. share(fee, used - t, t) <= share(fee, (used + 1) - t, t)
        BY <2>1, <2>2, <3>3, <4>1, <4>2, <4>3, ShareMono
      <4>5. share(fee, used - t, t) \in Nat /\ share(fee, (used + 1) - t, t) \in Nat
        BY <2>1, <2>2, <3>3, <4>2, <4>3, ShareBounds
      <4> QED
        BY <2>1, <4>2, <4>3, <4>4, <4>5 DEF at_least_one
    <3> QED
      BY <2>1, <2>2, <2>3, <3>1, <3>2, <3>3
  <2>4. CASE t # 0 /\ used < t
    <3>1. /\ t - used \in 0 .. MAX_DOMAIN_BLOCK_GAS
          /\ n = fee - share(fee, t - used, t)
          /\ n <= fee
      BY <2>1, <2>4, NextFee, Zenon
    <3>2. CASE used + 1 = t
      BY <2>1, <2>2, <3>1, <3>2, NextFee
    <3>3. CASE used + 1 < t
      <4>1. /\ t - (used + 1) \in 0 .. MAX_DOMAIN_BLOCK_GAS
            /\ m = fee - share(fee, t - (used + 1), t)
        BY <2>1, <2>4, <3>3, NextFee, Zenon
      <4>2. t - (used + 1) <= t - used /\ t > 0
        BY <2>1, <2>2, <2>4
      <4>3. share(fee, t - (used + 1), t) <= share(fee, t - used, t)
        BY <2>1, <2>2, <3>1, <4>1, <4>2, ShareMono, Zenon
      <4>4. share(fee, t - used, t) \in Nat /\ share(fee, t - (used + 1), t) \in Nat
        BY <2>1, <2>2, <3>1, <4>1, <4>2, ShareBounds, Zenon
      <4> QED
        BY <2>1, <3>1, <4>1, <4>3, <4>4
    <3> QED
      BY <2>1, <2>2, <2>4, <3>2, <3>3
  <2> QED
    BY <2>1, <2>2, <2>3, <2>4
<1> QED
  BY <1>1, FeeTypeCorrect, PTL

\* Both together: next_base_fee computes its formula, and the formula is monotone.
THEOREM FormulaSound == FeeSpec => []FeeFormulaSound
<1>1. NoSaturation /\ DemandNeverLowersFee => FeeFormulaSound
  BY Zenon DEF FeeFormulaSound
<1> QED
  BY <1>1, NeverSaturates, FeeMonotone, PTL

\* A block above the target raises the fee, one at or below it does not, and a positive fee
\* stays positive.
THEOREM FollowsDemand == FeeSpec => FeeFollowsDemand
<1> DEFINE A == /\ IF gas_limit \div 2 # 0 /\ gas_used > gas_limit \div 2
                   THEN base_fee_per_gas' > base_fee_per_gas
                   ELSE base_fee_per_gas' <= base_fee_per_gas
                /\ base_fee_per_gas > 0 => base_fee_per_gas' > 0
<1>1. FeeTypeOK /\ [FeeNext]_fee_vars => [A]_fee_vars
  <2> SUFFICES ASSUME FeeTypeOK, NEW used \in 1 .. gas_limit, execute_domain(used) PROVE A
    BY Zenon DEF FeeNext
  <2> DEFINE t == Target(gas_limit)
             n == next_base_fee(gas_limit, gas_used, base_fee_per_gas)
             s == share(base_fee_per_gas, t - gas_used, t)
  <2>1. base_fee_per_gas' = n
    BY Zenon DEF execute_domain
  <2>2. gas_used \in Nat /\ base_fee_per_gas \in Nat /\ base_fee_per_gas \in 0 .. U64_MAX
    BY FeeMarketAssumption DEF FeeTypeOK
  <2>3. /\ t \in Nat /\ n \in Nat
        /\ t = 0 \/ gas_used = t => n = base_fee_per_gas
        /\ t # 0 /\ gas_used > t => n > base_fee_per_gas
        /\ t # 0 /\ gas_used < t => n = base_fee_per_gas - s /\ 8 * s <= base_fee_per_gas
                                    /\ t - gas_used \in 0 .. MAX_DOMAIN_BLOCK_GAS
    BY NextFee, Zenon DEF FeeTypeOK
  <2>4. t # 0 /\ gas_used < t => s \in Nat
    BY <2>2, <2>3, ShareBounds
  <2>5. t = gas_limit \div 2
    BY Zenon DEF Target
  <2> HIDE DEF n, s, t
  <2> QED
    BY <2>1, <2>2, <2>3, <2>4, <2>5
<1> QED
  BY <1>1, FeeTypeCorrect, PTL DEF FeeSpec, FeeFollowsDemand
=============================================================================
