----------------------------- MODULE EnvelopeCodec -----------------------------
(***************************************************************************)
(* arbor-codec, ethereum.rs, and the call data of arbor-system: the        *)
(* EIP-1559 envelope, its receipt, and the createChain call.  An RLP       *)
(* string is one unit and a list header one unit that holds the length of  *)
(* its payload; alloy_rlp refuses a string of the wrong length.  Call data *)
(* and log data stand for their lengths.                                   *)
(***************************************************************************)
EXTENDS CanonicalCodec

CONSTANTS
    MAX_CALLDATA, MAX_INITCODE, MAX_ACCESS_LIST_ADDRESSES, MAX_ACCESS_LIST_STORAGE_KEYS,
    MAX_LOGS, MAX_TOPICS, MAX_DOMAIN_GAS, MAX_U64,
    OddString     \* an RLP string of a length that no field has

EIP_1559_TX_TYPE == 2

\* The empty RLP string, which is also the scalar zero.
EmptyString == 0

ListHeader(n) == -100 - n

list_of(payload) == <<ListHeader(Len(payload))>> \o payload

is_scalar(u) == u >= 0 /\ u # OddString

is_fixed(u) == is_scalar(u) /\ u # EmptyString

\* list_payload, at unit p of s.
list_payload(s, p) ==
    IF p <= Len(s) /\ s[p] <= ListHeader(0) /\ p + (ListHeader(0) - s[p]) <= Len(s)
    THEN [ok |-> TRUE, val |-> SubSeq(s, p + 1, p + (ListHeader(0) - s[p])),
          next |-> p + (ListHeader(0) - s[p]) + 1]
    ELSE [ok |-> FALSE, val |-> <<>>, next |-> Len(s) + 2]

\* The loop over a payload that holds lists only: the payload of every one.
list_payloads(s) ==
    LET from[p \in 1 .. Len(s) + 1] ==
            LET l == list_payload(s, p)
            IN  IF p = Len(s) + 1 THEN [ok |-> TRUE, val |-> <<>>]
                ELSE IF l.ok /\ from[l.next].ok
                     THEN [ok |-> TRUE, val |-> <<l.val>> \o from[l.next].val]
                     ELSE [ok |-> FALSE, val |-> <<>>]
    IN  from[1]

-----------------------------------------------------------------------------
validate(t, require_signature) ==
    /\ t.chain_id # 0
    /\ t.max_priority_fee_per_gas <= t.max_fee_per_gas
    /\ t.input <= IF t.to = EmptyString THEN MAX_INITCODE ELSE MAX_CALLDATA
    /\ Len(t.access_list) <= MAX_ACCESS_LIST_ADDRESSES
    /\ \A item \in ToSet(t.access_list) :
          Len(item.storage_keys) <= MAX_ACCESS_LIST_STORAGE_KEYS
    /\ require_signature => t.r # 0 /\ t.s # 0

encode_access_list(access_list) ==
    list_of(FlattenSeq([i \in DOMAIN access_list |->
        list_of(<<access_list[i].address>> \o list_of(access_list[i].storage_keys))]))

encode_fields(t, signed) ==
    <<t.chain_id, t.nonce, t.max_priority_fee_per_gas, t.max_fee_per_gas, t.gas_limit, t.to,
      t.value, t.input>>
    \o encode_access_list(t.access_list)
    \o (IF signed THEN <<IF t.y_parity THEN 1 ELSE 0, t.r, t.s>> ELSE <<>>)

encode_envelope(t, signed) ==
    LET encoded == <<EIP_1559_TX_TYPE>> \o list_of(encode_fields(t, signed))
    IN  IF validate(t, signed) /\ Len(encoded) <= MAX_TRANSACTION_ENVELOPE
        THEN encoded ELSE Refused

encode_eip1559(t) == encode_envelope(t, TRUE)

encode_eip1559_signing_payload(t) == encode_envelope(t, FALSE)

\* One access-list item: its address, then its keys and nothing more.
is_access_list_item(item) ==
    LET keys == list_payload(item, 2)
    IN  /\ item # <<>> /\ is_fixed(item[1])
        /\ keys.ok /\ keys.next = Len(item) + 1
        /\ Len(keys.val) <= MAX_ACCESS_LIST_STORAGE_KEYS
        /\ \A k \in ToSet(keys.val) : is_fixed(k)

\* decode_access_list at unit p; next is where the fields go on.
decode_access_list(s, p) ==
    LET l == list_payload(s, p)
        items == list_payloads(l.val)
        ok == /\ l.ok /\ items.ok
              /\ Len(items.val) <= MAX_ACCESS_LIST_ADDRESSES
              /\ \A item \in ToSet(items.val) : is_access_list_item(item)
    IN  [ok |-> ok, next |-> l.next,
         val |-> IF ok THEN [i \in DOMAIN items.val |->
                                [address |-> items.val[i][1],
                                 storage_keys |-> list_payload(items.val[i], 2).val]]
                 ELSE <<>>]

\* The type byte and one list that ends the input.
typed_list(w, limit) ==
    LET l == list_payload(w, 2)
    IN  [l EXCEPT !.ok = @ /\ Len(w) <= limit /\ w[1] = EIP_1559_TX_TYPE
                           /\ l.next = Len(w) + 1]

decode_eip1559(w) ==
    LET f == typed_list(w, MAX_TRANSACTION_ENVELOPE).val
        list == decode_access_list(f, 9)
        p == list.next
        t == [chain_id |-> f[1], nonce |-> f[2], max_priority_fee_per_gas |-> f[3],
              max_fee_per_gas |-> f[4], gas_limit |-> f[5], to |-> f[6], value |-> f[7],
              input |-> f[8], access_list |-> list.val, y_parity |-> f[p] = 1,
              r |-> f[p + 1], s |-> f[p + 2]]
    IN  IF /\ typed_list(w, MAX_TRANSACTION_ENVELOPE).ok
           /\ list.ok
           /\ Len(f) = p + 2
           /\ \A i \in 1 .. 8 : is_scalar(f[i])
           /\ f[p] \in {0, 1} /\ is_scalar(f[p + 1]) /\ is_scalar(f[p + 2])
           /\ validate(t, TRUE)
        THEN t ELSE Malformed

-----------------------------------------------------------------------------
log_fits(log) == Len(log.topics) <= MAX_TOPICS /\ log.data <= 2 * MAX_CALLDATA

encode_logs(logs) ==
    list_of(FlattenSeq([i \in DOMAIN logs |->
        list_of(<<logs[i].address>> \o list_of(logs[i].topics) \o <<logs[i].data>>)]))

encode_eip1559_receipt(r) ==
    LET encoded == <<EIP_1559_TX_TYPE>> \o
            list_of(<<IF r.status THEN 1 ELSE 0, r.cumulative_gas_used, r.logs_bloom>>
                    \o encode_logs(r.logs))
    IN  IF /\ Len(r.logs) <= MAX_LOGS
           /\ \A log \in ToSet(r.logs) : log_fits(log)
           /\ Len(encoded) <= MAX_CANONICAL_OBJECT
        THEN encoded ELSE Refused

decode_log(s) ==
    LET topics == list_payload(s, 2)
    IN  [address |-> s[1], topics |-> topics.val, data |-> s[topics.next]]

is_log(s) ==
    LET topics == list_payload(s, 2)
    IN  /\ s # <<>> /\ is_fixed(s[1])
        /\ topics.ok /\ \A t \in ToSet(topics.val) : is_fixed(t)
        /\ Len(s) = topics.next /\ is_scalar(s[topics.next])
        /\ log_fits(decode_log(s))

decode_eip1559_receipt(w) ==
    LET f == typed_list(w, MAX_CANONICAL_OBJECT).val
        logs == list_payload(f, 4)
        each == list_payloads(logs.val)
    IN  IF /\ typed_list(w, MAX_CANONICAL_OBJECT).ok
           /\ logs.ok /\ each.ok /\ logs.next = Len(f) + 1
           /\ f[1] \in {0, 1} /\ is_scalar(f[2]) /\ is_fixed(f[3])
           /\ Len(each.val) <= MAX_LOGS
           /\ \A s \in ToSet(each.val) : is_log(s)
        THEN [status |-> f[1] = 1, cumulative_gas_used |-> f[2], logs_bloom |-> f[3],
              logs |-> [i \in DOMAIN each.val |-> decode_log(each.val[i])]]
        ELSE Malformed

-----------------------------------------------------------------------------
(* createChain.  An ABI word has two units, the upper of which is zero in  *)
(* an integer; offsets and lengths count units.  Names and symbols are     *)
(* sequences of characters.                                                *)
CREATE_CHAIN_SELECTOR == 7
REFUND_DEPOSIT_SELECTOR == 8
BURN_DEPOSIT_SELECTOR == 9
HEAD == 9 * 2
Space == 40
Capital == 30
SmallLetter == 31
Dash == 32
Upper(c) == IF c = SmallLetter THEN Capital ELSE c
NameChar == {Capital, SmallLetter, Dash, Space}
SymbolChar == {Capital, SmallLetter}

word(v) == <<0, v>>

abi_bytes_tail(b) == word(Len(b)) \o b \o [i \in 1 .. (Len(b) % 2) |-> 0]

\* split_ascii_whitespace and join: a space stays between two words.
single_spaced(b) ==
    LET kept == {i \in DOMAIN b : b[i] # Space \/
                    (i < Len(b) /\ b[i + 1] # Space /\ \E j \in 1 .. i : b[j] # Space)}
    IN  [i \in 1 .. Cardinality(kept) |->
            b[CHOOSE k \in kept : Cardinality({j \in kept : j <= k}) = i]]

normalize_name(b) ==
    LET n == single_spaced(b)
    IN  IF Len(n) \in 1 .. MAX_NAME /\ ToSet(n) \subseteq NameChar THEN n ELSE Refused

\* trim and to_ascii_uppercase.
normalize_symbol(b) ==
    LET solid == {i \in DOMAIN b : b[i] # Space}
        n == IF solid = {} THEN <<>> ELSE SubSeq(b, Min(solid), Max(solid))
    IN  IF Len(n) \in 1 .. MAX_SYMBOL /\ ToSet(n) \subseteq SymbolChar
        THEN [i \in DOMAIN n |-> Upper(n[i])] ELSE Refused

validate_request(r) ==
    /\ r.parent_domain_id # <<0, 0>>
    /\ r.evm_chain_id # 0
    /\ r.owner # 0
    /\ r.gas_limit \in 1 .. MAX_DOMAIN_GAS
    /\ r.initial_base_fee <= MAX_U64
    /\ r.protocol_revision = 1

encode_create_chain_call(request) ==
    LET r == [request EXCEPT !.name = normalize_name(@), !.symbol = normalize_symbol(@)]
    IN  IF r.name # Refused /\ r.symbol # Refused /\ validate_request(r)
        THEN <<CREATE_CHAIN_SELECTOR>> \o r.parent_domain_id
             \o word(HEAD) \o word(HEAD + Len(abi_bytes_tail(r.name)))
             \o word(r.evm_chain_id) \o word(r.owner) \o word(r.gas_limit)
             \o word(r.initial_base_fee) \o r.initial_supply \o word(r.protocol_revision)
             \o abi_bytes_tail(r.name) \o abi_bytes_tail(r.symbol)
        ELSE Refused

\* decode_dynamic_bytes: offsets count from zero.
decode_dynamic_bytes(args, offset, limit) ==
    LET length == args[offset + 2]
        end == offset + 2 + length + (length % 2)
    IN  IF /\ offset % 2 = 0 /\ offset + 2 <= Len(args)
           /\ args[offset + 1] = 0 /\ length \in 0 .. limit
           /\ end <= Len(args)
           /\ \A i \in offset + 3 + length .. end : args[i] = 0
        THEN [ok |-> TRUE, val |-> SubSeq(args, offset + 3, offset + 2 + length), next |-> end]
        ELSE [ok |-> FALSE, val |-> <<>>, next |-> Len(args) + 1]

decode_create_chain_call(w) ==
    LET args == Tail(w)
        value(i) == args[2 * i + 2]
        name == decode_dynamic_bytes(args, HEAD, MAX_NAME)
        symbol == decode_dynamic_bytes(args, name.next, MAX_SYMBOL)
        r == [parent_domain_id |-> SubSeq(args, 1, 2), name |-> normalize_name(name.val),
              symbol |-> normalize_symbol(symbol.val), evm_chain_id |-> value(3),
              owner |-> value(4), gas_limit |-> value(5), initial_base_fee |-> value(6),
              initial_supply |-> SubSeq(args, 15, 16), protocol_revision |-> value(8)]
    IN  IF /\ Len(w) >= HEAD + 1 /\ w[1] = CREATE_CHAIN_SELECTOR
           /\ \A i \in {1, 2, 3, 4, 5, 6, 8} : args[2 * i + 1] = 0
           /\ value(1) = HEAD
           /\ name.ok /\ value(2) = name.next
           /\ symbol.ok /\ symbol.next = Len(args)
           /\ r.name # Refused /\ r.symbol # Refused
           /\ validate_request(r)
        THEN r ELSE Malformed

\* refundDeposit and burnDeposit, told apart by their selectors.
encode_domain_id_call(selector, call) == <<selector>> \o call.domain_id

decode_domain_id_call(w, selector) ==
    IF Len(w) = 3 /\ w[1] = selector THEN [domain_id |-> SubSeq(w, 2, 3)] ELSE Malformed
=============================================================================
