----------------------------- MODULE FeeMarket -----------------------------
(***************************************************************************)
(* arbor-chain: the EIP-1559 base fee of one domain.  A block takes its    *)
(* base fee from the header before it, and is refused when the fee does    *)
(* not fit the EVM's 64-bit field.  Multiplication and addition saturate   *)
(* at U128_MAX.                                                            *)
(***************************************************************************)
EXTENDS Integers

CONSTANTS U64_MAX, U128_MAX, MAX_DOMAIN_BLOCK_GAS

ASSUME FeeMarketAssumption ==
    /\ U64_MAX \in Nat /\ U128_MAX \in Nat
    /\ MAX_DOMAIN_BLOCK_GAS \in Nat \ {0}
    /\ U64_MAX * MAX_DOMAIN_BLOCK_GAS <= U128_MAX
    /\ 2 * U64_MAX + 1 <= U128_MAX

VARIABLES gas_limit, gas_used, base_fee_per_gas   \* of the domain's last header

fee_vars == <<gas_limit, gas_used, base_fee_per_gas>>

-----------------------------------------------------------------------------
saturated(x) == IF x > U128_MAX THEN U128_MAX ELSE x

saturating_mul(x, y) == saturated(x * y)

\* An eighth of the fee, in proportion to the distance from the target.
share(fee, delta, target) == (saturating_mul(fee, delta) \div target) \div 8

\* Mutant: an increase may round to nothing.
at_least_one_off(x) == x

at_least_one(x) == IF x < 1 THEN 1 ELSE x

\* Mutant: a decrease in proportion to the gas used.
next_base_fee_used(limit, used, fee) ==
    LET target == limit \div 2
    IN  IF target = 0 \/ used = target THEN fee
        ELSE IF used > target
             THEN saturated(fee + at_least_one(share(fee, used - target, target)))
             ELSE LET decrease == share(fee, used, target)
                  IN  IF decrease > fee THEN 0 ELSE fee - decrease

next_base_fee(limit, used, fee) ==
    LET target == limit \div 2
    IN  IF target = 0 \/ used = target THEN fee
        ELSE IF used > target
             THEN saturated(fee + at_least_one(share(fee, used - target, target)))
             ELSE LET decrease == share(fee, target - used, target)
                  IN  IF decrease > fee THEN 0 ELSE fee - decrease

\* The genesis header: DomainConfig::validate bounds its fields.
FeeInit ==
    /\ gas_limit \in 1 .. MAX_DOMAIN_BLOCK_GAS
    /\ gas_used = 0
    /\ base_fee_per_gas \in 0 .. U64_MAX

\* DomainEnv::validate.
validate_fee(fee) == fee <= U64_MAX

\* execute_domain with a batch that uses `used` gas.
execute_domain(used) ==
    LET fee == next_base_fee(gas_limit, gas_used, base_fee_per_gas)
    IN  /\ validate_fee(fee)
        /\ gas_used' = used
        /\ base_fee_per_gas' = fee
        /\ UNCHANGED gas_limit

FeeNext == \E used \in 1 .. gas_limit : execute_domain(used)

FeeSpec == FeeInit /\ [][FeeNext]_fee_vars

-----------------------------------------------------------------------------
FeeTypeOK ==
    /\ gas_limit \in 1 .. MAX_DOMAIN_BLOCK_GAS
    /\ gas_used \in 0 .. gas_limit
    /\ base_fee_per_gas \in 0 .. U64_MAX

\* No 128-bit operation of next_base_fee saturates in any reachable header, so that the fee is
\* the one of the formula: validate stops the domain before the product can overflow.
NoSaturation ==
    LET target == gas_limit \div 2
    IN  \A delta \in 0 .. gas_limit - target :
            /\ base_fee_per_gas * delta <= U128_MAX
            /\ target # 0 => base_fee_per_gas + share(base_fee_per_gas, delta, target) + 1 <= U128_MAX

\* More demand never makes the next block cheaper, whichever side of the target (half the gas
\* limit, rounded down) the block lands on.
DemandNeverLowersFee ==
    \A used \in 0 .. gas_limit - 1 :
        next_base_fee(gas_limit, used, base_fee_per_gas)
            <= next_base_fee(gas_limit, used + 1, base_fee_per_gas)

\* The fee of the next block is the formula's, at no width cut short, and grows with demand.
FeeFormulaSound == NoSaturation /\ DemandNeverLowersFee

\* blocks.md: "an upward change is at least one unit".  A block above the target raises the
\* fee, from zero too, and one at or below it does not; a positive fee stays positive, since a
\* decrease takes at most an eighth.
FeeFollowsDemand ==
    [][ /\ IF gas_limit \div 2 # 0 /\ gas_used > gas_limit \div 2
           THEN base_fee_per_gas' > base_fee_per_gas
           ELSE base_fee_per_gas' <= base_fee_per_gas
        /\ base_fee_per_gas > 0 => base_fee_per_gas' > 0 ]_fee_vars
=============================================================================
