---------------------------- MODULE EconomicsV7 ----------------------------
(***************************************************************************)
(* The pure arithmetic of the v7 economy: the staking index, the shares    *)
(* and values derived from it, the emission a quanto may pay, the split of *)
(* a fee, the size of one validator's part of the fee pool, and the base   *)
(* fee that follows the traffic.  Everything is integer arithmetic that    *)
(* rounds down unless the code rounds up; amounts in the code are u64 and  *)
(* products u128, far above any supply, so the saturating operations never *)
(* saturate and plain naturals stand for them.                             *)
(***************************************************************************)
EXTENDS Integers

CONSTANTS
    INDEX_SCALE,        \* fixed-point unit of the staking index (10^12 in the code)
    QUANTO_RATE_SCALE,  \* fixed-point unit of the rate of a quanto (10^18)
    RATE_FP,            \* rate of one quanto, in that unit
    FEE_MIN,            \* FEE_MIN_BASE_FEE_PER_BYTE
    FEE_MAX,            \* MAX_BASE_FEE_PER_BYTE
    FEE_DENOMINATOR,    \* FEE_ADJUST_DENOMINATOR
    EMISSION_APR,       \* emission_apr_bps of the v6 economy
    EMISSION_YEAR,      \* 10_000 * ROUNDS_PER_YEAR
    EMISSION_PRECISION  \* fixed-point unit of the v6 emission carry

ASSUME EconomicsAssumption ==
    /\ INDEX_SCALE \in Nat \ {0}
    /\ QUANTO_RATE_SCALE \in Nat \ {0}
    /\ RATE_FP \in Nat
    /\ FEE_MIN \in Nat \ {0}
    /\ FEE_MAX \in Nat
    /\ FEE_MIN <= FEE_MAX
    /\ FEE_DENOMINATOR \in Nat \ {0}
    /\ EMISSION_APR \in Nat
    /\ EMISSION_YEAR \in Nat \ {0}
    /\ EMISSION_PRECISION \in Nat \ {0}

AtMost(x, y)  == IF x <= y THEN x ELSE y
AtLeast(x, y) == IF x >= y THEN x ELSE y

(* saturating_sub of the unsigned integers.                                *)
Minus(x, y) == IF x >= y THEN x - y ELSE 0

----------------------------------------------------------------------------
(* Staking index: what one share is worth, times INDEX_SCALE.              *)

INITIAL_STAKING_INDEX == INDEX_SCALE

advance_staking_index(index) == index + (index * RATE_FP) \div QUANTO_RATE_SCALE

position_value(shares, index) == (shares * index) \div INDEX_SCALE

shares_for_deposit(amount, index) ==
    IF index = 0 THEN 0 ELSE (amount * INDEX_SCALE) \div index

emission_for_quanto(shares, old, new) ==
    Minus(position_value(shares, new), position_value(shares, old))

(* The index a settlement moves to and what it emits when the emission     *)
(* must come out of `budget`: the target when the budget pays for it, else *)
(* the old index plus what the budget buys per share.                      *)
IndexBoughtBy(shares, old, budget) == old + (budget * INDEX_SCALE) \div shares

index_for_backed_emission(shares, old, target, budget) ==
    IF shares = 0
      THEN [index |-> target, emission |-> 0]
      ELSE IF emission_for_quanto(shares, old, target) <= budget
             THEN [index |-> target, emission |-> emission_for_quanto(shares, old, target)]
             ELSE [index |-> IndexBoughtBy(shares, old, budget),
                   emission |-> emission_for_quanto(shares, old,
                                    IndexBoughtBy(shares, old, budget))]

(* The v6 emission of `rounds` rounds: whole coins, and the fraction that  *)
(* is carried to the next time.                                            *)
emission_for_rounds(staked, rounds, carry) ==
    LET total == carry + (staked * EMISSION_APR * rounds * EMISSION_PRECISION)
                           \div EMISSION_YEAR
    IN  [whole |-> total \div EMISSION_PRECISION, carry |-> total % EMISSION_PRECISION]

----------------------------------------------------------------------------
(* Fees.  A tenth goes to the administrative wallet, the rest is halved    *)
(* between the burn, which takes the odd unit, and the validators' pool.   *)

fee_split(fee) ==
    LET admin == fee \div 10
        rest  == fee - admin
        burn  == (rest + 1) \div 2
    IN  [admin |-> admin, burn |-> burn, validator |-> rest - burn]

(* The parts are the whole (invariants_v7.rs).                             *)
check_fee_split(fee) ==
    fee_split(fee).validator + fee_split(fee).burn + fee_split(fee).admin = fee

(* What each of n eligible validators gets out of the pool at a close.     *)
fee_pool_reward(pool, n) == IF n = 0 THEN 0 ELSE pool \div n

----------------------------------------------------------------------------
(* The base fee per byte moves by at most an eighth of itself per round,   *)
(* towards more when the last round carried more than its target of bytes. *)

clamp_base_fee(fee) == AtMost(AtLeast(fee, FEE_MIN), FEE_MAX)

next_base_fee(current, bytes, target) ==
    IF target = 0
      THEN AtLeast(current, FEE_MIN)
      ELSE IF bytes > target
             THEN clamp_base_fee(current +
                    AtLeast(((current * (bytes - target)) \div target) \div FEE_DENOMINATOR, 1))
             ELSE clamp_base_fee(Minus(current,
                    ((current * (target - bytes)) \div target) \div FEE_DENOMINATOR))

(* The fee in force at `round`, when the last round with traffic was       *)
(* `epoch` and carried `bytes`: one step for that round, then one step     *)
(* down for every empty round since, stopping at the floor.                *)
rolled_base_fee(base, epoch, bytes, round, target) ==
    IF round <= epoch
      THEN base
      ELSE LET decayed[n \in 0 .. (round - epoch - 1)] ==
                 IF n = 0
                   THEN next_base_fee(base, bytes, target)
                   ELSE IF decayed[n - 1] > FEE_MIN
                          THEN next_base_fee(decayed[n - 1], 0, target)
                          ELSE decayed[n - 1]
           IN  decayed[round - epoch - 1]

=============================================================================
