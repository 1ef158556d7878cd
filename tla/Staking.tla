------------------------------ MODULE Staking ------------------------------
(***************************************************************************)
(* Delegated staking (staking.rs) and the self-registration of validators  *)
(* (validator_registry.rs) of the pre-v7 economics: positions opened by    *)
(* Delegate and closed by Undelegate, rewards paid from one pool through a *)
(* reward-per-share accumulator, slashing of a validator's own position.   *)
(* A closed position stays as an empty account and is never reopened.      *)
(***************************************************************************)
EXTENDS Integers, FiniteSets, FiniteSetsExt

CONSTANTS
    Holders,             \* wallets; some of them run validators
    StakeAccounts,       \* addresses stake accounts may be opened at
    DelegateAmounts,     \* amounts Delegate is called with
    RewardShares,        \* what the fee path credits the pool with
    Cheats,              \* validators with provable equivocation
    PRECISION,           \* scale of acc_reward_per_share
    MINIMUM_BONDING_ROUNDS, SELF_STAKE_UNBONDING_ROUNDS,
    MIN_VALIDATOR_STAKE,
    HolderFunds,         \* genesis balance of each wallet
    MaxRewards           \* bound on the rewards per share

NONE == -1               \* Option::None of a round
NoStake == [owner |-> "nobody"]

ASSUME StakingV6Assumption ==
    /\ DelegateAmounts \subseteq Nat /\ RewardShares \subseteq Nat
    /\ PRECISION \in Nat \ {0}
    /\ MINIMUM_BONDING_ROUNDS \in Nat /\ SELF_STAKE_UNBONDING_ROUNDS \in Nat
    /\ HolderFunds \in Nat
    /\ "nobody" \notin Holders

VARIABLES
    round,               \* the round whose transactions execute
    stake,               \* StakeAccountData per address, NoStake before Delegate
    totalStaked,         \* STAKING_STATS
    rewardPool,          \* STAKING_REWARDS_POOL: accumulator and balance
    wallet,              \* balances
    selfRegistered       \* v6 VALIDATOR_REGISTRY: entries [validator, stake, account]

stakeVars == <<stake, totalStaked, rewardPool, selfRegistered>>

Exists(s) == stake[s] # NoStake

StakeInit ==
    /\ round = 0
    /\ stake = [s \in StakeAccounts |-> NoStake]
    /\ totalStaked = 0
    /\ rewardPool = [acc |-> 0, balance |-> 0]
    /\ wallet = [h \in Holders |-> HolderFunds]
    /\ selfRegistered = {}

settled_reward_debt(amount) == (amount * rewardPool.acc) \div PRECISION

pending_reward(amount, debt) ==
    IF settled_reward_debt(amount) > debt THEN settled_reward_debt(amount) - debt ELSE 0

Delegate(h, s, v, amount) ==
    /\ ~Exists(s)
    /\ wallet[h] >= amount
    /\ wallet' = [wallet EXCEPT ![h] = @ - amount]
    /\ stake' = [stake EXCEPT ![s] =
          [owner |-> h, validator |-> v, amount |-> amount,
           debt |-> settled_reward_debt(amount), locked_until |-> 0,
           bonding_until |-> round + MINIMUM_BONDING_ROUNDS,
           unbonding_requested |-> NONE, created |-> round]]
    /\ totalStaked' = totalStaked + amount
    /\ UNCHANGED <<rewardPool, selfRegistered>>

IsSelfStake(s) == stake[s].owner = stake[s].validator

MayLeave(s) == round >= stake[s].locked_until /\ round >= stake[s].bonding_until

(* The first Undelegate of a self-stake only starts its unbonding clock.   *)
RequestUnbonding(s) ==
    /\ Exists(s) /\ MayLeave(s)
    /\ IsSelfStake(s) /\ stake[s].unbonding_requested = NONE
    /\ stake' = [stake EXCEPT ![s].unbonding_requested = round]
    /\ UNCHANGED <<wallet, totalStaked, rewardPool, selfRegistered>>

Undelegate(s) ==
    LET reward == pending_reward(stake[s].amount, stake[s].debt) IN
    /\ Exists(s) /\ MayLeave(s)
    /\ IsSelfStake(s) => /\ stake[s].unbonding_requested # NONE
                         /\ round >= stake[s].unbonding_requested + SELF_STAKE_UNBONDING_ROUNDS
    /\ reward <= rewardPool.balance
    /\ stake[s].amount <= totalStaked
    /\ stake' = [stake EXCEPT ![s].amount = 0, ![s].debt = 0]
    /\ rewardPool' = [rewardPool EXCEPT !.balance = @ - reward]
    /\ wallet' = [wallet EXCEPT ![stake[s].owner] = @ + stake[s].amount + reward]
    /\ totalStaked' = totalStaked - stake[s].amount
    /\ UNCHANGED selfRegistered

ClaimReward(s) ==
    LET reward == pending_reward(stake[s].amount, stake[s].debt) IN
    /\ Exists(s)
    /\ reward <= rewardPool.balance
    /\ stake' = [stake EXCEPT ![s].debt = settled_reward_debt(stake[s].amount)]
    /\ rewardPool' = [rewardPool EXCEPT !.balance = @ - reward]
    /\ wallet' = [wallet EXCEPT ![stake[s].owner] = @ + reward]
    /\ UNCHANGED <<totalStaked, selfRegistered>>

(* Naming the statistics account is optional: without it the total stays.  *)
ReportEquivocation(s, namesStats) ==
    /\ Exists(s)
    /\ IsSelfStake(s) /\ stake[s].owner \in Cheats
    /\ stake[s].amount # 0
    /\ namesStats => stake[s].amount <= totalStaked
    /\ stake' = [stake EXCEPT ![s].amount = 0, ![s].debt = 0]
    /\ totalStaked' = IF namesStats THEN totalStaked - stake[s].amount ELSE totalStaked
    /\ UNCHANGED <<wallet, rewardPool, selfRegistered>>

(* Registering again refreshes the entry in place.                         *)
RegisterValidator(v, s) ==
    /\ Exists(s)
    /\ IsSelfStake(s) /\ stake[s].owner = v
    /\ stake[s].amount >= MIN_VALIDATOR_STAKE
    /\ selfRegistered' = {r \in selfRegistered : r.validator # v}
                           \cup {[validator |-> v, stake |-> stake[s].amount, account |-> s]}
    /\ UNCHANGED <<stake, totalStaked, rewardPool, wallet>>

UnregisterValidator(v) ==
    /\ \E r \in selfRegistered : r.validator = v
    /\ selfRegistered' = {r \in selfRegistered : r.validator # v}
    /\ UNCHANGED <<stake, totalStaked, rewardPool, wallet>>

(* Called by the ledger with the delegators' part of a fee; with nobody    *)
(* staked the fee goes to the validator instead and the pool is untouched. *)
accrue_reward_pool(share) ==
    /\ rewardPool.acc < MaxRewards * PRECISION
    /\ totalStaked > 0
    /\ rewardPool' = [acc |-> rewardPool.acc + (share * PRECISION) \div totalStaked,
                      balance |-> rewardPool.balance + share]
    /\ UNCHANGED <<stake, totalStaked, wallet, selfRegistered>>

(* active_committee_from_registry weighs an entry by what its own stake     *)
(* account holds now, and drops it below the minimum.                       *)
live_stake(r) == stake[r.account].amount
active_committee_from_registry == {r \in selfRegistered : live_stake(r) >= MIN_VALIDATOR_STAKE}

StakeStep(accounts, validators) ==
    \/ \E h \in Holders, s \in accounts, v \in validators, a \in DelegateAmounts :
          Delegate(h, s, v, a)
    \/ \E s \in StakeAccounts : \/ RequestUnbonding(s)
                                \/ Undelegate(s)
                                \/ ReportEquivocation(s, TRUE)
                                \/ ReportEquivocation(s, FALSE)

RewardStep ==
    \/ \E s \in StakeAccounts : ClaimReward(s)
    \/ \E share \in RewardShares : accrue_reward_pool(share)

RegistrationStep ==
    \/ \E v \in Holders : UnregisterValidator(v)
    \/ \E v \in Holders, s \in StakeAccounts : RegisterValidator(v, s)

----------------------------------------------------------------------------
Open == {s \in StakeAccounts : Exists(s)}

Staked == MapThenSumSet(LAMBDA s : stake[s].amount, Open)

(* The statistics counter, which is the quorum denominator of governance    *)
(* and the divisor of rewards, never falls below what is really staked, nor *)
(* below the weight of the committee drawn from the registry: no order of   *)
(* delegations, withdrawals, slashes (with or without the statistics        *)
(* account named) and registrations makes a later withdrawal underflow it   *)
(* or counts one position for two members.                                  *)
StatsCoverStake ==
    /\ totalStaked >= Staked
    /\ totalStaked >= MapThenSumSet(live_stake, active_committee_from_registry)

=============================================================================
