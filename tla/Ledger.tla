------------------------------- MODULE Ledger -------------------------------
(***************************************************************************)
(* How the ledger applies one transaction: close the quantos that are due, *)
(* refuse or charge it, run its instructions on a working copy of the      *)
(* accounts it names, share out the fee, and commit the copy.  The model   *)
(* keeps the balances, the nonces, the base fee and the counters of coins  *)
(* burned and emitted.                                                     *)
(*                                                                         *)
(* A transaction moves `amount` from the payer to `to` (a system Transfer) *)
(* and then, when gas > 0, calls a contract that burns `gas` worth of      *)
(* fuel and may trap.  What the other native programs do to balances is in *)
(* StakingV7, ValidatorV7, TreasuryV7, Staking and Governance.             *)
(***************************************************************************)
EXTENDS EconomicsV7, FiniteSets, FiniteSetsExt

CONSTANTS
    Wallets,            \* addresses of ordinary accounts
    ADMIN_FEE_WALLET,   \* the one that receives the administrative tenth
    fee_collector,      \* the one of the proposer of the block
    OpeningBalances,    \* [Accounts -> Nat]
    OpeningBaseFee,     \* base_fee_per_byte of genesis
    FEE_TARGET,         \* FEE_TARGET_BYTES_PER_ROUND
    DUST_THRESHOLD,
    COMMISSION,         \* staking_commission_bps of the v6 economy
    BPS,                \* what 100% is in that unit
    QUANTO_EMISSION,    \* what EmitQuanto emits (StakingV7 computes it)
    ROUNDS_PER_QUANTO,
    MAX_QUANTO_CATCHUP, \* MAX_QUANTO_CATCHUP_PER_TX
    Transactions,       \* the transactions that may be submitted
    LedgerWorkloads     \* [v7, hardCap, staked, eligible, rounds] records

VALIDATOR_FEE_POOL == "fee pool"
EMISSION_RESERVE   == "emission reserve"
STAKING_RESERVE    == "staking reserve"
REWARDS_POOL       == "rewards pool"
SIM_COLLECTOR      == "preview"     \* the fee collector of a dry run

Singletons == {VALIDATOR_FEE_POOL, EMISSION_RESERVE, STAKING_RESERVE, REWARDS_POOL}
LedgerAccounts == Wallets \cup Singletons \cup {SIM_COLLECTOR}
NOEPOCH == -1

ASSUME LedgerAssumption ==
    /\ Wallets \cap (Singletons \cup {SIM_COLLECTOR}) = {}
    /\ {ADMIN_FEE_WALLET, fee_collector} \subseteq Wallets
    /\ OpeningBalances \in [LedgerAccounts -> Nat]
    /\ OpeningBaseFee \in FEE_MIN .. FEE_MAX
    /\ {DUST_THRESHOLD, COMMISSION, BPS, QUANTO_EMISSION, FEE_TARGET} \subseteq Nat
    /\ COMMISSION <= BPS
    /\ ROUNDS_PER_QUANTO \in Nat \ {0}
    /\ MAX_QUANTO_CATCHUP \in Nat \ {0}
    /\ Transactions \subseteq
         [payer : Wallets, nonce : Nat, to : Wallets, amount : Nat, gas : Nat,
          traps : BOOLEAN, limit : Nat, tip : Nat, bytes : Nat, validUntil : Nat]
    /\ \A tx \in Transactions : tx.payer # tx.to

VARIABLES
    ledger,         \* the committed store and the ledger's counters
    ledgerRound,    \* round of the certificate being executed
    outcome,        \* what the last transaction came to
    ledgerWorkload  \* the economy in force (constant after Init)

ledgerVars == <<ledger, ledgerRound, outcome, ledgerWorkload>>

----------------------------------------------------------------------------
(* Crediting an account.  `keys` are the accounts of the working copy: a   *)
(* credit goes there when the account is in it, else to the store.  With   *)
(* keys = {} (the error path) every credit goes to the store.              *)

credit_fee_target(s, account, amount) ==
    IF account \in s.keys
      THEN [s EXCEPT !.work[account] = @ + amount]
      ELSE [s EXCEPT !.bal[account]  = @ + amount]

Burn(s, amount) == [s EXCEPT !.burned = @ + amount]

route_fee_v7(s, fee) ==
    LET split  == fee_split(fee)
        burnt  == IF ledgerWorkload.hardCap
                    THEN credit_fee_target(s, EMISSION_RESERVE, split.burn)
                    ELSE Burn(s, split.burn)
        pooled == credit_fee_target(burnt, VALIDATOR_FEE_POOL, split.validator)
    IN  credit_fee_target(pooled, ADMIN_FEE_WALLET, split.admin)

(* v6: without stakers the proposer keeps the whole validator share.       *)
credit_validator_share(s, share) ==
    LET commission == IF ledgerWorkload.staked > 0 THEN (share * COMMISSION) \div BPS ELSE share
    IN  credit_fee_target(credit_fee_target(s, REWARDS_POOL, share - commission),
                          s.collector, commission)

RouteFee(s, fee) ==
    IF ledgerWorkload.v7 THEN route_fee_v7(s, fee)
    ELSE credit_validator_share(Burn(s, fee \div 2), fee - (fee \div 2))

(* The fee of the gas is routed differently only in the v6 economy.        *)
RouteGas(s, fee) ==
    IF ledgerWorkload.v7 THEN route_fee_v7(s, fee)
    ELSE credit_fee_target(Burn(s, fee \div 2), s.collector, fee - (fee \div 2))

----------------------------------------------------------------------------
(* Closing a quanto: the emission first, then the fee pool in equal parts  *)
(* to the withdrawal addresses of the eligible validators.                 *)

EmitQuanto(l) ==
    LET minted == IF ledgerWorkload.hardCap
                    THEN AtMost(QUANTO_EMISSION, l.bal[EMISSION_RESERVE])
                    ELSE QUANTO_EMISSION
    IN  [l EXCEPT !.quanto = @ + 1,
                  !.emitted = IF ledgerWorkload.hardCap THEN @ ELSE @ + minted,
                  !.bal = [@ EXCEPT ![STAKING_RESERVE] = @ + minted,
                                    ![EMISSION_RESERVE] =
                                       IF ledgerWorkload.hardCap THEN @ - minted ELSE @]]

(* Mutant: the pool is debited one share, whoever receives one.            *)
DistributeOneShare(l, eligible) ==
    LET reward == fee_pool_reward(l.bal[VALIDATOR_FEE_POOL], Cardinality(eligible))
    IN  [l EXCEPT !.bal =
           [a \in LedgerAccounts |->
              CASE a = VALIDATOR_FEE_POOL -> @[a] - reward
                [] a \in eligible         -> @[a] + reward
                [] OTHER                  -> @[a]]]

distribute_fee_pool(l, eligible) ==
    LET reward == fee_pool_reward(l.bal[VALIDATOR_FEE_POOL], Cardinality(eligible))
    IN  [l EXCEPT !.bal =
           [a \in LedgerAccounts |->
              CASE a = VALIDATOR_FEE_POOL -> @[a] - reward * Cardinality(eligible)
                [] a \in eligible         -> @[a] + reward
                [] OTHER                  -> @[a]]]

close_due_quantos(l, round, eligible) ==
    LET due == Minus(round \div ROUNDS_PER_QUANTO, l.quanto)
        closed[n \in 0 .. AtMost(due, MAX_QUANTO_CATCHUP)] ==
          IF n = 0 THEN l
          ELSE distribute_fee_pool(EmitQuanto(closed[n - 1]), eligible)
    IN  IF ledgerWorkload.v7 THEN closed[AtMost(due, MAX_QUANTO_CATCHUP)] ELSE l

----------------------------------------------------------------------------
(* The base fee: charged as it stands at the round, written down when a    *)
(* transaction is applied, together with the v6 emission of the rounds in  *)
(* between.                                                                *)

effective_base_fee_at(l, round) ==
    IF l.epoch = NOEPOCH THEN l.base
    ELSE rolled_base_fee(l.base, l.epoch, l.bytes, round, FEE_TARGET)

Emit(l, rounds) ==
    LET e == emission_for_rounds(ledgerWorkload.staked, rounds, l.carry)
    IN  IF ledgerWorkload.staked = 0 THEN l
        ELSE [l EXCEPT !.carry = e.carry, !.emitted = @ + e.whole,
                       !.bal[REWARDS_POOL] = @ + e.whole]

(* Mutant: the rolled fee is written down, the round it holds for is not.  *)
AdvanceSameEpoch(l, round, bytes) ==
    IF l.epoch # NOEPOCH /\ round > l.epoch
      THEN [Emit(l, round - l.epoch) EXCEPT
              !.base = effective_base_fee_at(l, round), !.bytes = bytes]
      ELSE [l EXCEPT !.epoch = IF @ = NOEPOCH THEN round ELSE @, !.bytes = @ + bytes]

advance_dynamic_fee(l, round, bytes) ==
    IF l.epoch # NOEPOCH /\ round > l.epoch
      THEN [Emit(l, round - l.epoch) EXCEPT
              !.base = effective_base_fee_at(l, round), !.epoch = round, !.bytes = bytes]
      ELSE [l EXCEPT !.epoch = IF @ = NOEPOCH THEN round ELSE @, !.bytes = @ + bytes]

----------------------------------------------------------------------------
(* A charged transaction.  `l` is the ledger once the upfront fee is taken *)
(* and the fee epoch advanced; the instructions run on `work`.             *)

Store(l) == [bal |-> l.bal, burned |-> l.burned, collector |-> l.collector, keys |-> {},
             work |-> l.bal]
Into(l, s) == [l EXCEPT !.bal = s.bal, !.burned = s.burned]

(* The reserved fee: its base part is split, the tip is the proposer's.    *)
DistributeUpfront(s, tx, byte_fee) ==
    credit_fee_target(RouteFee(s, byte_fee), s.collector, tx.tip)

wasm_fuel_budget(tx, upfront) == tx.limit - upfront

Traps(tx, upfront) == tx.traps \/ tx.gas > wasm_fuel_budget(tx, upfront)

(* Fuel burned by a call that trapped is charged up to the fee limit.      *)
bill_trapped_wasm_fuel(l, tx, upfront) ==
    LET charge == AtMost(AtMost(tx.gas, wasm_fuel_budget(tx, upfront)), l.bal[tx.payer])
    IN  RouteFee(Store([l EXCEPT !.bal[tx.payer] = @ - charge]), charge)

(* Accounts below the threshold are emptied when they are written back;    *)
(* the targets of the fees are spared.                                     *)
Dust(tx, s) ==
    {a \in {tx.payer, tx.to} \ {s.collector, ADMIN_FEE_WALLET} :
        0 < s.work[a] /\ s.work[a] < DUST_THRESHOLD}

Commit(l, tx, s) ==
    [l EXCEPT !.bal = [a \in LedgerAccounts |->
                         IF a \in Dust(tx, s) THEN 0
                         ELSE IF a \in s.keys THEN s.work[a] ELSE s.bal[a]],
              !.burned = s.burned + FoldSet(LAMBDA a, sum : sum + s.work[a], 0, Dust(tx, s))]

Transferred(l, tx) ==
    [Store(l) EXCEPT !.keys = {tx.payer, tx.to},
                     !.work = [@ EXCEPT ![tx.payer] = @ - tx.amount,
                                        ![tx.to]    = @ + tx.amount]]

PayGas(s, tx) == RouteGas([s EXCEPT !.work[tx.payer] = @ - tx.gas], tx.gas)

(* Every instruction succeeded: `s` holds the working copy with the        *)
(* reserved fee shared out.  A payer that can no longer pay the gas loses  *)
(* the working copy, and with it the credits that went into it.            *)
Finish(l, tx, s) ==
    IF s.work[tx.payer] < tx.gas
      THEN [ledger |-> Into(l, s), result |-> "failed"]
      ELSE [ledger |-> Commit(l, tx, PayGas(s, tx)), result |-> "ok"]

ExecuteInstruction(l, tx, upfront, byte_fee) ==
    IF l.bal[tx.payer] < tx.amount
      THEN [ledger |-> Into(l, DistributeUpfront(Store(l), tx, byte_fee)), result |-> "failed"]
      ELSE IF tx.gas > 0 /\ Traps(tx, upfront)
             THEN [ledger |-> Into(l, DistributeUpfront(bill_trapped_wasm_fuel(l, tx, upfront),
                                                        tx, byte_fee)),
                   result |-> "failed"]
             ELSE Finish(l, tx, DistributeUpfront(Transferred(l, tx), tx, byte_fee))

(* The payer's account was read before the quantos were closed, and that   *)
(* copy, less the fee, is what is written back.                            *)
ReserveFee(l, tx, upfront) ==
    [l EXCEPT !.bal[tx.payer] = l.read - upfront, !.nonce[tx.payer] = @ + 1]

Refusal(l, tx, upfront) ==
    CASE ledgerRound > tx.validUntil               -> "tick"
      [] l.read < upfront                          -> "tick"
      [] upfront > tx.limit                        -> "tick"
      [] tx.nonce # l.nonce[tx.payer]              -> "silent"
      [] OTHER                                     -> "none"

Applied(l, tx, byte_fee, upfront) ==
    CASE Refusal(l, tx, upfront) = "tick" ->
           [ledger |-> advance_dynamic_fee(l, ledgerRound, 0), result |-> "refused"]
      [] Refusal(l, tx, upfront) = "silent" -> [ledger |-> l, result |-> "refused"]
      [] OTHER ->
           ExecuteInstruction(advance_dynamic_fee(ReserveFee(l, tx, upfront), ledgerRound, tx.bytes),
                   tx, upfront, byte_fee)

Priced(l, tx, byte_fee) == Applied(l, tx, byte_fee, byte_fee + tx.tip)
WithQuantosClosed(l, tx) == Priced(l, tx, effective_base_fee_at(l, ledgerRound) * tx.bytes)

(* From the ledger l0: `read` is the payer's balance before the quantos.   *)
AppliedTo(l0, tx, eligible) ==
    WithQuantosClosed([close_due_quantos(l0, ledgerRound, eligible) EXCEPT
                         !.read = l0.bal[tx.payer]], tx)

apply_transaction(tx) ==
    \E after \in {AppliedTo(ledger, tx, ledgerWorkload.eligible)} :
       /\ ledger' = [after.ledger EXCEPT !.read = 0]
       /\ outcome' = after.result
       /\ UNCHANGED <<ledgerRound, ledgerWorkload>>

----------------------------------------------------------------------------
(* The dry run of a transaction, on a copy of the accounts it may touch.   *)
(* It has no participation tallies, so that no validator counts as jailed, *)
(* and a collector of its own.                                             *)

Wanted(tx) == {tx.payer, tx.to, ADMIN_FEE_WALLET, SIM_COLLECTOR} \cup Singletons
Registered == UNION {w.eligible : w \in LedgerWorkloads}

(* Mutant: the fee state is not among the accounts copied.                 *)
SnapshotWithoutFees(tx) ==
    [ledger EXCEPT !.bal = [a \in LedgerAccounts |-> IF a \in Wanted(tx) THEN @[a] ELSE 0],
                   !.collector = SIM_COLLECTOR,
                   !.base = OpeningBaseFee, !.epoch = NOEPOCH, !.bytes = 0]

simulate_snapshot(tx) ==
    [ledger EXCEPT !.bal = [a \in LedgerAccounts |-> IF a \in Wanted(tx) THEN @[a] ELSE 0],
                   !.collector = SIM_COLLECTOR]

SimOutcome(before, after, result, to) ==
    [status |-> IF result = "ok" THEN "ok" ELSE IF before > after THEN "failed" ELSE "refused",
     payer_after |-> after, to_after |-> to]

run_simulation(tx) ==
    LET run == AppliedTo(simulate_snapshot(tx), tx, Registered)
    IN  SimOutcome(ledger.bal[tx.payer], run.ledger.bal[tx.payer], run.result, run.ledger.bal[tx.to])

(* The next certificate belongs to a later round, possibly much later.     *)
NextRound ==
    \E r \in ledgerRound + 1 .. ledgerWorkload.rounds :
       /\ ledgerRound' = r
       /\ UNCHANGED <<ledger, outcome, ledgerWorkload>>

----------------------------------------------------------------------------

LedgerInit ==
    /\ ledgerWorkload \in LedgerWorkloads
    /\ ledger = [bal |-> OpeningBalances, burned |-> 0, emitted |-> 0,
                 nonce |-> [w \in Wallets |-> 0], base |-> OpeningBaseFee,
                 epoch |-> NOEPOCH, bytes |-> 0, carry |-> 0, quanto |-> 0,
                 collector |-> fee_collector, read |-> 0]
    /\ ledgerRound = 0
    /\ outcome = "none"

(* invariants_v7.rs: genesis, plus what was minted, less what was burned.  *)
total_supply(l) == FoldSet(LAMBDA a, sum : sum + l.bal[a], 0, LedgerAccounts)

expected_total(l) ==
    FoldSet(LAMBDA a, sum : sum + OpeningBalances[a], 0, LedgerAccounts) + l.emitted - l.burned

check_supply(l) == total_supply(l) = expected_total(l)

LedgerNext ==
    \/ \E tx \in Transactions : apply_transaction(tx)
    \/ NextRound

LedgerSpec == LedgerInit /\ [][LedgerNext]_ledgerVars

----------------------------------------------------------------------------
(* Properties                                                              *)

(* No path through apply_transaction, refused, failed, trapped, rejected   *)
(* late or committed, creates a coin that the emission counters do not     *)
(* know of.                                                                *)
NoCoinStep ==
    total_supply(ledger') - expected_total(ledger') <= total_supply(ledger) - expected_total(ledger)

(* "Pool-to-pool transfers never change supply": the balances add up to    *)
(* what genesis and the counters of emitted and burned coins say           *)
(* (check_supply of invariants_v7.rs).                                     *)
SupplyIsExact == check_supply(ledger)

(* A payer never loses more to a transaction than the fee limit it signed, *)
(* whatever the transaction did, besides the transfer itself and dust; a   *)
(* failed one moves no other wallet's coins.                               *)
LimitStep ==
    ledger' # ledger => \A tx \in Transactions : apply_transaction(tx) =>
      /\ ledger.bal[tx.payer] - ledger'.bal[tx.payer]
           <= tx.limit + (IF outcome' = "ok" THEN tx.amount ELSE 0)
                       + (IF ledger'.bal[tx.payer] = 0 THEN DUST_THRESHOLD ELSE 0)
      /\ outcome' # "ok" =>
           \A w \in Wallets \ {tx.payer} : ledger'.bal[w] >= ledger.bal[w]

(* Every transaction of a round is charged the same base fee: writing the  *)
(* rolled fee down, which the first one of a round does, does not change   *)
(* the fee the next one reads.                                             *)
SameFeeStep ==
    ledgerRound' = ledgerRound =>
       effective_base_fee_at(ledger, ledgerRound)' = effective_base_fee_at(ledger, ledgerRound)

(* What run_simulation says of a transaction, and what applying it does;   *)
(* the proposer is the one payer or receiver that a preview cannot know.   *)
PreviewStep ==
    \A tx \in Transactions :
      tx.payer # fee_collector /\ apply_transaction(tx) =>
        LET preview == run_simulation(tx)
            quiet   == ledger'.quanto = ledger.quanto
        IN  /\ preview.status = outcome'
            /\ quiet => preview.payer_after = ledger'.bal[tx.payer]
            /\ quiet /\ tx.to # fee_collector => preview.to_after = ledger'.bal[tx.to]

=============================================================================
