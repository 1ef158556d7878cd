----------------------------- MODULE StakingV7 -----------------------------
(***************************************************************************)
(* Staking by index accumulator (staking_v7.rs).  A position owns shares   *)
(* of one global pool; a share is worth index / INDEX_SCALE.  A deposit    *)
(* waits out the quanto it was made in ("pending") and is priced at the    *)
(* index it will join at; the global share count takes it in when the      *)
(* quanto closes, the position itself only when it is next touched.        *)
(* Deposits are kept in the reserve account, a chunk being unbonded in the *)
(* unbonding pool.  An instruction that the program rejects changes        *)
(* nothing, so the actions are the instructions that succeed.              *)
(***************************************************************************)
EXTENDS EconomicsV7, FiniteSets, FiniteSetsExt

CONSTANTS
    Stakers,            \* wallets that stake
    Positions,          \* position accounts that may be opened
    StakeAmounts,       \* amounts instructions may name
    HARD_CAP,           \* emission comes out of EMISSION_RESERVE, not minted
    UNBONDING_QUANTOS,  \* STAKING_UNBONDING_QUANTOS
    WalletFunds,        \* initial balance of a wallet
    EmissionFunds,      \* initial balance of EMISSION_RESERVE
    MaxQuanto           \* bound on the number of quantos

ASSUME StakingAssumption ==
    /\ HARD_CAP \in BOOLEAN
    /\ UNBONDING_QUANTOS \in Nat
    /\ StakeAmounts \subseteq Nat
    /\ WalletFunds \in Nat /\ EmissionFunds \in Nat

VARIABLES
    stakeGlobal,        \* STAKING_GLOBAL: index, shares and the current quanto
    position,           \* the position accounts
    stakeBal            \* wallets, reserve, unbonding pool, emission reserve

stakingVars == <<stakeGlobal, position, stakeBal>>

Reserve   == "STAKING_RESERVE"
Unbonding == "STAKING_UNBONDING_POOL"
Emission  == "EMISSION_RESERVE"
NoPosition == [state |-> "None"]

TheQuanto == stakeGlobal.current_quanto

StakingInit ==
    /\ stakeGlobal = [index |-> INITIAL_STAKING_INDEX, total_shares |-> 0,
                      pending_shares |-> 0, current_quanto |-> 0]
    /\ position = [p \in Positions |-> NoPosition]
    /\ stakeBal = [a \in Stakers \cup {Reserve, Unbonding, Emission} |->
                     CASE a \in Stakers -> WalletFunds
                       [] a = Emission  -> EmissionFunds
                       [] OTHER         -> 0]

----------------------------------------------------------------------------
(* Mutant: a deposit joins one quanto late.                                *)
SettledLate(pos, q) ==
    IF pos.pending_shares > 0 /\ q > pos.pending_activation_quanto
      THEN [pos EXCEPT !.active_shares  = @ + pos.pending_shares,
                       !.pending_shares = 0,
                       !.pending_amount = 0,
                       !.pending_activation_quanto = 0]
      ELSE pos

(* A position takes in its pending shares once their quanto has come.      *)
settle_position(pos, q) ==
    IF pos.pending_shares > 0 /\ q >= pos.pending_activation_quanto
      THEN [pos EXCEPT !.active_shares  = @ + pos.pending_shares,
                       !.pending_shares = 0,
                       !.pending_amount = 0,
                       !.pending_activation_quanto = 0]
      ELSE pos

(* Shares a deposit made now will hold: priced at the next index.          *)
deposit_shares(amount) ==
    shares_for_deposit(amount, advance_staking_index(stakeGlobal.index))

add_pending_deposit(pos, amount) ==
    [pos EXCEPT !.pending_shares = @ + deposit_shares(amount),
                !.pending_amount = @ + amount,
                !.pending_activation_quanto = TheQuanto + 1]

(* What begin_unstake lets the owner take out of a settled position.       *)
available(pos) ==
    position_value(pos.active_shares, stakeGlobal.index) + pos.pending_amount

(* Move an amount between two accounts; the caller checked the balance.    *)
Move(from, to, amount) ==
    stakeBal' = [stakeBal EXCEPT ![from] = @ - amount, ![to] = @ + amount]

Deposit(s, p, pos, amount) ==
    /\ amount > 0
    /\ stakeBal[s] >= amount
    /\ position' = [position EXCEPT ![p] = add_pending_deposit(pos, amount)]
    /\ stakeGlobal' = [stakeGlobal EXCEPT !.pending_shares = @ + deposit_shares(amount)]
    /\ Move(s, Reserve, amount)

Stake(s, p, amount) ==
    /\ position[p] = NoPosition
    /\ Deposit(s, p,
         [owner |-> s, state |-> "Active", active_shares |-> 0,
          pending_shares |-> 0, pending_amount |-> 0, pending_activation_quanto |-> 0,
          unbonding_amount |-> 0, unbonding_ready_quanto |-> 0],
         amount)

IncreaseStake(s, p, amount) ==
    /\ position[p] # NoPosition
    /\ position[p].owner = s
    /\ position[p].state # "Closed"
    /\ Deposit(s, p,
         [settle_position(position[p], TheQuanto) EXCEPT !.state = "Active"],
         amount)

(* Unstaking takes active value first, rounding the shares given up down,  *)
(* then the face value of a deposit still in its join quanto.              *)
SharesGivenUp(pos, take) ==
    IF take = position_value(pos.active_shares, stakeGlobal.index)
      THEN pos.active_shares
      ELSE AtMost(shares_for_deposit(take, stakeGlobal.index), pos.active_shares)

PendingGivenUp(pos, take) ==
    IF take = pos.pending_amount
      THEN pos.pending_shares
      ELSE (pos.pending_shares * take) \div pos.pending_amount

Unstaked(pos, shares, active, pendingTake, pendingShares) ==
    LET left == [pos EXCEPT
          !.active_shares  = Minus(@, shares),
          !.pending_shares = Minus(@, pendingShares),
          !.pending_amount = Minus(@, pendingTake),
          !.pending_activation_quanto = IF pendingTake > 0 /\ pendingTake = pos.pending_amount
                                          THEN 0 ELSE @,
          !.unbonding_amount = active + pendingTake,
          !.unbonding_ready_quanto = TheQuanto + UNBONDING_QUANTOS]
    IN  [left EXCEPT !.state = IF left.active_shares > 0 \/ left.pending_shares > 0
                                 THEN "Active" ELSE "Unbonding"]

TakeOut(p, pos, shares, active, pendingTake, pendingShares) ==
    /\ stakeBal[Reserve] >= active + pendingTake
    /\ position' = [position EXCEPT ![p] =
                      Unstaked(pos, shares, active, pendingTake, pendingShares)]
    /\ stakeGlobal' = [stakeGlobal EXCEPT !.total_shares   = Minus(@, shares),
                                          !.pending_shares = Minus(@, pendingShares)]
    /\ Move(Reserve, Unbonding, active + pendingTake)

BeginUnstake(s, p, amount) ==
    LET pos    == settle_position(position[p], TheQuanto)
        value  == position_value(pos.active_shares, stakeGlobal.index)
        take   == AtMost(amount, value)
        shares == SharesGivenUp(pos, take)
        active == AtMost(position_value(shares, stakeGlobal.index), take)
        rest   == AtMost(amount - active, pos.pending_amount)
    IN  /\ position[p] # NoPosition
        /\ pos.owner = s
        /\ pos.unbonding_amount = 0
        /\ amount > 0
        /\ amount <= available(pos)
        /\ TakeOut(p, pos, shares, active, rest,
                   IF rest > 0 THEN PendingGivenUp(pos, rest) ELSE 0)

WithdrawUnbonded(s, p) ==
    LET pos == settle_position(position[p], TheQuanto)
    IN  /\ position[p] # NoPosition
        /\ pos.owner = s
        /\ pos.unbonding_amount > 0
        /\ TheQuanto >= pos.unbonding_ready_quanto
        /\ stakeBal[Unbonding] >= pos.unbonding_amount
        /\ position' = [position EXCEPT ![p] =
             [pos EXCEPT !.unbonding_amount = 0, !.unbonding_ready_quanto = 0,
                         !.state = IF pos.active_shares > 0 \/ pos.pending_shares > 0
                                     THEN "Active" ELSE "Closed"]]
        /\ Move(Unbonding, s, pos.unbonding_amount)
        /\ UNCHANGED stakeGlobal

(* Closing a quanto moves the index, pays the emission into the reserve -  *)
(* out of the emission reserve under the hard cap, newly minted otherwise  *)
(* - and lets the pending shares in.                                       *)
Settlement ==
    IF HARD_CAP
      THEN index_for_backed_emission(stakeGlobal.total_shares, stakeGlobal.index,
             advance_staking_index(stakeGlobal.index), stakeBal[Emission])
      ELSE [index |-> advance_staking_index(stakeGlobal.index),
            emission |-> emission_for_quanto(stakeGlobal.total_shares, stakeGlobal.index,
                           advance_staking_index(stakeGlobal.index))]

settle_quanto ==
    /\ TheQuanto < MaxQuanto
    /\ stakeGlobal' = [index          |-> Settlement.index,
                       total_shares   |-> stakeGlobal.total_shares + stakeGlobal.pending_shares,
                       pending_shares |-> 0,
                       current_quanto |-> TheQuanto + 1]
    /\ stakeBal' = [stakeBal EXCEPT ![Reserve]  = @ + Settlement.emission,
                                    ![Emission] = IF HARD_CAP THEN @ - Settlement.emission
                                                              ELSE @]
    /\ UNCHANGED position

StakingNext ==
    \/ \E s \in Stakers, p \in Positions, a \in StakeAmounts :
          \/ Stake(s, p, a)
          \/ IncreaseStake(s, p, a)
          \/ BeginUnstake(s, p, a)
    \/ \E s \in Stakers, p \in Positions : WithdrawUnbonded(s, p)
    \/ settle_quanto

StakingSpec == StakingInit /\ [][StakingNext]_stakingVars
----------------------------------------------------------------------------
Opened == {p \in Positions : position[p] # NoPosition}

(* Is this position's pending deposit past its join quanto?                *)
PendingIsDue(pos) == pos.pending_shares > 0 /\ TheQuanto >= pos.pending_activation_quanto

(* The global share counts agree with the positions although a position    *)
(* settles lazily: every share of a deposit whose quanto has closed is in  *)
(* total_shares, every share of a later deposit is in pending_shares       *)
(* (settle_position against settle_quanto_ex).                             *)
SharesMatchPositions ==
    /\ stakeGlobal.total_shares =
         MapThenSumSet(LAMBDA p : position[p].active_shares
                         + IF PendingIsDue(position[p]) THEN position[p].pending_shares ELSE 0,
                       Opened)
    /\ stakeGlobal.pending_shares =
         MapThenSumSet(LAMBDA p : IF PendingIsDue(position[p]) THEN 0
                                                               ELSE position[p].pending_shares,
                       Opened)

(* The unbonding pool holds exactly the chunks being unbonded, so the      *)
(* "unbonding pool underfunded" error of withdraw_unbonded cannot happen   *)
(* and no chunk is stranded.                                               *)
UnbondingPoolExact ==
    stakeBal[Unbonding] = MapThenSumSet(LAMBDA p : position[p].unbonding_amount, Opened)

(* What a staker owns: wallet, current value of the positions, and chunks. *)
Wealth(s) ==
    stakeBal[s] + MapThenSumSet(LAMBDA p : available(settle_position(position[p], TheQuanto))
                                             + position[p].unbonding_amount,
                                {p \in Opened : position[p].owner = s})

(* No instruction makes its staker richer.                                 *)
RoundingStep == TheQuanto' = TheQuanto => \A s \in Stakers : Wealth(s)' <= Wealth(s)
=============================================================================
