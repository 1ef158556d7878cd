----------------------------- MODULE Governance -----------------------------
(***************************************************************************)
(* On-chain governance (governance.rs of the execution crate and the       *)
(* qchain-governance crate) over the stake positions of Staking.  A        *)
(* proposal snapshots the total stake, positions vote with their whole     *)
(* amount and are locked, anyone finalizes after the voting period and     *)
(* executes after the time lock, unless the guardians have paused it; a    *)
(* finished proposal is closed after a retention period and its deposit is *)
(* refunded or burned.                                                     *)
(***************************************************************************)
EXTENDS Staking

CONSTANTS
    ProposalIds,         \* ids a proposer may choose
    ProposalDeposit,             \* governance_proposal_deposit
    VOTING_PERIOD, TIMELOCK,   \* quorum_rule per tier: rounds
    MIN_PARTICIPATION, APPROVAL,  \* quorum_rule per tier: parts of 100
    RETENTION,           \* PROPOSAL_RETENTION_ROUNDS
    MAX_VOTES,           \* MAX_PROPOSAL_VOTES
    Guardians, GuardianThreshold,
    GenesisFee, FEE_FLOOR, FEE_CAP, FEE_STEP,  \* bounds of apply_economic_action
    GenesisAlgorithms,
    GovWorkloads         \* what users submit in a behaviour: proposers, what they propose,
                         \*   stake accounts opened, validators delegated to, other classes, the last round

Tiers == {"Economic", "Registry"}

ASSUME GovernanceAssumption ==
    /\ VOTING_PERIOD \in [Tiers -> Nat] /\ TIMELOCK \in [Tiers -> Nat]
    /\ RETENTION \in Nat /\ ProposalDeposit \in Nat
    /\ {FEE_FLOOR, GenesisFee, FEE_CAP} \subseteq Nat
    /\ FEE_FLOOR <= GenesisFee /\ GenesisFee <= FEE_CAP

VARIABLES
    proposal,            \* proposal accounts, by proposer and id
    baseFee,             \* EconomicParams.base_fee_per_byte
    algorithms,          \* the signature-algorithm registry: id -> status
    emergency,           \* EmergencyState
    burned,              \* balance of BURN_ADDRESS
    govWorkload          \* what users submit; constant

govVars == <<round, stakeVars, wallet, proposal, baseFee, algorithms, emergency, burned, govWorkload>>

GovernanceInit ==
    /\ StakeInit
    /\ proposal = <<>>
    /\ baseFee = GenesisFee
    /\ algorithms = [a \in GenesisAlgorithms |-> [status |-> "Active", retires |-> 0]]
    /\ emergency = [paused |-> FALSE, approvals |-> {}]
    /\ burned = 0
    /\ govWorkload \in GovWorkloads

Tier(p) == IF p.action.kind = "SetBaseFee" THEN "Economic" ELSE "Registry"

VoteChoice == {"Yes", "No", "Abstain"}

(* Proposal::new; the total stake is the one at this moment.               *)
new_proposal(h, action) ==
    [proposer |-> h, action |-> action, created |-> round,
     ends |-> round + VOTING_PERIOD[Tier([action |-> action])], snapshot |-> totalStaked,
     tally |-> [c \in VoteChoice |-> 0], voted |-> <<>>,
     status |-> "Voting", passed |-> NONE, deposit |-> ProposalDeposit]

CreateProposal(h, id, action) ==
    /\ <<h, id>> \notin DOMAIN proposal
    /\ wallet[h] >= ProposalDeposit
    /\ wallet' = [wallet EXCEPT ![h] = @ - ProposalDeposit]
    /\ proposal' = [k \in DOMAIN proposal \cup {<<h, id>>} |->
                      IF k = <<h, id>> THEN new_proposal(h, action) ELSE proposal[k]]
    /\ UNCHANGED <<stakeVars, baseFee, algorithms, emergency, burned>>

NotBelow(a, b) == IF a >= b THEN a ELSE b

(* `voted` also remembers what the position weighed.                       *)
record_vote(p, s, choice, weight) ==
    [p EXCEPT !.tally[choice] = @ + weight,
              !.voted = [x \in DOMAIN @ \cup {s} |-> IF x = s THEN weight ELSE @[x]]]

at_vote_capacity(p) == Cardinality(DOMAIN p.voted) >= MAX_VOTES

(* Mutant: a vote locks the position until the voting ends.                *)
VoteLocksVoting(k, s, choice) ==
    LET p == proposal[k] IN
    /\ Exists(s) /\ stake[s].amount # 0
    /\ p.status = "Voting" /\ round < p.ends
    /\ stake[s].created <= p.created
    /\ ~at_vote_capacity(p) /\ s \notin DOMAIN p.voted
    /\ proposal' = [proposal EXCEPT ![k] = record_vote(@, s, choice, stake[s].amount)]
    /\ stake' = [stake EXCEPT ![s].locked_until = NotBelow(@, p.ends)]
    /\ UNCHANGED <<totalStaked, rewardPool, selfRegistered, wallet, baseFee, algorithms,
                   emergency, burned>>

Vote(k, s, choice) ==
    LET p == proposal[k] IN
    /\ Exists(s)
    /\ stake[s].amount # 0
    /\ p.status = "Voting"
    /\ round < p.ends
    /\ stake[s].created <= p.created
    /\ ~at_vote_capacity(p)
    /\ s \notin DOMAIN p.voted
    /\ proposal' = [proposal EXCEPT ![k] = record_vote(@, s, choice, stake[s].amount)]
    /\ stake' = [stake EXCEPT ![s].locked_until = NotBelow(@, p.ends + TIMELOCK[Tier(p)])]
    /\ UNCHANGED <<totalStaked, rewardPool, selfRegistered, wallet, baseFee, algorithms,
                   emergency, burned>>

Participating(p) ==
    LET sum == p.tally["Yes"] + p.tally["No"] + p.tally["Abstain"]
    IN  IF sum <= p.snapshot THEN sum ELSE p.snapshot

reached_participation_floor(p) ==
    /\ p.snapshot # 0
    /\ (Participating(p) * 100) \div p.snapshot >= MIN_PARTICIPATION[Tier(p)]

evaluate(p) ==
    LET decided == p.tally["Yes"] + p.tally["No"] IN
    IF /\ reached_participation_floor(p)
       /\ decided # 0
       /\ (p.tally["Yes"] * 100) \div decided >= APPROVAL[Tier(p)]
      THEN "Passed"
      ELSE "Rejected"

Finalize(k) ==
    LET outcome == evaluate(proposal[k]) IN
    /\ proposal[k].status = "Voting"
    /\ round >= proposal[k].ends
    /\ proposal' = [proposal EXCEPT
          ![k].status = outcome,
          ![k].passed = IF outcome = "Passed" THEN round ELSE @]
    /\ UNCHANGED <<stakeVars, wallet, baseFee, algorithms, emergency, burned>>

(* A change is within a factor of two of the current value or one step.     *)
within_change_limit(current, new) ==
    \/ new <= 2 * current /\ 2 * new >= current
    \/ new - current \in -FEE_STEP .. FEE_STEP

apply_economic_action(new) ==
    /\ FEE_FLOOR <= new /\ new <= FEE_CAP
    /\ within_change_limit(baseFee, new)
    /\ baseFee' = new
    /\ UNCHANGED algorithms

apply_registry_action(action) ==
    /\ \/ /\ action.kind = "Activate"
          /\ action.id \notin DOMAIN algorithms
          /\ algorithms' = [a \in DOMAIN algorithms \cup {action.id} |->
                IF a = action.id THEN [status |-> "Active", retires |-> 0] ELSE algorithms[a]]
       \/ /\ action.kind = "Deprecate"
          /\ action.id \in DOMAIN algorithms
          /\ algorithms[action.id].status = "Active"
          /\ algorithms' = [algorithms EXCEPT ![action.id] =
                [status |-> "Deprecated", retires |-> action.retires]]
       \/ /\ action.kind = "Retire"
          /\ action.id \in DOMAIN algorithms
          /\ algorithms[action.id].status = "Deprecated"
          /\ round >= algorithms[action.id].retires
          /\ algorithms' = [algorithms EXCEPT ![action.id].status = "Retired"]
    /\ UNCHANGED baseFee

(* Mutant: a passed proposal is executed without waiting.                  *)
ExecuteAtOnce(k) ==
    LET p == proposal[k] IN
    /\ ~emergency.paused
    /\ p.status = "Passed"
    /\ \/ p.action.kind = "SetBaseFee" /\ apply_economic_action(p.action.fee)
       \/ p.action.kind # "SetBaseFee" /\ apply_registry_action(p.action)
    /\ proposal' = [proposal EXCEPT ![k].status = "Executed"]
    /\ UNCHANGED <<stakeVars, wallet, emergency, burned>>

Execute(k) ==
    LET p == proposal[k] IN
    /\ ~emergency.paused
    /\ p.status = "Passed"
    /\ round >= p.passed + TIMELOCK[Tier(p)]
    /\ \/ p.action.kind = "SetBaseFee" /\ apply_economic_action(p.action.fee)
       \/ p.action.kind # "SetBaseFee" /\ apply_registry_action(p.action)
    /\ proposal' = [proposal EXCEPT ![k].status = "Executed"]
    /\ UNCHANGED <<stakeVars, wallet, emergency, burned>>

(* The account is emptied, not deleted: its address is used up for good.    *)
apply_close_proposal(k) ==
    LET p == proposal[k]
        refund == IF reached_participation_floor(p) THEN p.deposit ELSE 0
    IN  /\ p.status \in {"Rejected", "Executed"}
        /\ round >= p.ends + RETENTION
        /\ wallet' = [wallet EXCEPT ![p.proposer] = @ + refund]
        /\ burned' = burned + p.deposit - refund
        /\ proposal' = [proposal EXCEPT ![k].status = "Closed", ![k].deposit = 0]
        /\ UNCHANGED <<stakeVars, baseFee, algorithms, emergency>>

(* The guardians can only approve the opposite of the present state, and a  *)
(* change of state starts the count again.                                  *)
apply_emergency_approval(g) ==
    LET held == emergency.approvals \cup {g} IN
    /\ Guardians # {} /\ GuardianThreshold # 0
    /\ g \in Guardians
    /\ emergency' = IF Cardinality(held) >= GuardianThreshold
                      THEN [paused |-> ~emergency.paused, approvals |-> {}]
                      ELSE [emergency EXCEPT !.approvals = held]
    /\ UNCHANGED <<stakeVars, wallet, proposal, baseFee, algorithms, burned>>

RoundPasses ==
    /\ round < govWorkload.rounds
    /\ round' = round + 1
    /\ UNCHANGED <<stakeVars, wallet, proposal, baseFee, algorithms, emergency, burned>>

ProposalStep ==
    \/ \E h \in govWorkload.proposers, id \in ProposalIds, a \in govWorkload.actions :
          CreateProposal(h, id, a)
    \/ \E k \in DOMAIN proposal :
          \/ \E s \in StakeAccounts, c \in VoteChoice : Vote(k, s, c)
          \/ Finalize(k)
          \/ Execute(k)
          \/ apply_close_proposal(k)

GovernanceStep ==
    \/ ProposalStep
    \/ /\ "emergency" \in govWorkload.classes
       /\ \E g \in Guardians : apply_emergency_approval(g)
    \/ /\ \/ StakeStep(govWorkload.accounts, govWorkload.validators)
          \/ "rewards" \in govWorkload.classes /\ RewardStep
          \/ "register" \in govWorkload.classes /\ RegistrationStep
       /\ UNCHANGED <<proposal, baseFee, algorithms, emergency, burned>>

GovernanceNext ==
    /\ \/ GovernanceStep /\ UNCHANGED round
       \/ RoundPasses
    /\ UNCHANGED govWorkload

GovernanceSpec == GovernanceInit /\ [][GovernanceNext]_govVars
----------------------------------------------------------------------------
(* A vote is backed by stake that stays where it is until the lock it took   *)
(* ends, after the voting period and the time lock: whatever positions are   *)
(* opened, closed or voted with on other proposals, only a slash empties it. *)
VotesAreLocked ==
    \A k \in DOMAIN proposal : \A s \in DOMAIN proposal[k].voted :
       LET until == proposal[k].ends + TIMELOCK[Tier(proposal[k])] IN
       /\ stake[s].locked_until >= until
       /\ \/ round >= until
          \/ stake[s].amount = proposal[k].voted[s]
          \/ stake[s].owner \in Cheats /\ stake[s].amount = 0

(* Parameters and the algorithm registry change only by executing, once, a   *)
(* proposal that passed with its tier's quorum, after its time lock, while   *)
(* governance is not paused; and the result is inside the safety bounds.     *)
ChangeStep ==
    <<baseFee, algorithms>>' # <<baseFee, algorithms>> =>
       /\ ~emergency.paused
       /\ FEE_FLOOR <= baseFee' /\ baseFee' <= FEE_CAP
       /\ \A a \in DOMAIN algorithms : algorithms[a].status = "Retired" =>
             algorithms'[a].status = "Retired"
       /\ \E k \in DOMAIN proposal :
             /\ proposal[k].status = "Passed" /\ proposal'[k].status = "Executed"
             /\ evaluate(proposal[k]) = "Passed"
             /\ round >= proposal[k].ends + TIMELOCK[Tier(proposal[k])]

ChangesArePassed == [][ChangeStep]_govVars

(* Delegating, withdrawing, claiming, voting, depositing and closing move    *)
(* coins and create none; a slash destroys exactly one position; only the    *)
(* fee path adds, and only to the reward pool.                               *)
Coins ==
    Staked + rewardPool.balance + burned
      + MapThenSumSet(LAMBDA h : wallet[h], Holders)
      + MapThenSumSet(LAMBDA k : proposal[k].deposit, DOMAIN proposal)

CoinStep ==
    \/ Coins' = Coins
    \/ Coins' - Coins = rewardPool'.balance - rewardPool.balance /\ wallet' = wallet
    \/ \E s \in Open : /\ IsSelfStake(s) /\ stake[s].owner \in Cheats
                       /\ Coins - Coins' = stake[s].amount /\ stake'[s].amount = 0
                       /\ wallet' = wallet

=============================================================================
