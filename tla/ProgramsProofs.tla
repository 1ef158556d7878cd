--------------------------- MODULE ProgramsProofs ---------------------------
(***************************************************************************)
(* What holds of the treasury and of governance for every set of signers and*)
(* stake accounts, policy, threshold, stake, period and number of          *)
(* instructions.                                                           *)
(***************************************************************************)
EXTENDS Governance, TreasuryV7, FiniteSetTheorems, TLAPS

----------------------------------------------------------------------------
(* The treasury.                                                           *)

(* The fields of an operation that waits for approvals.                    *)
PendingOp ==
    [id : Nat, op : Proposals, proposed : Nat, proposer : Accounts,
     approvals : SUBSET Accounts, reached : Nat]

(* The types of the treasury's variables.                                  *)
TreasuryTyped ==
    /\ treasuryRound \in Nat
    /\ nextOpId \in Nat
    /\ policy.timelock \in Nat
    /\ pending \subseteq PendingOp

(* The inductive invariant: the operations are well formed and sound.      *)
TreasuryInv == TreasuryTyped /\ PendingIsSound

(* The threshold of every tier is a number of signers: one of the three    *)
(* thresholds of a valid signer set (required_threshold).                  *)
LEMMA RequiredIsANumber ==
    ASSUME NEW s, validate_thresholds(s), NEW op, op.kind \in Kind
    PROVE  required_threshold(op, s) \in Nat
  <1> DEFINE T == {s.threshold, s.policy_threshold, s.signers_threshold}
  <1>1. T \subseteq Nat
    BY Zenon DEF validate_thresholds
  <1>2. \E x \in T : \A y \in T : x >= y
    BY DEF validate_thresholds
  <1>3. Max(T) \in Nat
    BY <1>1, <1>2, Zenon DEF Max
  <1> QED
    BY <1>1, <1>3, Zenon DEF required_threshold, Kind

(* One more approval does not bring an operation below a threshold.        *)
LEMMA ApprovalCounts ==
    ASSUME NEW S, NEW A \in SUBSET S, NEW a \in S, IsFiniteSet(S)
    PROVE  /\ Cardinality(A) \in Nat
           /\ Cardinality(A \cup {a}) \in Nat
           /\ Cardinality(A \cup {a}) >= Cardinality(A)
  <1>1. IsFiniteSet(A)
    BY FS_Subset, Zenon
  <1>2. IsFiniteSet(A \cup {a}) /\ IsFiniteSet(A)
    BY <1>1, FS_AddElement, Zenon
  <1>3. Cardinality(A) \in Nat /\ Cardinality(A \cup {a}) \in Nat
    BY <1>2, FS_CardinalityType, Zenon
  <1>4. Cardinality(A \cup {a}) = IF a \in A THEN Cardinality(A) ELSE Cardinality(A) + 1
    BY <1>1, FS_AddElement, Zenon
  <1> QED
    BY <1>3, <1>4

(* The invariant holds of the genesis treasury.                            *)
LEMMA TreasuryInitially == TreasuryInit => TreasuryInv
  BY TreasuryAssumption DEF TreasuryInit, TreasuryInv, TreasuryTyped, PendingIsSound

(* Pruning only takes operations away.                                     *)
LEMMA PruningKeeps == prune_expired \subseteq pending
  BY Zenon DEF prune_expired

(* A proposal starts with its proposer's approval.                         *)
LEMMA ProposeKeeps ==
    ASSUME TreasuryInv, NEW a \in Accounts, NEW op \in Proposals, propose(a, op)
    PROVE  TreasuryInv'
  <1> DEFINE new == [id |-> nextOpId, op |-> op, proposed |-> treasuryRound, proposer |-> a,
                     approvals |-> {a},
                     reached |-> IF required_threshold(op, signerSet) <= 1 THEN treasuryRound ELSE 0]
  <1>1. new \in PendingOp
    BY Zenon DEF TreasuryInv, TreasuryTyped, PendingOp
  <1>2. pending' \subseteq pending \cup {new}
    BY PruningKeeps, Zenon DEF propose
  <1>3. TreasuryTyped'
    <2> HIDE DEF new
    <2>1. pending' \subseteq PendingOp
      BY <1>1, <1>2, Zenon DEF TreasuryInv, TreasuryTyped
    <2> QED
      BY <2>1 DEF propose, TreasuryInv, TreasuryTyped
  <1>4. Cardinality({a}) = 1
    BY FS_Singleton, Zenon
  <1>5. required_threshold(op, signerSet) \in Nat
    BY RequiredIsANumber, TreasuryAssumption, Zenon DEF TreasuryInv, PendingIsSound
  <1>6. /\ new.approvals \subseteq signerSet.signers
        /\ new.reached # 0 => /\ Cardinality(new.approvals) >= required_threshold(new.op, signerSet)
                              /\ new.reached <= treasuryRound
    BY <1>4, <1>5 DEF propose, TreasuryInv, TreasuryTyped
  <1>7. PendingIsSound'
    BY <1>2, <1>6, Zenon DEF propose, TreasuryInv, PendingIsSound
  <1> QED
    BY <1>3, <1>7, Zenon DEF TreasuryInv

(* An approval is added by a signer who had not given one.                 *)
LEMMA ApproveKeeps ==
    ASSUME TreasuryInv, NEW a \in Accounts, NEW p \in pending, approve(a, p)
    PROVE  TreasuryInv'
  <1> DEFINE new == Approved(p, a)
             need == required_threshold(p.op, signerSet)
  <1>1. p \in PendingOp /\ treasuryRound \in Nat
    BY Zenon DEF TreasuryInv, TreasuryTyped
  <1>2. /\ new \in PendingOp /\ new.op = p.op /\ new.approvals = p.approvals \cup {a}
        /\ new.reached = IF p.reached = 0 /\ Cardinality(p.approvals \cup {a}) >= need
                           THEN treasuryRound ELSE p.reached
    BY <1>1, Zenon DEF PendingOp, Approved
  <1>3. pending' \subseteq pending \cup {new}
    BY PruningKeeps, Zenon DEF approve
  <1>4. TreasuryTyped'
    BY <1>2, <1>3, Zenon DEF approve, TreasuryInv, TreasuryTyped
  <1>5. /\ p.approvals \subseteq signerSet.signers
        /\ a \in signerSet.signers
        /\ IsFiniteSet(signerSet.signers)
        /\ p.reached # 0 => Cardinality(p.approvals) >= need /\ p.reached <= treasuryRound
    BY Zenon DEF TreasuryInv, PendingIsSound, validate_thresholds, approve
  <1>6. need \in Nat
    BY <1>1, RequiredIsANumber, TreasuryAssumption, Zenon DEF TreasuryInv, PendingIsSound, PendingOp
  <1>7. /\ Cardinality(p.approvals) \in Nat
        /\ Cardinality(p.approvals \cup {a}) \in Nat
        /\ Cardinality(p.approvals \cup {a}) >= Cardinality(p.approvals)
    BY <1>5, ApprovalCounts, Zenon
  <1>8. /\ new.approvals \subseteq signerSet.signers
        /\ new.reached # 0 => /\ Cardinality(new.approvals) >= required_threshold(new.op, signerSet)
                              /\ new.reached <= treasuryRound
    <2> HIDE DEF new, need
    <2>1. new.approvals \subseteq signerSet.signers
      BY <1>2, <1>5, Zenon
    <2>2. required_threshold(new.op, signerSet) = need
      BY <1>2, Zenon DEF need
    <2>3. new.reached # 0 => Cardinality(new.approvals) >= need /\ new.reached <= treasuryRound
      BY <1>1, <1>2, <1>5, <1>6, <1>7
    <2> QED
      BY <2>1, <2>2, <2>3, Zenon
  <1>9. PendingIsSound'
    BY <1>3, <1>8, Zenon DEF approve, TreasuryInv, PendingIsSound
  <1> QED
    BY <1>4, <1>9, Zenon DEF TreasuryInv

(* Executing an operation takes it off the list, and drops all others when *)
(* it replaces the signers.                                                *)
LEMMA ExecuteKeeps ==
    ASSUME TreasuryInv, NEW p \in pending, execute_op(p)
    PROVE  TreasuryInv'
  <1>1. p \in PendingOp
    BY Zenon DEF TreasuryInv, TreasuryTyped
  <1>2. pending' \subseteq pending
    BY PruningKeeps, Zenon DEF execute_op
  <1>3. policy'.timelock \in Nat
    <2>1. CASE p.op.kind = "SetPolicy"
      BY <1>1, <2>1, TreasuryAssumption, Zenon DEF execute_op, PendingOp
    <2>2. CASE p.op.kind # "SetPolicy"
      BY <2>2, Zenon DEF execute_op, TreasuryInv, TreasuryTyped
    <2> QED
      BY <2>1, <2>2, Zenon
  <1>4. TreasuryTyped'
    BY <1>2, <1>3, Zenon DEF execute_op, TreasuryInv, TreasuryTyped
  <1>5. CASE p.op.kind = "SetSigners"
    <2>1. pending' = {} /\ validate_thresholds(signerSet')
      BY <1>5, Zenon DEF execute_op
    <2>2. PendingIsSound'
      BY <2>1, Zenon DEF PendingIsSound, validate_thresholds
    <2> QED
      BY <1>4, <2>2, Zenon DEF TreasuryInv
  <1>6. CASE p.op.kind # "SetSigners"
    <2>1. signerSet' = signerSet /\ treasuryRound' = treasuryRound
      BY <1>6, Zenon DEF execute_op
    <2>2. PendingIsSound'
      BY <1>2, <2>1, Zenon DEF TreasuryInv, PendingIsSound
    <2> QED
      BY <1>4, <2>2, Zenon DEF TreasuryInv
  <1> QED
    BY <1>5, <1>6, Zenon

(* Cancelling, pruning and the passing of rounds only take operations away *)
(* and leave time locks in the past.                                       *)
LEMMA OthersKeep ==
    ASSUME TreasuryInv,
           \/ \E a \in Accounts, p \in pending : cancel(a, p)
           \/ prune
           \/ TreasuryRoundPasses
           \/ UNCHANGED treasuryVars
    PROVE  TreasuryInv'
  <1>1. /\ pending' \subseteq pending
        /\ UNCHANGED <<signerSet, policy, nextOpId>>
        /\ treasuryRound' \in {treasuryRound, treasuryRound + 1}
    BY PruningKeeps, Zenon DEF cancel, prune, TreasuryRoundPasses, treasuryVars
  <1>2. treasuryRound' \in Nat /\ treasuryRound' >= treasuryRound
    BY <1>1 DEF TreasuryInv, TreasuryTyped
  <1>3. TreasuryTyped'
    BY <1>1, <1>2, Zenon DEF TreasuryInv, TreasuryTyped
  <1>4. ASSUME NEW p \in pending'
        PROVE  /\ p.approvals \subseteq signerSet'.signers
               /\ p.reached # 0 =>
                    /\ Cardinality(p.approvals) >= required_threshold(p.op, signerSet')
                    /\ p.reached <= treasuryRound'
    <2>1. p \in pending /\ p.reached \in Nat /\ treasuryRound \in Nat
      BY <1>1, <1>4, Zenon DEF TreasuryInv, TreasuryTyped, PendingOp
    <2>2. /\ p.approvals \subseteq signerSet.signers
          /\ p.reached # 0 => /\ Cardinality(p.approvals) >= required_threshold(p.op, signerSet)
                              /\ p.reached <= treasuryRound
      BY <2>1, Zenon DEF TreasuryInv, PendingIsSound
    <2> QED
      BY <1>1, <1>2, <2>1, <2>2
  <1>5. PendingIsSound'
    BY <1>1, <1>4, Zenon DEF TreasuryInv, PendingIsSound, validate_thresholds, required_threshold
  <1> QED
    BY <1>3, <1>5, Zenon DEF TreasuryInv

(* Every instruction and the passing of rounds keep the invariant.         *)
LEMMA TreasuryStepKeeps == TreasuryInv /\ [TreasuryNext]_treasuryVars => TreasuryInv'
  <1> SUFFICES ASSUME TreasuryInv, [TreasuryNext]_treasuryVars PROVE TreasuryInv'
    OBVIOUS
  <1>1. CASE \E a \in Accounts, op \in Proposals : propose(a, op)
    BY <1>1, ProposeKeeps, Zenon
  <1>2. CASE \E a \in Accounts, p \in pending : approve(a, p)
    BY <1>2, ApproveKeeps, Zenon
  <1>3. CASE \E p \in pending : execute_op(p)
    BY <1>3, ExecuteKeeps, Zenon
  <1> QED
    BY <1>1, <1>2, <1>3, OthersKeep, Zenon DEF TreasuryNext

(* The invariant holds at all times.                                       *)
LEMMA TreasuryInvariant == TreasurySpec => []TreasuryInv
  BY TreasuryInitially, TreasuryStepKeeps, PTL DEF TreasurySpec

(* Approvals of pending operations are those of current signers, and a     *)
(* time lock runs only for an operation with the approvals of its tier,    *)
(* whatever operations replace the signers, the thresholds and the policy  *)
(* (propose_op, approve_op, execute_op of treasury_v7.rs).                 *)
THEOREM PendingIsSoundAlways == TreasurySpec => []PendingIsSound
  BY TreasuryInvariant, PTL DEF TreasuryInv

(* No coin leaves the treasury except by a release with the threshold of   *)
(* current signers behind it, after its time lock, for its amount.         *)
THEOREM ReleasesAreApprovedAlways == TreasurySpec => ReleasesAreApproved
  <1>1. TreasuryInv /\ [TreasuryNext]_treasuryVars => [ReleaseStep]_treasuryVars
    <2> SUFFICES ASSUME TreasuryInv, TreasuryNext, treasuryBal' # treasuryBal
                 PROVE  ReleaseStep
      BY Zenon DEF ReleaseStep
    <2>1. PICK p \in pending : execute_op(p)
      BY Zenon DEF TreasuryNext, propose, approve, cancel, prune, TreasuryRoundPasses
    <2>2. p.op.kind = "Release" /\ apply_release(p.op.amount) /\ p \notin pending'
      BY <2>1, Zenon DEF execute_op
    <2>3. required_threshold(p.op, signerSet) = signerSet.threshold
      BY <2>2, Zenon DEF required_threshold
    <2>4. /\ Cardinality(p.approvals) >= signerSet.threshold
          /\ treasuryRound >= p.reached + policy.timelock
      BY <2>1, <2>3, Zenon DEF execute_op, Executable
    <2>5. p.approvals \subseteq signerSet.signers /\ p.reached \in Nat
          /\ policy.timelock \in Nat /\ treasuryRound \in Nat
      BY Zenon DEF TreasuryInv, TreasuryTyped, PendingIsSound, PendingOp
    <2> QED
      BY <2>2, <2>4, <2>5, Zenon DEF ReleaseStep, apply_release
  <1> QED
    BY <1>1, TreasuryInvariant, PTL DEF TreasurySpec, ReleasesAreApproved

----------------------------------------------------------------------------
(* Governance.                                                             *)

(* The fields of a stake position and of a proposal.                       *)
PositionFields ==
    {"owner", "validator", "amount", "debt", "locked_until", "bonding_until",
     "unbonding_requested", "created"}

ProposalFields ==
    {"proposer", "action", "created", "ends", "snapshot", "tally", "voted", "status",
     "passed", "deposit"}

(* What a stored stake position is.                                        *)
IsPosition(x) ==
    /\ DOMAIN x = PositionFields
    /\ x.amount \in Nat
    /\ x.locked_until \in Nat

(* What a stored proposal is.                                              *)
IsProposal(p) ==
    /\ DOMAIN p = ProposalFields
    /\ p.ends \in Nat

(* A proposal that passed did so by its tally, when the voting was over.   *)
PassedByTally(p) ==
    p.status = "Passed" => p.passed \in Nat /\ p.passed >= p.ends /\ evaluate(p) = "Passed"

(* The round until which a vote on p locks the stake it counts.            *)
Lock(p) == p.ends + TIMELOCK[Tier(p)]

(* The types of the stake accounts, the proposals and the round.           *)
GovTyped ==
    /\ round \in Nat
    /\ DOMAIN stake = StakeAccounts
    /\ \A s \in StakeAccounts : Exists(s) => IsPosition(stake[s])
    /\ \A k \in DOMAIN proposal :
          /\ IsProposal(proposal[k])
          /\ \A s \in DOMAIN proposal[k].voted : s \in StakeAccounts /\ Exists(s)
    /\ FEE_FLOOR <= baseFee /\ baseFee <= FEE_CAP

(* The inductive invariant of governance.                                  *)
GovInv ==
    /\ GovTyped
    /\ \A k \in DOMAIN proposal : PassedByTally(proposal[k])
    /\ VotesAreLocked

(* What any instruction may do to a position: it stays with its owner, its *)
(* lock does not become shorter, and its amount changes only once the lock *)
(* is over or by a slash.                                                  *)
PositionKept(s) ==
    /\ stake'[s] # NoStake
    /\ IsPosition(stake'[s])
    /\ stake'[s].owner = stake[s].owner
    /\ stake'[s].locked_until >= stake[s].locked_until
    /\ \/ stake'[s].amount = stake[s].amount
       \/ round >= stake[s].locked_until
       \/ stake[s].owner \in Cheats /\ stake'[s].amount = 0

(* Every position is kept.                                                 *)
StakeKept ==
    /\ DOMAIN stake' = StakeAccounts
    /\ \A s \in StakeAccounts : Exists(s) => PositionKept(s)
    /\ \A s \in StakeAccounts : stake'[s] # NoStake => IsPosition(stake'[s])

(* Every proposal belongs to a tier.                                       *)
LEMMA TierIsATier == ASSUME NEW p PROVE Tier(p) \in Tiers
  BY Zenon DEF Tier, Tiers

(* The end of a lock is a round.                                           *)
LEMMA LockIsARound ==
    ASSUME NEW p, p.ends \in Nat
    PROVE  Lock(p) \in Nat /\ Lock(p) >= p.ends
  <1>1. TIMELOCK[Tier(p)] \in Nat
    BY TierIsATier, GovernanceAssumption, Zenon
  <1> QED
    BY <1>1 DEF Lock

(* A position is not the absence of one.                                   *)
LEMMA PositionExists == ASSUME NEW x, IsPosition(x) PROVE x # NoStake
  <1>1. "amount" \in DOMAIN x
    BY Zenon DEF IsPosition, PositionFields
  <1>2. "amount" \notin DOMAIN NoStake
    BY Zenon DEF NoStake
  <1> QED
    BY <1>1, <1>2, Zenon

(* One position changes as it may, the others stay.                        *)
LEMMA OnePositionKept ==
    ASSUME GovTyped, NEW s, NEW x, DOMAIN stake' = StakeAccounts,
           \A t \in StakeAccounts : stake'[t] = IF t = s THEN x ELSE stake[t],
           IsPosition(x),
           Exists(s) => /\ x.owner = stake[s].owner
                        /\ x.locked_until >= stake[s].locked_until
                        /\ \/ x.amount = stake[s].amount
                           \/ round >= stake[s].locked_until
                           \/ stake[s].owner \in Cheats /\ x.amount = 0
    PROVE  StakeKept
  <1>1. ASSUME NEW t \in StakeAccounts, Exists(t) PROVE PositionKept(t)
    <2>1. CASE t = s
      BY <1>1, <2>1, PositionExists, Zenon DEF PositionKept
    <2>2. CASE t # s
      <3>1. stake'[t] = stake[t] /\ IsPosition(stake[t])
        BY <1>1, <2>2, Zenon DEF GovTyped
      <3> QED
        BY <1>1, <3>1 DEF PositionKept, Exists, IsPosition
    <2> QED
      BY <2>1, <2>2, Zenon
  <1>2. ASSUME NEW t \in StakeAccounts, stake'[t] # NoStake PROVE IsPosition(stake'[t])
    BY <1>2, Zenon DEF GovTyped, Exists
  <1> QED
    BY <1>1, <1>2, Zenon DEF StakeKept

(* Positions nobody touches are kept.                                      *)
LEMMA NoPositionMoves == ASSUME GovTyped, stake' = stake PROVE StakeKept
  <1>1. ASSUME NEW t \in StakeAccounts, Exists(t) PROVE PositionKept(t)
    BY <1>1 DEF GovTyped, PositionKept, Exists, IsPosition
  <1> QED
    BY <1>1, Zenon DEF StakeKept, GovTyped, Exists

(* Every instruction on stake accounts keeps the positions that it does    *)
(* not open (Delegate, the two steps of Undelegate, ReportEquivocation).   *)
LEMMA StakeStepKeeps ==
    ASSUME GovTyped, NEW accounts, NEW validators, StakeStep(accounts, validators)
    PROVE  StakeKept
  <1>0. DOMAIN stake = StakeAccounts /\ round \in Nat
    BY Zenon DEF GovTyped
  <1>1. ASSUME NEW h \in Holders, NEW s \in accounts, NEW v \in validators,
               NEW a \in DelegateAmounts, Delegate(h, s, v, a)
        PROVE  StakeKept
    <2> DEFINE new == [owner |-> h, validator |-> v, amount |-> a,
                       debt |-> settled_reward_debt(a), locked_until |-> 0,
                       bonding_until |-> round + MINIMUM_BONDING_ROUNDS,
                       unbonding_requested |-> NONE, created |-> round]
    <2>1. IsPosition(new)
      BY StakingV6Assumption, Zenon DEF IsPosition, PositionFields
    <2>2. stake' = [stake EXCEPT ![s] = new] /\ ~Exists(s)
      BY <1>1, Zenon DEF Delegate
    <2> HIDE DEF new
    <2>3. /\ DOMAIN stake' = StakeAccounts
          /\ \A t \in StakeAccounts : stake'[t] = IF t = s THEN new ELSE stake[t]
      BY <1>0, <2>2, Zenon
    <2> QED
      BY <2>1, <2>2, <2>3, OnePositionKept, Zenon
  <1>2. ASSUME NEW s \in StakeAccounts, RequestUnbonding(s)
        PROVE  StakeKept
    <2> DEFINE new == [stake[s] EXCEPT !.unbonding_requested = round]
    <2>1. Exists(s) /\ IsPosition(stake[s])
      BY <1>2, Zenon DEF RequestUnbonding, GovTyped
    <2>2. IsPosition(new) /\ new.owner = stake[s].owner /\ new.amount = stake[s].amount
          /\ new.locked_until = stake[s].locked_until
      BY <2>1, Zenon DEF IsPosition, PositionFields
    <2>3. /\ DOMAIN stake' = StakeAccounts
          /\ \A t \in StakeAccounts : stake'[t] = IF t = s THEN new ELSE stake[t]
      BY <1>0, <1>2, Zenon DEF RequestUnbonding
    <2> HIDE DEF new
    <2>4. stake[s].locked_until \in Nat
      BY <2>1, Zenon DEF IsPosition
    <2> QED
      BY <2>2, <2>3, <2>4, OnePositionKept
  <1>3. ASSUME NEW s \in StakeAccounts,
               \/ Undelegate(s)
               \/ \E named \in BOOLEAN : ReportEquivocation(s, named)
        PROVE  StakeKept
    <2> DEFINE new == [stake[s] EXCEPT !.amount = 0, !.debt = 0]
    <2>1. Exists(s) /\ IsPosition(stake[s])
      BY <1>3, Zenon DEF Undelegate, ReportEquivocation, GovTyped
    <2>2. IsPosition(new) /\ new.owner = stake[s].owner /\ new.amount = 0
          /\ new.locked_until = stake[s].locked_until
      BY <2>1, Zenon DEF IsPosition, PositionFields
    <2>3. /\ DOMAIN stake' = StakeAccounts
          /\ \A t \in StakeAccounts : stake'[t] = IF t = s THEN new ELSE stake[t]
      BY <1>0, <1>3, Zenon DEF Undelegate, ReportEquivocation
    <2>4. round >= stake[s].locked_until \/ stake[s].owner \in Cheats
      BY <1>3, Zenon DEF Undelegate, MayLeave, ReportEquivocation
    <2> HIDE DEF new
    <2>5. stake[s].locked_until \in Nat
      BY <2>1, Zenon DEF IsPosition
    <2> QED
      BY <2>2, <2>3, <2>4, <2>5, OnePositionKept
  <1> QED
    BY <1>1, <1>2, <1>3, Zenon DEF StakeStep

(* Claiming, accruing and registering touch no lock.                       *)
LEMMA RewardStepKeeps ==
    ASSUME GovTyped, RewardStep \/ RegistrationStep
    PROVE  StakeKept
  <1>1. ASSUME NEW s \in StakeAccounts, ClaimReward(s)
        PROVE  StakeKept
    <2> DEFINE new == [stake[s] EXCEPT !.debt = settled_reward_debt(stake[s].amount)]
    <2>1. Exists(s) /\ IsPosition(stake[s])
      BY <1>1, Zenon DEF ClaimReward, GovTyped
    <2>2. IsPosition(new) /\ new.owner = stake[s].owner /\ new.amount = stake[s].amount
          /\ new.locked_until = stake[s].locked_until
      BY <2>1, Zenon DEF IsPosition, PositionFields
    <2>3. /\ DOMAIN stake' = StakeAccounts
          /\ \A t \in StakeAccounts : stake'[t] = IF t = s THEN new ELSE stake[t]
      BY <1>1, Zenon DEF ClaimReward, GovTyped
    <2> HIDE DEF new
    <2>4. stake[s].locked_until \in Nat
      BY <2>1, Zenon DEF IsPosition
    <2> QED
      BY <2>2, <2>3, <2>4, OnePositionKept
  <1>2. ASSUME stake' = stake PROVE StakeKept
    BY <1>2, NoPositionMoves, Zenon
  <1> QED
    BY <1>1, <1>2, Zenon DEF RewardStep, RegistrationStep, accrue_reward_pool, RegisterValidator,
                      UnregisterValidator

(* A vote in a proposal is an old one, or was cast in this step and has    *)
(* locked its stake.                                                       *)
VoteKept(k, s) ==
    LET p == proposal'[k] IN
    \/ /\ k \in DOMAIN proposal /\ s \in DOMAIN proposal[k].voted
       /\ p.voted[s] = proposal[k].voted[s]
       /\ p.ends = proposal[k].ends /\ p.action = proposal[k].action
    \/ /\ s \in StakeAccounts /\ stake'[s] # NoStake
       /\ stake'[s].amount = p.voted[s]
       /\ stake'[s].locked_until >= Lock(p)

(* Every proposal is sound after the step, and so is every vote in it.     *)
ProposalsKept ==
    \A k \in DOMAIN proposal' :
       /\ IsProposal(proposal'[k]) /\ PassedByTally(proposal'[k])
       /\ \A s \in DOMAIN proposal'[k].voted : VoteKept(k, s)

(* A step that keeps positions and proposals keeps the invariant.          *)
LEMMA KeptIsInvariant ==
    ASSUME GovInv, StakeKept, ProposalsKept, round' \in {round, round + 1},
           FEE_FLOOR <= baseFee', baseFee' <= FEE_CAP
    PROVE  GovInv'
  <1>1. round \in Nat /\ round' \in Nat /\ round' >= round
    BY SMTT(60) DEF GovInv, GovTyped
  <1>2. ASSUME NEW k \in DOMAIN proposal', NEW s \in DOMAIN proposal'[k].voted
        PROVE  /\ s \in StakeAccounts /\ stake'[s] # NoStake
               /\ stake'[s].locked_until >= Lock(proposal'[k])
               /\ \/ round' >= Lock(proposal'[k])
                  \/ stake'[s].amount = proposal'[k].voted[s]
                  \/ stake'[s].owner \in Cheats /\ stake'[s].amount = 0
    <2>1. VoteKept(k, s)
      BY <1>2, Zenon DEF ProposalsKept
    <2>2. CASE /\ s \in StakeAccounts /\ stake'[s] # NoStake
               /\ stake'[s].amount = proposal'[k].voted[s]
               /\ stake'[s].locked_until >= Lock(proposal'[k])
      BY <2>2, Zenon
    <2>3. CASE /\ k \in DOMAIN proposal /\ s \in DOMAIN proposal[k].voted
               /\ proposal'[k].voted[s] = proposal[k].voted[s]
               /\ proposal'[k].ends = proposal[k].ends
               /\ proposal'[k].action = proposal[k].action
      <3> DEFINE until == Lock(proposal[k])
      <3>1. Lock(proposal'[k]) = until
        BY <2>3, Zenon DEF Lock, Tier
      <3>2. s \in StakeAccounts /\ Exists(s) /\ IsPosition(stake[s]) /\ until \in Nat
        BY <2>3, LockIsARound, Zenon DEF GovInv, GovTyped, IsProposal
      <3>3. PositionKept(s)
        BY <3>2, Zenon DEF StakeKept
      <3>4. /\ stake[s].locked_until >= until
            /\ \/ round >= until
               \/ stake[s].amount = proposal[k].voted[s]
               \/ stake[s].owner \in Cheats /\ stake[s].amount = 0
        BY <2>3, Zenon DEF GovInv, VotesAreLocked, Lock
      <3> HIDE DEF until
      <3>5. stake[s].locked_until \in Nat /\ stake'[s].locked_until \in Nat
        BY <3>2, <3>3, Zenon DEF PositionKept, IsPosition
      <3>6. stake'[s] # NoStake /\ stake'[s].locked_until >= until
        BY <3>2, <3>3, <3>4, <3>5 DEF PositionKept
      <3>7. \/ round' >= until
            \/ stake'[s].amount = proposal'[k].voted[s]
            \/ stake'[s].owner \in Cheats /\ stake'[s].amount = 0
        <4>1. CASE round >= until \/ round >= stake[s].locked_until
          BY <1>1, <3>2, <3>4, <3>5, <4>1, SMTT(60)
        <4>2. CASE ~(round >= stake[s].locked_until)
          BY <2>3, <1>1, <3>2, <3>3, <3>4, <4>1, <4>2, Zenon DEF PositionKept
        <4> QED
          BY <4>1, <4>2, Zenon
      <3> QED
        BY <3>1, <3>2, <3>6, <3>7, Zenon
    <2> QED
      BY <2>1, <2>2, <2>3, Zenon DEF VoteKept
  <1>3. GovTyped'
    <2>1. ASSUME NEW k \in DOMAIN proposal'
          PROVE  /\ IsProposal(proposal'[k])
                 /\ \A s \in DOMAIN proposal'[k].voted : s \in StakeAccounts /\ stake'[s] # NoStake
      BY <1>2, <2>1, Zenon DEF ProposalsKept
    <2> QED
      BY <1>1, <2>1, Zenon DEF GovTyped, StakeKept, Exists, IsProposal, IsPosition
  <1>4. VotesAreLocked'
    BY <1>2, Zenon DEF VotesAreLocked, Lock, Tier
  <1>5. \A k \in DOMAIN proposal' : PassedByTally(proposal'[k])
    BY Zenon DEF ProposalsKept
  <1> QED
    BY <1>3, <1>4, <1>5, Zenon DEF GovInv, PassedByTally, evaluate, reached_participation_floor,
                            Participating, Tier

(* Proposals nobody touches are kept.                                      *)
LEMMA ProposalsUntouched == ASSUME GovInv, proposal' = proposal PROVE ProposalsKept
  <1>1. ASSUME NEW k \in DOMAIN proposal
        PROVE  /\ IsProposal(proposal'[k]) /\ PassedByTally(proposal'[k])
               /\ \A s \in DOMAIN proposal'[k].voted : VoteKept(k, s)
    BY <1>1, Zenon DEF GovInv, GovTyped, VoteKept
  <1> QED
    BY <1>1, Zenon DEF ProposalsKept

(* One proposal changes and the others stay: x takes its place, with the   *)
(* votes it had.                                                           *)
LEMMA OneProposalKept ==
    ASSUME GovInv, NEW k \in DOMAIN proposal, NEW x,
           proposal' = [proposal EXCEPT ![k] = x],
           IsProposal(x), PassedByTally(x),
           x.voted = proposal[k].voted, x.ends = proposal[k].ends, x.action = proposal[k].action
    PROVE  ProposalsKept
  <1>1. DOMAIN proposal' = DOMAIN proposal
    OBVIOUS
  <1>2. ASSUME NEW j \in DOMAIN proposal
        PROVE  /\ IsProposal(proposal'[j]) /\ PassedByTally(proposal'[j])
               /\ \A s \in DOMAIN proposal'[j].voted : VoteKept(j, s)
    <2>1. CASE j = k
      <3>1. proposal'[j] = x
        BY <2>1, Zenon
      <3> QED
        BY <2>1, <3>1, Zenon DEF VoteKept
    <2>2. CASE j # k
      <3>1. proposal'[j] = proposal[j]
        BY <1>2, <2>2, Zenon
      <3> QED
        BY <1>2, <3>1, Zenon DEF GovInv, GovTyped, VoteKept
    <2> QED
      BY <2>1, <2>2, Zenon
  <1> QED
    BY <1>1, <1>2, Zenon DEF ProposalsKept

(* A new proposal has no votes.                                            *)
LEMMA CreateKeeps ==
    ASSUME GovInv, NEW h, NEW id, NEW action, CreateProposal(h, id, action)
    PROVE  ProposalsKept
  <1> DEFINE new == new_proposal(h, action)
             at == <<h, id>>
  <1>1. VOTING_PERIOD[Tier([action |-> action])] \in Nat /\ round \in Nat
    BY TierIsATier, GovernanceAssumption, ZenonT(60) DEF GovInv, GovTyped
  <1>2. IsProposal(new) /\ new.status = "Voting" /\ new.voted = <<>>
    <2>1. DOMAIN new = ProposalFields
      BY Zenon DEF new_proposal, ProposalFields
    <2>2. /\ new.ends = round + VOTING_PERIOD[Tier([action |-> action])]
          /\ new.status = "Voting" /\ new.voted = <<>>
      BY Zenon DEF new_proposal
    <2>3. new.ends \in Nat
      BY <1>1, <2>2, SMTT(60)
    <2> QED
      BY <2>1, <2>2, <2>3, Zenon DEF IsProposal
  <1>3. /\ DOMAIN proposal' = DOMAIN proposal \cup {at}
        /\ \A k \in DOMAIN proposal' : proposal'[k] = IF k = at THEN new ELSE proposal[k]
        /\ at \notin DOMAIN proposal
    BY Zenon DEF CreateProposal
  <1> HIDE DEF new, at
  <1>4. ASSUME NEW k \in DOMAIN proposal'
        PROVE  /\ IsProposal(proposal'[k]) /\ PassedByTally(proposal'[k])
               /\ \A s \in DOMAIN proposal'[k].voted : VoteKept(k, s)
    <2>1. CASE k = at
      <3>1. proposal'[k] = new /\ DOMAIN new.voted = {}
        BY <1>2, <1>3, <1>4, <2>1, SMTT(60)
      <3> QED
        BY <1>2, <3>1, Zenon DEF PassedByTally
    <2>2. CASE k # at
      <3>1. k \in DOMAIN proposal /\ proposal'[k] = proposal[k]
        BY <1>3, <1>4, <2>2, Zenon
      <3> QED
        BY <3>1, Zenon DEF GovInv, GovTyped, VoteKept
    <2> QED
      BY <2>1, <2>2, Zenon
  <1> QED
    BY <1>4, Zenon DEF ProposalsKept

(* A proposal passes by its tally, after its voting period.                *)
LEMMA FinalizeKeeps ==
    ASSUME GovInv, NEW k \in DOMAIN proposal, Finalize(k)
    PROVE  ProposalsKept
  <1> DEFINE p == proposal[k]
             x == [p EXCEPT !.status = evaluate(p),
                            !.passed = IF evaluate(p) = "Passed" THEN round ELSE @]
  <1>1. IsProposal(p) /\ round \in Nat
    BY Zenon DEF GovInv, GovTyped
  <1>2. proposal' = [proposal EXCEPT ![k] = x]
    BY Zenon DEF Finalize
  <1>3. /\ IsProposal(x) /\ x.voted = p.voted /\ x.ends = p.ends /\ x.action = p.action
        /\ x.tally = p.tally /\ x.snapshot = p.snapshot
        /\ x.status = evaluate(p)
        /\ evaluate(p) = "Passed" => x.passed = round
    BY <1>1, Zenon DEF IsProposal, ProposalFields
  <1>4. evaluate(x) = evaluate(p)
    <2> HIDE DEF x, p
    <2> QED
      BY <1>3, ZenonT(60) DEF evaluate, reached_participation_floor, Participating, Tier
  <1>5. PassedByTally(x)
    <2>1. round >= p.ends
      BY Zenon DEF Finalize
    <2> HIDE DEF x, p
    <2> QED
      BY <1>1, <1>3, <1>4, <2>1, Zenon DEF PassedByTally
  <1> HIDE DEF x
  <1> QED
    BY <1>2, <1>3, <1>5, OneProposalKept, Zenon

(* Executing or closing a proposal leaves its votes as they are.           *)
LEMMA StatusChangeKeeps ==
    ASSUME GovInv, NEW k \in DOMAIN proposal, Execute(k) \/ apply_close_proposal(k)
    PROVE  ProposalsKept
  <1>1. IsProposal(proposal[k])
    BY Zenon DEF GovInv, GovTyped
  <1>2. CASE Execute(k)
    <2> DEFINE x == [proposal[k] EXCEPT !.status = "Executed"]
    <2>1. proposal' = [proposal EXCEPT ![k] = x]
      BY <1>2, Zenon DEF Execute
    <2>2. /\ IsProposal(x) /\ x.status = "Executed" /\ x.voted = proposal[k].voted
          /\ x.ends = proposal[k].ends /\ x.action = proposal[k].action
      BY <1>1, Zenon DEF IsProposal, ProposalFields
    <2> HIDE DEF x
    <2>3. PassedByTally(x)
      BY <2>2, Zenon DEF PassedByTally
    <2> QED
      BY <2>1, <2>2, <2>3, OneProposalKept, Zenon
  <1>3. CASE apply_close_proposal(k)
    <2> DEFINE x == [proposal[k] EXCEPT !.status = "Closed", !.deposit = 0]
    <2>1. proposal' = [proposal EXCEPT ![k] = x]
      BY <1>3, Zenon DEF apply_close_proposal
    <2>2. /\ IsProposal(x) /\ x.status = "Closed" /\ x.voted = proposal[k].voted
          /\ x.ends = proposal[k].ends /\ x.action = proposal[k].action
      BY <1>1, Zenon DEF IsProposal, ProposalFields
    <2> HIDE DEF x
    <2>3. PassedByTally(x)
      BY <2>2, Zenon DEF PassedByTally
    <2> QED
      BY <2>1, <2>2, <2>3, OneProposalKept, Zenon
  <1> QED
    BY <1>2, <1>3, Zenon

(* A vote locks the stake it counts.                                       *)
LEMMA VoteKeeps ==
    ASSUME GovInv, NEW k \in DOMAIN proposal, NEW s \in StakeAccounts, NEW c \in VoteChoice,
           Vote(k, s, c)
    PROVE  StakeKept /\ ProposalsKept
  <1> DEFINE p == proposal[k]
             x == record_vote(p, s, c, stake[s].amount)
             y == [stake[s] EXCEPT !.locked_until = NotBelow(@, Lock(p))]
  <1>1. /\ IsProposal(p) /\ Lock(p) \in Nat /\ DOMAIN stake = StakeAccounts
        /\ Exists(s) /\ IsPosition(stake[s]) /\ p.status = "Voting" /\ s \notin DOMAIN p.voted
    BY LockIsARound, Zenon DEF GovInv, GovTyped, IsProposal, Vote
  <1>2. /\ DOMAIN stake' = StakeAccounts
        /\ \A t \in StakeAccounts : stake'[t] = IF t = s THEN y ELSE stake[t]
    BY <1>1, Zenon DEF Vote, Lock
  <1>3. /\ IsPosition(y) /\ y.owner = stake[s].owner /\ y.amount = stake[s].amount
        /\ y.locked_until >= stake[s].locked_until /\ y.locked_until >= Lock(p)
    <2> HIDE DEF p
    <2> QED
      BY <1>1 DEF IsPosition, PositionFields, NotBelow
  <1>4. proposal' = [proposal EXCEPT ![k] = x]
    BY Zenon DEF Vote
  <1>5. /\ DOMAIN x = ProposalFields /\ x.ends = p.ends /\ x.action = p.action
        /\ x.status = p.status
        /\ x.voted = [t \in DOMAIN p.voted \cup {s} |-> IF t = s THEN stake[s].amount ELSE p.voted[t]]
    BY <1>1, Zenon DEF record_vote, IsProposal, ProposalFields
  <1>6. Lock(x) = Lock(p) /\ IsProposal(x) /\ PassedByTally(x)
    <2> HIDE DEF x
    <2> QED
      BY <1>1, <1>5, Zenon DEF Lock, Tier, IsProposal, PassedByTally
  <1> HIDE DEF x, y
  <1>7. StakeKept
    BY <1>2, <1>3, OnePositionKept, Zenon DEF GovInv
  <1>8. stake'[s] = y /\ y # NoStake
    BY <1>2, <1>3, PositionExists, Zenon
  <1>9. ASSUME NEW j \in DOMAIN proposal
        PROVE  /\ IsProposal(proposal'[j]) /\ PassedByTally(proposal'[j])
               /\ \A t \in DOMAIN proposal'[j].voted : VoteKept(j, t)
    <2>1. CASE j = k
      <3>1. proposal'[j] = x
        BY <1>4, <2>1, Zenon
      <3>2. ASSUME NEW t \in DOMAIN x.voted PROVE VoteKept(j, t)
        <4>1. CASE t = s
          <5>1. x.voted[t] = stake[s].amount
            BY <1>5, <4>1, Zenon
          <5> QED
            BY <1>3, <1>6, <1>8, <3>1, <4>1, <5>1, ZenonT(60) DEF VoteKept
        <4>2. CASE t # s
          <5>1. t \in DOMAIN p.voted /\ x.voted[t] = p.voted[t]
            BY <1>5, <3>2, <4>2, Zenon
          <5> QED
            BY <1>5, <2>1, <3>1, <5>1, Zenon DEF VoteKept
        <4> QED
          BY <4>1, <4>2, Zenon
      <3> QED
        BY <1>6, <3>1, <3>2, Zenon
    <2>2. CASE j # k
      <3>1. proposal'[j] = proposal[j]
        BY <1>4, <1>9, <2>2, Zenon
      <3> QED
        BY <1>9, <3>1, Zenon DEF GovInv, GovTyped, VoteKept
    <2> QED
      BY <2>1, <2>2, Zenon
  <1> QED
    BY <1>4, <1>7, <1>9, Zenon DEF ProposalsKept

(* The invariant holds at genesis.                                         *)
LEMMA GovernanceInitially == GovernanceInit => GovInv
  <1> SUFFICES ASSUME GovernanceInit PROVE GovInv
    OBVIOUS
  <1>1. /\ round = 0 /\ DOMAIN stake = StakeAccounts
        /\ \A s \in StakeAccounts : ~Exists(s)
    BY Zenon DEF GovernanceInit, StakeInit, Exists
  <1>2. DOMAIN proposal = {}
    BY DEF GovernanceInit
  <1>3. FEE_FLOOR <= baseFee /\ baseFee <= FEE_CAP
    BY GovernanceAssumption, Zenon DEF GovernanceInit
  <1>4. GovTyped
    BY <1>1, <1>2, <1>3, Zenon DEF GovTyped
  <1>5. VotesAreLocked
    BY <1>2, Zenon DEF VotesAreLocked
  <1> QED
    BY <1>2, <1>4, <1>5, Zenon DEF GovInv

(* Every instruction and the passing of rounds keep the invariant.         *)
LEMMA GovernanceStepKeeps == GovInv /\ [GovernanceNext]_govVars => GovInv'
  <1> SUFFICES ASSUME GovInv, [GovernanceNext]_govVars PROVE GovInv'
    OBVIOUS
  <1>0. /\ GovTyped /\ round \in Nat
        /\ FEE_FLOOR <= baseFee /\ baseFee <= FEE_CAP
    BY Zenon DEF GovInv, GovTyped
  <1>1. ASSUME NEW h, NEW id, NEW a, CreateProposal(h, id, a), UNCHANGED round
        PROVE  GovInv'
    <2>1. stake' = stake /\ baseFee' = baseFee
      BY <1>1, Zenon DEF CreateProposal, stakeVars
    <2> QED
      BY <1>0, <1>1, <2>1, NoPositionMoves, CreateKeeps, KeptIsInvariant, Zenon
  <1>2. ASSUME NEW k \in DOMAIN proposal, NEW s \in StakeAccounts, NEW c \in VoteChoice,
               Vote(k, s, c), UNCHANGED round
        PROVE  GovInv'
    <2>1. baseFee' = baseFee
      BY <1>2, Zenon DEF Vote
    <2> QED
      BY <1>0, <1>2, <2>1, VoteKeeps, KeptIsInvariant, Zenon
  <1>3. ASSUME NEW k \in DOMAIN proposal, Finalize(k), UNCHANGED round
        PROVE  GovInv'
    <2>1. stake' = stake /\ baseFee' = baseFee
      BY <1>3, Zenon DEF Finalize, stakeVars
    <2> QED
      BY <1>0, <1>3, <2>1, NoPositionMoves, FinalizeKeeps, KeptIsInvariant, Zenon
  <1>4. ASSUME NEW k \in DOMAIN proposal, Execute(k) \/ apply_close_proposal(k), UNCHANGED round
        PROVE  GovInv'
    <2>1. stake' = stake
      BY <1>4, Zenon DEF Execute, apply_close_proposal, stakeVars
    <2>2. FEE_FLOOR <= baseFee' /\ baseFee' <= FEE_CAP
      BY <1>0, <1>4, Zenon DEF Execute, apply_close_proposal, apply_economic_action, apply_registry_action
    <2> QED
      BY <1>0, <1>4, <2>1, <2>2, NoPositionMoves, StatusChangeKeeps, KeptIsInvariant, Zenon
  <1>5. ASSUME stake' = stake, proposal' = proposal, baseFee' = baseFee,
               round' \in {round, round + 1}
        PROVE  GovInv'
    BY <1>0, <1>5, NoPositionMoves, ProposalsUntouched, KeptIsInvariant, Zenon
  <1>6. ASSUME StakeStep(govWorkload.accounts, govWorkload.validators) \/ RewardStep \/ RegistrationStep,
               UNCHANGED <<proposal, baseFee, round>>
        PROVE  GovInv'
    <2>1. StakeKept
      BY <1>0, <1>6, StakeStepKeeps, RewardStepKeeps, Zenon
    <2> QED
      BY <1>0, <1>6, <2>1, ProposalsUntouched, KeptIsInvariant, Zenon
  <1>7. CASE ProposalStep /\ UNCHANGED round
    BY <1>1, <1>2, <1>3, <1>4, <1>7, Zenon DEF ProposalStep
  <1>8. CASE (\E g \in Guardians : apply_emergency_approval(g)) /\ UNCHANGED round
    BY <1>5, <1>8, Zenon DEF apply_emergency_approval, stakeVars
  <1>9. CASE RoundPasses \/ UNCHANGED govVars
    BY <1>5, <1>9, Zenon DEF RoundPasses, stakeVars, govVars
  <1> QED
    BY <1>6, <1>7, <1>8, <1>9, Zenon DEF GovernanceNext, GovernanceStep

(* The invariant holds at all times.                                       *)
LEMMA GovernanceInvariant == GovernanceSpec => []GovInv
  BY GovernanceInitially, GovernanceStepKeeps, PTL DEF GovernanceSpec

(* Whatever positions are opened, closed, slashed or voted with, a vote    *)
(* stays backed by the stake it counted until voting period and time lock  *)
(* are over (GovernanceInstruction::Vote, StakingInstruction::Undelegate). *)
THEOREM VotesAreLockedAlways == GovernanceSpec => []VotesAreLocked
  BY GovernanceInvariant, PTL DEF GovInv

(* The base fee and the algorithm registry change only by the one          *)
(* execution of a proposal that its tier's quorum passed, after its time   *)
(* lock and outside a pause (apply_economic_action, apply_registry_action).*)
THEOREM ChangesArePassedAlways == GovernanceSpec => ChangesArePassed
  <1>1. GovInv /\ [GovernanceNext]_govVars => [ChangeStep]_govVars
    <2> SUFFICES ASSUME GovInv, GovernanceNext,
                        <<baseFee, algorithms>>' # <<baseFee, algorithms>>
                 PROVE  ChangeStep
      BY Zenon DEF ChangeStep
    <2>1. PICK k \in DOMAIN proposal : Execute(k) /\ UNCHANGED round
      BY Zenon DEF GovernanceNext, GovernanceStep, ProposalStep, CreateProposal, Vote, Finalize,
             apply_close_proposal, apply_emergency_approval, RoundPasses
    <2>2. /\ ~emergency.paused /\ proposal[k].status = "Passed"
          /\ round >= proposal[k].passed + TIMELOCK[Tier(proposal[k])]
          /\ proposal' = [proposal EXCEPT ![k].status = "Executed"]
      BY <2>1, Zenon DEF Execute
    <2>3. FEE_FLOOR <= baseFee' /\ baseFee' <= FEE_CAP
      BY <2>1, Zenon DEF Execute, apply_economic_action, apply_registry_action, GovInv, GovTyped
    <2>4. ASSUME NEW a \in DOMAIN algorithms, algorithms[a].status = "Retired"
          PROVE  algorithms'[a].status = "Retired"
      BY <2>1, <2>4, Zenon DEF Execute, apply_economic_action, apply_registry_action
    <2>5. /\ proposal[k].passed \in Nat /\ proposal[k].ends \in Nat /\ round \in Nat
          /\ proposal[k].passed >= proposal[k].ends /\ evaluate(proposal[k]) = "Passed"
          /\ TIMELOCK[Tier(proposal[k])] \in Nat
      BY <2>2, TierIsATier, GovernanceAssumption, Zenon DEF GovInv, GovTyped, PassedByTally, IsProposal
    <2>6. round >= proposal[k].ends + TIMELOCK[Tier(proposal[k])]
      BY <2>2, <2>5
    <2>7. proposal'[k].status = "Executed"
      BY <2>2, Zenon DEF GovInv, GovTyped, IsProposal, ProposalFields
    <2> QED
      BY <2>2, <2>3, <2>4, <2>5, <2>6, <2>7, Zenon DEF ChangeStep
  <1> QED
    BY <1>1, GovernanceInvariant, PTL DEF GovernanceSpec, ChangesArePassed

=============================================================================
