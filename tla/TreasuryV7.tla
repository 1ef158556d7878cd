----------------------------- MODULE TreasuryV7 -----------------------------
(***************************************************************************)
(* The multi-signature treasury (treasury_v7.rs): signers propose and      *)
(* approve operations; once an operation has the approvals its tier needs  *)
(* a time lock starts, after which anyone may execute it.  An operation    *)
(* releases funds within per-operation and per-window caps, replaces the   *)
(* signers and thresholds, or replaces the policy.  Unfinished operations  *)
(* expire and are pruned by every later instruction.                       *)
(***************************************************************************)
EXTENDS Integers, FiniteSets, FiniteSetsExt

CONSTANTS
    GenesisSigners,      \* signer set written at genesis: signers and thresholds
    GenesisPolicy,       \* policy written at genesis: time lock, caps, window, expiry
    Accounts,            \* every address that may sign a treasury instruction
    Proposals,           \* operations a signer may propose
    MAX_TREASURY_PENDING,
    TreasuryFunds,       \* genesis balance of TREASURY_ACCOUNT
    MaxOps,              \* bound on the operations proposed
    MaxTreasuryRound     \* bound on the round

VARIABLES
    treasuryRound,       \* the round whose transactions execute
    signerSet,           \* TreasuryState: signers, threshold, policy_threshold, signers_threshold
    policy,              \* TreasuryState: timelock, max_per_release, max_per_window, window, expiry
    window,              \* TreasuryState: window_start_round, released_in_window
    pending,             \* TreasuryState: operations proposed and not finished
    nextOpId,            \* TreasuryState: next_op_id
    treasuryBal          \* balance of TREASURY_ACCOUNT

treasuryVars == <<treasuryRound, signerSet, policy, window, pending, nextOpId, treasuryBal>>

(* validate_signer_set (a set has no duplicates) and validate_thresholds.  *)
validate_thresholds(s) ==
    /\ IsFiniteSet(s.signers)
    /\ {s.threshold, s.policy_threshold, s.signers_threshold} \subseteq Nat
    /\ 1 <= s.threshold
    /\ s.threshold <= s.policy_threshold
    /\ s.policy_threshold <= s.signers_threshold
    /\ s.signers_threshold <= Cardinality(s.signers)

validate_op(op) ==
    \/ op.kind = "Release" /\ op.amount > 0
    \/ op.kind = "SetSigners" /\ validate_thresholds(op.set)
    \/ op.kind = "SetPolicy" /\ (op.policy.expiry > 0 => op.policy.expiry > op.policy.timelock)

Kind == {"Release", "SetSigners", "SetPolicy"}

ASSUME TreasuryAssumption ==
    /\ validate_thresholds(GenesisSigners)
    /\ GenesisPolicy.timelock \in Nat
    /\ \A op \in Proposals : /\ op.kind \in Kind
                             /\ op.kind = "Release" => op.amount \in Nat
                             /\ op.kind = "SetPolicy" => op.policy.timelock \in Nat
    /\ TreasuryFunds \in Nat

TreasuryInit ==
    /\ treasuryRound = 0
    /\ signerSet = GenesisSigners
    /\ policy = GenesisPolicy
    /\ window = [start |-> 0, released |-> 0]
    /\ pending = {}
    /\ nextOpId = 0
    /\ treasuryBal = TreasuryFunds

required_threshold(op, s) ==
    CASE op.kind = "Release"    -> s.threshold
      [] op.kind = "SetPolicy"  -> IF s.policy_threshold > s.threshold
                                     THEN s.policy_threshold ELSE s.threshold
      [] op.kind = "SetSigners" -> Max({s.threshold, s.policy_threshold, s.signers_threshold})

(* A reached round of 0 is the code's "not reached yet".                   *)
Expired(p) ==
    /\ policy.expiry # 0
    /\ IF p.reached > 0
         THEN treasuryRound > p.reached + policy.timelock + policy.expiry
         ELSE treasuryRound > p.proposed + policy.expiry

prune_expired == {p \in pending : ~Expired(p)}

propose(payer, op) ==
    /\ nextOpId < MaxOps
    /\ payer \in signerSet.signers
    /\ validate_op(op)
    /\ Cardinality(prune_expired) < MAX_TREASURY_PENDING
    /\ pending' = prune_expired \cup
         {[id |-> nextOpId, op |-> op, proposed |-> treasuryRound, proposer |-> payer,
           approvals |-> {payer},
           reached |-> IF required_threshold(op, signerSet) <= 1 THEN treasuryRound ELSE 0]}
    /\ nextOpId' = nextOpId + 1
    /\ UNCHANGED <<treasuryRound, signerSet, policy, window, treasuryBal>>

Approved(p, payer) ==
    [p EXCEPT !.approvals = @ \cup {payer},
              !.reached = IF /\ @ = 0
                             /\ Cardinality(p.approvals \cup {payer})
                                  >= required_threshold(p.op, signerSet)
                            THEN treasuryRound ELSE @]

approve(payer, p) ==
    /\ payer \in signerSet.signers
    /\ p \in prune_expired
    /\ payer \notin p.approvals
    /\ pending' = (prune_expired \ {p}) \cup {Approved(p, payer)}
    /\ UNCHANGED <<treasuryRound, signerSet, policy, window, nextOpId, treasuryBal>>

cancel(payer, p) ==
    /\ payer \in signerSet.signers
    /\ p \in prune_expired
    /\ p.proposer = payer
    /\ pending' = prune_expired \ {p}
    /\ UNCHANGED <<treasuryRound, signerSet, policy, window, nextOpId, treasuryBal>>

prune ==
    /\ pending' = prune_expired
    /\ UNCHANGED <<treasuryRound, signerSet, policy, window, nextOpId, treasuryBal>>

(* The window a release in this round falls into.                          *)
Current == IF treasuryRound >= window.start + policy.window
             THEN [start |-> treasuryRound, released |-> 0]
             ELSE window

WindowAfter(amount) ==
    IF policy.window = 0 THEN window ELSE [Current EXCEPT !.released = @ + amount]

apply_release(amount) ==
    /\ policy.max_per_release > 0 => amount <= policy.max_per_release
    /\ policy.window > 0 /\ policy.max_per_window > 0 =>
         WindowAfter(amount).released <= policy.max_per_window
    /\ amount <= treasuryBal
    /\ treasuryBal' = treasuryBal - amount
    /\ window' = WindowAfter(amount)

(* Mutant: enough approvals are enough.                                    *)
ExecutableAtOnce(p) ==
    /\ Cardinality(p.approvals) >= required_threshold(p.op, signerSet)
    /\ p.reached # 0

Executable(p) ==
    /\ Cardinality(p.approvals) >= required_threshold(p.op, signerSet)
    /\ p.reached # 0
    /\ treasuryRound >= p.reached + policy.timelock

execute_op(p) ==
    /\ p \in prune_expired
    /\ Executable(p)
    /\ \/ /\ p.op.kind = "Release"
          /\ apply_release(p.op.amount)
          /\ pending' = prune_expired \ {p}
          /\ UNCHANGED <<signerSet, policy>>
       \/ /\ p.op.kind = "SetSigners"
          /\ validate_thresholds(p.op.set)
          /\ signerSet' = p.op.set
          /\ pending' = {}
          /\ UNCHANGED <<policy, window, treasuryBal>>
       \/ /\ p.op.kind = "SetPolicy"
          /\ policy' = p.op.policy
          /\ pending' = prune_expired \ {p}
          /\ UNCHANGED <<signerSet, window, treasuryBal>>
    /\ UNCHANGED <<treasuryRound, nextOpId>>

(* Rounds pass between the transactions that touch the treasury.           *)
TreasuryRoundPasses ==
    /\ treasuryRound < MaxTreasuryRound
    /\ treasuryRound' = treasuryRound + 1
    /\ UNCHANGED <<signerSet, policy, window, pending, nextOpId, treasuryBal>>

TreasuryNext ==
    \/ \E a \in Accounts, op \in Proposals : propose(a, op)
    \/ \E a \in Accounts, p \in pending : approve(a, p) \/ cancel(a, p)
    \/ \E p \in pending : execute_op(p)
    \/ prune
    \/ TreasuryRoundPasses

TreasurySpec == TreasuryInit /\ [][TreasuryNext]_treasuryVars

----------------------------------------------------------------------------
(* Every pending operation carries approvals of CURRENT signers only, and    *)
(* its lock has started only if they suffice for its tier: changing the      *)
(* signers (execute_op) leaves no approval behind that a removed signer gave *)
(* or that an easier threshold counted.                                      *)
PendingIsSound ==
    /\ validate_thresholds(signerSet)
    /\ \A p \in pending :
          /\ p.approvals \subseteq signerSet.signers
          /\ p.reached # 0 => /\ Cardinality(p.approvals) >= required_threshold(p.op, signerSet)
                              /\ p.reached <= treasuryRound

(* Funds leave the treasury only through a release that the threshold of     *)
(* current signers approved, whose whole time lock has passed, and by        *)
(* exactly the amount they approved (execute_op, apply_release).             *)
ReleaseStep ==
    treasuryBal' # treasuryBal =>
       \E p \in pending :
          /\ p.op.kind = "Release"
          /\ treasuryBal' = treasuryBal - p.op.amount
          /\ p.approvals \subseteq signerSet.signers
          /\ Cardinality(p.approvals) >= signerSet.threshold
          /\ p.reached + policy.timelock <= treasuryRound
          /\ p \notin pending'

ReleasesAreApproved == [][ReleaseStep]_treasuryVars
=============================================================================
