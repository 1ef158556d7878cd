---------------------------- MODULE MCPrograms ----------------------------
(***************************************************************************)
(* Instances of the replicated state machine's parts: the Ledger, the      *)
(* programs StakingV7, ValidatorV7 and TreasuryV7, and Governance with the *)
(* Staking program whose shares vote.  They share no variable; a behaviour *)
(* exercises the one that part names.                                      *)
(***************************************************************************)
EXTENDS StakingV7, Ledger, ValidatorV7, TreasuryV7, Governance

CONSTANT Parts

VARIABLE part

alice == [key |-> "ka", operator |-> "oa", withdrawal |-> "wa", moniker |-> "a"]
bob   == [key |-> "kb", operator |-> "ob", withdrawal |-> "wb", moniker |-> "b"]
mcPurses == [a \in {"oa", "ob", "wa", "wb", "x"} |-> 4]
mcWindow == [k \in Kinds |-> 1]

For(quantos, ids, classes) == [quantos |-> quantos, ids |-> ids, classes |-> classes]

mcWorkloads ==
    {For(4, {alice, bob}, {"lifecycle", "evidence", "jail"}),
     For(2, {alice}, {"lifecycle", "rotate", "evidence"}),
     For(3, {alice, bob}, {"turn_off", "jail"}),
     For(1, {alice}, {"two_phase", "recovery"}),
     For(2, {alice}, {"lifecycle", "recovery"}),
     For(2, {alice}, {"cold", "recovery"}),
     For(1, {alice, bob}, {"lifecycle", "cold"})}

mcRotations == {For(2, {alice, bob}, {"lifecycle", "rotate"})}

Signers(s, t, p, c) ==
    [signers |-> s, threshold |-> t, policy_threshold |-> p, signers_threshold |-> c]
Policy(t, r, m, w, e) ==
    [timelock |-> t, max_per_release |-> r, max_per_window |-> m,
     window |-> w, expiry |-> e]

mcGenesisSigners == Signers({"s1", "s2"}, 1, 2, 2)
mcGenesisPolicy == Policy(1, 0, 3, 2, 2)
mcProposals ==
    {[kind |-> "Release", amount |-> 2],
     [kind |-> "SetSigners", set |-> Signers({"s1", "s3"}, 1, 1, 2)],
     [kind |-> "SetPolicy", policy |-> Policy(0, 1, 0, 0, 0)]}

fee == [kind |-> "SetBaseFee", fee |-> 6]
deprecate == [kind |-> "Deprecate", id |-> "old", retires |-> 3]
retire == [kind |-> "Retire", id |-> "old"]
activate == [kind |-> "Activate", id |-> "new"]

mcVotingPeriod == [t \in Tiers |-> 2]
mcTimelock == [t \in Tiers |-> 1]
mcParticipation == [t \in Tiers |-> 50]
mcApproval == [t \in Tiers |-> 67]

Ballot(rounds, proposers, actions, accounts, validators, classes) ==
    [rounds |-> rounds, accounts |-> accounts, proposers |-> proposers, actions |-> actions,
     validators |-> validators, classes |-> classes]

mcBallots ==
    {Ballot(2, {}, {}, {1, 2}, {"a"}, {"rewards"}),
     Ballot(4, {"a"}, {fee}, {1}, {"b"}, {"emergency"}),
     Ballot(4, {"a"}, {activate, fee}, {1}, {"b"}, {}),
     Ballot(3, {"a"}, {fee}, {1, 2}, {"a"}, {}),
     Ballot(3, {"a", "b"}, {deprecate, retire}, {1}, {"v"}, {}),
     Ballot(2, {}, {}, {1}, {"a", "b"}, {"register"})}

mcWallets == {"alice", "val", "admin", "node"}

mcOpening ==
    [a \in LedgerAccounts |->
        IF a = "alice" THEN 60 ELSE IF a = "val" THEN 40
        ELSE IF a = EMISSION_RESERVE THEN 5 ELSE 0]

Tx(p, n, t, a, g, traps, l, tip, b, v) ==
    [payer |-> p, nonce |-> n, to |-> t, amount |-> a, gas |-> g, traps |-> traps,
     limit |-> l, tip |-> tip, bytes |-> b, validUntil |-> v]

(* Two transfers that leave dust behind, calls that use gas within and     *)
(* beyond their limit, one that traps, and one that expires.               *)
mcTransactions ==
    {Tx("alice", n, "admin", 30, 12, FALSE, 40, 1, 4, 9) : n \in 0 .. 1}
    \cup {Tx("val", 0, "alice", 24, 3, traps, 30, 1, 2, 1) : traps \in BOOLEAN}
    \cup {Tx("val", 0, "node", 1, 5, FALSE, 14, 0, 6, 9)}

Network(v7, hardCap, staked, eligible, rounds) ==
    [v7 |-> v7, hardCap |-> hardCap, staked |-> staked, eligible |-> eligible, rounds |-> rounds]

mcNetworks ==
    {Network(TRUE, TRUE, 0, {"val"}, 5), Network(TRUE, FALSE, 0, {"alice", "val"}, 3),
     Network(FALSE, FALSE, 3, {}, 2)}

programVars == <<stakingVars, ledgerVars, validatorVars, treasuryVars, govVars, part>>

(* The workload of a part that rests does not matter.                      *)
Resting ==
    /\ part # "ledger" => ledgerWorkload = CHOOSE w \in LedgerWorkloads : TRUE
    /\ part # "validators" => workload = CHOOSE w \in Workloads : TRUE
    /\ part # "governance" => govWorkload = CHOOSE w \in GovWorkloads : TRUE

ProgramsInit ==
    /\ part \in Parts
    /\ StakingInit /\ LedgerInit /\ ValidatorInit /\ TreasuryInit /\ GovernanceInit
    /\ Resting

ProgramsNext ==
    /\ UNCHANGED part
    /\ \/ part = "staking" /\ StakingNext
          /\ UNCHANGED <<ledgerVars, validatorVars, treasuryVars, govVars>>
       \/ part = "ledger" /\ LedgerNext
          /\ UNCHANGED <<stakingVars, validatorVars, treasuryVars, govVars>>
       \/ part = "validators" /\ ValidatorNext
          /\ UNCHANGED <<stakingVars, ledgerVars, treasuryVars, govVars>>
       \/ part = "treasury" /\ TreasuryNext
          /\ UNCHANGED <<stakingVars, ledgerVars, validatorVars, govVars>>
       \/ part = "governance" /\ GovernanceNext
          /\ UNCHANGED <<stakingVars, ledgerVars, validatorVars, treasuryVars>>

ProgramsSpec == ProgramsInit /\ [][ProgramsNext]_programVars

----------------------------------------------------------------------------
(* Totals, pools and logs that are kept beside the records they sum up are  *)
(* exact after every sequence of instructions: the staking index's share    *)
(* counts and unbonding pool against the positions, the bond escrow and     *)
(* pool against the registry (check_bond_escrow), total_staked against the  *)
(* stake accounts, the audit log against the recoveries it records, and a   *)
(* pending treasury operation's approvals against the current signers.      *)
BooksAreExact ==
    /\ part = "staking" => SharesMatchPositions /\ UnbondingPoolExact
    /\ part = "validators" => BondsAreExact /\ AuditIsExact
    /\ part = "governance" => StatsCoverStake
    /\ part = "treasury" => PendingIsSound

(* The preview of /simulate is what happens: a transaction applied to the   *)
(* very state it was previewed on has the status the preview gave, and      *)
(* leaves payer and receiver with the balances it showed, unless a quanto   *)
(* closes and pays the fee pool out.                                        *)
PreviewIsExact == [][part = "ledger" => PreviewStep]_programVars

(* Neither apply_transaction nor an instruction of a program creates a      *)
(* coin, whether it commits, fails or is refused half way; and no staking   *)
(* instruction makes its staker richer: every rounding in staking,          *)
(* increasing, unstaking and withdrawing is against the staker, whatever    *)
(* sequence of them is tried (shares_for_deposit, begin_unstake).           *)
NothingIsMinted ==
    [][/\ part = "ledger" => NoCoinStep
       /\ part = "governance" => CoinStep
       /\ part = "staking" => RoundingStep]_programVars

(* A payer is charged what the signed limit and the round's one base fee    *)
(* allow, no matter which transactions came before it in the round.         *)
ChargesAreFair == [][part = "ledger" => LimitStep /\ SameFeeStep]_programVars

(* What the recovery committee did to a validator holds against its         *)
(* operator: frozen, its keys and its bond stay where they are; revoked, it *)
(* is gone for good.                                                        *)
RecoveryHolds == [][part = "validators" => FrozenStep /\ RevokedStep]_programVars

=============================================================================
