------------------------------ MODULE MCRecords ------------------------------
(***************************************************************************)
(* Instances of the parts that produce, keep and hand over the records of  *)
(* a node: the state trees, contracts, state sync, receipts and their      *)
(* proofs, the indexer, the genesis ceremony, the migration of the         *)
(* registry and the host of the validator's key.  A behaviour exercises    *)
(* the one that part names.                                                *)
(***************************************************************************)
EXTENDS StateTree, StateSync, Receipts, Indexer, Genesis, RegistryMigration, Contracts,
        SignerHost

CONSTANT Parts

VARIABLE part

recordVars == <<treeVars, syncVars, receiptVars, indexerVars, genesisVars, registryVars,
                contractVars, hostVars, part>>

(* State trees: keys that share no, one and two bits.                      *)
mcKeys == {<<0, 0, 0>>, <<0, 0, 1>>, <<0, 1, 0>>, <<1, 0, 0>>, <<1, 1, 1>>}

(* State sync: with and without an anchor, a quorum, the mainnet profile,  *)
(* an older database.                                                      *)
Boot == [engine |-> "redb", legacy |-> FALSE, sync |-> TRUE, peers |-> {"p"}, trust |-> None,
         mainnet |-> FALSE, required |-> FALSE, confirmations |-> 1,
         checkpoints |-> FALSE, foreign |-> {}]

mcBoots ==
    { Boot,
      [Boot EXCEPT !.required = TRUE, !.confirmations = 2, !.checkpoints = TRUE,
                   !.peers = Peers],
      [Boot EXCEPT !.mainnet = TRUE, !.required = TRUE, !.trust = [round |-> 2, root |-> 2]],
      [Boot EXCEPT !.mainnet = TRUE, !.required = TRUE, !.checkpoints = TRUE],
      [Boot EXCEPT !.sync = FALSE],
      [Boot EXCEPT !.engine = "sled", !.legacy = TRUE, !.foreign = {"p"},
                   !.peers = Peers],
      [Boot EXCEPT !.legacy = TRUE, !.sync = FALSE] }

(* Receipts: transfers along two wallets and a new one, one of them to the *)
(* account of the fees, and an event of staking.                           *)
Tx(k, f, t, n) == [kind |-> k, from |-> f, to |-> t, amount |-> n]

mcOpening == ("a" :> 9 @@ "b" :> 9 @@ "c" :> ABSENT @@ "pool" :> 0)
mcOrder ==
    <<Tx("transfer", "a", "b", 2), Tx("transfer", "b", "c", 3), Tx("stake", "a", "b", 0),
      Tx("transfer", "b", "c", 1), Tx("transfer", "a", "pool", 1), Tx("transfer", "c", "b", 2),
      Tx("transfer", "b", "a", 1)>>

(* The indexer: two feeds, a round with several rows.                      *)
Row(s, r, p) == [source |-> s, round |-> r, parties |-> p]

mcRows ==
    <<Row("transfers", 1, {"a", "b"}), Row("staking", 1, {"a"}), Row("transfers", 2, {"a", "b"}),
      Row("transfers", 2, {"b"}), Row("transfers", 2, {"b"})>>

(* Genesis: one operator builds from the agreed flags, the other from      *)
(* flags that differ in one point, or edits what it was sent.              *)
Joins(i, n, w) == [id |-> i, name |-> n, withdrawal |-> w, stake |-> 1]
Grant(a, b) == [address |-> a, balance |-> b]
Founder == <<"founder", 1>>

Agreed ==
    [manifests |-> <<Joins("v1", Founder, NONE), Joins("v2", <<"a">>, "w2"),
                     Joins("v3", <<"a">>, NONE)>>,
     allocations |-> <<Grant("alice", 3)>>, compressed |-> FALSE, economics_v7 |-> TRUE,
     rate |-> 7, rounds_per_quanto |-> 5, authority |-> NONE, treasury_qch |-> 2,
     signers |-> <<"s1", "s2", "s3">>, threshold |-> 0, limits |-> <<1, 2, 3>>,
     tiers |-> <<0, 0>>, op_expiry |-> 0, timelock |-> 1, admin |-> "adm", hard_cap |-> TRUE,
     cap_qch |-> 9, reserve_qch |-> 1, schema |-> TRUE, guardians |-> <<"g">>,
     guardian_threshold |-> 2, profile |-> NONE, authenticated |-> TRUE, encrypted |-> TRUE]

mcVariants ==
    { Agreed,
      [Agreed EXCEPT !.treasury_qch = 1],
      [Agreed EXCEPT !.treasury_qch = 3],
      [Agreed EXCEPT !.guardians = <<>>],
      [Agreed EXCEPT !.guardian_threshold = 1],
      [Agreed EXCEPT !.signers = <<"s1", "s1", "s2">>],
      [Agreed EXCEPT !.signers = <<>>, !.authority = "s1"],
      [Agreed EXCEPT !.manifests = <<Joins("v1", Founder, NONE), Joins("v2", <<"bad">>, "w2"),
                                     Joins("v3", Append(Founder, 1), NONE)>>],
      [Agreed EXCEPT !.manifests = <<Joins("v1", <<"a">>, NONE), Joins("v1", <<"b">>, NONE)>>],
      [Agreed EXCEPT !.allocations = <<Grant("EMISSION_RESERVE", 3)>>],
      [Agreed EXCEPT !.allocations = <<Grant("STAKING_RESERVE", 3)>>],
      [Agreed EXCEPT !.hard_cap = FALSE, !.schema = FALSE],
      [Agreed EXCEPT !.economics_v7 = FALSE, !.hard_cap = FALSE, !.treasury_qch = NONE,
                     !.signers = <<>>],
      [Agreed EXCEPT !.profile = "mainnet"],
      [Agreed EXCEPT !.profile = "other"] }

mcChanges ==
    { [amount |-> 2], [rotation |-> TRUE], [engine |-> "redb"],
      [engine |-> "redb", hardened |-> TRUE, key_at_rest |-> TRUE, profile |-> "mainnet"] }

mcFlags == [o |-> {Agreed}, p |-> mcVariants]
mcEdits == [o |-> {}, p |-> mcChanges]
mcNames == {<<"a">>, <<"b">>, Founder, Append(Founder, 1)}

(* The registry: one of every schema, with what the entries mean.          *)
Entry4(o, w, ex, rv, rt, fr) ==
    [address |-> "v", operator |-> o, withdrawal |-> w, expiry |-> ex, revoked |-> rv,
     retired |-> rt, frozen_until |-> fr]
Registry(v, es, m) == [bytes |-> [schema |-> v, entries |-> es], means |-> m]

mcFounding ==
    { Registry(1, <<[address |-> "v"]>>, <<Entry4("v", "v", 0, FALSE, <<>>, 0)>>),
      Registry(2, <<[address |-> "v", operator |-> "o", withdrawal |-> "w"]>>,
                  <<Entry4("o", "w", 0, FALSE, <<>>, 0)>>),
      Registry(3, <<[address |-> "v", operator |-> "o", withdrawal |-> "w", expiry |-> 4,
                     revoked |-> TRUE, retired |-> <<"k">>]>>,
                  <<Entry4("o", "w", 4, TRUE, <<"k">>, 0)>>),
      Registry(4, <<Entry4("o", "w", 4, TRUE, <<"k">>, 9)>>,
                  <<Entry4("o", "w", 4, TRUE, <<"k">>, 9)>>),
      Registry(1, <<>>, <<>>),
      Registry(0, <<[address |-> "v"]>>, <<>>) }

mcNew == [Entry4("n", "n", 0, FALSE, <<>>, 0) EXCEPT !.address = "n"]

(* Contracts: P of one wallet, Q of another, and an account derived from P *)
(* that anybody may create first.                                          *)
HolderA == WalletAddress("a")
HolderB == WalletAddress("b")
ContractP == derive_program_address(HolderA, "s")
ContractQ == derive_program_address(HolderB, "s")
Derived == derive_pda(ContractP, "k")

Creates(at, n, o) == [kind |-> "create", accounts |-> <<at>>, amount |-> n, owner |-> o]
Pays(f, t, n) == [kind |-> "transfer", accounts |-> <<f, t>>, amount |-> n]
Deploys(at, m) == [kind |-> "deploy", accounts |-> <<at>>, module |-> m, salt |-> "s"]
Calls(p, as) == [kind |-> "call", program |-> p, accounts |-> as]
By(p, f, is) == [payer |-> p, fuel |-> f, ixs |-> is]

mcCoins == (HolderA :> 3 @@ HolderB :> 2)
mcOrders ==
    { By(HolderA, 0, <<Deploys(ContractP, <<"good", 1>>)>>),
      By(HolderA, 0, <<Deploys(ContractP, <<"good", 2>>)>>),
      By(HolderB, 0, <<Deploys(ContractP, <<"good", 2>>)>>),
      By(HolderB, 0, <<Deploys(ContractQ, <<"bad", 1>>)>>),
      By(HolderB, 0, <<Pays(HolderA, HolderB, 1)>>),
      By(HolderB, 0, <<Deploys(ContractQ, <<"good", 2>>), Creates(Derived, 1, ContractQ)>>),
      By(HolderB, 0, <<Pays(HolderB, Derived, 1), Creates(ContractP, 1, LOADER)>>),
      By(HolderA, 3, <<Calls(ContractP, <<HolderA, Derived>>)>>),
      By(HolderB, 2, <<Calls(ContractP, <<HolderA, Derived>>), Calls(ContractP, <<Derived, HolderB>>)>>),
      By(HolderB, 2, <<Calls(ContractQ, <<Derived>>)>>),
      By(HolderB, 2, <<Calls(ContractQ, <<Derived, Derived>>)>>) }

(* The host: a daemon with the right and with a wrong passphrase, and one  *)
(* that insists on a keystore and asks for no token; a node on each of the *)
(* two networks.                                                           *)
Daemon == [pass |-> "p", token |-> "t", loopback |-> TRUE, allow_non_loopback |-> FALSE,
           require_keystore |-> FALSE, chain |-> TRUE, limit |-> TRUE]
Node == [token |-> "t", mainnet |-> TRUE, leftover |-> FALSE]

mcDaemons ==
    { Daemon,
      [Daemon EXCEPT !.pass = "q"],
      [Daemon EXCEPT !.require_keystore = TRUE, !.token = "none"] }
mcNodes == { Node, [Node EXCEPT !.mainnet = FALSE, !.token = "none"] }
mcSignings ==
    { [kind |-> "own", chain |-> "this", fit |-> TRUE],
      [kind |-> "peer", chain |-> "other", fit |-> TRUE] }

----------------------------------------------------------------------------

RecordsInit ==
    /\ part \in Parts
    /\ TreeInit /\ SyncInit /\ ReceiptsInit /\ IndexerInit /\ InitGenesis /\ InitRegistry
    /\ ContractsInit /\ HostInit
    /\ part # "sync" => boot = CHOOSE b \in Boots : TRUE
    /\ part # "registry" => disk = (CHOOSE f \in Founding : TRUE).bytes

Rest(vs) == UNCHANGED <<vs, part>>

RecordsNext ==
    \/ /\ part = "tree" /\ TreeNext
       /\ Rest(<<syncVars, receiptVars, indexerVars, genesisVars, registryVars, contractVars, hostVars>>)
    \/ /\ part = "sync" /\ SyncNext
       /\ Rest(<<treeVars, receiptVars, indexerVars, genesisVars, registryVars, contractVars, hostVars>>)
    \/ /\ part = "receipts" /\ ReceiptsNext
       /\ Rest(<<treeVars, syncVars, indexerVars, genesisVars, registryVars, contractVars, hostVars>>)
    \/ /\ part = "indexer" /\ IndexerNext
       /\ Rest(<<treeVars, syncVars, receiptVars, genesisVars, registryVars, contractVars, hostVars>>)
    \/ /\ part = "genesis" /\ NextGenesis
       /\ Rest(<<treeVars, syncVars, receiptVars, indexerVars, registryVars, contractVars, hostVars>>)
    \/ /\ part = "registry" /\ NextRegistry
       /\ Rest(<<treeVars, syncVars, receiptVars, indexerVars, genesisVars, contractVars, hostVars>>)
    \/ /\ part = "contracts" /\ ContractsNext
       /\ Rest(<<treeVars, syncVars, receiptVars, indexerVars, genesisVars, registryVars, hostVars>>)
    \/ /\ part = "host" /\ HostNext
       /\ Rest(<<treeVars, syncVars, receiptVars, indexerVars, genesisVars, registryVars,
                 contractVars>>)

RecordsSpec == RecordsInit /\ [][RecordsNext]_recordVars

(* What is proved of the state can be verified, and is true of it: both    *)
(* trees give the roots and proofs of the accounts they were built from,   *)
(* however they came by them; a receipt that is kept with its proofs can   *)
(* be proved; and a proof covers consecutive transactions (RootsAgree,     *)
(* ProofsVerify, CapturedIsProvable and ProvedIsConsecutive).              *)
ProofsHold ==
    /\ part = "tree" => RootsAgree /\ ProofsVerify
    /\ part = "receipts" => CapturedIsProvable /\ ProvedIsConsecutive

(* The explorer's index, wherever the indexer dies and whatever the node   *)
(* produces between two pages, answers for every row it has from all its   *)
(* sides, and has passed none over unless a request failed                 *)
(* (RowsAreFindable and AnsweredMeansComplete of Indexer).                 *)
IndexIsComplete == part = "indexer" => RowsAreFindable /\ AnsweredMeansComplete

(* A network starts, and a registry is carried to a newer build, with what *)
(* was agreed on: a node whose genesis was verified has exactly the        *)
(* published state, a genesis the builder accepted keeps its promises, and *)
(* an upgraded registry means what it meant (VerifiedIsSeeded,             *)
(* FoundingStateIsSound, RegistryIsKept).                                  *)
FoundationIsKept ==
    /\ part = "genesis" => VerifiedIsSeeded /\ FoundingStateIsSound
    /\ part = "registry" => RegistryIsKept

(* Contracts take only from accounts that are theirs or whose holder       *)
(* signed, what is deployed stays, and a derived account that a program    *)
(* owns holds what that program wrote (TakenStep, PermanentStep and        *)
(* StateIsTheProgramsOwn of Contracts).                                    *)
ContractsKeepToTheirOwn ==
    [][part = "contracts" => TakenStep /\ PermanentStep /\ StateIsTheProgramsOwn']_recordVars

(* The signer's host: a daemon never runs an older key than one it has run *)
(* before, an authenticated channel neither mixes up answers nor serves a  *)
(* request twice, and no policy is exceeded (NeverOlderKey,                *)
(* ChannelIsExact, PolicyHolds of SignerHost).                             *)
SigningHostHolds == part = "host" => NeverOlderKey /\ ChannelIsExact /\ PolicyHolds

=============================================================================
