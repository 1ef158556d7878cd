------------------------------- MODULE Genesis -------------------------------
(***************************************************************************)
(* The launch of a network.  Every operator runs qchain-genesis-build on   *)
(* what they believe to be the common flags, may edit the node.json it     *)
(* writes, may compare it with a published manifest                        *)
(* (qchain-verify-genesis) and boots the node, which refuses the file,     *)
(* seeds the genesis state of a fresh store, or goes on with what an       *)
(* earlier boot left there.                                                *)
(*                                                                         *)
(* Hashes are the tuple of what is hashed; an account is its balance and   *)
(* its decoded data.  Amounts are in whole units of UNITS atoms per QCH.   *)
(***************************************************************************)
EXTENDS Integers, SequencesExt, FiniteSetsExt

CONSTANTS Operators,        \* the participants, each with one store
          Flags,            \* per operator, the command lines they may build from
          Edits,            \* per operator, the hand edits: fields with their new values
          UNITS,            \* qchain_core::UNITS_PER_QCH
          BOND_ATOMS,       \* VALIDATOR_BOND_ATOMS
          MAX_QCH,          \* the 9_223_372_036 QCH bound of the builder
          MAX_SIGNERS,      \* MAX_TREASURY_SIGNERS
          ValidNames,       \* the names moniker_is_valid accepts, normalised
          NONE,             \* an option that is not set
          MaxSeedCrashes,   \* bound: boots that die while they seed
          MaxUnwritten      \* bound: the writes such a boot has not made

VARIABLES node,             \* per operator: at, config, edited, verified, store, whole
          published,        \* the manifest one operator emitted, or NONE
          seedCrashes

genesisVars == <<node, published, seedCrashes>>

SumOf(s) == FoldSeq(LAMBDA x, acc : x + acc, 0, s)

Distinct(s) == Cardinality(ToSet(s)) = Len(s)

(* The accounts the builder knows as protocol singletons. *)
reserved == {"SYSTEM", "STAKING_PROGRAM", "STAKING_STATS", "GOVERNANCE_PROGRAM",
             "REGISTRY", "PARAMS", "STAKING_REWARDS_POOL", "VALIDATOR_REGISTRY",
             "VALIDATOR_BOND_ESCROW", "STAKING_RESERVE", "VALIDATOR_FEE_POOL",
             "STAKING_UNBONDING_POOL", "VALIDATOR_UNBONDING_POOL",
             "STAKING_GLOBAL", "ADMIN_FEE_WALLET"}

------------------------------------------------------------------------------
(* qchain-genesis-build *)

AllocationsAccepted(f) ==
    /\ Distinct([i \in DOMAIN f.allocations |-> f.allocations[i].address])
    /\ \A i \in DOMAIN f.allocations : f.allocations[i].address \notin reserved

Majority(n) == n \div 2 + 1

TreasuryAccepted(f) ==
    /\ f.treasury_qch # NONE => f.economics_v7 /\ f.treasury_qch <= MAX_QCH
    /\ IF f.signers # << >>
       THEN /\ f.treasury_qch # NONE
            /\ LET m == IF f.threshold = 0 THEN Majority(Len(f.signers)) ELSE f.threshold
               IN  m <= Len(f.signers)
       ELSE (f.authority # NONE) = (f.treasury_qch # NONE)

QchOr(x, d) == IF x = NONE THEN d ELSE x

GenesisAtoms(f) ==
    SumOf([i \in DOMAIN f.allocations |-> f.allocations[i].balance])
      + QchOr(f.treasury_qch, 0) * UNITS
      + QchOr(f.reserve_qch, 0) * UNITS
      + BOND_ATOMS * Len(f.manifests)

GenesisAtomsWithoutBonds(f) == GenesisAtoms(f) - BOND_ATOMS * Len(f.manifests)

CapAcceptedForQch(f) ==
    f.hard_cap =>
        /\ f.economics_v7
        /\ QchOr(f.cap_qch, MAX_QCH) \in 1..MAX_QCH
        /\ QchOr(f.reserve_qch, 0) <= MAX_QCH
        /\ GenesisAtomsWithoutBonds(f) <= QchOr(f.cap_qch, MAX_QCH) * UNITS

CapAccepted(f) ==
    f.hard_cap =>
        /\ f.economics_v7
        /\ QchOr(f.cap_qch, MAX_QCH) \in 1..MAX_QCH
        /\ QchOr(f.reserve_qch, 0) <= MAX_QCH
        /\ GenesisAtoms(f) <= QchOr(f.cap_qch, MAX_QCH) * UNITS

Accepted(f) ==
    /\ f.encrypted => f.authenticated
    /\ f.manifests # << >>
    /\ Distinct([i \in DOMAIN f.manifests |-> f.manifests[i].id])
    /\ AllocationsAccepted(f)
    /\ TreasuryAccepted(f)
    /\ CapAccepted(f)

(* The node.json of one participant: the flags, with the defaults the      *)
(* builder writes out.                                                     *)
Config(f) ==
    [validators |-> f.manifests, allocations |-> f.allocations,
     compressed |-> f.compressed, economics_v7 |-> f.economics_v7,
     rate |-> f.rate, rounds_per_quanto |-> f.rounds_per_quanto,
     authority |-> IF f.signers # << >> THEN NONE ELSE f.authority,
     amount |-> IF f.treasury_qch = NONE THEN NONE ELSE f.treasury_qch * UNITS,
     signers |-> f.signers, threshold |-> f.threshold,
     limits |-> f.limits, tiers |-> f.tiers, op_expiry |-> f.op_expiry,
     timelock |-> f.timelock, admin |-> f.admin,
     hard_cap |-> f.hard_cap,
     cap_qch |-> IF f.hard_cap THEN QchOr(f.cap_qch, MAX_QCH) ELSE NONE,
     reserve_qch |-> IF f.hard_cap THEN QchOr(f.reserve_qch, 0) ELSE NONE,
     schema |-> f.schema, guardians |-> f.guardians,
     guardian_threshold |-> f.guardian_threshold,
     profile |-> f.profile, mainnet |-> FALSE,
     authenticated |-> f.authenticated, encrypted |-> f.encrypted,
     rotation |-> FALSE, engine |-> "sled", hardened |-> FALSE,
     key_at_rest |-> FALSE]

------------------------------------------------------------------------------
(* config.rs: what identifies a network *)

(* The part of chain_id that depends on the treasury: the amount is hashed *)
(* only beside a single authority.                                         *)
TreasuryId(c) ==
    << IF c.authority # NONE /\ c.amount # NONE
       THEN <<c.authority, c.amount>> ELSE << >>,
       IF c.signers # << >>
       THEN <<c.signers, c.threshold, c.timelock, c.limits,
              IF c.tiers # <<0, 0>> \/ c.op_expiry # 0
              THEN <<c.tiers, c.op_expiry>> ELSE << >> >>
       ELSE << >> >>

V7Id(c) ==
    IF ~c.economics_v7 THEN << >>
    ELSE << c.rate, c.rounds_per_quanto, TreasuryId(c), c.admin,
            IF c.hard_cap THEN <<c.cap_qch, c.reserve_qch>> ELSE << >> >>

chain_id(c) ==
    << c.validators, c.allocations, c.compressed, V7Id(c), c.schema,
       IF c.guardians # << >> THEN <<c.guardians, c.guardian_threshold>> ELSE << >> >>

network_fingerprint(c) ==
    << chain_id(c), c.authenticated, c.encrypted, c.rotation, c.compressed,
       c.economics_v7, c.profile, c.mainnet >>

is_mainnet_profile(c) == c.profile = "mainnet" \/ c.mainnet

(* validate_mainnet_transport, validate_network_profile and                *)
(* validate_key_at_rest; `hardened` stands for the settings of the node    *)
(* alone (data directory, remote signer and its token, private RPC         *)
(* address, trust anchor, rate limits) that the builder never writes.      *)
ProfileAccepted(c) ==
    /\ c.profile \in {NONE, "mainnet", "testnet"}
    /\ c.encrypted => c.authenticated
    /\ is_mainnet_profile(c) =>
         /\ c.authenticated /\ c.encrypted
         /\ c.engine = "redb" /\ c.hardened /\ c.key_at_rest
         /\ c.economics_v7 /\ c.rate # NONE /\ c.rounds_per_quanto # NONE
         /\ c.hard_cap
         /\ Len(c.signers) >= 3
         /\ LET m == IF c.threshold = 0 THEN Majority(Len(c.signers)) ELSE c.threshold
            IN  m \in 2..Len(c.signers)
         /\ c.timelock > 0
         /\ \A i \in DOMAIN c.limits : c.limits[i] > 0
         /\ c.admin # NONE

------------------------------------------------------------------------------
(* genesis.rs: the accounts of a fresh network, in the order they are      *)
(* written.                                                                *)

Wallet(b) == [balance |-> b, data |-> NONE]

Singleton(d) == [balance |-> 0, data |-> d]

(* The moniker of founder i: its own name if that is valid and free,       *)
(* else founder-i, else the first founder-i-k that is free.                *)
Fallback(i, k) == IF k = 0 THEN <<"founder", i>> ELSE <<"founder", i, k>>

FreeMoniker(i, name, used) ==
    IF name \in ValidNames \ used THEN name
    ELSE Fallback(i, Min({k \in 0..Cardinality(used) : Fallback(i, k) \notin used}))

Monikers(vs) ==
    FoldLeft(LAMBDA acc, v : Append(acc, FreeMoniker(Len(acc), v.name, ToSet(acc))),
            << >>, vs)

Founders(vs, names) ==
    [i \in DOMAIN vs |->
        [address |-> vs[i].id, operator |-> vs[i].id,
         withdrawal |-> IF vs[i].withdrawal = NONE THEN vs[i].id ELSE vs[i].withdrawal,
         moniker |-> names[i], bond |-> BOND_ATOMS]]

(* treasury_multisig_state: the multisig the signers and thresholds of the *)
(* file describe, with the majority where no threshold is given.           *)
treasury_multisig_state(c) ==
    LET m == IF c.threshold = 0 THEN Majority(Len(c.signers)) ELSE c.threshold
    IN  [signers |-> c.signers, threshold |-> m,
         policy |-> IF c.tiers[1] = 0 THEN m ELSE c.tiers[1],
         change |-> IF c.tiers[2] = 0 THEN m ELSE c.tiers[2],
         timelock |-> c.timelock, limits |-> c.limits, op_expiry |-> c.op_expiry]

(* validate_signer_set, validate_thresholds and the check on the expiry. *)
MultisigAccepted(t) ==
    /\ Len(t.signers) <= MAX_SIGNERS
    /\ t.threshold \in 1..Len(t.signers)
    /\ Distinct(t.signers)
    /\ t.op_expiry > 0 => t.op_expiry > t.timelock
    /\ t.threshold <= t.policy /\ t.policy <= t.change
    /\ t.change <= Len(t.signers)

W(id, a) == [id |-> id, account |-> a]

Common(c) ==
    << W("CHAIN_ID", Singleton(chain_id(c))), W("STAKING_STATS", Singleton(<<0>>)),
       W("REGISTRY", Singleton(<<"suites">>)), W("PARAMS", Singleton(<<"params">>)),
       W("EMERGENCY", Singleton(<<c.guardians,
           IF c.guardians = << >> THEN 0
           ELSE Min({Max({1, c.guardian_threshold}), Len(c.guardians)})>>)),
       W("STAKING_REWARDS_POOL", Singleton(<<0>>)),
       W("VALIDATOR_REGISTRY",
         Singleton(IF c.rotation THEN c.validators ELSE << >>)) >>

V7Seeds(c) ==
    IF ~c.economics_v7 THEN << >>
    ELSE << W("STAKING_GLOBAL", Singleton(<<c.rate>>)),
            W("STAKING_RESERVE", Wallet(0)), W("VALIDATOR_FEE_POOL", Wallet(0)),
            W("STAKING_UNBONDING_POOL", Wallet(0)),
            W("VALIDATOR_UNBONDING_POOL", Wallet(0)) >>
         \o (IF c.hard_cap THEN <<W("EMISSION_RESERVE", Wallet(c.reserve_qch * UNITS))>>
             ELSE << >>)
         \o << W("ADMIN_FEE_WALLET", Wallet(0)),
               W("VALIDATOR_REGISTRY",
                 Singleton(Founders(c.validators, Monikers(c.validators)))),
               W("VALIDATOR_BOND_ESCROW", Wallet(BOND_ATOMS * Len(c.validators))) >>

(* A signer set the program would refuse ends seed_genesis with an error.  *)
SeedFails(c) ==
    /\ c.economics_v7 /\ c.signers # << >>
    /\ ~MultisigAccepted(treasury_multisig_state(c))

single(authority) ==
    [signers |-> <<authority>>, threshold |-> 1, policy |-> 1, change |-> 1,
     timelock |-> 0, limits |-> <<0, 0, 0>>, op_expiry |-> 0]

TreasurySeeds(c) ==
    LET held(t) == <<W("TREASURY", [balance |-> c.amount, data |-> t])>>
    IN  IF ~c.economics_v7 \/ c.amount = NONE THEN << >>
        ELSE IF c.signers # << >> THEN held(treasury_multisig_state(c))
        ELSE IF c.authority # NONE THEN held(single(c.authority))
        ELSE << >>

SchemaSeeds(c) == IF c.schema THEN <<W("SCHEMA_MANIFEST", Singleton(<<"canonical">>))>>
                  ELSE << >>

Allocated(c) ==
    [i \in DOMAIN c.allocations |->
        W(c.allocations[i].address, Wallet(c.allocations[i].balance))]

(* The writes of seed_genesis up to its end, or to its error. *)
Seeds(c) ==
    IF SeedFails(c) THEN Allocated(c) \o Common(c) \o V7Seeds(c)
    ELSE Allocated(c) \o Common(c) \o V7Seeds(c) \o TreasurySeeds(c) \o SchemaSeeds(c)

EmptyStore == << >>

Put1(store, w) ==
    [k \in DOMAIN store \cup {w.id} |-> IF k = w.id THEN w.account ELSE store[k]]

Seeded(writes) == FoldLeft(LAMBDA s, w : Put1(s, w), EmptyStore, writes)

TotalSupply(store) == FoldSet(LAMBDA k, acc : store[k].balance + acc, 0, DOMAIN store)

(* GenesisManifest::compute: what a config seeds, with its identity. *)
Manifest(c) ==
    [chain_id |-> chain_id(c), fingerprint |-> network_fingerprint(c),
     accounts |-> Seeded(Seeds(c)), supply |-> TotalSupply(Seeded(Seeds(c)))]

(* GenesisManifest::diff_against: the manifest hash covers every field. *)
diff_against_is_empty(m, p) == m = p

(* Ledger::validate_critical_singletons: what a store must hold to serve. *)
GatePasses(c, store) ==
    /\ {"PARAMS", "REGISTRY"} \subseteq DOMAIN store
    /\ c.economics_v7 =>
         {"STAKING_GLOBAL", "VALIDATOR_REGISTRY", "STAKING_RESERVE",
          "VALIDATOR_FEE_POOL", "STAKING_UNBONDING_POOL",
          "VALIDATOR_UNBONDING_POOL", "VALIDATOR_BOND_ESCROW",
          "ADMIN_FEE_WALLET"} \subseteq DOMAIN store

------------------------------------------------------------------------------
Fresh == [at |-> "flags", config |-> NONE, edited |-> FALSE, verified |-> FALSE,
          store |-> EmptyStore, whole |-> TRUE]

InitGenesis ==
    /\ node = [o \in Operators |-> Fresh]
    /\ published = NONE
    /\ seedCrashes = 0

(* The operator runs the builder; it writes the configs or none at all. *)
Build(o, f) ==
    /\ node[o].at = "flags"
    /\ node' = [node EXCEPT ![o].at = IF Accepted(f) THEN "built" ELSE "refused",
                            ![o].config = IF Accepted(f) THEN Config(f) ELSE NONE]
    /\ UNCHANGED <<published, seedCrashes>>

(* The operator edits the file before the first boot. *)
Edit(o, e) ==
    /\ node[o].at = "built" /\ ~node[o].edited
    /\ node' = [node EXCEPT ![o].config = e @@ @,
                            ![o].edited = TRUE, ![o].verified = FALSE]
    /\ UNCHANGED <<published, seedCrashes>>

(* qchain-verify-genesis --emit: one manifest is published for the launch. *)
Publish(o) ==
    /\ node[o].at = "built" /\ published = NONE
    /\ ~SeedFails(node[o].config)
    /\ published' = Manifest(node[o].config)
    /\ UNCHANGED <<node, seedCrashes>>

(* qchain-verify-genesis --manifest, on the operator's own file. *)
Verify(o) ==
    /\ node[o].at = "built" /\ published # NONE /\ ~node[o].verified
    /\ ~SeedFails(node[o].config)
    /\ diff_against_is_empty(Manifest(node[o].config), published)
    /\ node' = [node EXCEPT ![o].verified = TRUE]
    /\ UNCHANGED <<published, seedCrashes>>

(* What a boot does to a fresh store when only the first n writes of the   *)
(* seeding happen: sled keeps them, redb has flushed nothing.              *)
Partly(c, n) == IF c.engine = "sled" THEN Seeded(SubSeq(Seeds(c), 1, n)) ELSE EmptyStore

BootRefused(o) ==
    /\ node[o].at = "built"
    /\ ~ProfileAccepted(node[o].config)
    /\ node' = [node EXCEPT ![o].at = "refused"]
    /\ UNCHANGED <<published, seedCrashes>>

(* A fresh store is seeded, whole; a seeding that ends in an error leaves  *)
(* what it wrote.                                                          *)
BootFresh(o) ==
    LET c == node[o].config
    IN  /\ node[o].at = "built" /\ ProfileAccepted(c)
        /\ node[o].store = EmptyStore
        /\ node' = [node EXCEPT
              ![o].at = IF SeedFails(c) THEN "built" ELSE "serving",
              ![o].whole = ~SeedFails(c),
              ![o].store = IF SeedFails(c) THEN Partly(c, Len(Seeds(c)))
                           ELSE Seeded(Seeds(c))]
        /\ UNCHANGED <<published, seedCrashes>>

(* The process dies while it seeds. *)
BootCrash(o) ==
    LET c == node[o].config
    IN  /\ node[o].at = "built" /\ ProfileAccepted(c)
        /\ node[o].store = EmptyStore /\ seedCrashes < MaxSeedCrashes
        /\ \E n \in (Len(Seeds(c)) - MaxUnwritten)..Len(Seeds(c)) :
              node' = [node EXCEPT ![o].store = Partly(c, n),
                                   ![o].whole = FALSE]
        /\ seedCrashes' = seedCrashes + 1
        /\ UNCHANGED published

(* A store that is not empty is taken as it is, if it passes the gate. *)
BootAgain(o) ==
    LET c == node[o].config
    IN  /\ node[o].at = "built" /\ ProfileAccepted(c)
        /\ node[o].store # EmptyStore
        /\ node' = [node EXCEPT ![o].at = IF GatePasses(c, node[o].store)
                                          THEN "serving" ELSE "halted"]
        /\ UNCHANGED <<published, seedCrashes>>

NextGenesis ==
    \E o \in Operators :
        \/ \E f \in Flags[o] : Build(o, f)
        \/ \E e \in Edits[o] : Edit(o, e)
        \/ Publish(o)
        \/ Verify(o)
        \/ BootRefused(o)
        \/ BootFresh(o)
        \/ BootCrash(o)
        \/ BootAgain(o)

GenesisSpec == InitGenesis /\ [][NextGenesis]_genesisVars

------------------------------------------------------------------------------
Serving(o) == node[o].at = "serving"

(* Operators who checked their file against the same published manifest    *)
(* and whose seeding was not interrupted hold the same accounts, with the  *)
(* supply that the manifest announced, whatever each of them built from    *)
(* and edited (genesis.rs diff_against, seed_genesis).                     *)
VerifiedIsSeeded ==
    \A o \in Operators :
        Serving(o) /\ node[o].verified /\ node[o].whole
            => /\ node[o].store = published.accounts
               /\ TotalSupply(node[o].store) = published.supply

(* A genesis the builder accepted and nobody edited keeps its promises     *)
(* once it is seeded whole: the supply is within the hard cap, every       *)
(* founder has a moniker of its own, and the escrow holds exactly the      *)
(* founders' bonds (the builder's cap check, the moniker loop of           *)
(* seed_genesis, and the escrow it funds).                                 *)
FoundingStateIsSound ==
    \A o \in Operators :
        LET c == node[o].config
            s == node[o].store
        IN  Serving(o) /\ ~node[o].edited /\ node[o].whole /\ c.economics_v7 =>
              /\ c.hard_cap => TotalSupply(s) <= c.cap_qch * UNITS
              /\ LET reg == s["VALIDATOR_REGISTRY"].data
                 IN  /\ Distinct([i \in DOMAIN reg |-> reg[i].moniker])
                     /\ s["VALIDATOR_BOND_ESCROW"].balance
                          = SumOf([i \in DOMAIN reg |-> reg[i].bond])

==============================================================================
