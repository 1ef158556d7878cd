------------------------------- MODULE Epochs -------------------------------
(***************************************************************************)
(* Rotation of the validator set.  Rounds are grouped into epochs; the     *)
(* committee of an epoch is derived from the on-chain registry once every  *)
(* round of the epochs before it is ordered and executed, and until then   *)
(* no round of it may be resolved.  One validator is modelled, against the *)
(* order that all of them agree on: what it orders, executes, installs,    *)
(* prunes, writes to disk and reads back, and with whom it may talk.       *)
(***************************************************************************)
EXTENDS Naturals, Sequences, FiniteSets, FiniteSetsExt

CONSTANTS
    Order,          \* the agreed order: [round, leader, joins, leaves] records
    GenesisCommittee,
    ConfigPeers,    \* the mesh of the configuration file
    Dialable,       \* validators whose registered address parses
    Self,
    EPOCH_ROUNDS,
    DAG_RETENTION,  \* DAG_RETENTION_ROUNDS
    LastRound,      \* bound on rounds
    MaxStops,       \* bound on restarts
    SnapshotRounds  \* the rounds at which a fresh node may be state-synced

Ordered == DOMAIN Order
LastEpoch == LastRound \div EPOCH_ROUNDS

ASSUME EpochsAssumption ==
    /\ EPOCH_ROUNDS \in Nat \ {0}
    /\ \A i \in Ordered : Order[i].round <= Order[i].leader
    /\ \A i, j \in Ordered : i < j => Order[i].leader <= Order[j].leader
    /\ SnapshotRounds \subseteq Nat

VARIABLES
    height,       \* highest round of the DAG, less the one that decides it
    emitted,      \* certificates of Order emitted since the start
    executed,     \* those of them whose batches were executed
    arrived,      \* certificates whose batches are here
    at,           \* how far of Order the ledger's registry has seen
    floor,        \* finalized_floor
    collected,    \* gc_floor
    frontier,     \* frontier_epoch
    committees,   \* the committees installed, by epoch
    network,      \* [peers, authorized] of the transport
    saved,        \* the atomic commit of the ledger, and committee_log
    stops

epochVars == <<height, emitted, executed, arrived, at, floor, collected, frontier,
               committees, network, saved, stops>>

----------------------------------------------------------------------------
(* The schedule.                                                           *)

epoch_of(r) == r \div EPOCH_ROUNDS

(* The last epoch installed at or below e.                                 *)
Anchor(installed, e) == Max({x \in DOMAIN installed : x <= e})

for_round(installed, r) == installed[Anchor(installed, epoch_of(r))]

(* Mutant: the last round of the epoch is held back with the next epoch.   *)
FrontierShort(f) == (f + 1) * EPOCH_ROUNDS - 2

resolvable_frontier_round(f) == (f + 1) * EPOCH_ROUNDS - 1

install_epoch(installed, e, committee) ==
    [x \in DOMAIN installed \cup {e} |-> IF x = e THEN committee ELSE installed[x]]

Kept(installed, r) ==
    {e \in DOMAIN installed : e = 0 \/ e >= Anchor(installed, epoch_of(r))}

prune_epochs_below(installed, r) == [e \in Kept(installed, r) |-> installed[e]]

----------------------------------------------------------------------------
(* The registry after the first k certificates, and what is derived of it: *)
(* an empty registry leaves the committee of the epoch before.             *)

RegistryAfter ==
    LET reg[i \in 0 .. Len(Order)] ==
          IF i = 0 THEN GenesisCommittee
          ELSE (reg[i - 1] \cup Order[i].joins) \ Order[i].leaves
    IN  [i \in 0 .. Len(Order) |-> reg[i]]

Derived(k, inherited) == IF RegistryAfter[k] = {} THEN inherited ELSE RegistryAfter[k]

merge_peers(members) == ConfigPeers \cup ((members \ {Self}) \cap Dialable)

(* An inherited committee changes nothing at the transport.                *)
Reconnected(n, k, committee) ==
    IF RegistryAfter[k] = {} THEN n
    ELSE [peers      |-> merge_peers(RegistryAfter[k]),
          authorized |-> committee \cup merge_peers(RegistryAfter[k]) \cup {Self}]

----------------------------------------------------------------------------
(* try_commit: resolve what the schedule lets through, execute what has    *)
(* its batches, and when the epoch of the frontier is over on both counts  *)
(* install the next one.                                                   *)

Smaller(x, y) == IF x <= y THEN x ELSE y
Greater(x, y) == IF x >= y THEN x ELSE y

ResolvedTo == Smaller(height, resolvable_frontier_round(frontier))

UpTo(r) == Cardinality({i \in Ordered : Order[i].leader <= r})

Executable(from, to, here) ==
    Max({k \in from .. to : from + 1 .. k \subseteq here})

Ratchet(k, f) ==
    LET next == frontier + 1
        committee == Derived(k, for_round(committees, frontier * EPOCH_ROUNDS))
    IN  /\ committees' = install_epoch(committees, next, committee)
        /\ frontier' = next
        /\ network' = Reconnected(network, k, committee)
        /\ saved' = [saved EXCEPT !.log = install_epoch(@, next, committee)]

(* Mutant: only the order has to cross the boundary.                       *)
CrossedByOrder(to, ran, f) == f >= (frontier + 1) * EPOCH_ROUNDS

Crossed(to, ran, f) ==
    /\ f >= (frontier + 1) * EPOCH_ROUNDS
    /\ \A i \in ran + 1 .. to : Order[i].round >= (frontier + 1) * EPOCH_ROUNDS

Pass(to, ran, f) ==
    /\ emitted' = to
    /\ executed' = ran
    /\ at' = Greater(at, ran)
    /\ floor' = f
    /\ IF Crossed(to, ran, f)
         THEN Ratchet(Greater(at, ran), f)
         ELSE UNCHANGED <<committees, frontier, network, saved>>

try_commit(here) ==
    LET to == Greater(emitted, UpTo(ResolvedTo))
    IN  Pass(to, Executable(executed, to, here), Greater(floor, ResolvedTo + 1))

----------------------------------------------------------------------------

(* Certificates of the next round are here.                                *)
ReceiveRound ==
    /\ height < LastRound
    /\ height' = height + 1
    /\ UNCHANGED <<emitted, executed, arrived, at, floor, collected, frontier, committees,
                   network, saved, stops>>

Commit ==
    /\ try_commit(arrived)
    /\ UNCHANGED <<height, arrived, collected, stops>>

ReceiveBatch(i) ==
    /\ i \notin arrived /\ Order[i].round <= height + 1
    /\ arrived' = arrived \cup {i}
    /\ UNCHANGED <<height, emitted, executed, at, floor, collected, frontier, committees,
                   network, saved, stops>>

(* The log on disk keeps the bootstrap committee and the anchor onward.    *)
prune_committee_log_below(log, anchor) ==
    [e \in {x \in DOMAIN log : x = 0 \/ x >= anchor} |-> log[e]]

(* Garbage collection of the DAG takes the committees along.  A validator  *)
(* commits its ledger with every round it proposes, so what is collected,  *)
(* DAG_RETENTION rounds behind, was executed and saved.                    *)
PruneDag ==
    LET gc == IF floor > DAG_RETENTION THEN floor - DAG_RETENTION ELSE 0
    IN  /\ gc > collected
        /\ saved.at >= UpTo(gc - 1)
        /\ collected' = gc
        /\ committees' = prune_epochs_below(committees, gc)
        /\ saved' = [saved EXCEPT !.log =
                        prune_committee_log_below(@, Anchor(committees, epoch_of(gc)))]
        /\ UNCHANGED <<height, emitted, executed, arrived, at, floor, frontier, network, stops>>

(* Proposing a round commits the ledger.                                   *)
SaveLedger ==
    /\ saved.at # at
    /\ saved' = [saved EXCEPT !.at = at]
    /\ UNCHANGED <<height, emitted, executed, arrived, at, floor, collected, frontier,
                   committees, network, stops>>

(* A restart: the committees of the log, the frontier at the last of them, *)
(* the mesh of the configuration file.                                     *)
Configured == [peers |-> ConfigPeers, authorized |-> GenesisCommittee]

Loaded(log) == install_epoch(log, 0, GenesisCommittee)

Restart ==
    /\ stops < MaxStops
    /\ stops' = stops + 1
    /\ emitted' = Cardinality({i \in Ordered : Order[i].leader < collected})
    /\ executed' = emitted'
    /\ at' = saved.at
    /\ floor' = collected
    /\ committees' = Loaded(saved.log)
    /\ frontier' = Max(DOMAIN saved.log \cup {0})
    /\ network' = Configured
    /\ UNCHANGED <<height, arrived, collected, saved>>

(* Genesis, or a snapshot of the state at a round: nothing else of the     *)
(* chain comes with it, and its round becomes the barrier.                 *)
EpochsInit ==
    /\ \E r \in {0} \cup SnapshotRounds :
          LET k == Cardinality({i \in Ordered : Order[i].leader < r})
          IN  /\ height = (IF r = 0 THEN 0 ELSE r - 1)
              /\ emitted = k /\ executed = k /\ at = k
              /\ floor = r /\ collected = r
              /\ saved = [at |-> k, log |-> <<>>]
    /\ arrived = {}
    /\ frontier = 0
    /\ committees = [e \in {0} |-> GenesisCommittee]
    /\ network = Configured
    /\ stops = 0

EpochsNext ==
    \/ ReceiveRound \/ Commit \/ PruneDag \/ SaveLedger \/ Restart
    \/ \E i \in Ordered : ReceiveBatch(i)

(* Rounds keep coming, missing batches are asked for until they arrive     *)
(* (Execution), and every message that arrives ends with a try_commit.     *)
EpochsFairness ==
    /\ WF_epochVars(ReceiveRound)
    /\ WF_epochVars(Commit)
    /\ WF_epochVars(\E i \in Ordered : ReceiveBatch(i))

EpochsSpec == EpochsInit /\ [][EpochsNext]_epochVars /\ EpochsFairness

----------------------------------------------------------------------------
(* Properties                                                              *)

(* The committee of an epoch as the agreed order defines it: the registry  *)
(* after everything the leaders below the epoch committed.                 *)
CommitteeOfEpoch ==
    LET of[e \in 0 .. LastEpoch + 1] ==
          IF e = 0 THEN GenesisCommittee
          ELSE Derived(UpTo(e * EPOCH_ROUNDS - 1), of[e - 1])
    IN  [e \in 0 .. LastEpoch + 1 |-> of[e]]

(* "the registry it reads is committed state at the exact end of the       *)
(* frontier epoch, identical on every honest node, so every node derives   *)
(* the identical committee": whatever the order in which rounds and        *)
(* batches arrive, however often the validator restarts, every committee   *)
(* it works with is the one the order defines.                             *)
CommitteesAgree ==
    \A e \in epoch_of(collected) .. frontier :
       for_round(committees, e * EPOCH_ROUNDS) = CommitteeOfEpoch[e]

(* Installing, pruning and reloading committees never changes the one a    *)
(* round above the barrier is resolved under (for_round,                   *)
(* prune_epochs_below, committee_log).                                     *)
StableStep ==
    \A r \in collected' .. resolvable_frontier_round(frontier) :
       for_round(committees', r) = for_round(committees, r)

=============================================================================
