----------------------------- MODULE StateSync -----------------------------
(***************************************************************************)
(* How a node gets its state when it starts: from its own database (with   *)
(* the one-time migration from sled to redb), from a snapshot that it      *)
(* verifies against several peers and downloads page by page, or from the  *)
(* genesis configuration; and how the peers, which go on proposing and     *)
(* executing, capture and serve those snapshots.  The node may crash at    *)
(* every step.  A state is the number of certificates executed in it: two  *)
(* honest ledgers that executed the same prefix are equal, and a root is   *)
(* that number.                                                            *)
(***************************************************************************)
EXTENDS Naturals, Sequences, FiniteSets, FiniteSetsExt

CONSTANTS
    Peers,          \* the nodes that may be named in state_sync_peers
    Boots,          \* the configurations a node may start with
    Pages,          \* pages of a snapshot
    MAX_ATTEMPTS,
    Quorum,         \* peers whose stake is quorum_threshold
    LastPeerRound,  \* bound on the peers' rounds
    MaxCaptures,    \* bound on the snapshots a peer captures
    MaxCrashes      \* bound on crashes of the node

None == [round |-> 0, root |-> 0]
GenesisState == [state |-> 0, part |-> 0]

VARIABLES
    boot,       \* [engine, legacy, sync, peers, trust, mainnet, required, confirmations,
                \*  checkpoints, foreign]
    peers,      \* [round, executed, cache, captures] of each peer
    database,   \* [sled, redb]: the accounts of each database and the resume round
    joiner,     \* the start in progress
    crashes

syncVars == <<boot, peers, database, joiner, crashes>>

(* The accounts of a database: the pages of one or of several states.      *)
All(n) == {[state |-> n, part |-> i] : i \in 1 .. Pages}
NoDb == [exists |-> FALSE, accounts |-> {}, round |-> 0]

Down == [at |-> "down", metas |-> {}, asked |-> {}, target |-> None, header |-> None,
         attempt |-> 1, pages |-> <<>>, accounts |-> {}, round |-> 0, from |-> "none"]

SyncInit ==
    /\ boot \in Boots
    /\ peers = [p \in Peers |-> [round |-> 1, executed |-> 1, cache |-> None, captures |-> 0]]
    /\ database = [sled |-> IF boot.legacy THEN [exists |-> TRUE, accounts |-> All(1), round |-> 1]
                        ELSE NoDb,
               redb |-> NoDb]
    /\ joiner = Down
    /\ crashes = 0

----------------------------------------------------------------------------
(* The peers.                                                              *)

(* A round is proposed; the ledger follows when certificates commit.       *)
PeerAdvances(p) ==
    /\ \/ /\ peers[p].round < LastPeerRound
          /\ peers' = [peers EXCEPT ![p].round = @ + 1]
       \/ /\ peers[p].executed < peers[p].round
          /\ peers' = [peers EXCEPT ![p].executed = @ + 1]
    /\ UNCHANGED <<boot, database, joiner, crashes>>

(* The time to live of the cached snapshot passes.                         *)
CacheExpires(p) ==
    /\ peers[p].cache # None /\ peers[p].captures < MaxCaptures
    /\ peers' = [peers EXCEPT ![p].cache = None]
    /\ UNCHANGED <<boot, database, joiner, crashes>>

(* The snapshot that a request of now is served from.                      *)
cached_snapshot(p) ==
    IF peers[p].cache # None THEN peers[p].cache
    ELSE [round |-> peers[p].round, root |-> peers[p].executed]

Served(p) ==
    peers' = [peers EXCEPT ![p].cache = cached_snapshot(p),
                           ![p].captures = @ + (IF peers[p].cache = None THEN 1 ELSE 0)]

----------------------------------------------------------------------------
(* open_state_store.                                                       *)

SyncGoto(at) == joiner' = [joiner EXCEPT !.at = at]

(* A start aborts with an error, and the operator starts the node again.   *)
Abort == joiner' = Down

Open ==
    /\ joiner.at = "down"
    /\ \/ /\ boot.engine = "redb" /\ ~database.redb.exists /\ database.sled.exists
          /\ SyncGoto("migrate")
          /\ database' = [database EXCEPT !.redb.exists = TRUE]
       \/ /\ boot.engine = "redb" /\ (database.redb.exists \/ ~database.sled.exists)
          /\ database' = [database EXCEPT !.redb.exists = TRUE]
          /\ joiner' = [Down EXCEPT !.at = "opened", !.accounts = database.redb.accounts,
                                  !.round = database.redb.round]
       \/ /\ boot.engine = "sled"
          /\ database' = [database EXCEPT !.sled.exists = TRUE]
          /\ joiner' = [Down EXCEPT !.at = "opened", !.accounts = database.sled.accounts,
                                  !.round = database.sled.round]
    /\ UNCHANGED <<boot, peers, crashes>>

(* migrate_sled_to_redb, once the new file is there: copy, flush, compare. *)
Migrate ==
    /\ joiner.at = "migrate"
    /\ database' = [database EXCEPT !.redb.accounts = database.sled.accounts]
    /\ joiner' = [Down EXCEPT !.at = "opened", !.accounts = database.sled.accounts]
    /\ UNCHANGED <<boot, peers, crashes>>

(* Genesis is seeded into an empty store only; a store with accounts is    *)
(* used as it is.                                                          *)
Resume ==
    /\ joiner.at = "opened"
    /\ \/ /\ joiner.accounts # {}
          /\ joiner' = [joiner EXCEPT !.at = "running", !.from = "database"]
       \/ /\ joiner.accounts = {} /\ ~boot.sync
          /\ joiner' = [joiner EXCEPT !.at = "running", !.accounts = {GenesisState}, !.from = "genesis"]
       \/ /\ joiner.accounts = {} /\ boot.sync
          /\ (boot.mainnet => boot.trust # None)
          /\ SyncGoto("metas")
    /\ UNCHANGED <<boot, peers, database, crashes>>

(* check_trust_anchor_requirement: a mainnet start without an anchor.      *)
Refuse ==
    /\ joiner.at = "opened" /\ joiner.accounts = {} /\ boot.sync
    /\ boot.mainnet /\ boot.trust = None
    /\ SyncGoto("refused")
    /\ UNCHANGED <<boot, peers, database, crashes>>

----------------------------------------------------------------------------
(* fetch_verified_snapshot.                                                *)

(* A peer answers, or is of another chain or committee, or cannot be       *)
(* reached.                                                                *)
AskMeta(p) ==
    /\ joiner.at = "metas" /\ p \notin joiner.asked
    /\ \/ /\ p \notin boot.foreign
          /\ Served(p)
          /\ joiner' = [joiner EXCEPT !.asked = @ \union {p},
                                  !.metas = @ \union {[peer |-> p, of |-> cached_snapshot(p)]}]
       \/ /\ joiner' = [joiner EXCEPT !.asked = @ \union {p}]
          /\ UNCHANGED peers
    /\ UNCHANGED <<boot, database, crashes>>

Disagree(metas) ==
    \E m, n \in metas : m.of.round = n.of.round /\ m.of.root # n.of.root

Backers(metas, target) == {m \in metas : m.of = target}

(* The anchor when one is pinned, else the one most peers report, the      *)
(* highest round of those.                                                 *)
choose_target(metas) ==
    IF boot.trust # None THEN {t \in {boot.trust} : Backers(metas, t) # {}}
    ELSE LET most == Max({Cardinality(Backers(metas, m.of)) : m \in metas})
             best == {m.of : m \in {x \in metas : Cardinality(Backers(metas, x.of)) = most}}
         IN {t \in best : \A u \in best : u.round <= t.round}

(* Every confirming peer signs its own checkpoint when they are on.        *)
verify_quorum_checkpoint(confirming) ==
    boot.checkpoints /\ Cardinality({m.peer : m \in confirming}) >= Quorum

Authenticated(metas, target) ==
    /\ Cardinality(Backers(metas, target)) >= boot.confirmations
    /\ boot.mainnet => target = boot.trust
    /\ boot.required => \/ target = boot.trust
                        \/ verify_quorum_checkpoint(Backers(metas, target))

(* All the peers were asked: choose the target and its source.             *)
Judge ==
    /\ joiner.at = "metas" /\ joiner.asked = boot.peers
    /\ \/ /\ ~Disagree(joiner.metas)
          /\ joiner.metas # {}
          /\ \E t \in choose_target(joiner.metas) :
                /\ Authenticated(joiner.metas, t)
                /\ \E m \in Backers(joiner.metas, t) :
                     joiner' = [joiner EXCEPT !.at = "header", !.target = t, !.asked = {m.peer}]
       \/ /\ \/ joiner.metas = {} \/ Disagree(joiner.metas)
             \/ \A t \in choose_target(joiner.metas) : ~Authenticated(joiner.metas, t)
          /\ Abort
    /\ UNCHANGED <<boot, peers, database, crashes>>

Source == CHOOSE p \in joiner.asked : TRUE

FetchHeader ==
    /\ joiner.at = "header"
    /\ Served(Source)
    /\ joiner' = [joiner EXCEPT !.at = "pages", !.header = cached_snapshot(Source), !.pages = <<>>]
    /\ UNCHANGED <<boot, database, crashes>>

(* A page of another snapshot means that the server's has been replaced.   *)
FetchSnapshotPage ==
    /\ joiner.at = "pages" /\ Len(joiner.pages) < Pages
    /\ Served(Source)
    /\ LET now == cached_snapshot(Source) IN
       \/ /\ now.root = joiner.header.root
          /\ joiner' = [joiner EXCEPT !.pages = Append(@, [state |-> now.root, part |-> Len(@) + 1])]
       \/ /\ now.root # joiner.header.root /\ joiner.attempt < MAX_ATTEMPTS
          /\ joiner' = [joiner EXCEPT !.at = "header", !.attempt = @ + 1]
       \/ now.root # joiner.header.root /\ joiner.attempt = MAX_ATTEMPTS /\ Abort
    /\ UNCHANGED <<boot, database, crashes>>

Rebuilt(pages, root) == {pages[i] : i \in DOMAIN pages} = All(root)

(* What a mutant does: it installs whatever it downloaded.                 *)
InstallAnyRound ==
    /\ joiner.at = "pages" /\ Len(joiner.pages) = Pages
    /\ Rebuilt(joiner.pages, joiner.header.root)
    /\ joiner' = [joiner EXCEPT !.at = "install", !.round = joiner.header.round]
    /\ UNCHANGED <<boot, peers, database, crashes>>

(* The download must be the confirmed one and hash to its root.            *)
VerifySnapshot ==
    /\ joiner.at = "pages" /\ Len(joiner.pages) = Pages
    /\ \/ /\ joiner.header = joiner.target /\ Rebuilt(joiner.pages, joiner.header.root)
          /\ joiner' = [joiner EXCEPT !.at = "install", !.round = joiner.header.round]
       \/ /\ joiner.header # joiner.target \/ ~Rebuilt(joiner.pages, joiner.header.root)
          /\ Abort
    /\ UNCHANGED <<boot, peers, database, crashes>>

(* The accounts are set one after the other; redb keeps them in memory     *)
(* until one transaction commits them with the round, sled writes each.    *)
Install ==
    /\ joiner.at = "install"
    /\ \/ /\ Cardinality(joiner.accounts) < Pages
          /\ joiner' = [joiner EXCEPT !.accounts =
                         @ \union {joiner.pages[Cardinality(joiner.accounts) + 1]}]
          /\ database' = IF boot.engine = "sled" THEN [database EXCEPT !.sled.accounts = joiner'.accounts]
                     ELSE database
       \/ /\ Cardinality(joiner.accounts) = Pages
          /\ joiner' = [joiner EXCEPT !.at = "running", !.from = "sync"]
          /\ database' = IF boot.engine = "sled" THEN [database EXCEPT !.sled.round = joiner.round]
                     ELSE [database EXCEPT !.redb.accounts = joiner.accounts,
                                       !.redb.round = joiner.round]
    /\ UNCHANGED <<boot, peers, crashes>>

Crash ==
    /\ joiner.at # "down" /\ crashes < MaxCrashes
    /\ Abort
    /\ crashes' = crashes + 1
    /\ UNCHANGED <<boot, peers, database>>

----------------------------------------------------------------------------
SyncNext ==
    \/ \E p \in boot.peers : PeerAdvances(p) \/ CacheExpires(p) \/ AskMeta(p)
    \/ Open \/ Migrate \/ Resume \/ Refuse \/ Judge \/ FetchHeader \/ FetchSnapshotPage
    \/ VerifySnapshot \/ Install \/ Crash

SyncSpec == SyncInit /\ [][SyncNext]_syncVars

----------------------------------------------------------------------------
(* A node that runs from a snapshot has every account of one state, and    *)
(* resumes at the round that state was confirmed for, by the anchor where  *)
(* one is pinned or demanded, however often the servers replaced their     *)
(* snapshots during the download and wherever the node crashed.            *)
SyncedIsWhole ==
    joiner.at = "running" /\ joiner.from # "genesis" =>
        /\ \E n \in 1 .. LastPeerRound : joiner.accounts = All(n)
        /\ joiner.from = "sync" =>
               /\ joiner.accounts = All(joiner.target.root) /\ joiner.round = joiner.target.round
               /\ boot.trust # None => joiner.target = boot.trust
               /\ boot.required => joiner.target = boot.trust \/ boot.checkpoints

=============================================================================
