------------------------------ MODULE Indexer -------------------------------
(***************************************************************************)
(* The explorer's indexer: it polls a node that lists a rolling window of  *)
(* its rows newest first, collects the rows it does not know page by page, *)
(* and inserts them oldest first into an embedded database, one tree after *)
(* another.  The node goes on producing rows between two requests, so the  *)
(* pages shift; a request may fail; the process may die between two        *)
(* writes.                                                                 *)
(*                                                                         *)
(* Row n is the n-th row the node produces; its hash stands for it.        *)
(***************************************************************************)
EXTENDS Integers, Sequences, SequencesExt, FiniteSets, FiniteSetsExt

CONSTANTS
    NodeRows,           \* [source, round, parties] of row n, in the order produced
    NODE_WINDOW,        \* rows that the node keeps of each source
    PAGE,
    MAX_PAGES,
    MaxTicks,
    MaxFailedFetches,
    MaxIndexerCrashes

Rows == 1 .. Len(NodeRows)
Sources == <<"transfers", "staking">>

ASSUME IndexerAssumption ==
    /\ \A n \in Rows : NodeRows[n].source \in Range(Sources)
    /\ {NODE_WINDOW, PAGE, MAX_PAGES} \subseteq Nat \ {0}
    /\ {MaxTicks, MaxFailedFetches, MaxIndexerCrashes} \subseteq Nat

VARIABLES
    produced,       \* rows the node has produced
    index,          \* the trees of the database
    ingestor,       \* where the tick is: [at, source, page, fresh, rounds]
    ticks,
    lost            \* [fetches, crashes]: what went wrong so far

indexerVars == <<produced, index, ingestor, ticks, lost>>

----------------------------------------------------------------------------
(* The node's side: list_transfers and list_staking_events.                *)

Window(source) ==
    LET rows == SelectSeq([n \in 1 .. produced |-> n], LAMBDA n : NodeRows[n].source = source)
    IN  SubSeq(rows, Max({1, Len(rows) - NODE_WINDOW + 1}), Len(rows))

list_rows(all, limit, offset) ==
    IF offset >= Len(all) THEN <<>>
    ELSE Reverse(SubSeq(all, Max({1, Len(all) - offset - limit + 1}), Len(all) - offset))

NodeProduces ==
    /\ produced < Len(NodeRows)
    /\ produced' = produced + 1
    /\ UNCHANGED <<index, ingestor, ticks, lost>>

----------------------------------------------------------------------------
(* The tick.  ingestor.at is a source while its pages are fetched, then    *)
(* the tree that insert_tx writes next, then "blocks".                     *)

has_hash(n) == n \in DOMAIN index.hash2seq

At(place) == ingestor.at = place

StartTick ==
    /\ At("idle") /\ ticks < MaxTicks
    /\ ticks' = ticks + 1
    /\ ingestor' = [ingestor EXCEPT !.at = "fetch", !.source = 1, !.page = 0]
    /\ UNCHANGED <<produced, index, lost>>

\* After a source's pages: insert what is fresh, oldest first.
InsertFresh(fresh) == [ingestor EXCEPT !.at = "addr", !.fresh = Reverse(fresh), !.page = 0]

FetchPage ==
    /\ At("fetch")
    /\ LET page   == list_rows(Window(Sources[ingestor.source]), PAGE, ingestor.page * PAGE)
           unseen == SelectSeq(page, LAMBDA n : ~has_hash(n))
           fresh  == ingestor.fresh \o unseen
       IN  ingestor' = IF unseen = <<>> \/ ingestor.page + 1 = MAX_PAGES
                         THEN InsertFresh(fresh)
                         ELSE [ingestor EXCEPT !.fresh = fresh, !.page = @ + 1]
    /\ UNCHANGED <<produced, index, ticks, lost>>

FetchFails ==
    /\ At("fetch") /\ lost.fetches < MaxFailedFetches
    /\ lost' = [lost EXCEPT !.fetches = @ + 1]
    /\ ingestor' = InsertFresh(ingestor.fresh)
    /\ UNCHANGED <<produced, index, ticks>>

\* insert_tx: one write to each tree, the counter last.
NextSeq == index.last_seq + 1
Rec == Head(ingestor.fresh)

InsertTx(tree, next, written) ==
    /\ At(tree) /\ ingestor.fresh # <<>>
    /\ index' = written
    /\ ingestor' = [ingestor EXCEPT !.at = next]
    /\ UNCHANGED <<produced, ticks, lost>>

Put(f, key, value) == [k \in DOMAIN f \cup {key} |-> IF k = key THEN value ELSE f[k]]

AddrUnderLastSeq == InsertTx("addr", "round",
    [index EXCEPT !.addr = @ \cup {<<a, index.last_seq>> : a \in NodeRows[Rec].parties}])

InsertAddr == InsertTx("addr", "round",
    [index EXCEPT !.addr = @ \cup {<<a, NextSeq>> : a \in NodeRows[Rec].parties}])

InsertRound == InsertTx("round", "hash",
    [index EXCEPT !.round = @ \cup {<<NodeRows[Rec].round, NextSeq>>}])

InsertHash == InsertTx("hash", "tx", [index EXCEPT !.hash2seq = Put(@, Rec, NextSeq)])

InsertRecord == InsertTx("tx", "last_seq", [index EXCEPT !.tx = Put(@, NextSeq, Rec)])

set_last_seq ==
    /\ At("last_seq")
    /\ index' = [index EXCEPT !.last_seq = NextSeq]
    /\ ingestor' = [ingestor EXCEPT !.at = "addr", !.fresh = Tail(@)]
    /\ UNCHANGED <<produced, ticks, lost>>

NextSource ==
    /\ At("addr") /\ ingestor.fresh = <<>>
    /\ ingestor' = IF ingestor.source < Len(Sources)
                     THEN [ingestor EXCEPT !.at = "fetch", !.source = @ + 1]
                     ELSE [ingestor EXCEPT !.at = "blocks",
                                           !.rounds = {NodeRows[n].round : n \in 1 .. produced}]
    /\ UNCHANGED <<produced, index, ticks, lost>>

\* ingest_rounds: a block for every round the node lists, then the counter.
upsert_block(r) ==
    /\ At("blocks") /\ r \in ingestor.rounds
    /\ index' = [index EXCEPT !.blocks = @ \cup {r}]
    /\ ingestor' = [ingestor EXCEPT !.rounds = @ \ {r},
                                    !.at = IF r \in index.blocks THEN @ ELSE "block_count"]
    /\ UNCHANGED <<produced, ticks, lost>>

CountBlock ==
    /\ At("block_count")
    /\ index' = [index EXCEPT !.block_count = @ + 1]
    /\ ingestor' = [ingestor EXCEPT !.at = "blocks"]
    /\ UNCHANGED <<produced, ticks, lost>>

EndTick ==
    /\ At("blocks") /\ ingestor.rounds = {}
    /\ ingestor' = [ingestor EXCEPT !.at = "idle"]
    /\ UNCHANGED <<produced, index, ticks, lost>>

Idle == [at |-> "idle", source |-> 1, page |-> 0, fresh |-> <<>>, rounds |-> {}]

\* The process dies and is started again: what a tick held is gone.
IndexerCrash ==
    /\ ~At("idle") /\ lost.crashes < MaxIndexerCrashes
    /\ lost' = [lost EXCEPT !.crashes = @ + 1]
    /\ ingestor' = Idle
    /\ UNCHANGED <<produced, index, ticks>>

IndexerInit ==
    /\ produced = 0 /\ ticks = 0
    /\ index = [tx |-> <<>>, hash2seq |-> <<>>, addr |-> {}, round |-> {}, last_seq |-> 0,
                blocks |-> {}, block_count |-> 0]
    /\ ingestor = Idle
    /\ lost = [fetches |-> 0, crashes |-> 0]

IndexerNext ==
    \/ NodeProduces \/ StartTick \/ FetchPage \/ FetchFails
    \/ InsertAddr \/ InsertRound \/ InsertHash \/ InsertRecord \/ set_last_seq \/ NextSource
    \/ (\E r \in ingestor.rounds : upsert_block(r)) \/ CountBlock \/ EndTick
    \/ IndexerCrash

IndexerSpec == IndexerInit /\ [][IndexerNext]_indexerVars

----------------------------------------------------------------------------
(* What the explorer is shown.                                             *)

address_txs(a) == {index.tx[s] : s \in {s \in DOMAIN index.tx : <<a, s>> \in index.addr}}

txs_in_round(r) == {index.tx[s] : s \in {s \in DOMAIN index.tx : <<r, s>> \in index.round}}

Indexed == Range(index.tx)

----------------------------------------------------------------------------
(* Properties.                                                             *)

\* Wherever the process dies, a row in the global list is found from every
\* address that took part in it and from its round.
RowsAreFindable ==
    \A n \in Indexed :
        /\ n \in txs_in_round(NodeRows[n].round)
        /\ \A a \in NodeRows[n].parties : n \in address_txs(a)

\* A row whose newer neighbour of the same source is known, is known itself.
\* The rule "nothing older can be new" rests on this; a failed request, after
\* which only the newer pages are inserted, breaks it.
NothingIsSkipped ==
    \A n \in DOMAIN index.hash2seq, m \in Rows :
        m < n /\ NodeRows[m].source = NodeRows[n].source => has_hash(m)

\* As long as every request is answered no row is passed over, whatever the
\* node produces between two pages and wherever the process dies.
AnsweredMeansComplete == lost.fetches = 0 => NothingIsSkipped

=============================================================================
