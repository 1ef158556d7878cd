------------------------------- MODULE Store -------------------------------
(***************************************************************************)
(* The databases of a node.  RedbStore keeps the accounts and the named    *)
(* metadata in memory with the set of keys written since the last flush,   *)
(* and a flush commits exactly those in one transaction.  RedbLog queues   *)
(* its writes, answers reads through the queue, and appends under          *)
(* identifiers that it recovers from the table when it is opened.  redb's  *)
(* transactions are external: a commit happens whole or fails whole.       *)
(***************************************************************************)
EXTENDS Naturals, Sequences, FiniteSets, FiniteSetsExt

CONSTANTS
    Addresses, MetaKeys, Data,
    Absent,
    MaxIds,         \* bound on log identifiers
    MaxQueue,       \* bound on queued log writes
    MaxOps          \* bound on store writes between two crashes

ASSUME StoreAssumption == MaxIds \in Nat

VARIABLES
    mem, dirty,             \* accounts and metadata, and the keys written since
    table,                  \* what is on disk, by the same keys
    committed,              \* what memory was at the last successful flush
    ops,
    pending, log, next_id,  \* RedbLog: queued writes, table, counter
    appended                \* what readers of the log should see

storeVars == <<mem, dirty, table, committed, ops>>
logVars == <<pending, log, next_id, appended>>
databaseVars == <<mem, dirty, table, committed, ops, pending, log, next_id, appended>>

StoreKeys == Addresses \union MetaKeys
Ids == 0 .. MaxIds

StoreInit ==
    /\ mem = [k \in StoreKeys |-> Absent]
    /\ dirty = {}
    /\ table = mem /\ committed = mem
    /\ ops = 0
    /\ pending = <<>> /\ next_id = 0
    /\ log = [i \in Ids |-> Absent]
    /\ appended = log

----------------------------------------------------------------------------
(* set, remove and put_meta.                                               *)

(* What a mutant does: a removed account is not marked.                    *)
SetUnmarked(k, v) ==
    /\ ops < MaxOps /\ (v = Absent => k \in Addresses)
    /\ mem' = [mem EXCEPT ![k] = v]
    /\ dirty' = IF v = Absent THEN dirty ELSE dirty \union {k}
    /\ ops' = ops + 1
    /\ UNCHANGED <<table, committed, logVars>>

StoreSet(k, v) ==
    /\ ops < MaxOps /\ (v = Absent => k \in Addresses)
    /\ mem' = [mem EXCEPT ![k] = v]
    /\ dirty' = dirty \union {k}
    /\ ops' = ops + 1
    /\ UNCHANGED <<table, committed, logVars>>

(* A flush writes the dirty keys, or fails and leaves them dirty.          *)
StoreFlush ==
    /\ dirty # {}
    /\ table' = [k \in StoreKeys |-> IF k \in dirty THEN mem[k] ELSE table[k]]
    /\ dirty' = {}
    /\ committed' = mem
    /\ UNCHANGED <<mem, ops, logVars>>

StoreReopen ==
    /\ mem' = table
    /\ dirty' = {}
    /\ ops' = 0
    /\ UNCHANGED <<table, committed, logVars>>

----------------------------------------------------------------------------
(* The log.                                                                *)

generate_id == next_id

LogAppend(v) ==
    /\ next_id < MaxIds /\ Len(pending) < MaxQueue
    /\ pending' = Append(pending, [key |-> generate_id, value |-> v])
    /\ appended' = [appended EXCEPT ![generate_id] = v]
    /\ next_id' = next_id + 1
    /\ UNCHANGED <<log, storeVars>>

LogRemove(i) ==
    /\ Len(pending) < MaxQueue
    /\ pending' = Append(pending, [key |-> i, value |-> Absent])
    /\ appended' = [appended EXCEPT ![i] = Absent]
    /\ UNCHANGED <<log, next_id, storeVars>>

(* The youngest queued write of the key, else the table.                   *)
LogGet(i) ==
    LET queued == {n \in DOMAIN pending : pending[n].key = i} IN
    IF queued = {} THEN log[i] ELSE pending[Max(queued)].value

(* The table after the first n queued writes, in order.                    *)
Replayed(n) ==
    [i \in Ids |->
        LET queued == {m \in 1 .. n : pending[m].key = i} IN
        IF queued = {} THEN log[i] ELSE pending[Max(queued)].value]

LogFlush ==
    /\ pending # <<>>
    /\ log' = Replayed(Len(pending))
    /\ pending' = <<>>
    /\ UNCHANGED <<next_id, appended, storeVars>>

(* Reopening forgets the queue and counts on from the highest key left.    *)
LogReopen ==
    /\ next_id' = Max({0} \union {i + 1 : i \in {j \in Ids : log[j] # Absent}})
    /\ pending' = <<>>
    /\ appended' = log
    /\ UNCHANGED <<log, storeVars>>

----------------------------------------------------------------------------
StoreNext ==
    \/ \E k \in StoreKeys, v \in Data \union {Absent} : StoreSet(k, v)
    \/ StoreFlush \/ StoreReopen

LogNext ==
    \/ \E v \in Data : LogAppend(v)
    \/ \E i \in 0 .. next_id : LogRemove(i)
    \/ LogFlush \/ LogReopen

StoreSpec == StoreInit /\ [][StoreNext \/ LogNext]_databaseVars

----------------------------------------------------------------------------
(* A flush that writes only the keys marked since the last one leaves on   *)
(* disk what memory was at that moment, accounts and metadata together, so *)
(* a crash resumes from one instant: nothing older shows through, and      *)
(* nothing written since.                                                  *)
DiskIsLastFlush == table = committed

(* Reads of the log see its writes in order, queued or committed, across   *)
(* removals and identifiers that are handed out again after a restart; and *)
(* the identifier handed out next never holds a committed entry.           *)
LogReadsItsWrites ==
    /\ \A i \in Ids : LogGet(i) = appended[i]
    /\ log[next_id] = Absent

(* Both databases give back what was written to them.                      *)
DatabasesAreExact == DiskIsLastFlush /\ LogReadsItsWrites
=============================================================================
