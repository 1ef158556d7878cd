-------------------------------- MODULE Rpc --------------------------------
(***************************************************************************)
(* The HTTP routes of a node: what limits them, and /simulate.             *)
(*                                                                         *)
(* What a transaction that is submitted over HTTP passes before its        *)
(* signature is looked at: the per-address limiter with its ban, the       *)
(* counters per address and per transaction of the route, and the engine's *)
(* admission quota, global and per payer.  All of them count in windows    *)
(* that start with the first request after the last window ran out.  The   *)
(* wallet server has the same counters before its /simulate route.         *)
(***************************************************************************)
EXTENDS Naturals, Sequences, FiniteSets, SequencesExt

CONSTANTS
    Calls,          \* the requests clients may send, with the key each gate counts
    RL_WINDOW, RL_BAN,
    GC_INTERVAL,    \* one second
    MAX_TRACKED,    \* MAX_TRACKED_IPS, MAX_TRACKED_KEYS
    RPC_LIMIT,      \* rpc_rate_limit_per_10s
    IP_LIMIT, TXID_LIMIT, PAYER_LIMIT, GLOBAL_LIMIT,
    MaxCalls, MaxClock

VARIABLES
    clock,
    limiter,    \* RateLimiter.inner, by address
    per_ip, per_txid, per_payer, \* WindowMaps: [map, last_gc]
    global,     \* AdmissionQuota.global
    calls,
    passed      \* the calls each gate let through, with the time

limitVars == <<clock, limiter, per_ip, per_txid, per_payer, global, calls, passed>>

Gates == {"rpc", "ip", "txid", "payer", "global"}

----------------------------------------------------------------------------
(* A key's window, restarted when it has run out, and counted up.          *)
Rolled(w) == IF clock - w.start >= RL_WINDOW THEN [w EXCEPT !.start = clock, !.count = 0] ELSE w
Counted(w) == [Rolled(w) EXCEPT !.count = @ + 1]

EmptyMap == [map |-> <<>>, last_gc |-> 0]

Entry(map, k, fresh) == IF k \in DOMAIN map THEN map[k] ELSE fresh
Put(map, k, v) == [x \in DOMAIN map \union {k} |-> IF x = k THEN v ELSE map[x]]
Retain(map, keys) == [x \in DOMAIN map \intersect keys |-> map[x]]

Current(map) == {k \in DOMAIN map : clock - map[k].start < RL_WINDOW}
Full(map) == Cardinality(DOMAIN map) >= MAX_TRACKED

(* The sweep of a full map, at most once per interval.                     *)
Swept(m) ==
    IF Full(m.map) /\ clock - m.last_gc >= GC_INTERVAL
    THEN [map |-> Retain(m.map, Current(m.map)), last_gc |-> clock]
    ELSE m

(* WindowMap::allow: a key that a full map does not know is refused.       *)
WindowMap(m, k) ==
    LET swept == Swept(m) IN
    IF Full(swept.map) /\ k \notin DOMAIN swept.map THEN swept
    ELSE [swept EXCEPT !.map = Put(@, k, Counted(Entry(@, k, [start |-> clock, count |-> 0])))]

Within(m, k, limit) == k \in DOMAIN m.map /\ m.map[k].count <= limit

----------------------------------------------------------------------------
(* RateLimiter::allow.                                                     *)

Banned(s) == s.banned_until > clock

Tracked(ip) ==
    IF Full(limiter) /\ ip \notin DOMAIN limiter
    THEN Retain(limiter, Current(limiter) \union {a \in DOMAIN limiter : Banned(limiter[a])})
    ELSE limiter

(* A ban that ran out starts a window; one too many starts a ban.          *)
Charged(s) ==
    LET lifted == IF s.banned_until # 0
                  THEN [start |-> clock, count |-> 0, banned_until |-> 0] ELSE s
        counted == Counted(lifted)
    IN IF counted.count > RPC_LIMIT THEN [counted EXCEPT !.banned_until = clock + RL_BAN]
       ELSE counted

RateLimiter(ip) ==
    LET map == Tracked(ip)
        s == Entry(map, ip, [start |-> clock, count |-> 0, banned_until |-> 0])
    IN Put(map, ip, IF Banned(s) THEN s ELSE Charged(s))

----------------------------------------------------------------------------
LimitInit ==
    /\ clock = 1
    /\ limiter = <<>>
    /\ per_ip = EmptyMap /\ per_txid = EmptyMap /\ per_payer = EmptyMap
    /\ global = [start |-> 1, count |-> 0]
    /\ calls = 0
    /\ passed = [g \in Gates |-> <<>>]

Admits(open, c) ==
    passed' = [g \in Gates |->
        IF g \in open THEN Append(passed[g], [key |-> c[g], time |-> clock]) ELSE passed[g]]

(* The gates as the routes nest them; the first that refuses ends the      *)
(* call, and the quota counts both its windows whichever of them refuses.  *)
Call(c) ==
    /\ calls < MaxCalls
    /\ calls' = calls + 1
    /\ limiter' = RateLimiter(c.rpc)
    /\ LET rpc == ~Banned(limiter'[c.rpc])
           ip == rpc /\ Within(per_ip', c.ip, IP_LIMIT)
           txid == ip /\ Within(per_txid', c.txid, TXID_LIMIT)
           payer == txid /\ Within(per_payer', c.payer, PAYER_LIMIT)
           total == txid /\ global'.count <= GLOBAL_LIMIT
       IN /\ per_ip' = IF rpc THEN WindowMap(per_ip, c.ip) ELSE per_ip
          /\ per_txid' = IF ip THEN WindowMap(per_txid, c.txid) ELSE per_txid
          /\ per_payer' = IF txid THEN WindowMap(per_payer, c.payer) ELSE per_payer
          /\ global' = IF txid THEN Counted(global) ELSE global
          /\ Admits((IF rpc THEN {"rpc"} ELSE {}) \union (IF ip THEN {"ip"} ELSE {})
                  \union (IF txid THEN {"txid"} ELSE {})
                  \union (IF payer /\ total THEN {"payer", "global"} ELSE {}), c)
    /\ UNCHANGED clock

Tick ==
    /\ clock < MaxClock
    /\ clock' = clock + 1
    /\ UNCHANGED <<limiter, per_ip, per_txid, per_payer, global, calls, passed>>

LimitNext == Tick \/ \E c \in Calls : Call(c)

LimitSpec == LimitInit /\ [][LimitNext]_limitVars

----------------------------------------------------------------------------
Limit(g) ==
    CASE g = "rpc" -> RPC_LIMIT [] g = "ip" -> IP_LIMIT [] g = "txid" -> TXID_LIMIT
      [] g = "payer" -> PAYER_LIMIT [] g = "global" -> GLOBAL_LIMIT

Between(g, k, from, to) ==
    Cardinality({i \in DOMAIN passed[g] :
        passed[g][i].key = k /\ passed[g][i].time >= from /\ passed[g][i].time < to})

(* Wherever a window-long interval lies, a gate lets at most twice its     *)
(* limit through for one key - the end of one window and the start of the  *)
(* next - however the table of keys fills up, is swept and refuses new     *)
(* keys (engine.rs WindowMap, rpc.rs RateLimiter).                         *)
TwoWindowsAtMost ==
    \A g \in Gates : \A i \in DOMAIN passed[g] :
        Between(g, passed[g][i].key, passed[g][i].time, passed[g][i].time + RL_WINDOW)
            <= 2 * Limit(g)

----------------------------------------------------------------------------
(***************************************************************************)
(* The dry run of a transaction that the /simulate route serves: a permit  *)
(* per request, a snapshot of the committed state, a cache of outcomes     *)
(* keyed by transaction, round and state root, and one runner per key that *)
(* every other request for it waits for.  Requests run concurrently, the   *)
(* ledger moves on under them, and a client that hangs up drops its        *)
(* request at whatever it awaits.  The dry run itself is external here: an *)
(* outcome is the transaction and the state it ran against.                *)
(***************************************************************************)
CONSTANTS
    Requests,       \* requests, each for one transaction
    TxOf,
    MAX_SIMULATIONS,
    SIM_CACHE_MAX,
    MaxStates,      \* bound on the rounds and on the roots within a round
    MaxHangups

VARIABLES
    ledger,     \* [round, root]
    request,    \* [at, key, ran_on, since, answer] of each request
    permits,    \* SIMULATE_PERMITS
    sim_cache,  \* SIM_CACHE: the keys and outcomes in order of insertion
    inflight,   \* SIM_INFLIGHT: [key, runner]
    published,  \* what each runner's channel holds
    ran,        \* how often each key was run
    lost,       \* keys evicted, and keys whose runner was dropped
    hangups

simVars == <<ledger, request, permits, sim_cache, inflight, published, ran, lost, hangups>>

Nothing == [tx |-> "none", round |-> 0, root |-> 0]
Failure == [tx |-> "failed", round |-> 0, root |-> 0]
Busy == [tx |-> "busy", round |-> 0, root |-> 0]

SimKeys == [tx : {TxOf[r] : r \in Requests}, round : 0 .. MaxStates, root : 0 .. MaxStates]

SimInit ==
    /\ ledger = [round |-> 0, root |-> 0]
    /\ request = [r \in Requests |-> [at |-> "new", key |-> Nothing, ran_on |-> Nothing,
                                      since |-> ledger, answer |-> Nothing]]
    /\ permits = MAX_SIMULATIONS
    /\ sim_cache = <<>>
    /\ inflight = {}
    /\ published = [r \in Requests |-> Nothing]
    /\ ran = [k \in SimKeys |-> 0]
    /\ lost = {}
    /\ hangups = 0

----------------------------------------------------------------------------
sim_cache_get(key) == {e.outcome : e \in {x \in ToSet(sim_cache) : x.key = key}}

(* An insertion evicts the oldest.  The key is not there: only its runner  *)
(* inserts it, and a key that is cached is not run.                        *)
sim_cache_put(key, outcome) ==
    LET fresh == Append(sim_cache, [key |-> key, outcome |-> outcome])
    IN IF Len(fresh) > SIM_CACHE_MAX THEN Tail(fresh) ELSE fresh

Moved(r, at) == request' = [request EXCEPT ![r].at = at]

(* An answer, and the permit goes back.                                    *)
Answered(r, outcome) ==
    /\ request' = [request EXCEPT ![r].at = "done", ![r].answer = outcome]
    /\ permits' = permits + 1

(* Either no permit is left, or one is held from here to the answer.       *)
TryAcquire(r) ==
    /\ request[r].at = "new"
    /\ \/ /\ permits = 0
          /\ request' = [request EXCEPT ![r].at = "done", ![r].answer = Busy]
          /\ UNCHANGED permits
       \/ /\ permits > 0
          /\ permits' = permits - 1
          /\ request' = [request EXCEPT ![r].at = "snapshot", ![r].since = ledger]
    /\ UNCHANGED <<ledger, sim_cache, inflight, published, ran, lost, hangups>>

(* What a mutant keys the outcome by: the transaction and the round.       *)
KeyWithoutRoot(r) == [tx |-> TxOf[r], round |-> ledger.round, root |-> 0]

SimKey(r) == [tx |-> TxOf[r], round |-> ledger.round, root |-> ledger.root]

(* The snapshot and the key, under the state lock.                         *)
TakeSnapshot(r) ==
    /\ request[r].at = "snapshot"
    /\ request' = [request EXCEPT ![r].at = "lookup", ![r].key = SimKey(r),
           ![r].ran_on = [tx |-> TxOf[r], round |-> ledger.round, root |-> ledger.root]]
    /\ UNCHANGED <<ledger, permits, sim_cache, inflight, published, ran, lost, hangups>>

CheckCache(r) ==
    /\ request[r].at = "lookup"
    /\ \/ \E out \in sim_cache_get(request[r].key) : Answered(r, out)
       \/ sim_cache_get(request[r].key) = {} /\ Moved(r, "flight") /\ UNCHANGED permits
    /\ UNCHANGED <<ledger, sim_cache, inflight, published, ran, lost, hangups>>

Joins(r) == \E f \in inflight : f.key = request[r].key
RunnerOf(key) == (CHOOSE f \in inflight : f.key = key).runner

Started(r) ==
    /\ inflight' = inflight \union {[key |-> request[r].key, runner |-> r]}
    /\ ran' = [ran EXCEPT ![request[r].key] = @ + 1]
    /\ Moved(r, "running")

(* Under the lock of the table: the cache again, a runner to wait for, or  *)
(* a run of one's own.  A waiting request holds its runner's channel.      *)
TakeOff(r) ==
    /\ request[r].at = "flight"
    /\ \/ /\ \E out \in sim_cache_get(request[r].key) : Answered(r, out)
          /\ UNCHANGED <<inflight, ran>>
       \/ /\ sim_cache_get(request[r].key) = {} /\ Joins(r)
          /\ request' = [request EXCEPT ![r].at = RunnerOf(request[r].key)]
          /\ UNCHANGED <<permits, inflight, ran>>
       \/ /\ sim_cache_get(request[r].key) = {} /\ ~Joins(r)
          /\ Started(r)
          /\ UNCHANGED permits
    /\ UNCHANGED <<ledger, sim_cache, published, lost, hangups>>

(* The runner, step by step: the outcome into the cache, the entry out of  *)
(* the table, the outcome to whoever waits.                                *)
FillCache(r) ==
    /\ request[r].at = "running"
    /\ sim_cache' = sim_cache_put(request[r].key, request[r].ran_on)
    /\ lost' = lost \union
           {k \in {e.key : e \in ToSet(sim_cache)} : k \notin {e.key : e \in ToSet(sim_cache')}}
    /\ Moved(r, "landing")
    /\ UNCHANGED <<ledger, permits, inflight, published, ran, hangups>>

Land(r) ==
    /\ request[r].at = "landing"
    /\ inflight' = {f \in inflight : f.key # request[r].key}
    /\ Moved(r, "publish")
    /\ UNCHANGED <<ledger, permits, sim_cache, published, ran, lost, hangups>>

Publish(r) ==
    /\ request[r].at = "publish"
    /\ published' = [published EXCEPT ![r] = request[r].ran_on]
    /\ Answered(r, request[r].ran_on)
    /\ UNCHANGED <<ledger, sim_cache, inflight, ran, lost, hangups>>

Waiting(r) == request[r].at \in Requests
Running(r) == request[r].at \in {"running", "landing", "publish"}

(* What a mutant does: only a value wakes it, not a channel that closes.   *)
WaitForValue(r) ==
    /\ Waiting(r)
    /\ published[request[r].at] # Nothing
    /\ Answered(r, published[request[r].at])
    /\ UNCHANGED <<ledger, sim_cache, inflight, published, ran, lost, hangups>>

(* The waiter sees the value, or that the channel closed without one.  The *)
(* cache that is looked up then is empty for the key: its runner, which    *)
(* would have filled it, was dropped before that.                          *)
AwaitRunner(r) ==
    /\ Waiting(r)
    /\ \/ /\ published[request[r].at] # Nothing
          /\ Answered(r, published[request[r].at])
       \/ /\ published[request[r].at] = Nothing /\ ~Running(request[r].at)
          /\ Answered(r, Failure)
    /\ UNCHANGED <<ledger, sim_cache, inflight, published, ran, lost, hangups>>

(* The client is gone: the request is dropped where it awaits, its permit  *)
(* and its end of the channel with it.                                     *)
HangUp(r) ==
    /\ request[r].at \in {"snapshot", "running"} \/ Waiting(r)
    /\ hangups < MaxHangups
    /\ hangups' = hangups + 1
    /\ lost' = IF request[r].at = "running" THEN lost \union {request[r].key} ELSE lost
    /\ Answered(r, Nothing)
    /\ UNCHANGED <<ledger, sim_cache, inflight, published, ran>>

(* Transactions commit within a round, and rounds follow.                  *)
LedgerMoves ==
    /\ \/ ledger.root < MaxStates /\ ledger' = [ledger EXCEPT !.root = @ + 1]
       \/ ledger.round < MaxStates /\ ledger' = [ledger EXCEPT !.round = @ + 1]
    /\ UNCHANGED <<request, permits, sim_cache, inflight, published, ran, lost, hangups>>

----------------------------------------------------------------------------
Simulating(r) ==
    \/ TryAcquire(r) \/ TakeSnapshot(r) \/ CheckCache(r) \/ TakeOff(r)
    \/ FillCache(r) \/ Land(r) \/ Publish(r) \/ AwaitRunner(r)

SimNext ==
    \/ \E r \in Requests : Simulating(r) \/ HangUp(r)
    \/ LedgerMoves

SimSpec ==
    SimInit /\ [][SimNext]_simVars /\ WF_simVars(\E r \in Requests : Simulating(r))

----------------------------------------------------------------------------
(* A preview is never stale: the state it was run against is one that the  *)
(* ledger had after the request was admitted, whoever ran it and however   *)
(* it came to the client - run, cached or waited for (SimKey holds the     *)
(* root because transactions commit within a round).                       *)
PreviewIsFresh ==
    \A r \in Requests : request[r].at = "done" =>
        \/ request[r].answer \in {Nothing, Failure, Busy}
        \/ /\ request[r].answer.tx = TxOf[r]
           /\ request[r].answer.round >= request[r].since.round
           /\ request[r].answer.root >= request[r].since.root

(* A key is run once, however many ask for it at once, unless its outcome  *)
(* was evicted or its runner dropped; and no permit is ever lost.          *)
RunOnce ==
    /\ \A k \in SimKeys : ran[k] > 1 => k \in lost
    /\ permits + Cardinality({r \in Requests : request[r].at \notin {"new", "done"}})
           = MAX_SIMULATIONS
=============================================================================
