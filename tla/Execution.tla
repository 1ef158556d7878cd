----------------------------- MODULE Execution -----------------------------
(***************************************************************************)
(* What one validator does with the order the consensus gives it: queue    *)
(* the certificates, fetch the batches they name, execute them in order,   *)
(* count participation, write the state at every round it proposes, prune, *)
(* and start again after a crash.                                          *)
(*                                                                         *)
(* The order itself is the constant Order (modules Bullshark and Ordering  *)
(* are about how it comes to be); a certificate carries at most one batch, *)
(* which stands for the batches of its worker lanes, and its position in   *)
(* Order stands for its digest and for the digest of its batch.            *)
(***************************************************************************)
EXTENDS Integers, Sequences, FiniteSets, FiniteSetsExt

CONSTANTS
    Order,                  \* certificates [round, author, txs], as committed
    Payers,                 \* accounts of the transactions
    Authors,                \* validators that author certificates
    OpeningFunds,           \* [Payers -> Nat]
    ROUND_STATE_RETENTION,
    BATCH_RETENTION,        \* BATCH_RETENTION_ROUNDS
    DAG_RETENTION,          \* DAG_RETENTION_ROUNDS
    ROUNDS_PER_QUANTO,
    Lead,                   \* rounds the proposals run ahead of the order
    MaxRestarts,            \* bound: crashes
    MaxLosses               \* bound: messages the network loses

Positions == 1 .. Len(Order)

ASSUME ExecutionAssumption ==
    /\ \A i \in Positions :
         /\ Order[i].round \in Nat /\ Order[i].author \in Authors
         /\ \A j \in DOMAIN Order[i].txs :
              Order[i].txs[j] \in [payer : Payers, nonce : Nat, cost : Nat, to : Payers, amount : Nat]
    /\ \A i, j \in Positions : i < j => Order[i].round <= Order[j].round
    /\ OpeningFunds \in [Payers -> Nat]
    /\ {ROUND_STATE_RETENTION, BATCH_RETENTION, DAG_RETENTION, Lead} \subseteq Nat
    /\ DAG_RETENTION <= BATCH_RETENTION
    /\ ROUNDS_PER_QUANTO \in Nat \ {0}

VARIABLES
    ordered,        \* certificates the consensus has emitted since the start
    done,           \* those of them that were executed
    chain,          \* accounts, participation counts and tallies
    disk,           \* the last atomic commit of chain and next_round
    nextRound,      \* next_round
    gcFloor,        \* gc_floor of the consensus
    batches,        \* batches in memory
    seenAt,         \* batch_seen_round: when a batch was put there
    batchLog,       \* batches on disk
    wanted,         \* wanted_batches, with the round they were marked
    asked,          \* pending_batch_requests, with the round they were made
    requests,       \* requests on the way to the author
    responses,      \* batches on the way from it
    restarts, losses

execVars == <<ordered, done, chain, disk, nextRound, gcFloor, batches, seenAt, batchLog,
              wanted, asked, requests, responses, restarts, losses>>

RoundOf(i) == IF i = 0 THEN 0 ELSE Order[i].round
HasBatch(i) == Order[i].txs # <<>>
Monus(x, y) == IF x > y THEN x - y ELSE 0
Larger(x, y) == IF x >= y THEN x ELSE y

(* A map from positions to rounds, as a function on a subset of Positions. *)
Tagged(f, S, r) == [i \in DOMAIN f \cup S |-> IF i \in DOMAIN f THEN f[i] ELSE r]
Without(f, S) == [i \in DOMAIN f \ S |-> f[i]]
Since(f, r) == {i \in DOMAIN f : f[i] >= r}

----------------------------------------------------------------------------
(* Executing one transaction on [nonce, bal]: refused without a trace when *)
(* the payer is short of the fee or the nonce is not its next one; else    *)
(* charged, and the transfer is made if it is covered.                     *)
apply_transaction(a, tx) ==
    IF a[tx.payer].bal < tx.cost \/ a[tx.payer].nonce # tx.nonce
      THEN a
      ELSE LET charged == [a EXCEPT ![tx.payer].bal = @ - tx.cost, ![tx.payer].nonce = @ + 1]
           IN  IF charged[tx.payer].bal < tx.amount THEN charged
               ELSE [p \in Payers |->
                       [charged[p] EXCEPT !.bal = @ - (IF p = tx.payer THEN tx.amount ELSE 0)
                                                    + (IF p = tx.to THEN tx.amount ELSE 0)]]

ExecuteCertificate(a, i) ==
    LET run[j \in 0 .. Len(Order[i].txs)] ==
          IF j = 0 THEN a ELSE apply_transaction(run[j - 1], Order[i].txs[j])
    IN  run[Len(Order[i].txs)]

ExecuteRange(a, from, to) ==
    LET run[i \in from .. to] ==
          IF i = from THEN a ELSE ExecuteCertificate(run[i - 1], i)
    IN  run[to]

(* The length of the executable prefix: execution stops at the first       *)
(* certificate whose batch is not in memory.                               *)
take_executable_prefix(from, to, have) ==
    Max({k \in from .. to : \A i \in from + 1 .. k : HasBatch(i) => i \in have})

(* Mutant: nobody asks for the batch that blocks execution.                *)
BlockedSilently(from, to, have) == {}

Blocked(from, to, have) ==
    IF take_executable_prefix(from, to, have) = to
      THEN {} ELSE {take_executable_prefix(from, to, have) + 1}

----------------------------------------------------------------------------
(* Participation: one credit per committed certificate in the quanto of    *)
(* its round; a quanto is handed to the ledger once it lies below the      *)
(* collected floor.                                                        *)
QuantoOf(i) == RoundOf(i) \div ROUNDS_PER_QUANTO
Quantos == 0 .. RoundOf(Len(Order)) \div ROUNDS_PER_QUANTO

Credited(credits, from, to) ==
    IF from = to THEN credits ELSE
    [q \in Quantos |-> [v \in Authors |->
        credits[q][v] + Cardinality({i \in from + 1 .. to : QuantoOf(i) = q /\ Order[i].author = v})]]

NoCredits == [v \in Authors |-> 0]

set_quanto_participation(c, floor) ==
    LET complete == floor \div ROUNDS_PER_QUANTO
        due == {q \in Quantos : c.nextQuanto <= q /\ q < complete}
    IN  IF due = {} THEN c ELSE
        [c EXCEPT !.tallies = [q \in Quantos |-> IF q \in due THEN c.credits[q] ELSE @[q]],
                  !.credits = [q \in Quantos |-> IF q \in due THEN NoCredits ELSE @[q]],
                  !.nextQuanto = Larger(complete, @)]

(* Mutant: the accounts run ahead of the queue that waits for batches.     *)
CommittedAhead(c, to, have) ==
    [set_quanto_participation([c EXCEPT !.credits = Credited(@, ordered, to)], gcFloor)
       EXCEPT !.accts = ExecuteRange(@, done, to)]

(* The ledger after a commit: the tallies take in what the consensus       *)
(* emitted, the accounts the prefix whose batches are there.               *)
Committed(c, to, have) ==
    [set_quanto_participation([c EXCEPT !.credits = Credited(@, ordered, to)], gcFloor)
       EXCEPT !.accts = ExecuteRange(@, done, take_executable_prefix(done, to, have))]

(* Batches of stored certificates that are not here: marked as wanted, and *)
(* asked for.                                                              *)
request_missing_batches(missing, have) ==
    /\ wanted' = Tagged(wanted, missing, nextRound)
    /\ asked' = Tagged(asked, missing \ have, nextRound)
    /\ requests' = requests \cup (missing \ have)

(* try_commit, which every handler ends with: queue what the consensus     *)
(* emits, feed the tallies, execute the prefix whose batches are there,    *)
(* and ask the author for the batch that blocks the rest.                  *)
try_commit(to, have, missing) ==
    /\ ordered' = to
    /\ done' = take_executable_prefix(done, to, have)
    /\ chain' = Committed(chain, to, have)
    /\ request_missing_batches(missing \cup Blocked(done, to, have), have)

(* A certificate arrives, is stored and ordered.                           *)
ReceiveCertificate ==
    /\ ordered < Len(Order)
    /\ RoundOf(ordered + 1) <= nextRound
    /\ try_commit(ordered + 1, batches,
                  {i \in {ordered + 1} : HasBatch(i)})
    /\ batchLog' = batchLog \cup ({ordered + 1} \cap batches)
    /\ UNCHANGED <<disk, nextRound, gcFloor, batches, seenAt, responses, restarts, losses>>

(* A peer broadcasts its last certificate again at every tick.             *)
ReceiveAgain ==
    /\ ordered > 0
    /\ try_commit(ordered, batches, {i \in {ordered} : HasBatch(i)})
    /\ batchLog' = batchLog \cup ({ordered} \cap batches)
    /\ UNCHANGED <<disk, nextRound, gcFloor, batches, seenAt, responses, restarts, losses>>

(* A batch arrives: kept and logged when a certificate wants it, kept in   *)
(* memory when it comes ahead of its certificate.                          *)
admit_batch(i) ==
    /\ batches' = batches \cup {i}
    /\ seenAt' = IF i \in batches THEN seenAt
                 ELSE Tagged(Without(seenAt, {i}), {i}, nextRound)
    /\ batchLog' = batchLog \cup ({i} \cap DOMAIN wanted)
    /\ try_commit(ordered, batches \cup {i}, {})
    /\ UNCHANGED <<disk, nextRound, gcFloor, restarts>>

ReceiveBatch(i) ==
    /\ i \in responses
    /\ admit_batch(i)
    /\ responses' = responses \ {i}
    /\ UNCHANGED losses

GossipedBatch(i) ==
    /\ HasBatch(i) /\ i > ordered /\ i \notin batches
    /\ RoundOf(i) <= nextRound + 1
    /\ admit_batch(i)
    /\ UNCHANGED <<responses, losses>>

(* The author of a batch serves it; a message may be lost.                 *)
Serve(i) ==
    /\ i \in requests
    /\ requests' = requests \ {i}
    /\ responses' = responses \cup {i}
    /\ UNCHANGED <<ordered, done, chain, disk, nextRound, gcFloor, batches, seenAt, batchLog,
                   wanted, asked, restarts, losses>>

Lose ==
    /\ losses < MaxLosses
    /\ losses' = losses + 1
    /\ \/ \E i \in requests : requests' = requests \ {i} /\ UNCHANGED responses
       \/ \E i \in responses : responses' = responses \ {i} /\ UNCHANGED requests
    /\ UNCHANGED <<ordered, done, chain, disk, nextRound, gcFloor, batches, seenAt, batchLog,
                   wanted, asked, restarts>>

(* Every tick: ask again for what is still missing.                        *)
retry_pending_resync_requests ==
    /\ asked' = Without(asked, batches)
    /\ requests' = requests \cup DOMAIN asked'
    /\ UNCHANGED <<ordered, done, chain, disk, nextRound, gcFloor, batches, seenAt, batchLog,
                   wanted, responses, restarts, losses>>

(* Every tick: forget what is too old.                                     *)
prune_stale_round_state ==
    LET horizon == Monus(nextRound, ROUND_STATE_RETENTION)
        memory  == Monus(nextRound, BATCH_RETENTION)
        floor   == Monus(RoundOf(ordered), DAG_RETENTION)
    IN  /\ asked'    = Without(asked, DOMAIN asked \ Since(asked, horizon))
        /\ wanted'   = Without(wanted, DOMAIN wanted \ Since(wanted, horizon))
        /\ batches'  = batches \cap Since(seenAt, Larger(memory, floor))
        /\ seenAt'   = Without(seenAt, DOMAIN seenAt \ Since(seenAt, floor))
        /\ batchLog' = batchLog \ (DOMAIN seenAt \ Since(seenAt, floor))
        /\ gcFloor'  = Larger(floor, gcFloor)
        /\ UNCHANGED <<ordered, done, chain, disk, nextRound, requests, responses,
                       restarts, losses>>

(* Proposing a round commits the state, the round and the participation    *)
(* pipeline in one transaction of the store.                               *)
ProposeRound ==
    /\ nextRound <= RoundOf(ordered) + Lead
    /\ nextRound' = nextRound + 1
    /\ disk' = [chain |-> chain, nextRound |-> nextRound + 1]
    /\ UNCHANGED <<ordered, done, chain, gcFloor, batches, seenAt, batchLog, wanted, asked,
                   requests, responses, restarts, losses>>

(* A crash: the process comes back with what is on disk, and the consensus *)
(* orders the retained certificates again from the bottom.                 *)
Bottom == Cardinality({i \in Positions : RoundOf(i) < gcFloor})

Restart ==
    /\ restarts < MaxRestarts
    /\ restarts' = restarts + 1
    /\ chain' = disk.chain
    /\ nextRound' = disk.nextRound
    /\ ordered' = Bottom
    /\ done' = Bottom
    /\ gcFloor' = RoundOf(Bottom + 1)
    /\ batches' = batchLog
    /\ seenAt' = [i \in batchLog |-> disk.nextRound]
    /\ wanted' = <<>>
    /\ asked' = <<>>
    /\ UNCHANGED <<disk, batchLog, requests, responses, losses>>

----------------------------------------------------------------------------

Opening == [accts   |-> [p \in Payers |-> [nonce |-> 0, bal |-> OpeningFunds[p]]],
            credits |-> [q \in Quantos |-> NoCredits],
            tallies |-> [q \in Quantos |-> NoCredits],
            nextQuanto |-> 0]

ExecInit ==
    /\ ordered = 0 /\ done = 0
    /\ chain = Opening
    /\ disk = [chain |-> Opening, nextRound |-> 0]
    /\ nextRound = 0 /\ gcFloor = 0
    /\ batches = {} /\ seenAt = <<>> /\ batchLog = {} /\ wanted = <<>> /\ asked = <<>>
    /\ requests = {} /\ responses = {}
    /\ restarts = 0 /\ losses = 0

ExecNext ==
    \/ ReceiveCertificate \/ ReceiveAgain
    \/ \E i \in Positions : ReceiveBatch(i) \/ GossipedBatch(i) \/ Serve(i)
    \/ Lose
    \/ retry_pending_resync_requests \/ prune_stale_round_state
    \/ ProposeRound \/ Restart

(* The tick of the main loop never stops, connected peers answer and their *)
(* messages arrive; nothing is assumed of gossip, losses and crashes.      *)
ExecFairness ==
    /\ WF_execVars(ReceiveCertificate)
    /\ WF_execVars(ReceiveAgain)
    /\ WF_execVars(retry_pending_resync_requests)
    /\ WF_execVars(ProposeRound)
    /\ WF_execVars(\E i \in Positions : ReceiveBatch(i))
    /\ WF_execVars(\E i \in Positions : Serve(i))

ExecSpec == ExecInit /\ [][ExecNext]_execVars /\ ExecFairness

----------------------------------------------------------------------------
(* Properties                                                              *)

(* What executing the first k certificates of the order, once and from     *)
(* genesis, comes to: what every validator must agree on.                  *)
Canonical(k) == ExecuteRange(Opening.accts, 0, k)

(* A validator that never stopped has, after every handler, executed       *)
(* exactly a prefix of the order, however the batches arrived: missing     *)
(* batches delay execution and never reorder it (take_executable_prefix).  *)
ExecutionFollowsOrder == restarts = 0 => chain.accts = Canonical(done)

=============================================================================
