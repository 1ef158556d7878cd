------------------------------ MODULE Mempool ------------------------------
(***************************************************************************)
(* One validator's mempool: admission, the per-payer queues in nonce       *)
(* order, the pipelining cursor that lets a payer's next transactions be   *)
(* proposed before the earlier ones are executed, the selection for a      *)
(* round, and what happens to a transaction whose execution fails.         *)
(*                                                                         *)
(* A transaction is a pair <<payer, nonce>>; Cost, Limit and Tip give its  *)
(* data.  The base fee moves with the traffic of the network (EconomicsV7  *)
(* has the formula); here it rises a bounded number of times and decays.   *)
(***************************************************************************)
EXTENDS Integers, Sequences, FiniteSets, FiniteSetsExt, SequencesExt

CONSTANTS
    TxPayers,
    LastNonce,              \* bound: [TxPayers -> Nat], a payer's last transaction
    Size, Limit, Tip,       \* functions of <<payer, nonce>>
    Funds,                  \* [TxPayers -> Nat]
    MAX_PER_PAYER,          \* MAX_MEMPOOL_TXS_PER_PAYER
    MAX_PIPELINE_DEPTH,
    BYTES_PER_ROUND,        \* FEE_MAX_BYTES_PER_ROUND
    LowFee, HighFee,        \* range of the effective base fee
    MaxRises, MaxFailures,  \* bounds: fee rises; signing failures and restarts
    MaxInflight             \* bound: proposals that have not committed

Txs == UNION {{p} \X (0 .. LastNonce[p]) : p \in TxPayers}
NOCURSOR == -1

ASSUME MempoolAssumption ==
    /\ LastNonce \in [TxPayers -> Nat]
    /\ Size \in [Txs -> Nat] /\ Limit \in [Txs -> Nat] /\ Tip \in [Txs -> Nat]
    /\ Funds \in [TxPayers -> Nat]
    /\ MAX_PER_PAYER \in Nat \ {0} /\ MAX_PIPELINE_DEPTH \in Nat
    /\ LowFee \in Nat /\ HighFee \in Nat /\ LowFee <= HighFee

VARIABLES
    queue,      \* mempool: the nonces queued for each payer
    cursor,     \* pipeline_next: the next nonce to propose, or NOCURSOR
    inflight,   \* proposed, not executed yet: a sequence of sequences of Txs
    account,    \* committed [nonce, bal] of each payer
    fee,        \* effective base fee
    rises, failures

poolVars == <<queue, cursor, inflight, account, fee, rises, failures>>

Cost(tx) == fee * Size[tx] + Tip[tx]

----------------------------------------------------------------------------
(* Mutant: the cursor stays where it is.                                   *)
AdmitKeepsCursor(q, tx) ==
    IF tx[2] \in q.queue[tx[1]] \/ Cardinality(q.queue[tx[1]]) >= MAX_PER_PAYER
      THEN q
      ELSE [q EXCEPT !.queue[tx[1]] = @ \cup {tx[2]}]

(* admit_to_mempool on q = [queue, cursor]: the cursor is moved back to a  *)
(* nonce that was not queued, so that it is proposed (again).              *)
admit_to_mempool(q, tx) ==
    IF tx[2] \in q.queue[tx[1]]
      THEN q
      ELSE IF Cardinality(q.queue[tx[1]]) >= MAX_PER_PAYER
             THEN q
             ELSE [queue  |-> [q.queue EXCEPT ![tx[1]] = @ \cup {tx[2]}],
                   cursor |-> [q.cursor EXCEPT ![tx[1]] = IF @ = NOCURSOR THEN @
                                                          ELSE IF tx[2] < @ THEN tx[2] ELSE @]]

AdmitAll(q, txs) == FoldLeft(admit_to_mempool, q, txs)

payer_can_afford_admission(tx) == account[tx[1]].bal >= Cost(tx)

(* A client submits a transaction, or submits it again; the gossip handler *)
(* takes the same path.                                                    *)
submit_transaction(tx) ==
    /\ tx[2] >= account[tx[1]].nonce
    /\ tx[2] \notin queue[tx[1]]
    /\ payer_can_afford_admission(tx)
    /\ Cardinality(queue[tx[1]]) < MAX_PER_PAYER
    /\ \E q \in {admit_to_mempool([queue |-> queue, cursor |-> cursor], tx)} :
          queue' = q.queue /\ cursor' = q.cursor
    /\ UNCHANGED <<inflight, account, fee, rises, failures>>

----------------------------------------------------------------------------
(* drain_ready_transactions.  From each payer: the run of consecutive      *)
(* nonces from the cursor on that the payer can afford with a margin of    *)
(* one half, unless it is too far ahead of what was executed.              *)
Margin(tx) == Cost(tx) + Cost(tx) \div 2

Start(p) == IF cursor[p] > account[p].nonce THEN cursor[p] ELSE account[p].nonce

Affordable(p, to) ==
    \A n \in Start(p) .. to - 1 :
       /\ n \in queue[p]
       /\ Margin(<<p, n>>) <= Limit[<<p, n>>]
       /\ MapThenSumSet(LAMBDA m : Margin(<<p, m>>), Start(p) .. n) <= account[p].bal

RunEnd(p) ==
    IF Start(p) > account[p].nonce + MAX_PIPELINE_DEPTH
      THEN Start(p)
      ELSE Max({to \in Start(p) .. LastNonce[p] + 1 : Affordable(p, to)} \cup {Start(p)})

Run(p) == [k \in 1 .. RunEnd(p) - Start(p) |-> <<p, Start(p) + k - 1>>]

(* Payers with the highest tip first; an order of equals is arbitrary.     *)
BestTip(run) == IF run = <<>> THEN 0 ELSE Max({Tip[run[k]] : k \in DOMAIN run})

Orderings(runs) ==
    {s \in SetToSeqs(runs) :
        \A i, j \in DOMAIN s : i < j => BestTip(s[i]) >= BestTip(s[j])}

(* Runs are taken while they fit; once a transaction of a payer does not,  *)
(* its later ones are deferred with it.  The first one always fits.        *)
select_within_cap(runs) ==
    LET Take(acc, tx) ==
          IF tx[1] \notin acc.deferring
             /\ (acc.selected = <<>> \/ acc.used + Size[tx] <= BYTES_PER_ROUND)
            THEN [acc EXCEPT !.selected = Append(@, tx), !.used = @ + Size[tx]]
            ELSE [acc EXCEPT !.deferred = Append(@, tx), !.deferring = @ \cup {tx[1]}]
    IN  FoldLeft(Take, [selected |-> <<>>, deferred |-> <<>>, used |-> 0, deferring |-> {}],
                 FlattenSeq(runs))

Drained ==
    [queue  |-> [p \in TxPayers |->
                   {n \in queue[p] : n >= account[p].nonce /\ n \notin Start(p) .. RunEnd(p) - 1}],
     cursor |-> [p \in TxPayers |->
                   IF RunEnd(p) > Start(p) THEN RunEnd(p) ELSE cursor[p]]]

(* Proposing: the selected transactions go into the batches of a vertex.   *)
(* When the signer refuses or fails they have left the queue all the same. *)
Propose(choice) ==
    \E q \in {AdmitAll(Drained, choice.deferred)} :
       /\ queue' = q.queue /\ cursor' = q.cursor
       /\ \/ /\ inflight' = IF choice.selected = <<>> THEN inflight
                            ELSE Append(inflight, choice.selected)
             /\ UNCHANGED failures
          \/ /\ choice.selected # <<>>
             /\ failures < MaxFailures
             /\ failures' = failures + 1
             /\ UNCHANGED inflight
       /\ UNCHANGED <<account, fee, rises>>

propose_round ==
    /\ Len(inflight) < MaxInflight
    /\ \E runs \in Orderings({Run(p) : p \in {p \in TxPayers : RunEnd(p) > Start(p)}}) :
          Propose(select_within_cap(runs))

----------------------------------------------------------------------------
(* Execution of one transaction; one that fails for a reason that may pass *)
(* (fee above its limit, payer short, nonce still too high) is admitted    *)
(* again, one whose nonce is too low is dropped.                           *)
Payable(a, tx) == Cost(tx) <= a[tx[1]].bal /\ Cost(tx) <= Limit[tx]

is_recoverable_exec_error(a, tx) == ~Payable(a, tx) \/ tx[2] > a[tx[1]].nonce

Outcome(s, tx) ==
    IF Payable(s.account, tx) /\ tx[2] = s.account[tx[1]].nonce
      THEN [s EXCEPT !.account[tx[1]] = [nonce |-> @.nonce + 1, bal |-> @.bal - Cost(tx)]]
      ELSE IF is_recoverable_exec_error(s.account, tx)
             THEN [s EXCEPT !.q = admit_to_mempool(@, tx)]
             ELSE s

(* A batch commits; two in succession may commit in either order.          *)
CommitBatch(i) ==
    /\ i \in DOMAIN inflight
    /\ \E s \in {FoldLeft(Outcome, [account |-> account, q |-> [queue |-> queue, cursor |-> cursor]],
                       inflight[i])} :
          /\ account' = s.account
          /\ queue' = s.q.queue /\ cursor' = s.q.cursor
    /\ inflight' = RemoveAt(inflight, i)
    /\ UNCHANGED <<fee, rises, failures>>

(* The batch of another validator carries the payer's next transaction.    *)
ExecutedElsewhere(p) ==
    /\ account[p].nonce <= LastNonce[p]
    /\ Payable(account, <<p, account[p].nonce>>)
    /\ account' = Outcome([account |-> account, q |-> {}], <<p, account[p].nonce>>).account
    /\ UNCHANGED <<queue, cursor, inflight, fee, rises, failures>>

FeeRises ==
    /\ fee < HighFee /\ rises < MaxRises
    /\ fee' = fee + 1 /\ rises' = rises + 1
    /\ UNCHANGED <<queue, cursor, inflight, account, failures>>

FeeDecays ==
    /\ fee > LowFee
    /\ fee' = fee - 1
    /\ UNCHANGED <<queue, cursor, inflight, account, rises, failures>>

(* The tick forgets the cursors of payers that have nothing queued.        *)
prune_cursors ==
    /\ cursor' = [p \in TxPayers |-> IF queue[p] = {} THEN NOCURSOR ELSE cursor[p]]
    /\ UNCHANGED <<queue, inflight, account, fee, rises, failures>>

(* The mempool is not persisted.                                           *)
RestartPool ==
    /\ failures < MaxFailures
    /\ failures' = failures + 1
    /\ queue' = [p \in TxPayers |-> {}]
    /\ cursor' = [p \in TxPayers |-> NOCURSOR]
    /\ UNCHANGED <<inflight, account, fee, rises>>

----------------------------------------------------------------------------

PoolInit ==
    /\ queue = [p \in TxPayers |-> {}]
    /\ cursor = [p \in TxPayers |-> NOCURSOR]
    /\ inflight = <<>>
    /\ account = [p \in TxPayers |-> [nonce |-> 0, bal |-> Funds[p]]]
    /\ fee = LowFee
    /\ rises = 0 /\ failures = 0

PoolNext ==
    \/ \E tx \in Txs : submit_transaction(tx)
    \/ propose_round
    \/ \E i \in 1 .. 2 : CommitBatch(i)
    \/ \E p \in TxPayers : ExecutedElsewhere(p)
    \/ FeeRises \/ FeeDecays
    \/ prune_cursors
    \/ RestartPool

(* Clients retry what has not been executed, the proposer's tick never     *)
(* stops, what was proposed commits, and a fee that no traffic supports    *)
(* decays.  Execution by others, rises and failures are not assumed.       *)
Retry ==
    \E p \in TxPayers :
       account[p].nonce <= LastNonce[p] /\ submit_transaction(<<p, account[p].nonce>>)

PoolFairness ==
    /\ WF_poolVars(Retry)
    /\ WF_poolVars(propose_round)
    /\ WF_poolVars(CommitBatch(1))
    /\ WF_poolVars(FeeDecays)

PoolSpec == PoolInit /\ [][PoolNext]_poolVars /\ PoolFairness

----------------------------------------------------------------------------
(* Properties                                                              *)

=============================================================================
