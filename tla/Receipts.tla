------------------------------ MODULE Receipts ------------------------------
(***************************************************************************)
(* The node's record of what it executed: a receipt for every plain        *)
(* transfer and an event for every staking action, kept in memory for the  *)
(* recent past (the newest receipts with their Merkle proofs), written to  *)
(* on-disk logs after each commit, reloaded at the next start, listed to   *)
(* clients, and proved to them in batches by /stark_proof.                 *)
(*                                                                         *)
(* Consensus fixes the transactions and their order, so the state after n  *)
(* of them is a function of n.  What varies is when the node executes,     *)
(* writes its logs, flushes the state and crashes.  A restarted node       *)
(* executes again from the last flushed state.                             *)
(*                                                                         *)
(* Of qchain-stark it has the trace of a batch of transfers, the two       *)
(* transition constraints of its circuit, and what a verifier checks once  *)
(* the STARK itself has verified.  Numbers live in the field of P          *)
(* elements; balances are naturals of at most U64_MAX.  The proof system   *)
(* (winterfell) is external: a proof is accepted exactly when the trace    *)
(* named by its public inputs satisfies the constraints on every row but   *)
(* the last.  A state root is the state itself (the hash is taken to be    *)
(* injective, StateTree models the trees), a Merkle proof of a key is the  *)
(* value that the state holds there, ABSENT for no leaf.                   *)
(***************************************************************************)
EXTENDS Integers, Sequences, FiniteSetsExt, SequencesExt

CONSTANTS
    P,                  \* order of the field (f128)
    U64_MAX,
    MIN_TRACE_LENGTH,
    Opening,            \* state at genesis: account |-> balance or ABSENT
    FeeTargets,         \* proposer, fee pool, admin wallet, ...
    FEE,                \* fee of one transaction, credited to FeeTo
    FeeTo,
    DUST,               \* dust_threshold
    TxOrder,            \* the committed transactions, each [kind, from, to, amount]
    MAX_INMEM_RECEIPTS,
    N_FULL_PROOF_RECEIPTS,
    MAX_STARK_PROOF_RECEIPTS,
    MAX_INMEM_STAKING_EVENTS,
    MaxReceiptCrashes

ASSUME ReceiptsAssumption ==
    /\ P \in Nat /\ U64_MAX \in Nat /\ MIN_TRACE_LENGTH \in Nat
    /\ P > 3 * U64_MAX
    /\ FeeTargets \subseteq DOMAIN Opening /\ FeeTo \in FeeTargets
    /\ \A i \in DOMAIN TxOrder :
         /\ TxOrder[i].kind \in {"transfer", "several", "stake"}
         /\ {TxOrder[i].from, TxOrder[i].to} \subseteq DOMAIN Opening
    /\ {FEE, DUST, MAX_STARK_PROOF_RECEIPTS, MaxReceiptCrashes} \subseteq Nat
    /\ {MAX_INMEM_RECEIPTS, N_FULL_PROOF_RECEIPTS, MAX_INMEM_STAKING_EVENTS} \subseteq Nat \ {0}

VARIABLES
    executed,       \* how many transactions the state in memory includes
    flushed,        \* how many the state on disk includes
    receipts,       \* transfer_receipts: [tx, full], oldest first
    events,         \* staking_events, oldest first
    unwritten,      \* to_persist and staking_to_persist: writes still to do
    light_log,      \* data_dir/receipts: transactions, oldest first
    full_log,       \* data_dir/receipts_full
    event_log,      \* data_dir/staking
    receiptCrashes

receiptVars == <<executed, flushed, receipts, events, unwritten, light_log, full_log,
                 event_log, receiptCrashes>>

----------------------------------------------------------------------------
(* The proofs of transfers.                                                *)

ABSENT == -1
BalanceOf(leaf) == IF leaf = ABSENT THEN 0 ELSE leaf

NumericColumns == {"from_before", "to_before", "amount", "fee", "from_after", "to_after"}

conserving(r) ==
    [from |-> r.from, to |-> r.to, amount |-> r.amount, fee |-> r.fee,
     from_before |-> r.from_before, to_before |-> r.to_before,
     from_after |-> r.from_before - r.amount - r.fee,
     to_after |-> r.to_before + r.amount]

PaddingRow == [from |-> ABSENT, to |-> ABSENT, amount |-> 0, fee |-> 0,
               from_before |-> 0, to_before |-> 0, from_after |-> 0, to_after |-> 0]

PaddedLen(n) == Min({k \in {2^i : i \in 0 .. n + 3} : k >= n + 1 /\ k >= MIN_TRACE_LENGTH})

build_trace(steps) ==
    [i \in 1 .. PaddedLen(Len(steps)) |-> IF i <= Len(steps) THEN steps[i] ELSE PaddingRow]

\* The two constraints of evaluate_transition, as equations of the field.
evaluate_transition(row) ==
    /\ (row.from_after - (row.from_before - row.amount - row.fee)) % P = 0
    /\ (row.to_after - (row.to_before + row.amount)) % P = 0

winterfell_verify(pub) == \A i \in 1 .. Len(pub) - 1 : evaluate_transition(pub[i])

is_valid_u64(value) == value <= U64_MAX

RowConserves(row) ==
    /\ (row.from_after + row.amount + row.fee) % P = row.from_before
    /\ row.to_after = (row.to_before + row.amount) % P

verify_batch(pub) ==
    /\ winterfell_verify(pub)
    /\ \A i \in 1 .. Len(pub) : \A c \in NumericColumns : is_valid_u64(pub[i][c])
    /\ \A i \in 1 .. Len(pub) : RowConserves(pub[i])

\* A snapshot of an account against the leaf that a Merkle proof shows.
LeafShows(root, key, balance) ==
    IF root[key] = ABSENT THEN balance = 0 ELSE root[key] = balance

RowIsBound(row, b) ==
    /\ b.from_before = row.from_before /\ b.from_after = row.from_after
    /\ b.to_before = row.to_before     /\ b.to_after = row.to_after
    /\ b.from = row.from /\ b.to = row.to
    /\ LeafShows(b.root_before, b.from, b.from_before)
    /\ LeafShows(b.root_after, b.from, b.from_after)
    /\ LeafShows(b.root_before, b.to, b.to_before)
    /\ LeafShows(b.root_after, b.to, b.to_after)

RootsChain(bindings) ==
    \A i \in 1 .. Len(bindings) - 1 : bindings[i].root_after = bindings[i + 1].root_before

\* verify_batch_bound_to_state and, with the other tree's proofs,
\* verify_batch_bound_to_compressed_state.
verify_batch_bound_to_state(pub, bindings) ==
    /\ verify_batch(pub)
    /\ Len(bindings) <= Len(pub)
    /\ RootsChain(bindings)
    /\ \A i \in 1 .. Len(bindings) : RowIsBound(pub[i], bindings[i])

----------------------------------------------------------------------------
(* Executing one transaction.                                              *)

Credit(s, account, amount) == [s EXCEPT ![account] = BalanceOf(@) + amount]
Debit(s, account, amount) == [s EXCEPT ![account] = @ - amount]

\* The transfer and the fee, as capture_after sees them: before the sweep.
Unswept(s, tx) ==
    LET moved == Credit(Debit(Debit(s, tx.from, FEE), tx.from, tx.amount), tx.to, tx.amount)
    IN  Credit(moved, FeeTo, FEE)

would_be_dust_swept(s, account) ==
    account \notin FeeTargets /\ s[account] > 0 /\ s[account] < DUST

DustSwept(s, tx) ==
    [a \in DOMAIN s |->
        IF a \in {tx.from, tx.to} /\ would_be_dust_swept(s, a) THEN 0 ELSE s[a]]

StateAfter[n \in 0 .. Len(TxOrder)] ==
    IF n = 0 THEN Opening ELSE DustSwept(Unswept(StateAfter[n - 1], TxOrder[n]), TxOrder[n])

\* A receipt is captured for a transaction that is one plain transfer,
\* sweeps nothing and touches no fee target.
Captures(n) ==
    LET tx == TxOrder[n]
        s  == Unswept(StateAfter[n - 1], tx)
    IN  /\ tx.kind = "transfer"
        /\ {tx.from, tx.to} \cap FeeTargets = {}
        /\ ~would_be_dust_swept(s, tx.from) /\ ~would_be_dust_swept(s, tx.to)

\* A staking event is recorded for a transaction that is one staking
\* instruction of the v6 program.
Acts(n) == TxOrder[n].kind = "stake"

Receipt(n) ==
    LET tx     == TxOrder[n]
        before == StateAfter[n - 1]
        after  == Unswept(before, tx)
    IN  [from |-> tx.from, to |-> tx.to, amount |-> tx.amount, fee |-> FEE,
         root_before |-> before, root_after |-> after,
         from_before |-> BalanceOf(before[tx.from]), from_after |-> after[tx.from],
         to_before |-> BalanceOf(before[tx.to]), to_after |-> after[tx.to]]

\* The newest `max` of a log.
LastOf(log, max) == SubSeq(log, Max({1, Len(log) - max + 1}), Len(log))

\* The log on disk, whose keys are in the order of insertion.
prune_log_to_last(log, max) == LastOf(log, max)

strip_old_receipt_proofs(log) ==
    [i \in 1 .. Len(log) |->
        IF i <= Len(log) - N_FULL_PROOF_RECEIPTS THEN [log[i] EXCEPT !.full = FALSE] ELSE log[i]]

\* What a commit has to write once the lock is released: every receipt in
\* its light and then its full form, the events, and the pruning of the logs
\* it appended to.
Writes(taken, acted) ==
    FlattenSeq([i \in 1 .. Len(taken) |-> <<[to |-> "light", tx |-> taken[i]],
                                           [to |-> "full", tx |-> taken[i]]>>])
      \o [i \in 1 .. Len(acted) |-> [to |-> "event", tx |-> acted[i]]]
      \o (IF taken = <<>> THEN <<>> ELSE <<[to |-> "prune receipts", tx |-> 0]>>)
      \o (IF acted = <<>> THEN <<>> ELSE <<[to |-> "prune events", tx |-> 0]>>)

\* A commit executes the next transactions of the order: their receipts and
\* events are appended, the logs in memory capped, the old proofs dropped.
ExecuteCommit(n) ==
    LET row   == [i \in 1 .. n - executed |-> executed + i]
        taken == SelectSeq(row, Captures)
        acted == SelectSeq(row, Acts)
    IN  /\ unwritten = <<>>
        /\ executed' = n
        /\ receipts' = strip_old_receipt_proofs(
                         LastOf(receipts \o [i \in 1 .. Len(taken) |-> [tx |-> taken[i], full |-> TRUE]],
                                MAX_INMEM_RECEIPTS))
        /\ events' = LastOf(events \o acted, MAX_INMEM_STAKING_EVENTS)
        /\ unwritten' = Writes(taken, acted)
        /\ UNCHANGED <<flushed, light_log, full_log, event_log, receiptCrashes>>

\* persist_receipt, persist_staking_event and prune_log_to_last, one write
\* at a time.
PersistNext ==
    /\ unwritten # <<>>
    /\ unwritten' = Tail(unwritten)
    /\ LET w == Head(unwritten)
       IN  /\ light_log' = CASE w.to = "light" -> Append(light_log, w.tx)
                             [] w.to = "prune receipts" -> prune_log_to_last(light_log, MAX_INMEM_RECEIPTS)
                             [] OTHER -> light_log
           /\ full_log' = CASE w.to = "full" -> Append(full_log, w.tx)
                            [] w.to = "prune receipts" -> prune_log_to_last(full_log, N_FULL_PROOF_RECEIPTS)
                            [] OTHER -> full_log
           /\ event_log' = CASE w.to = "event" -> Append(event_log, w.tx)
                             [] w.to = "prune events" -> prune_log_to_last(event_log, MAX_INMEM_STAKING_EVENTS)
                             [] OTHER -> event_log
    /\ UNCHANGED <<executed, flushed, receipts, events, receiptCrashes>>

\* persist_round_atomic, when the next round is proposed.
FlushState ==
    /\ flushed # executed
    /\ flushed' = executed
    /\ UNCHANGED <<executed, receipts, events, unwritten, light_log, full_log, event_log,
                   receiptCrashes>>

\* A crash and the start after it: the newest of the light log, each with
\* its proofs where the full log still has them.
Reloaded(n) == [tx |-> n, full |-> n \in Range(LastOf(full_log, N_FULL_PROOF_RECEIPTS))]

RestartNode ==
    /\ receiptCrashes < MaxReceiptCrashes
    /\ receiptCrashes' = receiptCrashes + 1
    /\ executed' = flushed
    /\ unwritten' = <<>>
    /\ LET kept == LastOf(light_log, MAX_INMEM_RECEIPTS)
       IN  receipts' = [i \in 1 .. Len(kept) |-> Reloaded(kept[i])]
    /\ events' = LastOf(event_log, MAX_INMEM_STAKING_EVENTS)
    /\ UNCHANGED <<flushed, light_log, full_log, event_log>>

ReceiptsInit ==
    /\ executed = 0 /\ flushed = 0 /\ receiptCrashes = 0
    /\ receipts = <<>> /\ events = <<>> /\ unwritten = <<>>
    /\ light_log = <<>> /\ full_log = <<>> /\ event_log = <<>>

ReceiptsNext ==
    \/ \E n \in executed + 1 .. Len(TxOrder) : ExecuteCommit(n)
    \/ PersistNext
    \/ FlushState
    \/ RestartNode

ReceiptsSpec == ReceiptsInit /\ [][ReceiptsNext]_receiptVars

----------------------------------------------------------------------------
(* What clients are given.                                                 *)

effective_stark_proof_limit(requested, available) ==
    Min({requested, available, MAX_STARK_PROOF_RECEIPTS})

\* The receipts that a request for `requested` of them is answered from.
Provable(requested) ==
    LET all == SelectSeq(receipts, LAMBDA r : r.full)
    IN  LastOf(all, effective_stark_proof_limit(requested, Len(all)))

Bindings(rows) == [i \in 1 .. Len(rows) |-> Receipt(rows[i].tx)]

\* The node proves the batch and hands it out if it verifies itself.
Verifies(bindings) ==
    LET steps == [i \in 1 .. Len(bindings) |-> conserving(bindings[i])]
    IN  verify_batch_bound_to_state(build_trace(steps), bindings)

stark_proof(requested) ==
    LET rows == Provable(requested)
    IN  IF rows = <<>> THEN "no receipts"
        ELSE IF Verifies(Bindings(rows)) THEN "proof" ELSE "chain broken"

----------------------------------------------------------------------------
(* Properties.                                                             *)

\* The node captures nothing that its own verifier would refuse: a receipt
\* kept with its proofs can be proved, and so can the receipts of two
\* transactions that follow one another.
CapturedIsProvable ==
    \A i, j \in 1 .. Len(receipts) :
        LET a == receipts[i]  b == receipts[j]
        IN  /\ a.full => Verifies(<<Receipt(a.tx)>>)
            /\ a.full /\ b.full /\ b.tx = a.tx + 1 => Verifies(<<Receipt(a.tx), Receipt(b.tx)>>)

\* A proof that is handed out covers consecutive transactions of the chain,
\* each exactly once, whatever was lost, repeated or stripped on the way.
ProvedIsConsecutive ==
    \A k \in 1 .. MAX_STARK_PROOF_RECEIPTS :
        stark_proof(k) = "proof" =>
            LET rows == Provable(k)
            IN  \A i \in 1 .. Len(rows) - 1 : rows[i + 1].tx = rows[i].tx + 1

=============================================================================
