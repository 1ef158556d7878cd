------------------------------ MODULE Ordering ------------------------------
(***************************************************************************)
(* One validator deriving the total order while certificates reach it in    *)
(* any order, late or again after they were pruned; while its DAG is        *)
(* garbage collected; and across restarts that lose part of the on-disk     *)
(* certificate log.  `net` is the set of certificates the network forms.    *)
(*                                                                         *)
(* `ordered` is what the current incarnation has handed to execution and    *)
(* `base` the barrier it started from.  Two history variables: `gap` is set *)
(* when a pass ran while some certificate above the barrier had a parent    *)
(* missing from the local DAG; `prunedBelow` is the highest round below     *)
(* which certificates were ever garbage collected, over all incarnations.   *)
(***************************************************************************)
EXTENDS Bullshark

CONSTANTS
    Networks,       \* the certificate sets to explore, each one DAG
    Log,            \* Log[n]: what the first process finds in its log
    Retention,      \* DAG_RETENTION_ROUNDS
    MaxRestarts,    \* bound on restarts
    MaxLost         \* bound on certificates one restart loses

ASSUME NetworksTyped == \A n \in Networks : IsDag(n) /\ Log[n] \subseteq n

ASSUME BoundsTyped == Retention \in Nat /\ MaxRestarts \in Nat

VARIABLES net, dag, cs, ordered, base, gap, prunedBelow, restarts

vars == <<net, dag, cs, ordered, base, gap, prunedBelow, restarts>>

Init ==
    /\ net \in Networks
    /\ dag = Log[net]
    /\ cs = SetGcFloor(New, LowestRound(dag))
    /\ ordered = << >>
    /\ base = LowestRound(dag)
    /\ gap = FALSE
    /\ prunedBelow = 0
    /\ restarts = 0

CausallyClosed(d, floor) == \A c \in d : Round[c] > floor => Parents[c] \subseteq d

HandOver(d, pass) ==
    /\ dag' = d
    /\ cs' = pass.cs
    /\ ordered' = ordered \o pass.ordered
    /\ gap' = (gap \/ ~CausallyClosed(d, cs.gcFloor))
    /\ UNCHANGED <<net, base, prunedBelow, restarts>>

\* `try_commit`'s pass over the DAG d, and what it hands to execution.
TryCommit(d) == HandOver(d, Advance(cs, d, HighestRound(d)))

\* CertificateBroadcast / CertificateResponse: the verified certificate goes
\* into the DAG and its log whatever its round and whether or not its parents
\* are there, and `try_commit` follows.
ReceiveCertificate(c) == c \notin dag /\ TryCommit(dag \cup {c})

\* The same with a certificate already held: only the pass remains.
ReceiveAgain == dag # {} /\ TryCommit(dag)

\* The DAG part of `prune_stale_round_state`, every tick.
PruneDag ==
    LET floor   == cs.finalizedFloor - Retention
        removed == {c \in dag : Round[c] < floor}
    IN  /\ floor > cs.gcFloor
        /\ dag' = dag \ removed
        /\ cs' = SetGcFloor(ForgetSeen(cs, removed), floor)
        /\ prunedBelow' = AtLeast(prunedBelow, floor)
        /\ UNCHANGED <<net, ordered, base, gap, restarts>>

\* A new process: the certificate log is reloaded, less what a failed or
\* unflushed write lost, and its lowest round becomes the barrier.
Restart ==
    \E lost \in SUBSET dag :
        LET d     == dag \ lost
            floor == LowestRound(d)
        IN  /\ restarts < MaxRestarts
            /\ Cardinality(lost) <= MaxLost
            /\ dag' = d
            /\ cs' = SetGcFloor(New, floor)
            /\ ordered' = << >>
            /\ base' = floor
            /\ gap' = FALSE
            /\ restarts' = restarts + 1
            /\ UNCHANGED <<net, prunedBelow>>

Next ==
    \/ \E c \in net : ReceiveCertificate(c)
    \/ ReceiveAgain
    \/ PruneDag
    \/ Restart

Spec == Init /\ [][Next]_vars

----------------------------------------------------------------------------
\* Properties

\* The order of a validator that held every certificate before its first pass,
\* and the part of it this incarnation's barrier leaves to derive.
Reference == [n \in Networks |-> FullOrder(n)]
ReferenceTail == SelectSeq(Reference[net], LAMBDA c : Round[c] >= base)

\* The verdict on each round's leader in the whole network's DAG.
FinalVerdict == [n \in Networks |->
    [r \in 0 .. HighestRound(n) |-> Resolve(n, 0, r, HighestRound(n))]]

\* Types, and the floors `set_gc_floor` and `advance` keep in order.
TypeOK ==
    /\ net \in Networks /\ dag \subseteq net
    /\ cs.seen \subseteq net
    /\ cs.gcFloor = cs.fromRound /\ cs.gcFloor <= cs.finalizedFloor
    /\ base <= cs.gcFloor
    /\ \A r \in DOMAIN cs.cache : r >= cs.gcFloor /\ cs.cache[r] \in net
    /\ ordered \in Seq(net)
    /\ gap \in BOOLEAN
    /\ prunedBelow \in Nat /\ restarts \in 0 .. MaxRestarts

\* No certificate is handed to execution twice by one process, although
\* `forget_seen` drops pruned digests and pruned certificates can come back.
EmittedOnce == IsInjective(ordered)

\* A certificate above the barrier is emitted after all its parents
\* (`walk_causal_history`'s post-order, whole histories only).
AncestorsFirst ==
    \A i \in DOMAIN ordered :
        Round[ordered[i]] > cs.gcFloor =>
            Parents[ordered[i]] \subseteq {ordered[j] : j \in 1 .. i - 1}

\* The direct rule on a partial DAG never contradicts the direct rule on the
\* whole network's: what `direct_status` commits here commits there, and what
\* it skips here is not committed there.
DirectVerdictsAgree ==
    \A r \in 0 .. HighestRound(net) :
        /\ DirectlyCommitted(dag, r) => DirectlyCommitted(net, r)
        /\ DirectlySkipped(dag, r) => ~DirectlyCommitted(net, r)

\* A leader in `committed_cache`, committed directly or through a witness on a
\* partial DAG, is committed by the whole network's DAG too: caching it across
\* passes is sound.
CommittedIsFinal ==
    \A r \in DOMAIN cs.cache :
        FinalVerdict[net][r] = Committed(cs.cache[r])

Prefix(s, t) == Len(s) <= Len(t) /\ s = SubSeq(t, 1, Len(s))

\* Certificates of the reference order that garbage collection cut off before
\* this process emitted them.
CutOff == {c \in Range(ReferenceTail) \ Range(ordered) : Round[c] < cs.gcFloor}

\* Everything retained is here and a further pass has nothing to add.
Quiescent ==
    /\ {c \in net : Round[c] >= cs.gcFloor} \subseteq dag
    /\ Advance(cs, dag, HighestRound(dag)).ordered = << >>

\* Where garbage collection cut nothing off: if every pass ran on a DAG with no
\* missing parents, the emitted order is a prefix of the reference order; and
\* whatever arrived late, the same certificates are emitted in the end as
\* everywhere (`extend_order`, `walk_causal_history`).
OrderAgreement ==
    CutOff = {} => /\ ~gap => Prefix(ordered, ReferenceTail)
                   /\ Quiescent => Range(ordered) = Range(ReferenceTail)

\* The comments on `walk_causal_history` and `extend_order`: two validators
\* that hold the same certificates emit the same order, however they arrived.
SameOrder == Prefix(ordered, Reference[net])

=============================================================================
