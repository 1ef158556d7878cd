----------------------------- MODULE Bullshark -----------------------------
(***************************************************************************)
(* The commit rule of qchain-consensus (bullshark.rs): which round leaders  *)
(* a local DAG commits or skips, and the total order their causal histories *)
(* give; and what a validator keeps between two passes (lib.rs).            *)
(* Everything here is a function of a set of certificates, the part of the  *)
(* network's certificates that one validator holds.                         *)
(*                                                                         *)
(* A certificate is an opaque identity (its digest) with a round, an author *)
(* and parents.  Rank stands for the byte order of digests.  Leader[r] is   *)
(* what the hash of r selects among the sorted ids of r's committee, Nobody *)
(* when that committee is empty.                                            *)
(***************************************************************************)
EXTENDS Committee, Sequences, FiniteSetsExt

CONSTANTS
    Cert,           \* every certificate the network ever forms
    Round,          \* Round[c], Author[c], Parents[c]: the certified vertex
    Author,
    Parents,
    Rank,           \* position of c's digest in the order of digests
    Leader          \* Leader[r]: the validator elected for round r

\* A voter signs a vertex only if its author sits in the vertex's round's
\* committee (the VertexProposal handler), so a certificate's author does.
ASSUME CertTyped ==
    \A c \in Cert : /\ Round[c] \in Nat
                    /\ Author[c] \in CommitteeOf(Round[c])
                    /\ Parents[c] \subseteq Cert

\* "A certificate at round r lists parents from round r - 1": `propose_round`
\* takes them from its DAG.  Different certificates have different digests.
ASSUME CertLinked ==
    /\ IsFiniteSet(Cert)
    /\ \A c \in Cert : \A p \in Parents[c] : Round[c] = Round[p] + 1
    /\ \A c \in Cert : Rank[c] \in Nat
    /\ \A c, d \in Cert : Rank[c] = Rank[d] => c = d

\* A set of certificates as the network forms it: one per author and round,
\* which is what Certification establishes, each with all its parents, which
\* its proposer took from its own DAG.
IsDag(n) ==
    /\ n \subseteq Cert
    /\ \A c \in n : Parents[c] \subseteq n
    /\ \A c, d \in n : Round[c] = Round[d] /\ Author[c] = Author[d] => c = d

----------------------------------------------------------------------------
\* The direct rule

CertificatesInRound(dag, r) == {c \in dag : Round[c] = r}

AuthorsInRound(dag, r) == {Author[c] : c \in CertificatesInRound(dag, r)}

\* `certificate_by_author(round, leader)`: empty or a singleton.
LeaderCert(dag, r) == {c \in CertificatesInRound(dag, r) : Author[c] = Leader[r]}

\* Authors of the next round's known certificates that reference l.
Supporters(dag, r, l) ==
    {Author[c] : c \in {d \in CertificatesInRound(dag, r + 1) : l \in Parents[d]}}

\* Members of the next committee whose certificate is not here yet.
UnknownAuthors(dag, r) == CommitteeOf(r + 1) \ AuthorsInRound(dag, r + 1)

DirectlyCommitted(dag, r) ==
    \E l \in LeaderCert(dag, r) : IsQuorum(r, Supporters(dag, r, l))

\* Mutant: authors not heard from are counted as not supporting.
SkippedUnheard(dag, r) ==
    \/ Leader[r] = Nobody
    \/ \E l \in LeaderCert(dag, r) : ~IsQuorum(r, Supporters(dag, r, l))
    \/ /\ LeaderCert(dag, r) = {}
       /\ StakeOf(r, UnknownAuthors(dag, r)) < QuorumThreshold(r)
       /\ \A c \in CertificatesInRound(dag, r + 1) : Parents[c] \subseteq dag

\* A present leader is skipped once its support cannot reach the quorum; an
\* absent one once, also, every known next-round certificate has its parents
\* here, so that none of them can be referencing the missing leader.
DirectlySkipped(dag, r) ==
    \/ Leader[r] = Nobody
    \/ \E l \in LeaderCert(dag, r) :
          StakeOf(r, Supporters(dag, r, l)) + StakeOf(r, UnknownAuthors(dag, r))
              < QuorumThreshold(r)
    \/ /\ LeaderCert(dag, r) = {}
       /\ StakeOf(r, UnknownAuthors(dag, r)) < QuorumThreshold(r)
       /\ \A c \in CertificatesInRound(dag, r + 1) : Parents[c] \subseteq dag

----------------------------------------------------------------------------
\* The indirect rule

\* Mutant: undecided rounds before the committed one are passed over.
FirstCommittedWitness(dag, r, upTo) ==
    UNION {LeaderCert(dag, s) : s \in
        {t \in r .. upTo : /\ DirectlyCommitted(dag, t)
                           /\ \A q \in r .. t - 1 : ~DirectlyCommitted(dag, q)}}

\* `ultimate_witness`: the leader of the first later round that is directly
\* committed, provided every round before it is directly skipped.
UltimateWitness(dag, r, upTo) ==
    UNION {LeaderCert(dag, s) : s \in
        {t \in r .. upTo : /\ DirectlyCommitted(dag, t)
                           /\ \A q \in r .. t - 1 : DirectlySkipped(dag, q)}}

\* Certificates whose parents a traversal of the local DAG goes on to: those
\* present, above the garbage-collection barrier.
Expandable(dag, gcFloor, S) == {c \in S \cap dag : Round[c] > gcFloor}

\* Everything a traversal starting from `from` comes upon, present or not.
Reached(dag, gcFloor, from) ==
    LET Level[n \in Nat] ==
            IF n = 0 THEN {from}
            ELSE LET S == Level[n - 1]
                 IN  S \cup UNION {Parents[c] : c \in Expandable(dag, gcFloor, S)}
    IN  Level[Round[from] + 1]

Committed(l) == [verdict |-> "committed", leader |-> {l}]
Skipped      == [verdict |-> "skipped",   leader |-> {}]
Undecided    == [verdict |-> "undecided", leader |-> {}]

\* `reaches` against the witness: found, refuted, or a missing ancestor
\* leaves it open.
ReachVerdict(dag, gcFloor, witness, target) ==
    LET R == Reached(dag, gcFloor, witness)
    IN  IF target \in R THEN Committed(target)
        ELSE IF R \subseteq dag THEN Skipped ELSE Undecided

\* A leader that cannot be committed directly: no certificate, no commit; no
\* witness, no verdict yet.
ResolveByWitness(dag, gcFloor, leader, witness) ==
    IF leader = {} THEN Skipped
    ELSE IF witness = {} THEN Undecided
    ELSE ReachVerdict(dag, gcFloor, CHOOSE w \in witness : TRUE,
                                    CHOOSE l \in leader : TRUE)

\* `resolve`: the verdict on round r's leader.
Resolve(dag, gcFloor, r, upTo) ==
    IF DirectlyCommitted(dag, r) THEN Committed(CHOOSE l \in LeaderCert(dag, r) : TRUE)
    ELSE IF ~DirectlySkipped(dag, r) THEN Undecided
    ELSE ResolveByWitness(dag, gcFloor, LeaderCert(dag, r),
                          UltimateWitness(dag, r + 1, upTo))

----------------------------------------------------------------------------
\* Ordering

\* A certificate's parents in the order of their digests.
SortedParents ==
    [c \in Cert |->
        CHOOSE s \in [1 .. Cardinality(Parents[c]) -> Parents[c]] :
            \A i, j \in DOMAIN s : i < j => Rank[s[i]] < Rank[s[j]]]

Enter(c) == [step |-> "enter", cert |-> c]
Exit(c)  == [step |-> "exit",  cert |-> c]

\* What follows a popped step: the certificate is emitted, found unresolved,
\* or its parents are entered before it is looked at again.
Emitted(w, c)    == [w EXCEPT !.stack = Tail(@), !.order = Append(@, c)]
Unresolved(w, c) == [w EXCEPT !.stack = Tail(@), !.failed = @ \cup {c}]
Expanded(w, c)   ==
    [w EXCEPT !.stack = [i \in DOMAIN SortedParents[c] |-> Enter(SortedParents[c][i])]
                            \o <<Exit(c)>> \o Tail(@)]

Resolved(seen, w) == seen \cup Range(w.order)

\* Step::Enter of a certificate met for the first time.
Entered(dag, gcFloor, w, c) ==
    IF c \notin dag THEN Unresolved(w, c)
    ELSE IF Round[c] <= gcFloor THEN Emitted(w, c)
    ELSE Expanded(w, c)

\* Mutant: a certificate is emitted although an ancestor is unresolved.
LeftUnchecked(seen, w, c) == Emitted(w, c)

\* Step::Exit, after everything its parents lead to.
Left(seen, w, c) ==
    IF Parents[c] \subseteq Resolved(seen, w) THEN Emitted(w, c) ELSE Unresolved(w, c)

\* One turn of `walk_causal_history`'s loop.  `memo` is what the walk has
\* emitted (true) or failed on (false).
WalkStep(dag, gcFloor, seen, w) ==
    LET c == Head(w.stack).cert
    IN  IF c \in Resolved(seen, w) \cup w.failed THEN [w EXCEPT !.stack = Tail(@)]
        ELSE IF Head(w.stack).step = "enter" THEN Entered(dag, gcFloor, w, c)
        ELSE Left(seen, w, c)

WalkStates == [stack : Seq([step : {"enter", "exit"}, cert : Cert]),
               order : Seq(Cert), failed : SUBSET Cert]

\* Enough turns to empty the stack: every certificate is expanded at most once.
WalkTurns(dag) ==
    1 + Cardinality(dag) + Cardinality(UNION {{c} \X Parents[c] : c \in dag})

\* The loop from root: until its stack is empty.
Walk(dag, gcFloor, root, seen) ==
    LET Turns[n \in Nat] ==
            [w \in WalkStates |->
                IF n = 0 \/ w.stack = << >> THEN w
                ELSE Turns[n - 1][WalkStep(dag, gcFloor, seen, w)]]
    IN  Turns[WalkTurns(dag)][[stack |-> <<Enter(root)>>, order |-> << >>, failed |-> {}]]

\* One leader's causal history, parents before children, siblings by digest;
\* all of it or, when an ancestor is missing, nothing (ok is FALSE).
WalkCausalHistory(dag, gcFloor, root, seen) ==
    LET w == Walk(dag, gcFloor, root, seen)
    IN  IF root \in Resolved(seen, w) THEN [ok |-> TRUE, order |-> w.order]
        ELSE [ok |-> FALSE, order |-> << >>]

Cached(st, l) ==
    [st EXCEPT !.cache = [q \in DOMAIN st.cache \cup {st.round} |->
                             IF q = st.round THEN l ELSE st.cache[q]]]

Emit(st, walk) ==
    IF walk.ok
    THEN [st EXCEPT !.round = @ + 1, !.ordered = @ \o walk.order,
                    !.seen = @ \cup Range(walk.order)]
    ELSE [st EXCEPT !.going = FALSE]

\* A committed leader is cached, and its history emitted if all of it is here.
CommitLeader(dag, gcFloor, st, l) ==
    Emit(Cached(st, l), WalkCausalHistory(dag, gcFloor, l, st.seen))

Outcome(dag, gcFloor, upTo, st) ==
    IF st.round \in DOMAIN st.cache THEN Committed(st.cache[st.round])
    ELSE Resolve(dag, gcFloor, st.round, upTo)

\* One turn of `extend_order`'s loop; `going` is cleared by a break.
ExtendRound(dag, gcFloor, st, outcome) ==
    CASE outcome.verdict = "undecided" -> [st EXCEPT !.going = FALSE]
      [] outcome.verdict = "skipped"   -> [st EXCEPT !.round = @ + 1]
      [] outcome.verdict = "committed" ->
            CommitLeader(dag, gcFloor, st, CHOOSE l \in outcome.leader : TRUE)

\* `extend_order(from_round, up_to_round, seen, committed_cache)`.
ExtendOrder(dag, gcFloor, from, upTo, seen, cache) ==
    LET start == [round |-> from, ordered |-> << >>, seen |-> seen,
                  cache |-> cache, going |-> TRUE]
        Run[n \in Nat] ==
            IF n = 0 THEN start
            ELSE LET st == Run[n - 1]
                 IN  IF st.going /\ st.round <= upTo
                     THEN ExtendRound(dag, gcFloor, st, Outcome(dag, gcFloor, upTo, st))
                     ELSE st
    IN  Run[IF upTo >= from THEN upTo - from + 1 ELSE 0]

----------------------------------------------------------------------------
\* What one validator remembers between two passes (`ConsensusState`): a record
\* with
\*   seen            certificates already emitted in the total order
\*   fromRound       the round every pass starts from
\*   finalizedFloor  the furthest round a pass has stopped at
\*   gcFloor         the garbage-collection barrier
\*   cache           rounds whose leader is known to be committed

NoCache == [r \in {} |-> r]

New == [seen |-> {}, fromRound |-> 0, finalizedFloor |-> 0, gcFloor |-> 0,
        cache |-> NoCache]

AtLeast(x, r) == IF r > x THEN r ELSE x

SetGcFloor(cs, r) ==
    [seen |-> cs.seen,
     fromRound |-> AtLeast(cs.fromRound, r),
     finalizedFloor |-> AtLeast(cs.finalizedFloor, r),
     gcFloor |-> AtLeast(cs.gcFloor, r),
     cache |-> IF r > cs.gcFloor
               THEN [q \in {p \in DOMAIN cs.cache : p >= r} |-> cs.cache[q]]
               ELSE cs.cache]

\* Mutant: pruning forgets retained certificates too.
ForgetAllSeen(cs, removed) == [cs EXCEPT !.seen = {}]

ForgetSeen(cs, removed) == [cs EXCEPT !.seen = @ \ removed]

\* `DagStore::highest_round` and `lowest_round`, 0 for an empty store.
HighestRound(dag) == IF dag = {} THEN 0 ELSE Max({Round[c] : c \in dag})
LowestRound(dag)  == IF dag = {} THEN 0 ELSE Min({Round[c] : c \in dag})

AfterPass(cs, end) ==
    [cs |-> [cs EXCEPT !.seen = end.seen, !.cache = end.cache,
                       !.finalizedFloor = AtLeast(@, end.round)],
     ordered |-> end.ordered]

\* `advance`: one pass over the local DAG, no further than the last round
\* whose committee is known.
Advance(cs, dag, frontier) ==
    AfterPass(cs, ExtendOrder(dag, cs.gcFloor, cs.fromRound,
                              Min({HighestRound(dag), frontier}), cs.seen, cs.cache))

\* The order a validator derives that holds all of `dag` before its first pass.
FullOrder(dag) == Advance(New, dag, HighestRound(dag)).ordered

=============================================================================
