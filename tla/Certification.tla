--------------------------- MODULE Certification ---------------------------
(***************************************************************************)
(* How vertices become certificates (qchain-node engine.rs): a validator    *)
(* proposes one vertex per round, its peers vote for it once they hold its  *)
(* batches, and the author turns a quorum of votes into a certificate.      *)
(* Validators crash and restart, locks are pruned, and a set Byz of         *)
(* validators signs whatever it likes.                                      *)
(*                                                                         *)
(* Messages are kept in sets that only grow (`proposals`, `votes`,          *)
(* `certified`) and are received any number of times, in any order, or      *)
(* never: proposals, votes and own certificates are all re-sent every tick. *)
(* A vertex is its slot (round, author) and an `id` that stands for the     *)
(* rest of its content; its batches travel as a whole, named by the vertex. *)
(***************************************************************************)
EXTENDS Committee

CONSTANTS
    Byz,                \* Byzantine validators
    MaxRound,           \* bound: no honest proposal past this round
    Slots,              \* bound: the slots whose vertices are voted on
    RoundStateRetention,\* ROUND_STATE_RETENTION
    MaxRoundLookahead,  \* MAX_ROUND_LOOKAHEAD
    AtomicStore,        \* TRUE: redb; FALSE: sled with the checkpoint file
    Crashing,           \* validators that may restart
    MaxRestarts         \* bound on restarts of each of them

Honest == Validators \ Byz

ASSUME ByzAreValidators == Byz \subseteq Validators

ASSUME BoundsAreNatural ==
    /\ MaxRound \in Nat /\ MaxRestarts \in Nat
    /\ RoundStateRetention \in Nat /\ MaxRoundLookahead \in Nat
    /\ AtomicStore \in BOOLEAN

Rounds == 0 .. MaxRound

\* What a vertex contains besides its slot.  Each life of a validator builds
\* its own contents, since mempool and timing differ; 0 has no batches.
Ids == 0 .. MaxRestarts

Vertex == [round : Rounds, author : Validators, id : Ids]

NoVertex == [round |-> 0, author |-> Nobody, id |-> 0]

Slot(x) == <<x.round, x.author>>

VARIABLES
    nextRound,      \* EngineState.next_round
    checkpoint,     \* the next_round on disk
    pending,        \* own_pending_vertex
    parents,        \* the parents of the last own vertex
    collected,      \* pending_votes: who has voted for `pending`
    lastCert,       \* own_last_certificate
    votedFor,       \* voted_for, as the set of vertices locked on
    deferred,       \* pending_availability_votes
    batches,        \* vertices whose batches are held
    dag,            \* certified vertices held
    restarts,
    proposals,      \* vertices signed and broadcast by their authors
    votes,          \* <<v, x>>: honest v has sent its vote for x
    certified,      \* certificates formed
    forgot          \* history: slots whose lock v has lost

local == <<nextRound, checkpoint, pending, parents, collected, lastCert,
           votedFor, deferred, batches, dag, restarts>>
vars == <<local, proposals, votes, certified, forgot>>

Init ==
    /\ nextRound = [v \in Honest |-> 0]
    /\ checkpoint = [v \in Honest |-> 0]
    /\ pending = [v \in Honest |-> NoVertex]
    /\ parents = [v \in Honest |-> {}]
    /\ collected = [v \in Honest |-> {}]
    /\ lastCert = [v \in Honest |-> NoVertex]
    /\ votedFor = [v \in Honest |-> {}]
    /\ deferred = [v \in Honest |-> {}]
    /\ batches = [v \in Honest |-> {}]
    /\ dag = [v \in Honest |-> {}]
    /\ restarts = [v \in Honest |-> 0]
    /\ proposals = {}
    /\ votes = {}
    /\ certified = {}
    /\ forgot = [v \in Honest |-> {}]

\* Those whose valid vote for x can be shown; Byzantine votes are for the asking.
Signers(x) == Byz \cup {v \in Honest : <<v, x>> \in votes}

----------------------------------------------------------------------------
InRound(d, r) == {x \in d : x.round = r}

\* Mutant: any certificate of the previous round will do.
MayProposeOnAny(v, r) == r > 0 => InRound(dag[v], r - 1) # {}

\* Mutant: every member of the previous round must have certified.
MayProposeOnAll(v, r) ==
    r > 0 => CommitteeOf(r - 1) \subseteq {x.author : x \in InRound(dag[v], r - 1)}

\* The gate of `propose_round`: the previous round's certificates carry a
\* quorum, or the proposer is one by itself.
MayPropose(v, r) ==
    r > 0 => \/ IsQuorum(r - 1, {v})
             \/ IsQuorum(r - 1, {x.author : x \in InRound(dag[v], r - 1)})

\* Mutant: the round proposed is persisted instead of the next one.
PersistedLate(v, r) == {r - 1}

\* `persist_round_atomic`: what is on disk after next_round became r.  The
\* legacy checkpoint file is best effort.
Persisted(v, r) == IF AtomicStore THEN {r} ELSE {r, checkpoint[v]}

\* `propose_round` with nothing pending (with something pending it only
\* re-broadcasts), up to the release of the lock.  The new next_round is
\* persisted before the vertex leaves; the own vote is recorded after the
\* broadcasts, by ReceiveVote(v, v).
Propose(v) ==
    LET r == nextRound[v]
        x == [round |-> r, author |-> v, id |-> restarts[v]]
    IN  /\ pending[v] = NoVertex
        /\ r <= MaxRound
        /\ MayPropose(v, r)
        /\ nextRound' = [nextRound EXCEPT ![v] = r + 1]
        /\ \E saved \in Persisted(v, r + 1) :
              checkpoint' = [checkpoint EXCEPT ![v] = saved]
        /\ pending' = [pending EXCEPT ![v] = x]
        /\ parents' = [parents EXCEPT ![v] = InRound(dag[v], r - 1)]
        /\ votedFor' = [votedFor EXCEPT ![v] = {y \in @ : Slot(y) # Slot(x)} \cup {x}]
        /\ batches' = [batches EXCEPT ![v] = @ \cup {y \in {x} : y.id # 0}]
        /\ proposals' = proposals \cup {x}
        /\ votes' = votes \cup {<<v, x>>}
        /\ UNCHANGED <<collected, lastCert, deferred, dag, restarts,
                       certified, forgot>>

\* Mutant: the lock is not consulted.
RivalsIgnored(v, x) == {}

\* Locks of v on another vertex of x's slot.
Rivals(v, x) == {y \in votedFor[v] : Slot(y) = Slot(x) /\ y # x}

\* v holds all the batches of x.
Available(v, x) == x.id = 0 \/ x \in batches[v]

\* VertexProposal: check the author and the round, refuse the vertex if the
\* lock holds another one of its slot, else take the lock and vote, or defer
\* the vote.  The batches are looked up before the vote is deferred and the
\* engine's lock is free in between, so they may be here by the time it is.
ReceiveProposal(v, x) ==
    /\ x \in proposals /\ x.author # v
    /\ Slot(x) \in Slots
    /\ x.author \in CommitteeOf(x.round)
    /\ x.round <= nextRound[v] + MaxRoundLookahead
    /\ Rivals(v, x) = {}
    /\ votedFor' = [votedFor EXCEPT ![v] = @ \cup {x}]
    /\ \/ /\ Available(v, x)
          /\ votes' = votes \cup {<<v, x>>}
          /\ UNCHANGED deferred
       \/ /\ x.id # 0 /\ <<v, x>> \notin votes
          /\ deferred' = [deferred EXCEPT ![v] = @ \cup {x}]
          /\ UNCHANGED votes
    /\ UNCHANGED <<nextRound, checkpoint, pending, parents, collected, lastCert,
                   batches, dag, restarts, proposals, certified, forgot>>

\* Mutant: every deferred vote is cast as soon as any batch is here.
CastAllDeferred(v, held) ==
    /\ votes' = votes \cup ({v} \X deferred[v])
    /\ deferred' = [deferred EXCEPT ![v] = {}]

\* `try_cast_available_votes`, with the batches in `held`.
TryCastAvailableVotes(v, held) ==
    /\ votes' = votes \cup ({v} \X (deferred[v] \cap held))
    /\ deferred' = [deferred EXCEPT ![v] = @ \ held]

\* WorkerBatchGossip / WorkerBatchResponse: the batches of x arrive.
ReceiveBatch(v, x) ==
    /\ x \in proposals \ batches[v] /\ x.id # 0
    /\ batches' = [batches EXCEPT ![v] = @ \cup {x}]
    /\ TryCastAvailableVotes(v, batches[v] \cup {x})
    /\ UNCHANGED <<nextRound, checkpoint, pending, parents, collected, lastCert,
                   votedFor, dag, restarts, proposals, certified, forgot>>

\* The tick retries the deferred votes too.
Tick(v) ==
    /\ deferred[v] # {}
    /\ TryCastAvailableVotes(v, batches[v])
    /\ UNCHANGED <<nextRound, checkpoint, pending, parents, collected, lastCert,
                   votedFor, batches, dag, restarts, proposals, certified, forgot>>

\* Vote, from a member of the committee, for the vertex v is collecting for
\* (`record_vote`): at a quorum, form the certificate and stop collecting.
\* The code weighs the votes by the committee in force when they arrive, here
\* always the one of the vertex's round: no epoch ends while v collects.
ReceiveVote(v, w) ==
    LET x == pending[v]
        voters == collected[v] \cup {w}
    IN  /\ x # NoVertex /\ Slot(x) \in Slots
        /\ w \in CommitteeOf(x.round) /\ w \in Signers(x) \ collected[v]
        /\ IF IsQuorum(x.round, voters)
           THEN /\ pending' = [pending EXCEPT ![v] = NoVertex]
                /\ collected' = [collected EXCEPT ![v] = {}]
                /\ dag' = [dag EXCEPT ![v] = @ \cup {x}]
                /\ lastCert' = [lastCert EXCEPT ![v] = x]
                /\ certified' = certified \cup {x}
           ELSE /\ collected' = [collected EXCEPT ![v] = voters]
                /\ UNCHANGED <<pending, dag, lastCert, certified>>
        /\ UNCHANGED <<nextRound, checkpoint, parents, votedFor, deferred, batches,
                       restarts, proposals, votes, forgot>>

\* CertificateBroadcast / CertificateResponse.  Bound: certificates of
\* MaxRound, or for a validator that has proposed in MaxRound, enable no
\* proposal and are not delivered.
ReceiveCertificate(v, x) ==
    /\ x \in certified \ dag[v] /\ x.round < MaxRound
    /\ nextRound[v] <= MaxRound
    /\ dag' = [dag EXCEPT ![v] = @ \cup {x}]
    /\ UNCHANGED <<nextRound, checkpoint, pending, parents, collected, lastCert,
                   votedFor, deferred, batches, restarts, proposals,
                   votes, certified, forgot>>

\* `prune_stale_round_state`: locks of rounds too far behind and votes
\* deferred too long ago are dropped (any of them: when each was deferred is
\* not kept).
Prune(v) ==
    LET horizon == nextRound[v] - RoundStateRetention
        old == {x \in votedFor[v] : x.round < horizon}
    IN  /\ horizon > 0
        /\ votedFor' = [votedFor EXCEPT ![v] = @ \ old]
        /\ \E late \in SUBSET deferred[v] :
              deferred' = [deferred EXCEPT ![v] = @ \ late]
        /\ forgot' = [forgot EXCEPT ![v] = @ \cup {Slot(x) : x \in old}]
        /\ UNCHANGED <<nextRound, checkpoint, pending, parents, collected, lastCert,
                       batches, dag, restarts, proposals, votes, certified>>

\* A restart: next_round comes from the checkpoint, the DAG and the batches
\* from their logs; everything else starts empty.
Restart(v) ==
    /\ v \in Crashing /\ restarts[v] < MaxRestarts
    /\ restarts' = [restarts EXCEPT ![v] = @ + 1]
    /\ nextRound' = [nextRound EXCEPT ![v] = checkpoint[v]]
    /\ pending' = [pending EXCEPT ![v] = NoVertex]
    /\ parents' = [parents EXCEPT ![v] = {}]
    /\ collected' = [collected EXCEPT ![v] = {}]
    /\ lastCert' = [lastCert EXCEPT ![v] = NoVertex]
    /\ votedFor' = [votedFor EXCEPT ![v] = {}]
    /\ deferred' = [deferred EXCEPT ![v] = {}]
    /\ forgot' = [forgot EXCEPT ![v] = @ \cup {Slot(x) : x \in votedFor[v]}]
    /\ UNCHANGED <<checkpoint, batches, dag, proposals, votes, certified>>

\* A Byzantine author signs any vertices of its own ...
ByzPropose(x) ==
    /\ x.author \in Byz /\ Slot(x) \in Slots /\ x \notin proposals
    /\ proposals' = proposals \cup {x}
    /\ UNCHANGED <<local, votes, certified, forgot>>

\* ... and assembles any certificate the votes allow.
ByzCertify(x) ==
    /\ x \in proposals \ certified /\ x.author \in Byz
    /\ IsQuorum(x.round, Signers(x))
    /\ certified' = certified \cup {x}
    /\ UNCHANGED <<local, proposals, votes, forgot>>

Next ==
    \/ \E v \in Honest :
          \/ Propose(v)
          \/ \E x \in proposals : ReceiveProposal(v, x) \/ ReceiveBatch(v, x)
          \/ \E w \in Validators : ReceiveVote(v, w)
          \/ \E x \in certified : ReceiveCertificate(v, x)
          \/ Tick(v) \/ Prune(v)
          \/ Restart(v)
    \/ \E x \in Vertex : ByzPropose(x)
    \/ \E x \in proposals : ByzCertify(x)

Spec == Init /\ [][Next]_vars

\* What the tick re-sends until it is no longer needed: the pending proposal,
\* the last own certificate, cast votes, and requests for the batches of a
\* deferred vote and for the parents of a proposal or certificate received.
Resent(v, x) == \E w \in Honest \ {v} : x \in {lastCert[w]} \cup parents[w]

\* The steps of v that the running tick loops keep possible until taken.
Progress(v) ==
    \/ \E w \in Validators : ReceiveVote(v, w)
    \/ \E w \in Honest \ {v} : pending[w] \in proposals /\ ReceiveProposal(v, pending[w])
    \/ \E x \in deferred[v] : ReceiveBatch(v, x)
    \/ Tick(v)
    \/ \E x \in certified : Resent(v, x) /\ ReceiveCertificate(v, x)
    \/ Propose(v)

----------------------------------------------------------------------------
\* Each component of the engine's state has its type, and the durable round
\* never runs ahead of the one in memory.
TypeOK ==
    /\ nextRound \in [Honest -> 0 .. MaxRound + 1]
    /\ checkpoint \in [Honest -> 0 .. MaxRound + 1]
    /\ pending \in [Honest -> Vertex \cup {NoVertex}]
    /\ parents \in [Honest -> SUBSET Vertex]
    /\ collected \in [Honest -> SUBSET Validators]
    /\ lastCert \in [Honest -> Vertex \cup {NoVertex}]
    /\ votedFor \in [Honest -> SUBSET Vertex]
    /\ deferred \in [Honest -> SUBSET Vertex]
    /\ batches \in [Honest -> SUBSET Vertex]
    /\ dag \in [Honest -> SUBSET Vertex]
    /\ restarts \in [Honest -> 0 .. MaxRestarts]
    /\ proposals \subseteq Vertex
    /\ votes \subseteq Honest \X Vertex
    /\ certified \subseteq Vertex
    /\ forgot \in [Honest -> SUBSET (Rounds \X Validators)]
    /\ \A v \in Honest : checkpoint[v] <= nextRound[v]

\* With the atomic store an honest validator signs at most one vertex per
\* round, however often it restarts, so no honest validator can be slashed
\* for equivocation (`propose_round` persists next_round before it sends).
NoSelfEquivocation ==
    AtomicStore =>
      \A x, y \in proposals : x.author \in Honest /\ Slot(x) = Slot(y) => x = y

\* Validators whose signature on a second vertex of the slot nothing prevents:
\* the Byzantine ones and those that lost the lock by a restart or a prune.
Unlocked(slot) == Byz \cup {v \in Honest : slot \in forgot[v]}

\* Two certificates for one slot need more than a third of the stake to be
\* Byzantine or to have lost their `voted_for` lock for exactly that slot.
EquivocationNeedsFaultyThird ==
    \A x, y \in certified :
      x # y /\ Slot(x) = Slot(y) =>
        3 * StakeOf(x.round, Unlocked(Slot(x))) > TotalStake(x.round)

\* Data availability: the honest validators that hold the batches of a
\* certified vertex, with the Byzantine ones, carry a quorum, so at least a
\* quorum less the Byzantine stake can always serve them.
CertifiedIsAvailable ==
    \A x \in certified :
      IsQuorum(x.round, Byz \cup {v \in Honest : Available(v, x)})

\* A validator enters round r + 1 only after the certificates of round r - 1
\* that exist carry a quorum (or its own stake is one), restarts included:
\* rounds advance in lock step with certification.
RoundsAreBacked ==
    \A v \in Honest : \A r \in Rounds \ {0} :
      nextRound[v] > r =>
        \/ IsQuorum(r - 1, {v})
        \/ IsQuorum(r - 1, {x.author : x \in InRound(certified, r - 1)})

\* No restart strands the validators: until every validator has gone through
\* every round, something that the ticks re-send can still change something.
NeverStranded ==
    \/ \A v \in Honest : nextRound[v] = MaxRound + 1
    \/ \E v \in Honest : ENABLED <<Progress(v)>>_vars

=============================================================================
