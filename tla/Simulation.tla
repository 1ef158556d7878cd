----------------------------- MODULE Simulation -----------------------------
(***************************************************************************)
(* The network of validators that qchain-simulation runs: proposals, votes *)
(* and certificates, fetching of missing parents, and the commit rule of   *)
(* qchain-consensus on every validator's own DAG, with lost and delayed    *)
(* messages, a partition, a committee that rotates, and validators that    *)
(* are silent or propose two vertices for one round.                       *)
(*                                                                         *)
(* run_simulation is one thread that advances in ticks, so a tick is a     *)
(* step; what its random numbers decide is left open.  An author proposes  *)
(* at most twice in a round (tag 1 is the equivocator's second vertex), so *)
(* <<round, author, tag>> stands for a vertex's digest.                    *)
(***************************************************************************)
EXTENDS Naturals, Sequences, FiniteSets, FiniteSetsExt, SequencesExt

CONSTANTS
    COUNT,          \* validator_count; the ids are 1 .. COUNT, in their order
    Scenarios,      \* [behavior, partition, committees, epoch_rounds]
    RoundHash,      \* RoundHash[r]: the hash of r that elects its leader
    TICKS,          \* ticks of a run
    DELAY,          \* ticks a delayed message comes late
    MaxDisturbed    \* bound on messages lost or delayed, at most one a tick

Sims == 1 .. COUNT
SimRounds == 0 .. TICKS + 1

ASSUME SimulationAssumption ==
    /\ COUNT \in Nat \ {0}
    /\ \A s \in Scenarios : DOMAIN s.behavior = Sims
    /\ SimRounds \subseteq DOMAIN RoundHash

VARIABLES
    scenario,
    tick,
    sims,           \* SimValidator
    parentsOf,      \* the parents of every vertex proposed
    queue,          \* messages under way, in the order they were sent
    certified,      \* the vertices a certificate was broadcast for
    disturbed       \* messages lost or delayed so far

simulationVars == <<scenario, tick, sims, parentsOf, queue, certified, disturbed>>

----------------------------------------------------------------------------
(* One unit of stake each.  A scenario has the committees of its epochs,   *)
(* one for the whole run (ValidatorSchedule::single) or two of them, both  *)
(* installed and both resolvable from the start.                           *)
ScheduleForRound(r) ==
    scenario.committees[Max({e \in DOMAIN scenario.committees : e * scenario.epoch_rounds <= r})]

Frontier ==
    IF DOMAIN scenario.committees = {0} THEN TICKS + 1 ELSE 2 * scenario.epoch_rounds - 1

Stakes == [r \in SimRounds |-> [u \in Sims |-> IF u \in ScheduleForRound(r) THEN u ELSE 0]]

leader_for_round(r) ==
    LET ids == SelectSeq([j \in Sims |-> j], LAMBDA j : j \in ScheduleForRound(r))
    IN  IF ids = <<>> THEN 0 ELSE ids[(RoundHash[r] % Len(ids)) + 1]

\* The commit rule over the vertices whose parents are given.
Consensus(parents) == INSTANCE Bullshark WITH
    Validators <- Sims, Nobody <- 0, Units <- Sims, Owner <- Stakes,
    Cert <- DOMAIN parents,
    Round <- [c \in DOMAIN parents |-> c[1]],
    Author <- [c \in DOMAIN parents |-> c[2]],
    Parents <- parents,
    Rank <- [c \in DOMAIN parents |-> 2 * c[2] + c[3]],
    Leader <- [r \in SimRounds |-> leader_for_round(r)]

Quorum(r, S) ==
    LET committee == ScheduleForRound(r)
    IN  Cardinality(S \cap committee) >= (2 * Cardinality(committee)) \div 3 + 1

----------------------------------------------------------------------------
(* A SimValidator, as a record; every operation below yields the validator *)
(* after it and what it sends.                                             *)
NewSim ==
    [dag |-> {}, consensus |-> Consensus(<<>>)!New, pending |-> {}, votes |-> {}, voted |-> {},
     seen |-> {}, evidence |-> {}, requests |-> <<>>, next |-> 0, committed |-> <<>>]

SlotOf(d) == <<d[1], d[2]>>
Peers(i) == SelectSeq([j \in Sims |-> j], LAMBDA j : j # i)

\* Vertices of round r in the order of their digests.
SortedByDigest(r, S) ==
    SelectSeq([k \in 1 .. 2 * COUNT |-> <<r, (k + 1) \div 2, (k + 1) % 2>>], LAMBDA d : d \in S)

Note(i, to, kind, d) == [from |-> i, to |-> to, kind |-> kind, digest |-> d]
ToAll(i, kind, d) == [k \in 1 .. COUNT - 1 |-> Note(i, Peers(i)[k], kind, d)]

\* The quorum that verify_certificate asks for is the one counted here.
record_vote(s, d, voter) ==
    LET votes  == s.votes \cup {<<d, voter>>}
        voters == {v \in Sims : <<d, v>> \in votes}
    IN  IF d \in s.pending /\ Quorum(d[1], voters)
        THEN [sim |-> [s EXCEPT !.pending = {}, !.dag = @ \cup {d},
                                !.votes = {v \in votes : v[1] # d}],
              cert |-> {d}]
        ELSE [sim |-> [s EXCEPT !.votes = votes], cert |-> {}]

Broadcast(i, certs) == IF certs = {} THEN <<>> ELSE ToAll(i, "cert", CHOOSE d \in certs : TRUE)

InRound(dag, r) == {c \in dag : c[1] = r}

MayPropose(i, s) ==
    s.next > 0 => \/ Quorum(s.next - 1, {i})
                  \/ Quorum(s.next - 1, {c[2] : c \in InRound(s.dag, s.next - 1)})

\* The second vertex, to half of the peers.
Equivocation(i, r) ==
    IF scenario.behavior[i] # "equivocator" \/ COUNT = 1 THEN <<>>
    ELSE SubSeq(ToAll(i, "proposal", <<r, i, 1>>), 1, Max({(COUNT - 1) \div 2, 1}))

ProposeNew(i, s) ==
    LET r == s.next
        d == <<r, i, 0>>
        begun == [s EXCEPT !.pending = {d}, !.next = r + 1, !.voted = @ \cup {d}]
        own == record_vote(begun, d, i)
    IN  [sim |-> own.sim,
         out |-> ToAll(i, "proposal", d) \o Broadcast(i, own.cert) \o Equivocation(i, r),
         parents |-> [c \in {d, <<r, i, 1>>} |-> IF r = 0 THEN {} ELSE InRound(s.dag, r - 1)]]

Idle(s) == [sim |-> s, out |-> <<>>, parents |-> <<>>]

\* Mutant: a vertex under way is not sent again.
ProposeOnce(i, s) ==
    IF scenario.behavior[i] # "silent" /\ s.pending = {} /\ MayPropose(i, s)
    THEN ProposeNew(i, s) ELSE Idle(s)

\* A vertex under way is sent again; else the next round's is proposed.
maybe_propose(i, s) ==
    IF scenario.behavior[i] = "silent" THEN Idle(s)
    ELSE IF s.pending # {}
    THEN [Idle(s) EXCEPT !.out = ToAll(i, "proposal", CHOOSE d \in s.pending : TRUE)]
    ELSE IF MayPropose(i, s) THEN ProposeNew(i, s) ELSE Idle(s)

\* Parents that are not here are asked for, and asked for again every tick,
\* from whoever named them last.
Wanted(requests, d, from) ==
    IF \E k \in DOMAIN requests : requests[k][1] = d
    THEN [k \in DOMAIN requests |-> IF requests[k][1] = d THEN <<d, from>> ELSE requests[k]]
    ELSE Append(requests, <<d, from>>)

missing_parent_requests(i, s, d, parents, from) ==
    LET missing == IF d[1] = 0 THEN <<>> ELSE SortedByDigest(d[1] - 1, parents[d] \ s.dag)
    IN  [sim |-> [s EXCEPT !.requests =
                     FoldLeft(LAMBDA acc, p : Wanted(acc, p, from), @, missing)],
         out |-> [k \in DOMAIN missing |-> Note(i, from, "request", missing[k])]]

retry_pending_cert_requests(i, s) ==
    LET open == SelectSeq(s.requests, LAMBDA w : w[1] \notin s.dag)
    IN  [sim |-> [s EXCEPT !.requests = open],
         out |-> [k \in DOMAIN open |-> Note(i, open[k][2], "request", open[k][1])]]

\* The first vertex of a slot is remembered; another is evidence.  One vote
\* per slot, given again when asked again.
HandleProposal(i, s, d, from, parents) ==
    LET prior == {c \in s.seen : SlotOf(c) = SlotOf(d)}
        noted == IF prior = {} THEN [s EXCEPT !.seen = @ \cup {d}]
                 ELSE IF d \in prior THEN s
                 ELSE [s EXCEPT !.evidence = @ \cup {SlotOf(d)}]
        asked == missing_parent_requests(i, noted, d, parents, from)
        votes == {c \in s.voted : SlotOf(c) = SlotOf(d)} \subseteq {d}
    IN  IF d[2] # from \/ from \notin ScheduleForRound(d[1]) THEN [sim |-> s, out |-> <<>>]
        ELSE IF votes
        THEN [sim |-> [asked.sim EXCEPT !.voted = @ \cup {d}],
              out |-> Append(asked.out, Note(i, from, "vote", d))]
        ELSE asked

HandleVote(i, s, d, from) ==
    LET counted == record_vote(s, d, from)
    IN  [sim |-> counted.sim, out |-> Broadcast(i, counted.cert)]

HandleCertificate(i, s, d, from, parents) ==
    missing_parent_requests(i, [s EXCEPT !.dag = @ \cup {d}], d, parents, from)

HandleRequest(i, s, d, from) ==
    [sim |-> s, out |-> IF d \in s.dag THEN <<Note(i, from, "response", d)>> ELSE <<>>]

handle_message(i, s, m, parents) ==
    IF scenario.behavior[i] = "silent" THEN [sim |-> s, out |-> <<>>]
    ELSE CASE m.kind = "proposal" -> HandleProposal(i, s, m.digest, m.from, parents)
           [] m.kind = "vote" -> HandleVote(i, s, m.digest, m.from)
           [] m.kind = "request" -> HandleRequest(i, s, m.digest, m.from)
           [] m.kind \in {"cert", "response"} -> HandleCertificate(i, s, m.digest, m.from, parents)

try_commit(s, parents) ==
    LET pass == Consensus(parents)!Advance(s.consensus, s.dag, Frontier)
    IN  [s EXCEPT !.consensus = pass.cs, !.committed = @ \o pass.ordered]

----------------------------------------------------------------------------
(* A tick: everybody proposes and repeats its requests, then what is due   *)
(* is handled in the order it was sent.                                    *)
ProposalTurn(run, i) ==
    LET turn  == maybe_propose(i, run.sims[i])
        retry == retry_pending_cert_requests(i, turn.sim)
    IN  [sims |-> [run.sims EXCEPT ![i] = retry.sim],
         parents |-> turn.parents @@ run.parents,
         out |-> run.out \o turn.out \o retry.out]

\* A pass over a DAG that did not change changes nothing, and is left out.
Delivery(run, m) ==
    LET before == run.sims[m.to]
        answer == handle_message(m.to, before, m, run.parents)
        after  == IF answer.sim.dag = before.dag THEN answer.sim
                  ELSE try_commit(answer.sim, run.parents)
    IN  [run EXCEPT !.sims[m.to] = after, !.out = @ \o answer.out]

\* Whether the partition cuts a message off.
Crosses(m) ==
    \E p \in scenario.partition :
        tick < p.until /\ (m.from \in p.group_a) # (m.to \in p.group_a)

\* When a message sent now is handled, 0 for never: fate maps the disturbed
\* ones to "lost" or "late".
DueAt(m, k, fate) ==
    IF Crosses(m) \/ (k \in DOMAIN fate /\ fate[k] = "lost") THEN 0
    ELSE tick + 1 + (IF k \in DOMAIN fate THEN DELAY ELSE 0)

Enqueued(out, fate) ==
    SelectSeq([k \in DOMAIN out |-> out[k] @@ [due |-> DueAt(out[k], k, fate)]], LAMBDA m : m.due > 0)

\* The validators, the vertices' parents and what was sent, after a tick.
Played ==
    LET due == SelectSeq(queue, LAMBDA m : m.due <= tick)
        start == [sims |-> sims, parents |-> parentsOf, out |-> <<>>]
        Proposed[i \in 0 .. COUNT] == IF i = 0 THEN start ELSE ProposalTurn(Proposed[i - 1], i)
        Handled[n \in 0 .. Len(due)] ==
            IF n = 0 THEN Proposed[COUNT] ELSE Delivery(Handled[n - 1], due[n])
    IN  Handled[Len(due)]

\* At most one message of a tick is disturbed.
Fates(out) ==
    {<<>>} \cup (IF disturbed = MaxDisturbed THEN {}
                 ELSE {[k \in {n} |-> how] : n \in DOMAIN out, how \in {"lost", "late"}})

Tick ==
    /\ tick < TICKS
    /\ tick' = tick + 1
    /\ \E run \in {Played} :
         /\ sims' = run.sims
         /\ parentsOf' = run.parents
         /\ certified' = certified \cup
               {m.digest : m \in {n \in ToSet(run.out) : n.kind = "cert"}}
         /\ \E fate \in Fates(run.out) :
              /\ disturbed' = disturbed + Cardinality(DOMAIN fate)
              /\ queue' = SelectSeq(queue, LAMBDA m : m.due > tick) \o Enqueued(run.out, fate)
    /\ UNCHANGED scenario

SimulationInit ==
    /\ scenario \in Scenarios
    /\ tick = 0
    /\ sims = [i \in Sims |-> NewSim]
    /\ parentsOf = <<>>
    /\ queue = <<>>
    /\ certified = {}
    /\ disturbed = 0

SimulationSpec == SimulationInit /\ [][Tick]_simulationVars

----------------------------------------------------------------------------
HonestSims == {i \in Sims : scenario.behavior[i] = "honest"}

is_prefix_consistent(a, b) == IsPrefix(a, b) \/ IsPrefix(b, a)

\* What run_simulation reports as a safety violation never happens: honest
\* validators agree on the committed order as far as both have one, no slot
\* gets two certificates, and evidence is only held of validators that did
\* propose twice.
HonestOrdersAgree ==
    /\ \A i, j \in HonestSims : is_prefix_consistent(sims[i].committed, sims[j].committed)
    /\ \A c, d \in certified : SlotOf(c) = SlotOf(d) => c = d
    /\ \A i \in HonestSims : \A slot \in sims[i].evidence :
          scenario.behavior[slot[2]] = "equivocator"

\* made_progress: by the end of the run every honest validator has committed
\* something.
ProgressIsMade == tick = TICKS => \A i \in HonestSims : sims[i].committed # <<>>
=============================================================================
