------------------------ MODULE CertificationProofs ------------------------
(***************************************************************************)
(* What certification guarantees for every committee, every stake           *)
(* distribution, every set of Byzantine validators and any number of rounds, *)
(* restarts and prunes.                                                     *)
(***************************************************************************)
EXTENDS Certification

\* More signers keep a quorum a quorum.
LEMMA QuorumMonotone ==
    ASSUME NEW r, NEW S, NEW T, S \subseteq T, IsQuorum(r, S)
    PROVE  IsQuorum(r, T)
<1>1. StakeOf(r, S) \in Nat /\ StakeOf(r, T) \in Nat /\ StakeOf(r, S) <= StakeOf(r, T)
  BY StakeMonotone
<1>2. TotalStake(r) \in Nat
  BY StakeMonotone DEF TotalStake
<1>3. QuorumThreshold(r) \in Int
  BY <1>2 DEF QuorumThreshold
<1> QED
  BY <1>1, <1>3 DEF IsQuorum

----------------------------------------------------------------------------
\* Every component of the engine's state keeps its type, and the durable
\* next_round never exceeds the one in memory.
THEOREM TypeCorrect == Spec => []TypeOK
<1>1. Init => TypeOK
  <2> SUFFICES ASSUME Init PROVE TypeOK
    OBVIOUS
  <2>1. 0 \in Rounds /\ 0 \in 0 .. MaxRestarts
    BY BoundsAreNatural DEF Rounds
  <2>2. /\ nextRound \in [Honest -> 0 .. MaxRound + 1]
        /\ \A v \in Honest : checkpoint[v] <= nextRound[v]
    BY BoundsAreNatural DEF Init
  <2> QED
    BY <2>1, <2>2, BoundsAreNatural DEF Init, TypeOK
<1>2. TypeOK /\ [Next]_vars => TypeOK'
  <2> SUFFICES ASSUME TypeOK, [Next]_vars PROVE TypeOK'
    OBVIOUS
  <2> USE BoundsAreNatural, ByzAreValidators DEF TypeOK
  <2>1. ASSUME NEW v \in Honest, Propose(v) PROVE TypeOK'
    <3> DEFINE x == [round |-> nextRound[v], author |-> v, id |-> restarts[v]]
    <3>1. x \in Vertex
      BY <2>1 DEF Propose, Vertex, Rounds, Ids, Honest
    <3>2. nextRound[v] + 1 \in 0 .. MaxRound + 1
      BY <2>1 DEF Propose
    <3>3. Persisted(v, nextRound[v] + 1) \subseteq 0 .. nextRound[v] + 1
      BY <3>2 DEF Persisted
    <3>4. InRound(dag[v], nextRound[v] - 1) \subseteq Vertex
      BY DEF InRound
    <3> HIDE DEF x
    <3>5. PICK saved \in Persisted(v, nextRound[v] + 1) :
             checkpoint' = [checkpoint EXCEPT ![v] = saved]
      BY <2>1, Zenon DEF Propose
    <3>6. /\ nextRound' = [nextRound EXCEPT ![v] = nextRound[v] + 1]
          /\ pending' = [pending EXCEPT ![v] = x]
          /\ parents' = [parents EXCEPT ![v] = InRound(dag[v], nextRound[v] - 1)]
          /\ votedFor' = [votedFor EXCEPT ![v] = {y \in @ : Slot(y) # Slot(x)} \cup {x}]
          /\ batches' = [batches EXCEPT ![v] = @ \cup {y \in {x} : y.id # 0}]
          /\ proposals' = proposals \cup {x}
          /\ votes' = votes \cup {<<v, x>>}
          /\ UNCHANGED <<collected, lastCert, deferred, dag, restarts, certified, forgot>>
      BY <2>1 DEF Propose, x
    <3>7. \A w \in Honest : checkpoint'[w] <= nextRound'[w]
      BY <3>2, <3>3, <3>5, <3>6
    <3>8. nextRound' \in [Honest -> 0 .. MaxRound + 1]
          /\ checkpoint' \in [Honest -> 0 .. MaxRound + 1]
      BY <3>2, <3>3, <3>5, <3>6
    <3> QED
      BY <3>1, <3>4, <3>6, <3>7, <3>8
  <2>2. ASSUME NEW v \in Honest, NEW x \in proposals, ReceiveProposal(v, x) PROVE TypeOK'
    BY <2>2, SMTT(60) DEF ReceiveProposal
  <2>3. ASSUME NEW v \in Honest, NEW x \in proposals, ReceiveBatch(v, x) PROVE TypeOK'
    BY <2>3 DEF ReceiveBatch, TryCastAvailableVotes
  <2>4. ASSUME NEW v \in Honest, NEW w \in Validators, ReceiveVote(v, w) PROVE TypeOK'
    <3>1. pending[v] \in Vertex
      BY <2>4 DEF ReceiveVote
    <3> QED
      BY <2>4, <3>1 DEF ReceiveVote
  <2>5. ASSUME NEW v \in Honest, NEW x \in certified, ReceiveCertificate(v, x) PROVE TypeOK'
    BY <2>5 DEF ReceiveCertificate
  <2>6. ASSUME NEW v \in Honest, Tick(v) PROVE TypeOK'
    BY <2>6 DEF Tick, TryCastAvailableVotes
  <2>7. ASSUME NEW v \in Honest, Prune(v) PROVE TypeOK'
    <3>1. \A y \in Vertex : Slot(y) \in Rounds \X Validators
      BY DEF Slot, Vertex
    <3> QED
      BY <2>7, <3>1 DEF Prune
  <2>8. ASSUME NEW v \in Honest, Restart(v) PROVE TypeOK'
    <3>1. \A y \in Vertex : Slot(y) \in Rounds \X Validators
      BY DEF Slot, Vertex
    <3> QED
      BY <2>8, <3>1 DEF Restart
  <2>9. ASSUME NEW x \in Vertex, ByzPropose(x) PROVE TypeOK'
    BY <2>9 DEF ByzPropose, local
  <2>10. ASSUME NEW x \in proposals, ByzCertify(x) PROVE TypeOK'
    BY <2>10 DEF ByzCertify, local
  <2>11. CASE UNCHANGED vars
    BY <2>11 DEF vars, local
  <2> HIDE DEF TypeOK
  <2> QED
    BY <2>1, <2>2, <2>3, <2>4, <2>5, <2>6, <2>7, <2>8, <2>9, <2>10, <2>11 DEF Next
<1> QED
  BY <1>1, <1>2, PTL DEF Spec

----------------------------------------------------------------------------
\* One lock per slot, and an own lock only on a round already entered.
LocksOK ==
    \A v \in Honest :
      /\ \A x, y \in votedFor[v] : Slot(x) = Slot(y) => x = y
      /\ \A x \in votedFor[v] : x.author = v => x.round < nextRound[v]

\* v still holds its lock on x, or has lost the lock of that slot.
LockedOrForgotten(v, x) == x \in votedFor[v] \/ Slot(x) \in forgot[v]

\* Every vote, cast or deferred, is backed by the lock unless it was lost, and
\* every vote cast was cast by a holder of the batches.
VotesOK ==
    \A v \in Honest : \A x \in Vertex :
      /\ <<v, x>> \in votes => LockedOrForgotten(v, x) /\ Available(v, x)
      /\ x \in deferred[v] => LockedOrForgotten(v, x)

\* What an author has collected are votes for its pending vertex, and every
\* certificate is backed by a quorum of votes.
CertsOK ==
    /\ \A v \in Honest : IF pending[v] = NoVertex
                         THEN collected[v] = {}
                         ELSE collected[v] \subseteq Signers(pending[v])
    /\ \A x \in certified : IsQuorum(x.round, Signers(x))

VotingInv == TypeOK /\ LocksOK /\ VotesOK /\ CertsOK

\* Votes are never withdrawn, so neither are signers.
LEMMA SignersGrow ==
    ASSUME NEW x, votes \subseteq votes'
    PROVE  Signers(x) \subseteq Signers(x)'
BY DEF Signers

\* Certificates stay backed in a step that adds none and withdraws no vote.
LEMMA CertsStay ==
    ASSUME votes \subseteq votes', CertsOK,
           UNCHANGED <<certified, pending, collected>>
    PROVE  CertsOK'
<1>1. \A x \in certified : IsQuorum(x.round, Signers(x)')
  BY SignersGrow, QuorumMonotone DEF CertsOK
<1>2. \A v \in Honest : pending[v] # NoVertex => collected[v] \subseteq Signers(pending[v])'
  BY SignersGrow DEF CertsOK
<1> QED
  BY <1>1, <1>2 DEF CertsOK, Signers

\* The slot of a vertex is a pair: vertices of different rounds or of different
\* authors have different slots.
LEMMA SlotsDiffer ==
    ASSUME NEW x, NEW y, Slot(x) = Slot(y)
    PROVE  x.round = y.round /\ x.author = y.author
BY DEF Slot

\* VotingInv holds in every reachable state: the voting lock is taken before
\* every vote and only a restart or a prune takes it away.
THEOREM VotingInvariant == Spec => []VotingInv
<1>1. Init => VotingInv
  <2> SUFFICES ASSUME Init PROVE LocksOK /\ VotesOK /\ CertsOK /\ TypeOK
    BY DEF VotingInv
  <2>1. LocksOK /\ VotesOK /\ CertsOK
    BY DEF Init, LocksOK, VotesOK, CertsOK
  <2>2. TypeOK
    BY BoundsAreNatural, ByzAreValidators
       DEF Init, TypeOK, Rounds, Vertex, NoVertex, Honest
  <2> QED
    BY <2>1, <2>2
<1>2. VotingInv /\ TypeOK' /\ [Next]_vars => VotingInv'
  <2> SUFFICES ASSUME TypeOK, LocksOK, VotesOK, CertsOK, [Next]_vars
               PROVE  LocksOK' /\ VotesOK' /\ CertsOK'
    BY DEF VotingInv
  <2>t. /\ nextRound \in [Honest -> 0 .. MaxRound + 1]
        /\ checkpoint \in [Honest -> 0 .. MaxRound + 1] /\ restarts \in [Honest -> Ids]
        /\ pending \in [Honest -> Vertex \cup {NoVertex}]
        /\ collected \in [Honest -> SUBSET Validators]
        /\ votedFor \in [Honest -> SUBSET Vertex]
        /\ deferred \in [Honest -> SUBSET Vertex]
        /\ batches \in [Honest -> SUBSET Vertex]
        /\ forgot \in [Honest -> SUBSET (Rounds \X Validators)]
        /\ proposals \subseteq Vertex /\ certified \subseteq Vertex
        /\ \A v \in Honest : checkpoint[v] <= nextRound[v]
    BY DEF TypeOK, Ids
  <2> DEFINE Goal == LocksOK' /\ VotesOK' /\ CertsOK'
  <2>1. ASSUME NEW v \in Honest, Propose(v) PROVE Goal
    <3> DEFINE x == [round |-> nextRound[v], author |-> v, id |-> restarts[v]]
    <3>1. x \in Vertex /\ nextRound[v] \in Int
      BY <2>1, BoundsAreNatural, SMTT(60), <2>t DEF Propose, Vertex, Rounds, Ids, Honest
    <3>2. /\ pending[v] = NoVertex
          /\ nextRound' = [nextRound EXCEPT ![v] = nextRound[v] + 1]
          /\ pending' = [pending EXCEPT ![v] = x]
          /\ votedFor' = [votedFor EXCEPT ![v] = {y \in @ : Slot(y) # Slot(x)} \cup {x}]
          /\ batches' = [batches EXCEPT ![v] = @ \cup {y \in {x} : y.id # 0}]
          /\ votes' = votes \cup {<<v, x>>}
          /\ UNCHANGED <<collected, deferred, certified, forgot>>
      BY <2>1 DEF Propose
    <3>3. x.author = v /\ x.round = nextRound[v] /\ x # NoVertex
      BY NobodyIsNoValidator DEF NoVertex, Honest
    <3> HIDE DEF x
    <3>4. \A y \in votedFor[v] : Slot(y) # Slot(x)
      BY <3>1, <3>3, SlotsDiffer DEF LocksOK
    <3>5. votedFor'[v] = votedFor[v] \cup {x}
      BY <3>2, <3>4, SMTT(60), <2>t
    <3>6. LocksOK'
      <4>1. \A w \in Honest : w # v => votedFor'[w] = votedFor[w] /\ nextRound'[w] = nextRound[w]
        BY <3>2, <2>t
      <4>2. nextRound'[v] = nextRound[v] + 1
        BY <3>2, <2>t
      <4>3. \A y \in votedFor[v] : y.round \in Int
        BY <2>t DEF Vertex, Rounds
      <4> QED
        BY <3>1, <3>3, <3>4, <3>5, <4>1, <4>2, <4>3, SMTT(60) DEF LocksOK
    <3>7. VotesOK'
      <4>1. \A w \in Honest : votedFor[w] \subseteq votedFor'[w] /\ batches[w] \subseteq batches'[w]
        BY <3>2, <3>5, <2>t
      <4>2. x.id = 0 \/ x \in batches'[v]
        BY <3>2, <2>t
      <4> QED
        BY <3>2, <3>5, <4>1, <4>2, Zenon DEF VotesOK, LockedOrForgotten, Available
    <3>8. CertsOK'
      <4>1. votes \subseteq votes'
        BY <3>2
      <4>2. \A y \in certified : IsQuorum(y.round, Signers(y)')
        BY <4>1, SignersGrow, QuorumMonotone, SMTT(60) DEF CertsOK
      <4>3. \A w \in Honest : w # v => pending'[w] = pending[w]
        BY <3>2, SMTT(60), <2>t
      <4>4. pending'[v] = x /\ collected[v] = {}
        BY <3>2, <2>t DEF CertsOK
      <4>5. ASSUME NEW w \in Honest, w # v, pending[w] # NoVertex
            PROVE  (collected[w] \subseteq Signers(pending[w]))'
        BY <3>2, <4>1, <4>3, <4>5 DEF CertsOK, Signers
      <4> QED
        BY <3>2, <3>3, <4>2, <4>3, <4>4, <4>5 DEF CertsOK
    <3> QED
      BY <3>6, <3>7, <3>8, Zenon
  <2>2. ASSUME NEW v \in Honest, NEW x \in proposals, ReceiveProposal(v, x) PROVE Goal
    <3>1. /\ x \in Vertex /\ x.author # v
          /\ votedFor' = [votedFor EXCEPT ![v] = @ \cup {x}]
          /\ UNCHANGED <<nextRound, pending, collected, batches, certified, forgot>>
          /\ \/ votes' = votes \cup {<<v, x>>} /\ Available(v, x) /\ UNCHANGED deferred
             \/ votes' = votes /\ deferred' = [deferred EXCEPT ![v] = @ \cup {x}]
      BY <2>2, <2>t DEF ReceiveProposal
    <3>2. \A y \in votedFor[v] : Slot(y) = Slot(x) => y = x
      BY <2>2 DEF ReceiveProposal, Rivals
    <3>3. LocksOK'
      BY <3>1, <3>2, <2>t DEF LocksOK
    <3>4. VotesOK'
      <4>1. \A w \in Honest : votedFor[w] \subseteq votedFor'[w] /\ x \in votedFor'[v]
        BY <3>1, <2>t
      <4>2. \A w \in Honest : deferred'[w] \subseteq deferred[w] \cup (IF w = v THEN {x} ELSE {})
        BY <3>1, SMTT(60), <2>t
      <4>3. votes' \subseteq votes \cup {<<v, x>>} /\ (<<v, x>> \in votes' => Available(v, x) \/ <<v, x>> \in votes)
        BY <3>1
      <4> QED
        BY <3>1, <4>1, <4>2, <4>3, Zenon DEF VotesOK, LockedOrForgotten, Available
    <3>5. CertsOK'
      BY <3>1, CertsStay
    <3> QED
      BY <3>3, <3>4, <3>5, Zenon
  <2>3. ASSUME NEW v \in Honest, NEW held, held \subseteq batches'[v],
               TryCastAvailableVotes(v, held),
               \A w \in Honest : batches[w] \subseteq batches'[w],
               UNCHANGED <<nextRound, votedFor, pending, collected, certified, forgot>>
        PROVE Goal
    <3>1. LocksOK'
      BY <2>3 DEF LocksOK
    <3>2. VotesOK'
      <4>1. \A w \in Honest : deferred'[w] \subseteq deferred[w]
        BY <2>3, <2>t DEF TryCastAvailableVotes
      <4>2. votes' = votes \cup ({v} \X (deferred[v] \cap held))
        BY <2>3 DEF TryCastAvailableVotes
      <4>3. \A w \in Honest : \A x \in Vertex :
              LockedOrForgotten(w, x) => LockedOrForgotten(w, x)'
        BY <2>3 DEF LockedOrForgotten
      <4>4. \A w \in Honest : \A x \in Vertex : Available(w, x) => Available(w, x)'
        BY <2>3 DEF Available
      <4>5. \A w \in Honest : \A x \in Vertex :
              <<w, x>> \in votes' =>
                <<w, x>> \in votes \/ (x \in deferred[w] /\ x \in batches'[w])
        BY <2>3, <4>2
      <4>6. \A w \in Honest : \A x \in Vertex : x \in batches'[w] => Available(w, x)'
        BY DEF Available
      <4> QED
        BY <4>1, <4>3, <4>4, <4>5, <4>6, Zenon DEF VotesOK
    <3>3. CertsOK'
      BY <2>3, CertsStay DEF TryCastAvailableVotes
    <3> QED
      BY <3>1, <3>2, <3>3
  <2>4. ASSUME NEW v \in Honest, NEW x \in proposals, ReceiveBatch(v, x) PROVE Goal
    <3>1. batches'[v] = batches[v] \cup {x} /\ \A w \in Honest : batches[w] \subseteq batches'[w]
      BY <2>4, <2>t DEF ReceiveBatch
    <3> QED
      BY <2>3, <2>4, <3>1 DEF ReceiveBatch
  <2>5. ASSUME NEW v \in Honest, Tick(v) PROVE Goal
    BY <2>3, <2>5 DEF Tick
  <2>6. ASSUME NEW v \in Honest, NEW w \in Validators, ReceiveVote(v, w) PROVE Goal
    <3> DEFINE x == pending[v]
    <3>1. /\ x \in Vertex /\ x # NoVertex
          /\ w \in Signers(x)
          /\ UNCHANGED <<nextRound, votedFor, deferred, batches, votes, forgot>>
      BY SMTT(60), <2>6, <2>t DEF ReceiveVote
    <3>2. LocksOK' /\ VotesOK'
      BY <3>1 DEF LocksOK, VotesOK, LockedOrForgotten, Available
    <3>3. \A y : Signers(y)' = Signers(y)
      BY <3>1 DEF Signers
    <3>4. collected[v] \cup {w} \subseteq Signers(x)
      BY <3>1, SMTT(60) DEF CertsOK
    <3>5. CASE IsQuorum(x.round, collected[v] \cup {w})
      <4>1. /\ pending' = [pending EXCEPT ![v] = NoVertex]
            /\ collected' = [collected EXCEPT ![v] = {}]
            /\ certified' = certified \cup {x}
        BY <2>6, <3>5 DEF ReceiveVote
      <4>2. IsQuorum(x.round, Signers(x))
        BY <3>4, <3>5, QuorumMonotone, SMTT(60)
      <4> QED
        BY <3>2, <3>3, <4>1, <4>2, <2>t DEF CertsOK
    <3>6. CASE ~IsQuorum(x.round, collected[v] \cup {w})
      <4>1. /\ UNCHANGED <<pending, certified>>
            /\ collected' = [collected EXCEPT ![v] = collected[v] \cup {w}]
        BY SMTT(60), <2>6, <3>6 DEF ReceiveVote
      <4> QED
        BY <3>1, <3>2, <3>3, <3>4, <4>1, <2>t DEF CertsOK
    <3> QED
      BY <3>5, <3>6, Zenon
  <2>7. ASSUME NEW v \in Honest, NEW x \in certified, ReceiveCertificate(v, x) PROVE Goal
    BY <2>7, CertsStay DEF ReceiveCertificate, LocksOK, VotesOK, LockedOrForgotten, Available
  <2>8. ASSUME NEW v \in Honest, Prune(v) PROVE Goal
    <3>1. PICK old \in SUBSET votedFor[v] :
             /\ votedFor' = [votedFor EXCEPT ![v] = @ \ old]
             /\ forgot' = [forgot EXCEPT ![v] = @ \cup {Slot(x) : x \in old}]
      BY <2>8, Zenon DEF Prune
    <3>2. \A w \in Honest : votedFor'[w] \subseteq votedFor[w] /\ deferred'[w] \subseteq deferred[w]
      BY <2>8, <3>1, SMTT(60), <2>t DEF Prune
    <3>3. UNCHANGED <<nextRound, pending, collected, batches, votes, certified>>
      BY <2>8 DEF Prune
    <3>4. LocksOK'
      BY <3>2, <3>3, SMTT(60) DEF LocksOK
    <3>5. \A w \in Honest : \A x \in Vertex : LockedOrForgotten(w, x) => LockedOrForgotten(w, x)'
      BY SMTT(60), <3>1, <2>t DEF LockedOrForgotten
    <3>6. VotesOK'
      BY <3>2, <3>3, <3>5, ZenonT(60) DEF VotesOK, Available
    <3> QED
      BY <3>3, <3>4, <3>6, CertsStay
  <2>9. ASSUME NEW v \in Honest, Restart(v) PROVE Goal
    <3>1. /\ votedFor' = [votedFor EXCEPT ![v] = {}]
          /\ deferred' = [deferred EXCEPT ![v] = {}]
          /\ forgot' = [forgot EXCEPT ![v] = @ \cup {Slot(x) : x \in votedFor[v]}]
          /\ pending' = [pending EXCEPT ![v] = NoVertex]
          /\ collected' = [collected EXCEPT ![v] = {}]
          /\ nextRound' = [nextRound EXCEPT ![v] = checkpoint[v]]
          /\ UNCHANGED <<batches, votes, certified>>
      BY <2>9, SMTT(60) DEF Restart
    <3>2. LocksOK'
      BY <3>1, SMTT(60), <2>t DEF LocksOK
    <3>3. \A w \in Honest : \A x \in Vertex : LockedOrForgotten(w, x) => LockedOrForgotten(w, x)'
      BY <3>1, SMTT(60), <2>t DEF LockedOrForgotten
    <3>4. VotesOK'
      <4>1. \A w \in Honest : deferred'[w] \subseteq deferred[w]
        BY <3>1, SMTT(60), <2>t
      <4>2. \A w \in Honest : \A x \in Vertex : Available(w, x) => Available(w, x)'
        BY <3>1 DEF Available
      <4>3. votes' = votes
        BY <3>1
      <4> QED
        BY <3>3, <4>1, <4>2, <4>3, Zenon DEF VotesOK
    <3>5. \A y : Signers(y)' = Signers(y)
      BY <3>1, SMTT(60) DEF Signers
    <3>6. CertsOK'
      BY <3>1, <3>5, SMTT(60), <2>t DEF CertsOK
    <3> QED
      BY <3>2, <3>4, <3>6
  <2>10. ASSUME NEW x \in Vertex, ByzPropose(x) PROVE Goal
    BY <2>10, CertsStay, Zenon DEF ByzPropose, local, LocksOK, VotesOK, LockedOrForgotten, Available
  <2>11. ASSUME NEW x \in proposals, ByzCertify(x) PROVE Goal
    <3>1. LocksOK' /\ VotesOK'
      BY <2>11 DEF ByzCertify, local, LocksOK, VotesOK, LockedOrForgotten, Available
    <3>2. \A y : Signers(y)' = Signers(y)
      BY <2>11, SMTT(60) DEF ByzCertify, Signers
    <3>3. CertsOK'
      BY <2>11, <3>2, SMTT(60) DEF ByzCertify, local, CertsOK
    <3> QED
      BY <3>1, <3>3, Zenon
  <2>12. CASE UNCHANGED vars
    BY <2>12, CertsStay DEF vars, local, LocksOK, VotesOK, LockedOrForgotten, Available
  <2> QED
    BY <2>1, <2>2, <2>4, <2>5, <2>6, <2>7, <2>8, <2>9, <2>10, <2>11, <2>12 DEF Next
<1> QED
  BY <1>1, <1>2, TypeCorrect, PTL DEF Spec

\* Two certificates for one slot need more than a third of the stake to be
\* Byzantine or to have lost the `voted_for` lock of that slot: with the locks
\* kept, a Byzantine minority cannot certify two vertices.
THEOREM EquivocationNeedsFaultyThirdAlways == Spec => []EquivocationNeedsFaultyThird
<1>1. VotingInv => EquivocationNeedsFaultyThird
  <2> SUFFICES ASSUME VotingInv, NEW x \in certified, NEW y \in certified,
                      x # y, Slot(x) = Slot(y)
               PROVE  3 * StakeOf(x.round, Unlocked(Slot(x))) > TotalStake(x.round)
    BY DEF EquivocationNeedsFaultyThird
  <2>1. x \in Vertex /\ y \in Vertex /\ x.round = y.round
    BY SlotsDiffer DEF VotingInv, TypeOK
  <2>2. Signers(x) \subseteq Validators /\ Signers(y) \subseteq Validators
    BY SMTT(60), ByzAreValidators DEF Signers, Honest
  <2>3. IsQuorum(x.round, Signers(x)) /\ IsQuorum(x.round, Signers(y))
    BY <2>1 DEF VotingInv, CertsOK
  <2>4. 3 * StakeOf(x.round, Signers(x) \cap Signers(y)) > TotalStake(x.round)
    BY <2>2, <2>3, QuorumsIntersect
  <2>5. Signers(x) \cap Signers(y) \subseteq Unlocked(Slot(x))
    <3> SUFFICES ASSUME NEW v \in Honest, <<v, x>> \in votes, <<v, y>> \in votes
                 PROVE  Slot(x) \in forgot[v]
      BY DEF Signers, Unlocked
    <3> QED
      BY <2>1 DEF VotingInv, VotesOK, LocksOK, LockedOrForgotten
  <2>6. /\ StakeOf(x.round, Signers(x) \cap Signers(y)) \in Nat
        /\ StakeOf(x.round, Unlocked(Slot(x))) \in Nat
        /\ StakeOf(x.round, Signers(x) \cap Signers(y)) <= StakeOf(x.round, Unlocked(Slot(x)))
    BY <2>5, StakeMonotone
  <2>7. TotalStake(x.round) \in Nat
    BY StakeMonotone DEF TotalStake
  <2> QED
    BY <2>4, <2>6, <2>7
<1> QED
  BY <1>1, VotingInvariant, PTL

\* Data availability: the holders of a certified vertex's batches, with the
\* Byzantine validators, are a quorum of its round.
THEOREM CertifiedIsAvailableAlways == Spec => []CertifiedIsAvailable
<1>1. VotingInv => CertifiedIsAvailable
  <2> SUFFICES ASSUME VotingInv, NEW x \in certified
               PROVE  IsQuorum(x.round, Byz \cup {v \in Honest : Available(v, x)})
    BY DEF CertifiedIsAvailable
  <2>1. x \in Vertex /\ IsQuorum(x.round, Signers(x))
    BY DEF VotingInv, TypeOK, CertsOK
  <2>2. Signers(x) \subseteq Byz \cup {v \in Honest : Available(v, x)}
    BY <2>1 DEF Signers, VotingInv, VotesOK
  <2> QED
    BY <2>1, <2>2, QuorumMonotone
<1> QED
  BY <1>1, VotingInvariant, PTL

----------------------------------------------------------------------------
\* With the atomic store the durable next_round is the one in memory, and
\* every own vertex ever signed is of an earlier round.
SignedBelow ==
    AtomicStore =>
      /\ \A v \in Honest : checkpoint[v] = nextRound[v]
      /\ \A x \in proposals : x.author \in Honest => x.round < nextRound[x.author]

\* An honest validator with the atomic store never signs two vertices for one
\* round, whatever the crashes: next_round is durable before the vertex leaves.
THEOREM NoSelfEquivocationAlways == Spec => []NoSelfEquivocation
<1> DEFINE Inv == TypeOK /\ SignedBelow /\ NoSelfEquivocation
<1>1. Init => SignedBelow /\ NoSelfEquivocation
  BY DEF Init, SignedBelow, NoSelfEquivocation
<1>2. Inv /\ TypeOK' /\ [Next]_vars => Inv'
  <2> SUFFICES ASSUME TypeOK, TypeOK', SignedBelow, NoSelfEquivocation, [Next]_vars
               PROVE  SignedBelow' /\ NoSelfEquivocation'
    OBVIOUS
  <2>1. ASSUME NEW v \in Honest, Propose(v) PROVE SignedBelow' /\ NoSelfEquivocation'
    <3> DEFINE x == [round |-> nextRound[v], author |-> v, id |-> restarts[v]]
    <3> SUFFICES ASSUME AtomicStore PROVE SignedBelow' /\ NoSelfEquivocation'
      BY SMTT(60) DEF SignedBelow, NoSelfEquivocation
    <3>1. /\ nextRound' = [nextRound EXCEPT ![v] = nextRound[v] + 1]
          /\ checkpoint' = [checkpoint EXCEPT ![v] = nextRound[v] + 1]
          /\ proposals' = proposals \cup {x}
      BY <2>1, Zenon DEF Propose, Persisted
    <3>2. x.author = v /\ x.round = nextRound[v] /\ nextRound[v] \in Int
      BY SMTT(60) DEF TypeOK
    <3> HIDE DEF x
    <3>3. \A y \in proposals : y.round \in Int
      BY SMTT(60) DEF TypeOK, Vertex, Rounds
    <3>4. SignedBelow'
      BY <3>1, <3>2, <3>3, SMTT(60) DEF SignedBelow, TypeOK
    <3>5. \A y \in proposals : Slot(y) # Slot(x)
      BY <3>2, <3>3, SlotsDiffer DEF SignedBelow
    <3>6. NoSelfEquivocation'
      BY SMTT(60), <3>1, <3>5 DEF NoSelfEquivocation
    <3> QED
      BY <3>4, <3>6, Zenon
  <2>2. ASSUME NEW v \in Honest, Restart(v) PROVE SignedBelow' /\ NoSelfEquivocation'
    BY <2>2, SMTT(60) DEF Restart, SignedBelow, NoSelfEquivocation, TypeOK
  <2>3. ASSUME NEW x \in Vertex, ByzPropose(x) PROVE SignedBelow' /\ NoSelfEquivocation'
    <3>1. x.author \notin Honest /\ proposals' = proposals \cup {x}
          /\ UNCHANGED <<nextRound, checkpoint>>
      BY <2>3 DEF ByzPropose, Honest, local
    <3>2. \A y \in proposals : y.author \in Honest => Slot(y) # Slot(x)
      BY <3>1, SlotsDiffer
    <3> QED
      BY <3>1, <3>2 DEF SignedBelow, NoSelfEquivocation
  <2>4. CASE UNCHANGED <<nextRound, checkpoint, proposals>>
    BY SMTT(60), <2>4 DEF SignedBelow, NoSelfEquivocation
  <2>5. ASSUME NEW v \in Honest,
               \/ \E x \in proposals : ReceiveProposal(v, x) \/ ReceiveBatch(v, x)
               \/ \E w \in Validators : ReceiveVote(v, w)
               \/ \E x \in certified : ReceiveCertificate(v, x)
               \/ Tick(v) \/ Prune(v)
        PROVE  UNCHANGED <<nextRound, checkpoint, proposals>>
    BY <2>5, Zenon DEF ReceiveProposal, ReceiveBatch, ReceiveVote, ReceiveCertificate, Tick, Prune
  <2>6. ASSUME NEW x \in proposals, ByzCertify(x)
        PROVE  UNCHANGED <<nextRound, checkpoint, proposals>>
    BY <2>6 DEF ByzCertify, local
  <2>7. CASE UNCHANGED vars
    BY SMTT(60), <2>4, <2>7 DEF vars, local
  <2> QED
    BY <2>1, <2>2, <2>3, <2>4, <2>5, <2>6, <2>7 DEF Next
<1> QED
  BY <1>1, <1>2, TypeCorrect, PTL DEF Spec

----------------------------------------------------------------------------
\* Nothing enters a validator's DAG that is not certified.
DagsCertified == \A v \in Honest : dag[v] \subseteq certified

\* Round r may be entered by v as far as the certificates in existence go.
Backed(v, r) ==
    \/ IsQuorum(r - 1, {v})
    \/ IsQuorum(r - 1, {x.author : x \in InRound(certified, r - 1)})

\* More certificates keep a round backed.
LEMMA BackedStays ==
    ASSUME NEW v, NEW r, certified \subseteq certified', Backed(v, r)
    PROVE  Backed(v, r)'
<1>1. {x.author : x \in InRound(certified, r - 1)}
        \subseteq {x.author : x \in InRound(certified', r - 1)}
  BY SMTT(60) DEF InRound
<1> QED
  BY <1>1, QuorumMonotone, SMTT(60) DEF Backed

\* No validator enters a round whose predecessor is not certified by a quorum
\* (or dominated by its own stake), across restarts and with any Byzantine set.
THEOREM RoundsAreBackedAlways == Spec => []RoundsAreBacked
<1> DEFINE Inv == TypeOK /\ DagsCertified /\ RoundsAreBacked
<1>1. Init => DagsCertified /\ RoundsAreBacked
  <2> SUFFICES ASSUME Init PROVE DagsCertified /\ RoundsAreBacked
    OBVIOUS
  <2>1. DagsCertified
    BY DEF Init, DagsCertified
  <2>2. \A v \in Honest : \A r \in Rounds \ {0} : ~(nextRound[v] > r)
    BY BoundsAreNatural, SMTT(60) DEF Init, Rounds
  <2> QED
    BY <2>1, <2>2 DEF RoundsAreBacked
<1>2. Inv /\ TypeOK' /\ [Next]_vars => Inv'
  <2> SUFFICES ASSUME TypeOK, TypeOK', DagsCertified, RoundsAreBacked, [Next]_vars
               PROVE  DagsCertified' /\ RoundsAreBacked'
    OBVIOUS
  <2>1. \A v \in Honest : \A r \in Rounds \ {0} : nextRound[v] > r => Backed(v, r)
    BY DEF RoundsAreBacked, Backed
  <2>2. SUFFICES /\ certified \subseteq certified' /\ DagsCertified'
                 /\ \A v \in Honest : \A r \in Rounds \ {0} :
                      nextRound'[v] > r => Backed(v, r)
    BY BackedStays, Zenon DEF RoundsAreBacked, Backed
  <2>3. ASSUME NEW v \in Honest, Propose(v)
        PROVE  /\ UNCHANGED <<certified, dag>>
               /\ \A w \in Honest : \A r \in Rounds \ {0} : nextRound'[w] > r => Backed(w, r)
    <3>1. /\ nextRound' = [nextRound EXCEPT ![v] = nextRound[v] + 1]
          /\ MayPropose(v, nextRound[v])
          /\ UNCHANGED <<certified, dag>>
      BY <2>3, ZenonT(60) DEF Propose
    <3>2. ASSUME NEW r \in Rounds \ {0}, r = nextRound[v] PROVE Backed(v, r)
      <4>1. r > 0
        BY BoundsAreNatural DEF Rounds
      <4>2. {x.author : x \in InRound(dag[v], r - 1)}
              \subseteq {x.author : x \in InRound(certified, r - 1)}
        BY DEF InRound, DagsCertified
      <4> QED
        BY <3>1, <3>2, <4>1, <4>2, QuorumMonotone DEF MayPropose, Backed
    <3>3. ASSUME NEW w \in Honest, NEW r \in Rounds \ {0}, nextRound'[w] > r
          PROVE  Backed(w, r)
      <4>1. r \in Int /\ nextRound[w] \in Int
        BY BoundsAreNatural, SMTT(60) DEF Rounds, TypeOK
      <4>2. nextRound[w] > r \/ (w = v /\ nextRound[v] = r)
        BY <3>1, <3>3, <4>1, SMTT(60) DEF TypeOK
      <4> QED
        BY <2>1, <3>2, <4>2, SMTT(60)
    <3> QED
      BY <3>1, <3>3, Zenon
  <2>4. ASSUME NEW v \in Honest, Restart(v)
        PROVE  /\ UNCHANGED <<certified, dag>>
               /\ \A w \in Honest : \A r \in Rounds \ {0} : nextRound'[w] > r => Backed(w, r)
    <3>1. /\ nextRound' = [nextRound EXCEPT ![v] = checkpoint[v]]
          /\ UNCHANGED <<certified, dag>>
      BY <2>4, SMTT(60) DEF Restart
    <3>2. \A w \in Honest : nextRound'[w] <= nextRound[w] /\ nextRound'[w] \in Int /\ nextRound[w] \in Int
      BY <3>1, BoundsAreNatural DEF TypeOK
    <3>3. \A r \in Rounds : r \in Int
      BY SMTT(60) DEF Rounds
    <3>4. \A w \in Honest : \A r \in Rounds \ {0} : nextRound'[w] > r => nextRound[w] > r
      BY <3>2, <3>3, SMTT(60)
    <3> QED
      BY <2>1, <3>1, <3>4, SMTT(60)
  <2>5. ASSUME NEW v \in Honest, NEW w \in Validators, ReceiveVote(v, w)
        PROVE  certified \subseteq certified' /\ DagsCertified' /\ UNCHANGED nextRound
    BY <2>5, SMTT(60) DEF ReceiveVote, DagsCertified, TypeOK
  <2>6. ASSUME NEW v \in Honest, NEW x \in certified, ReceiveCertificate(v, x)
        PROVE  certified \subseteq certified' /\ DagsCertified' /\ UNCHANGED nextRound
    BY SMTT(60), <2>6 DEF ReceiveCertificate, DagsCertified, TypeOK
  <2>7. ASSUME NEW v \in Honest,
               \/ \E x \in proposals : ReceiveProposal(v, x) \/ ReceiveBatch(v, x)
               \/ Tick(v) \/ Prune(v)
        PROVE  UNCHANGED <<certified, dag, nextRound>>
    BY <2>7, Zenon DEF ReceiveProposal, ReceiveBatch, Tick, Prune
  <2>8. ASSUME NEW x \in Vertex, ByzPropose(x)
        PROVE  UNCHANGED <<certified, dag, nextRound>>
    BY <2>8 DEF ByzPropose, local
  <2>9. ASSUME NEW x \in proposals, ByzCertify(x)
        PROVE  certified \subseteq certified' /\ DagsCertified' /\ UNCHANGED nextRound
    BY <2>9, Zenon DEF ByzCertify, local, DagsCertified
  <2>10. CASE UNCHANGED <<certified, dag, nextRound>>
    BY <2>1, <2>10 DEF DagsCertified
  <2>11. CASE UNCHANGED vars
    BY <2>10, <2>11 DEF vars, local
  <2>12. CASE certified \subseteq certified' /\ DagsCertified' /\ UNCHANGED nextRound
    BY <2>1, <2>12
  <2>13. CASE /\ UNCHANGED <<certified, dag>>
              /\ \A w \in Honest : \A r \in Rounds \ {0} : nextRound'[w] > r => Backed(w, r)
    BY <2>13 DEF DagsCertified
  <2> QED
    BY SMTT(60), <2>3, <2>4, <2>5, <2>6, <2>7, <2>8, <2>9, <2>10, <2>11, <2>12, <2>13 DEF Next
<1> QED
  BY <1>1, <1>2, TypeCorrect, PTL DEF Spec

=============================================================================
