-------------------------- MODULE OrderingProofs --------------------------
(***************************************************************************)
(* The order one validator derives is sound, for any stakes, any committees  *)
(* (rotating or not), any networks' DAGs, any arrival order, and any         *)
(* pruning, restart and loss.  A pass keeps what the walks it makes keep and *)
(* caches only final verdicts; every step of Ordering keeps OrderInv.        *)
(***************************************************************************)
EXTENDS Ordering, BullsharkProofs

----------------------------------------------------------------------------
\* A pass of the commit rule.

Caches(n) == UNION {[D -> n] : D \in SUBSET Nat}

PassStates(n) == [round : Nat, ordered : Seq(n), seen : SUBSET n,
                  cache : Caches(n), going : BOOLEAN]

\* A cached leader is its round's, at or above the barrier, and final.
SoundCache(n, gcFloor, cache) ==
    \A r \in DOMAIN cache : /\ r >= gcFloor /\ Round[cache[r]] = r
                            /\ Final(n, r, cache[r])

\* What a pass keeps.
SoundPass(n, gcFloor, seen, st) ==
    /\ st \in PassStates(n) /\ st.round >= gcFloor
    /\ SoundOrder(n, gcFloor, seen, st.ordered)
    /\ st.seen = seen \cup Range(st.ordered)
    /\ SoundCache(n, gcFloor, st.cache)

\* Caching the leader of the pass's round.
LEMMA CachedIsSound ==
    ASSUME NEW n, NEW gcFloor \in Nat, NEW seen, NEW st, SoundPass(n, gcFloor, seen, st),
           NEW l \in n, Round[l] = st.round, Final(n, st.round, l)
    PROVE  /\ SoundPass(n, gcFloor, seen, Cached(st, l))
           /\ Cached(st, l).round = st.round /\ Cached(st, l).seen = st.seen
           /\ Cached(st, l).ordered = st.ordered
<1> DEFINE cache == [q \in DOMAIN st.cache \cup {st.round} |->
                        IF q = st.round THEN l ELSE st.cache[q]]
<1>1. st \in PassStates(n) /\ st.round \in Nat /\ st.round >= gcFloor
  BY DEF SoundPass, PassStates
<1>2. PICK D \in SUBSET Nat : st.cache \in [D -> n]
  BY <1>1 DEF PassStates, Caches
<1>3. cache \in [D \cup {st.round} -> n]
  BY <1>2, Zenon
<1>4. D \cup {st.round} \in SUBSET Nat
  BY <1>1, Zenon
<1>5. cache \in Caches(n)
  <2> HIDE DEF cache
  <2> QED BY <1>3, <1>4 DEF Caches
<1>6. SoundCache(n, gcFloor, cache)
  BY <1>1 DEF SoundPass, SoundCache
<1> HIDE DEF cache
<1>7. Cached(st, l) = [st EXCEPT !.cache = cache]
  BY DEF Cached, cache
<1>8. Cached(st, l) \in PassStates(n)
  BY <1>1, <1>5, <1>7 DEF PassStates
<1>9. /\ Cached(st, l).cache = cache /\ Cached(st, l).round = st.round
      /\ Cached(st, l).ordered = st.ordered /\ Cached(st, l).seen = st.seen
  BY <1>1, <1>7 DEF PassStates
<1> QED
  BY <1>1, <1>6, <1>8, <1>9 DEF SoundPass

\* Emitting a committed leader's history.
LEMMA EmitIsSound ==
    ASSUME NEW n, Closed(n), NEW d \in SUBSET n, NEW gcFloor \in Nat, NEW seen \in SUBSET n,
           NEW st, SoundPass(n, gcFloor, seen, st),
           NEW l \in n, Round[l] >= gcFloor
    PROVE  SoundPass(n, gcFloor, seen, Emit(st, WalkCausalHistory(d, gcFloor, l, st.seen)))
<1> DEFINE walk == WalkCausalHistory(d, gcFloor, l, st.seen)
           w == Walk(d, gcFloor, l, st.seen)
           next == Emit(st, walk)
<1>1. st \in PassStates(n) /\ st.round \in Nat /\ st.round >= gcFloor
      /\ st.ordered \in Seq(n) /\ st.seen \in SUBSET n
  BY DEF SoundPass, PassStates
<1>2. SoundOrder(n, gcFloor, st.seen, w.order)
  BY WalkIsSound DEF SoundWalk
<1> HIDE DEF w
<1>3. CASE walk.ok
  <2>1. walk.order = w.order
    BY <1>3 DEF WalkCausalHistory, w
  <2> HIDE DEF walk
  <2> DEFINE o == w.order
  <2>2. o \in Seq(n)
    BY <1>2 DEF SoundOrder
  <2> HIDE DEF o
  <2>3. st.ordered \o o \in Seq(n) /\ Range(st.ordered \o o) = Range(st.ordered) \cup Range(o)
    <3>1. st.ordered \o o \in Seq(n)
      BY <1>1, <2>2, Concat
    <3>2. Range(st.ordered \o o) = Range(st.ordered) \cup Range(o)
      BY <1>1, <2>2, ConcatSet
    <3> QED
      BY <3>1, <3>2
  <2>4. Range(o) \subseteq n
    BY <2>2 DEF Range
  <2>5. next = [st EXCEPT !.round = @ + 1, !.ordered = @ \o o, !.seen = @ \cup Range(o)]
    BY <1>3, <2>1 DEF Emit, o
  <2> HIDE DEF next
  <2>6. /\ next.round = st.round + 1 /\ next.ordered = st.ordered \o o
        /\ next.seen = st.seen \cup Range(o) /\ next.cache = st.cache
    BY <1>1, <2>5 DEF PassStates
  <2>7. next \in PassStates(n)
    <3>1. st.round + 1 \in Nat /\ st.ordered \o o \in Seq(n) /\ st.seen \cup Range(o) \in SUBSET n
      BY <1>1, <2>3, <2>4
    <3> DEFINE r == st.round + 1
               t == st.ordered \o o
               s == st.seen \cup Range(o)
    <3>2. next = [st EXCEPT !.round = r, !.ordered = t, !.seen = s]
      BY <2>5
    <3> HIDE DEF r, t, s
    <3> QED
      BY <1>1, <3>1, <3>2, Zenon DEF PassStates, r, t, s
  <2>8. /\ EmitsOnce(seen, st.ordered) /\ EmitsAfter(gcFloor, seen, st.ordered)
        /\ EmitsAbove(gcFloor, st.ordered)
        /\ st.seen = seen \cup Range(st.ordered)
    BY DEF SoundPass, SoundOrder
  <2>9. EmitsOnce(st.seen, o) /\ EmitsAfter(gcFloor, st.seen, o) /\ EmitsAbove(gcFloor, o)
    BY <1>2 DEF SoundOrder, o
  <2>10. EmitsOnce(seen, st.ordered \o o)
    <3>1. \A j \in DOMAIN o : o[j] \notin seen \cup Range(st.ordered)
      BY <2>8, <2>9 DEF EmitsOnce
    <3> QED
      BY <1>1, <2>2, <2>8, <2>9, <3>1, ConcatOnce, SMTT(60)
  <2>11. EmitsAfter(gcFloor, seen, st.ordered \o o)
    <3>1. st.seen \subseteq seen \cup Range(st.ordered)
      BY <2>8
    <3> QED
      BY <1>1, <2>2, <2>8, <2>9, <3>1, ConcatAfter, SMTT(60)
  <2>12. EmitsAbove(gcFloor, st.ordered \o o)
    BY <1>1, <2>2, <2>8, <2>9, ConcatAbove, SMTT(60)
  <2>13. SoundOrder(n, gcFloor, seen, next.ordered)
    BY <2>3, <2>6, <2>10, <2>11, <2>12, SMTT(60) DEF SoundOrder
  <2>14. next.seen = seen \cup Range(next.ordered)
    BY <2>3, <2>6, <2>8
  <2>15. next.round >= gcFloor
    BY <1>1, <2>6
  <2>16. SoundCache(n, gcFloor, next.cache)
    BY <2>6 DEF SoundPass
  <2>17. SoundPass(n, gcFloor, seen, next)
    BY <2>7, <2>13, <2>14, <2>15, <2>16, SMTT(60) DEF SoundPass
  <2> QED
    BY <2>17 DEF next, walk
<1>4. CASE ~walk.ok
  <2>1. next = [st EXCEPT !.going = FALSE]
    BY <1>4 DEF Emit
  <2> HIDE DEF next
  <2>2. next \in PassStates(n)
    BY <1>1, <2>1, Zenon DEF PassStates
  <2>3. /\ next.round = st.round /\ next.ordered = st.ordered
        /\ next.seen = st.seen /\ next.cache = st.cache
    BY <1>1, <2>1 DEF PassStates
  <2>4. SoundPass(n, gcFloor, seen, next)
    BY <2>2, <2>3 DEF SoundPass
  <2> QED
    BY <2>4 DEF next
<1> QED
  BY <1>3, <1>4

\* The verdict a turn acts on.
LEMMA OutcomeIsFinal ==
    ASSUME NEW n, IsDag(n), NEW d \in SUBSET n, NEW gcFloor \in Nat, NEW seen,
           NEW upTo \in Int, NEW st, SoundPass(n, gcFloor, seen, st)
    PROVE  \/ Outcome(d, gcFloor, upTo, st) = Skipped
           \/ Outcome(d, gcFloor, upTo, st) = Undecided
           \/ \E l \in n : /\ Outcome(d, gcFloor, upTo, st) = Committed(l)
                           /\ Round[l] = st.round /\ Final(n, st.round, l)
<1>1. st.round \in Nat
  BY DEF SoundPass, PassStates
<1>2. CASE st.round \in DOMAIN st.cache
  <2>1. st.cache \in Caches(n)
    BY DEF SoundPass, PassStates
  <2>2. st.cache[st.round] \in n
    BY <1>2, <2>1, Zenon DEF Caches
  <2>3. Round[st.cache[st.round]] = st.round /\ Final(n, st.round, st.cache[st.round])
    BY <1>2 DEF SoundPass, SoundCache
  <2> QED
    BY <1>2, <2>2, <2>3 DEF Outcome
<1>3. CASE st.round \notin DOMAIN st.cache
  <2>1. Outcome(d, gcFloor, upTo, st) = Resolve(d, gcFloor, st.round, upTo)
    BY <1>3 DEF Outcome
  <2>2. \/ Resolve(d, gcFloor, st.round, upTo) = Skipped
        \/ Resolve(d, gcFloor, st.round, upTo) = Undecided
        \/ \E l \in n : /\ Resolve(d, gcFloor, st.round, upTo) = Committed(l)
                        /\ Round[l] = st.round /\ Final(n, st.round, l)
    BY <1>1, ResolveIsFinal
  <2> QED
    BY <2>1, <2>2
<1> QED
  BY <1>2, <1>3

\* A turn of `extend_order`'s loop keeps what a pass keeps.
LEMMA ExtendRoundIsSound ==
    ASSUME NEW n, IsDag(n), NEW d \in SUBSET n, NEW gcFloor \in Nat, NEW seen \in SUBSET n,
           NEW upTo \in Int, NEW st, SoundPass(n, gcFloor, seen, st)
    PROVE  SoundPass(n, gcFloor, seen, ExtendRound(d, gcFloor, st, Outcome(d, gcFloor, upTo, st)))
<1> DEFINE outcome == Outcome(d, gcFloor, upTo, st)
           next == ExtendRound(d, gcFloor, st, outcome)
<1>1. st \in PassStates(n) /\ st.round \in Nat /\ st.round >= gcFloor
  BY DEF SoundPass, PassStates
<1>2. \/ outcome = Skipped
      \/ outcome = Undecided
      \/ \E l \in n : outcome = Committed(l) /\ Round[l] = st.round /\ Final(n, st.round, l)
  BY OutcomeIsFinal
<1> HIDE DEF outcome
<1>3. CASE outcome = Skipped
  <2>1. next = [st EXCEPT !.round = @ + 1]
    BY <1>3 DEF ExtendRound, Skipped
  <2> HIDE DEF next
  <2>2. next \in PassStates(n)
    BY <1>1, <2>1 DEF PassStates
  <2>3. /\ next.round = st.round + 1 /\ next.ordered = st.ordered
        /\ next.seen = st.seen /\ next.cache = st.cache
    BY <1>1, <2>1 DEF PassStates
  <2>4. next.round >= gcFloor
    BY <1>1, <2>3
  <2>5. SoundPass(n, gcFloor, seen, next)
    BY <2>2, <2>3, <2>4 DEF SoundPass
  <2> QED
    BY <2>5 DEF next, outcome
<1>4. CASE outcome = Undecided
  <2>1. next = [st EXCEPT !.going = FALSE]
    BY <1>4 DEF ExtendRound, Undecided
  <2> HIDE DEF next
  <2>2. next \in PassStates(n)
    BY <1>1, <2>1, Zenon DEF PassStates
  <2>3. /\ next.round = st.round /\ next.ordered = st.ordered
        /\ next.seen = st.seen /\ next.cache = st.cache
    BY <1>1, <2>1 DEF PassStates
  <2>4. SoundPass(n, gcFloor, seen, next)
    BY <2>2, <2>3 DEF SoundPass
  <2> QED
    BY <2>4 DEF next, outcome
<1>5. CASE \E l \in n : outcome = Committed(l) /\ Round[l] = st.round /\ Final(n, st.round, l)
  <2>1. PICK l \in n : outcome = Committed(l) /\ Round[l] = st.round /\ Final(n, st.round, l)
    BY <1>5
  <2>2. next = CommitLeader(d, gcFloor, st, l)
    <3>1. outcome.verdict = "committed" /\ outcome.leader = {l}
      BY <2>1 DEF Committed
    <3>2. (CHOOSE x \in {l} : TRUE) = l
      OBVIOUS
    <3> QED
      BY <3>1, <3>2 DEF ExtendRound
  <2>3. /\ SoundPass(n, gcFloor, seen, Cached(st, l))
        /\ Cached(st, l).round = st.round /\ Cached(st, l).seen = st.seen
    BY <2>1, CachedIsSound
  <2> DEFINE mid == Cached(st, l)
  <2>4. Round[l] >= gcFloor /\ Closed(n)
    BY <1>1, <2>1 DEF IsDag, Closed
  <2> HIDE DEF mid
  <2>5. SoundPass(n, gcFloor, seen, Emit(mid, WalkCausalHistory(d, gcFloor, l, mid.seen)))
    BY <2>3, <2>4, EmitIsSound, Zenon DEF mid
  <2>6. next = Emit(mid, WalkCausalHistory(d, gcFloor, l, mid.seen))
    BY <2>2, <2>3 DEF CommitLeader, mid
  <2> QED
    BY <2>5, <2>6 DEF next, outcome
<1> QED
  BY <1>2, <1>3, <1>4, <1>5

\* `extend_order` keeps it from its start to its end.
LEMMA ExtendOrderIsSound ==
    ASSUME NEW n, IsDag(n), NEW d \in SUBSET n, NEW gcFloor \in Nat, NEW seen \in SUBSET n,
           NEW from \in Nat, from >= gcFloor, NEW upTo \in Nat,
           NEW cache \in Caches(n), SoundCache(n, gcFloor, cache)
    PROVE  SoundPass(n, gcFloor, seen, ExtendOrder(d, gcFloor, from, upTo, seen, cache))
<1> DEFINE start == [round |-> from, ordered |-> << >>, seen |-> seen,
                     cache |-> cache, going |-> TRUE]
           Turn(st) == IF st.going /\ st.round <= upTo
                       THEN ExtendRound(d, gcFloor, st, Outcome(d, gcFloor, upTo, st))
                       ELSE st
           Run[k \in Nat] ==
              IF k = 0 THEN start
              ELSE LET st == Run[k - 1]
                   IN  IF st.going /\ st.round <= upTo
                       THEN ExtendRound(d, gcFloor, st, Outcome(d, gcFloor, upTo, st))
                       ELSE st
           S == {st \in PassStates(n) : SoundPass(n, gcFloor, seen, st)}
           F == [st \in S |-> Turn(st)]
           K == IF upTo >= from THEN upTo - from + 1 ELSE 0
<1>1. start \in S
  <2>1. start \in PassStates(n)
    BY DEF PassStates
  <2>2. SoundOrder(n, gcFloor, seen, << >>)
    BY DEF SoundOrder, EmitsOnce, EmitsAbove, EmitsAfter
  <2>3. Range(<< >>) = {}
    BY DEF Range
  <2> QED
    BY <2>1, <2>2, <2>3, SMTT(60) DEF SoundPass
<1>2. \A st \in S : Turn(st) \in S
  <2> SUFFICES ASSUME NEW st \in S PROVE Turn(st) \in S
    OBVIOUS
  <2>1. SoundPass(n, gcFloor, seen, ExtendRound(d, gcFloor, st, Outcome(d, gcFloor, upTo, st)))
    BY ExtendRoundIsSound
  <2> QED
    BY <2>1 DEF SoundPass
<1> HIDE DEF start, Turn, S
<1>3. F \in [S -> S]
  BY <1>2
<1>4. PICK g : Iteration(S, start, F, g)
  <2> HIDE DEF F
  <2> QED BY <1>1, <1>3, Iterates
<1>5. g \in [Nat -> S] /\ g[0] = start /\ \A k \in Nat : g[k + 1] = Turn(g[k])
  <2>1. g \in [Nat -> S] /\ g[0] = start
    BY <1>4 DEF Iteration
  <2>2. ASSUME NEW k \in Nat PROVE g[k] \in S /\ g[k + 1] = F[g[k]]
    <3> HIDE DEF F
    <3> QED BY <1>4 DEF Iteration
  <2>3. \A st \in S : F[st] = Turn(st)
    BY DEF F
  <2> QED
    BY <2>1, <2>2, <2>3, Zenon
<1> DEFINE Body(h, k) == IF k = 0 THEN start ELSE Turn(h[k - 1])
           E(h) == h = [k \in Nat |-> Body(h, k)]
<1>6. Run = CHOOSE h : E(h)
  BY DEF Run, Turn
<1> HIDE DEF Run
<1>7. E(g)
  <2>1. ASSUME NEW k \in Nat, k # 0 PROVE g[k] = Turn(g[k - 1])
    <3> DEFINE j == k - 1
    <3>1. j \in Nat /\ j + 1 = k
      BY <2>1
    <3> HIDE DEF j
    <3>2. g[j + 1] = Turn(g[j])
      BY <1>5, <3>1
    <3> QED
      BY <3>1, <3>2 DEF j
  <2>2. \A k \in Nat : g[k] = Body(g, k)
    BY <1>5, <2>1
  <2> HIDE DEF Body
  <2> QED
    BY <1>5, <2>2
<1>8. E(Run)
  <2>1. E(CHOOSE h : E(h))
    <3> HIDE DEF E
    <3> QED BY <1>7
  <2> QED
    BY <1>6, <2>1
<1>9. \A k \in Nat : Run[k] = IF k = 0 THEN start ELSE Turn(Run[k - 1])
  <2> HIDE DEF Body
  <2>1. \A k \in Nat : Run[k] = Body(Run, k)
    BY <1>8
  <2> QED
    BY <2>1 DEF Body
<1>10. \A k \in Nat : Run[k] \in S
  <2> DEFINE T == {k \in Nat : Run[k] \in S}
  <2>1. 0 \in T
    BY <1>1, <1>9
  <2>2. ASSUME NEW k \in Nat, k \in T PROVE k + 1 \in T
    <3>1. k + 1 \in Nat /\ k + 1 # 0 /\ (k + 1) - 1 = k
      OBVIOUS
    <3>2. Run[k + 1] = Turn(Run[(k + 1) - 1])
      BY <1>9, <3>1
    <3> QED
      BY <1>2, <2>2, <3>1, <3>2
  <2>3. Nat \subseteq T
    <3> HIDE DEF T
    <3> QED BY <2>1, <2>2, NatInduct, SMTT(60)
  <2> QED
    BY <2>3
<1>11. ExtendOrder(d, gcFloor, from, upTo, seen, cache) = Run[K]
  BY DEF ExtendOrder, Run, start
<1>12. K \in Nat
  OBVIOUS
<1> QED
  BY <1>10, <1>11, <1>12 DEF S

----------------------------------------------------------------------------
\* The inductive invariant.

ConsensusStates(n) == [seen : SUBSET n, fromRound : Nat, finalizedFloor : Nat,
                       gcFloor : Nat, cache : Caches(n)]

\* The types and the floors.
StateTyped ==
    /\ net \in Networks /\ dag \subseteq net
    /\ cs \in ConsensusStates(net)
    /\ cs.gcFloor = cs.fromRound /\ cs.gcFloor <= cs.finalizedFloor
    /\ base \in Nat /\ base <= cs.gcFloor
    /\ ordered \in Seq(net)
    /\ gap \in BOOLEAN
    /\ prunedBelow \in Nat /\ restarts \in 0 .. MaxRestarts

\* What `seen` no longer remembers of the emitted certificates is below the
\* barrier, where no walk goes.
SeenCovers ==
    /\ cs.seen \subseteq Range(ordered)
    /\ \A c \in Range(ordered) : c \in cs.seen \/ Round[c] < cs.gcFloor

OrderInv ==
    /\ StateTyped
    /\ SoundCache(net, cs.gcFloor, cs.cache)
    /\ SeenCovers
    /\ EmitsOnce({}, ordered) /\ EmitsAfter(cs.gcFloor, {}, ordered)

\* The state of a new process.
LEMMA FreshState ==
    ASSUME NEW n, NEW floor \in Nat
    PROVE  LET new == SetGcFloor(New, floor)
           IN  /\ new \in ConsensusStates(n)
               /\ new.seen = {} /\ new.fromRound = floor /\ new.finalizedFloor = floor
               /\ new.gcFloor = floor /\ SoundCache(n, floor, new.cache)
<1> DEFINE new == SetGcFloor(New, floor)
<1>1. NoCache \in [{} -> n] /\ DOMAIN NoCache = {}
  BY DEF NoCache
<1>2. /\ New.seen = {} /\ New.fromRound = 0 /\ New.finalizedFloor = 0 /\ New.gcFloor = 0
      /\ New.cache = NoCache
  BY DEF New
<1>3. /\ AtLeast(New.fromRound, floor) = floor /\ AtLeast(New.finalizedFloor, floor) = floor
      /\ AtLeast(New.gcFloor, floor) = floor
  BY <1>2 DEF AtLeast
<1> DEFINE cache == IF floor > New.gcFloor
                    THEN [q \in {p \in DOMAIN New.cache : p >= floor} |-> New.cache[q]]
                    ELSE New.cache
<1>4. cache \in [{} -> n] /\ DOMAIN cache = {}
  <2>1. {p \in DOMAIN New.cache : p >= floor} = {}
    BY <1>1, <1>2
  <2> QED
    BY <1>1, <1>2, <2>1
<1> HIDE DEF cache
<1>5. new = [seen |-> {}, fromRound |-> floor, finalizedFloor |-> floor,
             gcFloor |-> floor, cache |-> cache]
  BY <1>2, <1>3 DEF SetGcFloor, cache
<1>6. cache \in Caches(n) /\ SoundCache(n, floor, cache)
  <2>1. {} \in SUBSET Nat
    OBVIOUS
  <2> QED
    BY <1>4, <2>1 DEF Caches, SoundCache
<1>7. new \in ConsensusStates(n)
  BY <1>5, <1>6 DEF ConsensusStates
<1> QED
  BY <1>5, <1>6, <1>7

\* Raising the barrier.
LEMMA FloorRaised ==
    ASSUME NEW n, NEW st \in ConsensusStates(n), NEW removed, NEW floor \in Nat,
           floor > st.gcFloor, st.gcFloor = st.fromRound, floor <= st.finalizedFloor,
           SoundCache(n, st.gcFloor, st.cache)
    PROVE  LET new == SetGcFloor(ForgetSeen(st, removed), floor)
           IN  /\ new \in ConsensusStates(n)
               /\ new.seen = st.seen \ removed /\ new.fromRound = floor
               /\ new.finalizedFloor = st.finalizedFloor
               /\ new.gcFloor = floor /\ SoundCache(n, floor, new.cache)
<1> DEFINE mid == ForgetSeen(st, removed)
           new == SetGcFloor(mid, floor)
           cache == [q \in {p \in DOMAIN st.cache : p >= floor} |-> st.cache[q]]
<1>1. /\ mid.seen = st.seen \ removed /\ mid.fromRound = st.fromRound
      /\ mid.finalizedFloor = st.finalizedFloor /\ mid.gcFloor = st.gcFloor
      /\ mid.cache = st.cache
  BY DEF ForgetSeen, ConsensusStates
<1> HIDE DEF mid
<1>2. /\ st.gcFloor \in Nat /\ st.fromRound \in Nat /\ st.finalizedFloor \in Nat
      /\ st.seen \in SUBSET n
  BY DEF ConsensusStates
<1>3. /\ AtLeast(mid.fromRound, floor) = floor /\ AtLeast(mid.gcFloor, floor) = floor
      /\ AtLeast(mid.finalizedFloor, floor) = st.finalizedFloor
  BY <1>1, <1>2 DEF AtLeast
<1>4. new = [seen |-> st.seen \ removed, fromRound |-> floor,
             finalizedFloor |-> st.finalizedFloor, gcFloor |-> floor, cache |-> cache]
  BY <1>1, <1>2, <1>3, SMTT(60) DEF SetGcFloor
<1>5. PICK D \in SUBSET Nat : st.cache \in [D -> n]
  BY DEF ConsensusStates, Caches
<1>6. cache \in [{p \in D : p >= floor} -> n]
  BY <1>5, Zenon
<1>7. SoundCache(n, floor, cache)
  BY <1>5 DEF SoundCache
<1> HIDE DEF cache
<1>8. cache \in Caches(n)
  BY <1>6 DEF Caches
<1>9. new \in ConsensusStates(n)
  BY <1>2, <1>4, <1>8 DEF ConsensusStates
<1> QED
  BY <1>4, <1>7, <1>9 DEF mid

\* One pass over a DAG.
LEMMA PassIsSound ==
    ASSUME NEW n \in Networks, NEW d \in SUBSET n, NEW st \in ConsensusStates(n),
           st.gcFloor = st.fromRound, SoundCache(n, st.gcFloor, st.cache)
    PROVE  LET pass == Advance(st, d, HighestRound(d))
           IN  /\ pass.cs \in ConsensusStates(n)
               /\ pass.cs.gcFloor = st.gcFloor /\ pass.cs.fromRound = st.fromRound
               /\ pass.cs.finalizedFloor >= st.finalizedFloor
               /\ SoundCache(n, st.gcFloor, pass.cs.cache)
               /\ SoundOrder(n, st.gcFloor, st.seen, pass.ordered)
               /\ pass.cs.seen = st.seen \cup Range(pass.ordered)
<1> DEFINE H == HighestRound(d)
           end == ExtendOrder(d, st.gcFloor, st.fromRound, Min({H, H}), st.seen, st.cache)
           pass == Advance(st, d, H)
<1>1. H \in Nat
  BY NetworksTyped, HighestRoundBounds DEF IsDag
<1> HIDE DEF H
<1>2. Min({H, H}) = H
  BY <1>1 DEF Min
<1>3. /\ st.gcFloor \in Nat /\ st.fromRound \in Nat /\ st.finalizedFloor \in Nat
      /\ st.seen \in SUBSET n /\ st.cache \in Caches(n)
  BY DEF ConsensusStates
<1>4. SoundPass(n, st.gcFloor, st.seen, end)
  BY <1>1, <1>2, <1>3, NetworksTyped, ExtendOrderIsSound, SMTT(60)
<1>5. pass = AfterPass(st, end)
  BY DEF Advance, H
<1> HIDE DEF end, pass
<1>6. /\ pass.cs = [st EXCEPT !.seen = end.seen, !.cache = end.cache,
                              !.finalizedFloor = AtLeast(@, end.round)]
      /\ pass.ordered = end.ordered
  BY <1>5 DEF AfterPass
<1>7. end.seen \in SUBSET n /\ end.cache \in Caches(n) /\ end.round \in Nat
  BY <1>4 DEF SoundPass, PassStates
<1>8. AtLeast(st.finalizedFloor, end.round) \in Nat
      /\ AtLeast(st.finalizedFloor, end.round) >= st.finalizedFloor
  BY <1>3, <1>7 DEF AtLeast
<1>9. /\ pass.cs.gcFloor = st.gcFloor /\ pass.cs.fromRound = st.fromRound
      /\ pass.cs.finalizedFloor = AtLeast(st.finalizedFloor, end.round)
      /\ pass.cs.seen = end.seen /\ pass.cs.cache = end.cache
  BY <1>6 DEF ConsensusStates
<1>10. pass.cs \in ConsensusStates(n)
  BY <1>6, <1>7, <1>8, Zenon DEF ConsensusStates
<1>11. /\ SoundOrder(n, st.gcFloor, st.seen, end.ordered)
       /\ end.seen = st.seen \cup Range(end.ordered)
       /\ SoundCache(n, st.gcFloor, end.cache)
  BY <1>4 DEF SoundPass
<1> QED
  BY <1>6, <1>8, <1>9, <1>10, <1>11 DEF pass, H

\* A new process starts sound.
LEMMA FreshIsSound ==
    ASSUME net \in Networks, NEW d \in SUBSET net, NEW r \in 0 .. MaxRestarts,
           NEW p \in Nat,
           net' = net, dag' = d, cs' = SetGcFloor(New, LowestRound(d)), ordered' = << >>,
           base' = LowestRound(d), gap' = FALSE, prunedBelow' = p, restarts' = r
    PROVE  OrderInv'
<1> DEFINE floor == LowestRound(d)
<1>1. floor \in Nat
  BY NetworksTyped, LowestRoundIsNat DEF IsDag
<1> HIDE DEF floor
<1>2. /\ cs' \in ConsensusStates(net)
      /\ cs'.seen = {} /\ cs'.fromRound = floor /\ cs'.finalizedFloor = floor
      /\ cs'.gcFloor = floor /\ SoundCache(net, floor, cs'.cache)
  BY <1>1, FreshState DEF floor
<1>3. ordered' \in Seq(net) /\ Range(ordered') = {} /\ DOMAIN ordered' = {}
  BY DEF Range
<1>4. StateTyped'
  <2>1. net' \in Networks /\ dag' \subseteq net' /\ cs' \in ConsensusStates(net')
        /\ ordered' \in Seq(net')
    BY <1>2, <1>3
  <2>2. /\ cs'.gcFloor = cs'.fromRound /\ cs'.gcFloor <= cs'.finalizedFloor
        /\ base' \in Nat /\ base' <= cs'.gcFloor
    BY <1>1, <1>2 DEF floor
  <2>3. gap' \in BOOLEAN /\ prunedBelow' \in Nat /\ restarts' \in 0 .. MaxRestarts
    BY Zenon
  <2> QED
    BY <2>1, <2>2, <2>3 DEF StateTyped
<1>5. SoundCache(net, cs.gcFloor, cs.cache)'
  BY <1>2 DEF SoundCache
<1>6. SeenCovers'
  BY <1>2, <1>3 DEF SeenCovers
<1>7. EmitsOnce({}, ordered)' /\ EmitsAfter(cs.gcFloor, {}, ordered)'
  BY <1>3 DEF EmitsOnce, EmitsAfter
<1> QED
  BY <1>4, <1>5, <1>6, <1>7 DEF OrderInv

\* `try_commit` keeps it.
LEMMA TryCommitIsSound ==
    ASSUME OrderInv, NEW d \in SUBSET net, TryCommit(d)
    PROVE  OrderInv'
<1> DEFINE pass == Advance(cs, d, HighestRound(d))
           gc == cs.gcFloor
           o == pass.ordered
<1>1. /\ net \in Networks /\ cs \in ConsensusStates(net) /\ cs.gcFloor = cs.fromRound
      /\ cs.gcFloor <= cs.finalizedFloor /\ base \in Nat /\ base <= cs.gcFloor
      /\ ordered \in Seq(net) /\ gap \in BOOLEAN
      /\ prunedBelow \in Nat /\ restarts \in 0 .. MaxRestarts
      /\ SoundCache(net, cs.gcFloor, cs.cache)
  BY SMTT(60) DEF OrderInv, StateTyped
<1>2. /\ pass.cs \in ConsensusStates(net)
      /\ pass.cs.gcFloor = gc /\ pass.cs.fromRound = cs.fromRound
      /\ pass.cs.finalizedFloor >= cs.finalizedFloor
      /\ SoundCache(net, gc, pass.cs.cache)
      /\ SoundOrder(net, gc, cs.seen, o)
      /\ pass.cs.seen = cs.seen \cup Range(o)
  BY <1>1, PassIsSound
<1>3. /\ dag' = d /\ cs' = pass.cs /\ ordered' = ordered \o o
      /\ gap' = (gap \/ ~CausallyClosed(d, cs.gcFloor))
      /\ net' = net /\ base' = base /\ prunedBelow' = prunedBelow /\ restarts' = restarts
  BY DEF TryCommit, HandOver
<1> HIDE DEF pass, o
<1>4. o \in Seq(net) /\ EmitsOnce(cs.seen, o) /\ EmitsAbove(gc, o) /\ EmitsAfter(gc, cs.seen, o)
  BY <1>2, SMTT(60) DEF SoundOrder
<1>5. ordered \o o \in Seq(net)
  BY <1>1, <1>4, Concat
<1>6. Range(ordered \o o) = Range(ordered) \cup Range(o)
  BY <1>1, <1>4, ConcatSet, SMTT(60)
<1>7. /\ cs.gcFloor \in Nat /\ cs.finalizedFloor \in Nat
      /\ pass.cs.finalizedFloor \in Nat
  BY <1>1, <1>2 DEF ConsensusStates
<1>8. StateTyped'
  <2>1. net' \in Networks /\ dag' \subseteq net' /\ cs' \in ConsensusStates(net')
        /\ ordered' \in Seq(net')
    BY <1>1, <1>2, <1>3, <1>5, SMTT(60)
  <2>2. /\ cs'.gcFloor = cs'.fromRound /\ cs'.gcFloor <= cs'.finalizedFloor
        /\ base' \in Nat /\ base' <= cs'.gcFloor
    BY <1>1, <1>2, <1>3, <1>7, SMTT(60)
  <2>3. gap' \in BOOLEAN
    BY <1>1, <1>3, SMTT(60) DEF CausallyClosed
  <2>4. prunedBelow' \in Nat /\ restarts' \in 0 .. MaxRestarts
    BY <1>1, <1>3, SMTT(60)
  <2> QED
    BY <2>1, <2>2, <2>3, <2>4, SMTT(60) DEF StateTyped
<1>9. SoundCache(net, cs.gcFloor, cs.cache)'
  BY <1>2, <1>3, SMTT(60) DEF SoundCache
<1>10. cs.seen \subseteq Range(ordered) /\ \A c \in Range(ordered) : c \in cs.seen \/ Round[c] < gc
  BY DEF OrderInv, SeenCovers
<1>11. SeenCovers'
  <2>1. cs'.seen = cs.seen \cup Range(o) /\ Range(ordered') = Range(ordered) \cup Range(o)
        /\ cs'.gcFloor = gc
    BY <1>2, <1>3, <1>6, SMTT(60)
  <2> QED
    BY <1>10, <2>1, SMTT(60) DEF SeenCovers
<1>12. EmitsOnce({}, ordered \o o)
  <2>1. ASSUME NEW j \in DOMAIN o PROVE o[j] \notin {} \cup Range(ordered)
    <3>1. o[j] \notin cs.seen /\ Round[o[j]] >= gc /\ o[j] \in net
      BY <1>4 DEF EmitsOnce, EmitsAbove
    <3>2. Round[o[j]] \in Nat
      BY <1>1, <3>1, NetworksTyped, CertTyped, SMTT(60) DEF IsDag
    <3>3. ~(Round[o[j]] < gc)
      BY <1>7, <3>1, <3>2
    <3> QED
      BY <1>10, <3>1, <3>3
  <2>2. EmitsOnce({}, ordered)
    BY SMTT(60) DEF OrderInv
  <2> QED
    BY <1>1, <1>4, <2>1, <2>2, ConcatOnce, SMTT(60)
<1>13. EmitsAfter(gc, {}, ordered \o o)
  <2>1. EmitsAfter(gc, {}, ordered)
    BY DEF OrderInv
  <2>2. cs.seen \subseteq {} \cup Range(ordered)
    BY <1>10
  <2> QED
    BY <1>1, <1>4, <2>1, <2>2, ConcatAfter, SMTT(60)
<1>14. EmitsOnce({}, ordered)' /\ EmitsAfter(cs.gcFloor, {}, ordered)'
  <2>1. ordered' = ordered \o o /\ cs'.gcFloor = gc
    BY <1>2, <1>3, SMTT(60)
  <2>2. EmitsOnce({}, ordered')
    BY <1>12, <2>1
  <2>3. EmitsAfter(cs'.gcFloor, {}, ordered')
    BY <1>13, <2>1, SMTT(60)
  <2> QED
    BY <2>2, <2>3, SMTT(60)
<1> QED
  BY <1>8, <1>9, <1>11, <1>14 DEF OrderInv

\* Garbage collection keeps it.
LEMMA PruneIsSound ==
    ASSUME OrderInv, PruneDag
    PROVE  OrderInv'
<1> DEFINE floor == cs.finalizedFloor - Retention
           removed == {c \in dag : Round[c] < floor}
<1>1. /\ net \in Networks /\ dag \subseteq net /\ cs \in ConsensusStates(net)
      /\ cs.gcFloor = cs.fromRound
      /\ cs.gcFloor <= cs.finalizedFloor /\ base \in Nat /\ base <= cs.gcFloor
      /\ ordered \in Seq(net) /\ gap \in BOOLEAN
      /\ prunedBelow \in Nat /\ restarts \in 0 .. MaxRestarts
      /\ SoundCache(net, cs.gcFloor, cs.cache)
  BY DEF OrderInv, StateTyped
<1>2. /\ floor > cs.gcFloor /\ dag' = dag \ removed
      /\ cs' = SetGcFloor(ForgetSeen(cs, removed), floor)
      /\ prunedBelow' = AtLeast(prunedBelow, floor)
      /\ net' = net /\ ordered' = ordered /\ base' = base /\ gap' = gap /\ restarts' = restarts
  BY DEF PruneDag
<1>3. cs.gcFloor \in Nat /\ cs.finalizedFloor \in Nat
  BY <1>1 DEF ConsensusStates
<1>4. floor \in Nat /\ floor <= cs.finalizedFloor
  BY <1>2, <1>3, BoundsTyped
<1>5. \A c \in removed : Round[c] < floor
  BY SMTT(60)
<1> HIDE DEF floor, removed
<1>6. /\ cs' \in ConsensusStates(net)
      /\ cs'.seen = cs.seen \ removed /\ cs'.fromRound = floor
      /\ cs'.finalizedFloor = cs.finalizedFloor
      /\ cs'.gcFloor = floor /\ SoundCache(net, floor, cs'.cache)
  BY <1>1, <1>2, <1>4, FloorRaised, SMTT(60)
<1>7. \A c \in net : Round[c] \in Nat
  BY <1>1, NetworksTyped, CertTyped, SMTT(60) DEF IsDag
<1>8. StateTyped'
  <2>1. net' \in Networks /\ dag' \subseteq net' /\ cs' \in ConsensusStates(net')
        /\ ordered' \in Seq(net') /\ gap' \in BOOLEAN
    BY <1>1, <1>2, <1>6, SMTT(60)
  <2>2. /\ cs'.gcFloor = cs'.fromRound /\ cs'.gcFloor <= cs'.finalizedFloor
        /\ base' \in Nat /\ base' <= cs'.gcFloor
    BY <1>1, <1>2, <1>3, <1>4, <1>6
  <2>3. prunedBelow' \in Nat /\ restarts' \in 0 .. MaxRestarts
    BY <1>1, <1>2, <1>4, SMTT(60) DEF AtLeast
  <2> QED
    BY <2>1, <2>2, <2>3, SMTT(60) DEF StateTyped
<1>9. SoundCache(net, cs.gcFloor, cs.cache)'
  BY <1>2, <1>6, SMTT(60) DEF SoundCache
<1>10. SeenCovers'
  <2>1. Range(ordered) \subseteq net
    BY <1>1 DEF Range
  <2>2. ASSUME NEW c \in Range(ordered) PROVE c \in cs'.seen \/ Round[c] < floor
    <3>1. c \in cs.seen \/ Round[c] < cs.gcFloor
      BY DEF OrderInv, SeenCovers
    <3>2. Round[c] \in Nat
      BY <1>7, <2>1
    <3>3. CASE c \in cs.seen
      BY <1>5, <1>6, <3>3
    <3>4. CASE Round[c] < cs.gcFloor
      BY <1>2, <1>3, <1>4, <3>2, <3>4, SMTT(60)
    <3> QED
      BY <3>1, <3>3, <3>4, SMTT(60)
  <2>3. cs'.seen \subseteq Range(ordered)
    BY <1>6 DEF OrderInv, SeenCovers
  <2> QED
    BY <1>2, <1>6, <2>2, <2>3 DEF SeenCovers
<1>11. EmitsOnce({}, ordered)'
  BY <1>2 DEF OrderInv, EmitsOnce
<1>12. EmitsAfter(cs.gcFloor, {}, ordered)'
  <2> SUFFICES ASSUME NEW i \in DOMAIN ordered, Round[ordered[i]] > floor
               PROVE  Parents[ordered[i]] \subseteq {} \cup {ordered[j] : j \in 1 .. i - 1}
    BY <1>2, <1>6, SMTT(60) DEF EmitsAfter
  <2>1. Round[ordered[i]] \in Nat
    BY <1>1, <1>7, SMTT(60)
  <2>2. Round[ordered[i]] > cs.gcFloor
    BY <1>2, <1>3, <1>4, <2>1, SMTT(60)
  <2> QED
    BY <2>2 DEF OrderInv, EmitsAfter
<1> QED
  BY <1>8, <1>9, <1>10, <1>11, <1>12, SMTT(60) DEF OrderInv

\* The invariant holds in every state.
THEOREM OrderInvariant == Spec => []OrderInv
<1>1. Init => OrderInv
  <2> SUFFICES ASSUME Init PROVE OrderInv
    OBVIOUS
  <2> DEFINE floor == LowestRound(dag)
  <2>1. net \in Networks /\ dag \subseteq net /\ dag \subseteq Cert
    BY NetworksTyped, SMTT(60) DEF Init, IsDag
  <2>2. floor \in Nat /\ base = floor
    BY <2>1, LowestRoundIsNat DEF Init
  <2>3. cs = SetGcFloor(New, floor)
    BY DEF Init
  <2> HIDE DEF floor
  <2>4. /\ cs \in ConsensusStates(net)
        /\ cs.seen = {} /\ cs.fromRound = floor /\ cs.finalizedFloor = floor
        /\ cs.gcFloor = floor /\ SoundCache(net, floor, cs.cache)
    BY <2>2, <2>3, FreshState
  <2>5. ordered \in Seq(net) /\ Range(ordered) = {} /\ DOMAIN ordered = {}
    BY DEF Init, Range
  <2>6. gap \in BOOLEAN /\ prunedBelow \in Nat /\ restarts \in 0 .. MaxRestarts
    <3>1. gap = FALSE /\ prunedBelow = 0 /\ restarts = 0
      BY DEF Init
    <3>2. prunedBelow \in Nat /\ restarts \in 0 .. MaxRestarts
      BY <3>1, BoundsTyped
    <3>3. gap \in BOOLEAN
      BY Zenon, <3>1
    <3> QED
      BY <3>2, <3>3
  <2>7. StateTyped
    BY <2>1, <2>2, <2>4, <2>5, <2>6, SMTT(60) DEF StateTyped
  <2>8. SeenCovers
    BY <2>4, <2>5 DEF SeenCovers
  <2>9. EmitsOnce({}, ordered) /\ EmitsAfter(cs.gcFloor, {}, ordered)
    BY <2>5 DEF EmitsOnce, EmitsAfter
  <2> QED
    BY <2>4, <2>7, <2>8, <2>9, SMTT(60) DEF OrderInv
<1>2. OrderInv /\ [Next]_vars => OrderInv'
  <2> SUFFICES ASSUME OrderInv, [Next]_vars PROVE OrderInv'
    OBVIOUS
  <2>0. /\ net \in Networks /\ dag \subseteq net
        /\ prunedBelow \in Nat /\ restarts \in 0 .. MaxRestarts
    BY DEF OrderInv, StateTyped
  <2>1. CASE \E c \in net : ReceiveCertificate(c)
    <3>1. PICK c \in net : TryCommit(dag \cup {c})
      BY <2>1 DEF ReceiveCertificate
    <3>2. dag \cup {c} \in SUBSET net
      BY <2>0
    <3> QED
      BY <3>1, <3>2, TryCommitIsSound
  <2>2. CASE ReceiveAgain
    <3>1. TryCommit(dag) /\ dag \in SUBSET net
      BY <2>0, <2>2 DEF ReceiveAgain
    <3> QED
      BY <3>1, TryCommitIsSound
  <2>3. CASE PruneDag
    BY <2>3, PruneIsSound
  <2>4. CASE Restart
    <3>1. PICK lost \in SUBSET dag :
             /\ restarts < MaxRestarts
             /\ dag' = dag \ lost
             /\ cs' = SetGcFloor(New, LowestRound(dag \ lost))
             /\ ordered' = << >> /\ base' = LowestRound(dag \ lost)
             /\ gap' = FALSE /\ restarts' = restarts + 1
             /\ net' = net /\ prunedBelow' = prunedBelow
      BY <2>4, Zenon DEF Restart
    <3> DEFINE d == dag \ lost
               r == restarts + 1
    <3>2. d \in SUBSET net
      BY <2>0
    <3>3. r \in 0 .. MaxRestarts
      BY <2>0, <3>1, BoundsTyped
    <3>4. /\ dag' = d /\ cs' = SetGcFloor(New, LowestRound(d)) /\ base' = LowestRound(d)
          /\ restarts' = r
      BY <3>1, SMTT(60)
    <3> HIDE DEF d, r
    <3> QED
      BY <2>0, <3>1, <3>2, <3>3, <3>4, FreshIsSound, Zenon
  <2>5. CASE UNCHANGED vars
    <3>1. /\ net' = net /\ dag' = dag /\ cs' = cs /\ ordered' = ordered /\ base' = base
          /\ gap' = gap /\ prunedBelow' = prunedBelow /\ restarts' = restarts
      BY <2>5 DEF vars
    <3>2. StateTyped'
      BY <3>1 DEF OrderInv, StateTyped
    <3>3. SoundCache(net', cs'.gcFloor, cs'.cache)
      BY <3>1, SMTT(60) DEF OrderInv
    <3>4. SeenCovers'
      BY <3>1 DEF OrderInv, SeenCovers
    <3>5. EmitsOnce({}, ordered') /\ EmitsAfter(cs'.gcFloor, {}, ordered')
      BY <3>1 DEF OrderInv
    <3> QED
      BY <3>2, <3>3, <3>4, <3>5 DEF OrderInv
  <2> QED
    BY <2>1, <2>2, <2>3, <2>4, <2>5 DEF Next
<1> QED
  BY <1>1, <1>2, PTL DEF Spec

\* Types and floors.
THEOREM TypeOKAlways == Spec => []TypeOK
<1>1. OrderInv => TypeOK
  <2> SUFFICES ASSUME OrderInv PROVE TypeOK
    OBVIOUS
  <2>1. /\ net \in Networks /\ dag \subseteq net
        /\ cs.gcFloor = cs.fromRound /\ cs.gcFloor <= cs.finalizedFloor
        /\ base <= cs.gcFloor
        /\ ordered \in Seq(net) /\ gap \in BOOLEAN
        /\ prunedBelow \in Nat /\ restarts \in 0 .. MaxRestarts
    BY DEF OrderInv, StateTyped
  <2>2. cs.seen \subseteq net /\ cs.cache \in Caches(net)
    BY DEF OrderInv, StateTyped, ConsensusStates
  <2>3. \A r \in DOMAIN cs.cache : r >= cs.gcFloor /\ cs.cache[r] \in net
    BY <2>2, Zenon DEF OrderInv, SoundCache, Caches
  <2> QED
    BY <2>1, <2>2, <2>3 DEF TypeOK
<1> QED
  BY <1>1, OrderInvariant, PTL

\* No certificate is handed to execution twice by one process, whatever is
\* pruned, forgotten and received again.
THEOREM EmittedOnceAlways == Spec => []EmittedOnce
<1>1. OrderInv => EmittedOnce
  BY DEF OrderInv, EmitsOnce, EmittedOnce, IsInjective
<1> QED
  BY <1>1, OrderInvariant, PTL

\* A certificate above the barrier follows its parents in the order.
THEOREM AncestorsFirstAlways == Spec => []AncestorsFirst
<1>1. OrderInv => AncestorsFirst
  BY DEF OrderInv, EmitsAfter, AncestorsFirst
<1> QED
  BY <1>1, OrderInvariant, PTL

\* A cached leader is committed by the whole network's DAG.
THEOREM CommittedIsFinalAlways == Spec => []CommittedIsFinal
<1>1. OrderInv => CommittedIsFinal
  <2> SUFFICES ASSUME OrderInv, NEW r \in DOMAIN cs.cache
               PROVE  FinalVerdict[net][r] = Committed(cs.cache[r])
    BY DEF CommittedIsFinal
  <2>1. net \in Networks /\ cs.cache \in Caches(net) /\ cs.gcFloor \in Nat
    BY DEF OrderInv, StateTyped, ConsensusStates
  <2>2. r \in Nat /\ cs.cache[r] \in net
    BY <2>1, Zenon DEF Caches
  <2>3. Round[cs.cache[r]] = r /\ Final(net, r, cs.cache[r])
    BY DEF OrderInv, SoundCache
  <2>4. HighestRound(net) \in Nat /\ r <= HighestRound(net)
    BY <2>1, <2>2, <2>3, NetworksTyped, HighestRoundBounds, SMTT(60) DEF IsDag
  <2>5. r \in 0 .. HighestRound(net)
    BY <2>2, <2>4, SMTT(60)
  <2>6. FinalVerdict[net][r] = Resolve(net, 0, r, HighestRound(net))
    BY <2>1, <2>5, SMTT(60) DEF FinalVerdict
  <2> QED
    BY <2>3, <2>6 DEF Final
<1> QED
  BY <1>1, OrderInvariant, PTL

\* In every state of every behaviour, and for every round, the direct rule on
\* the local DAG agrees with the direct rule on all of the network's
\* certificates (`direct_status`).
THEOREM DirectVerdictsAgreeAlways == Spec => []DirectVerdictsAgree
<1>1. OrderInv => DirectVerdictsAgree
  <2> SUFFICES ASSUME OrderInv, NEW r \in 0 .. HighestRound(net)
               PROVE  /\ DirectlyCommitted(dag, r) => DirectlyCommitted(net, r)
                      /\ DirectlySkipped(dag, r) => ~DirectlyCommitted(net, r)
    BY DEF DirectVerdictsAgree
  <2>1. r \in Nat /\ IsDag(net) /\ dag \subseteq net
    BY NetworksTyped DEF OrderInv, StateTyped
  <2> QED
    BY <2>1, CommitGrows, SkipNeverCommits
<1> QED
  BY <1>1, OrderInvariant, PTL

=============================================================================
