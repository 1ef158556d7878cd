----------------------------- MODULE NodeProofs -----------------------------
(***************************************************************************)
(* What holds inside a node: it executes the committed order, each         *)
(* certificate once and whole, for any order, funds, number of rounds and  *)
(* lost batches; and its databases give back what was written to them, for *)
(* any keys, values and number of operations, failing flushes and crashes. *)
(***************************************************************************)
EXTENDS Execution, Store, WellFoundedInduction, TLAPS

----------------------------------------------------------------------------
(* Execution.                                                              *)

----------------------------------------------------------------------------
\* Induction

\* A set that contains 0, and n + 1 with n, contains the naturals.
LEMMA Induct ==
    ASSUME NEW T, 0 \in T, \A n \in Nat : n \in T => n + 1 \in T
    PROVE  Nat \subseteq T
<1> DEFINE C == Nat \ T
           R == OpToRel(<, Nat)
<1> SUFFICES ASSUME C # {} PROVE FALSE
  OBVIOUS
<1>1. IsWellFoundedOn(R, Nat)
  BY NatLessThanWellFounded, Zenon
<1>2. \A x, y \in Nat : x < y => <<x, y>> \in R
  BY DEF OpToRel
<1>3. C \subseteq Nat
  OBVIOUS
<1> HIDE DEF R
<1>4. PICK m \in C : \A y \in C : ~ (<<y, m>> \in R)
  <2> HIDE DEF C
  <2> QED BY <1>1, <1>3, WFMin, Zenon
<1>5. m # 0 /\ m \in Nat
  OBVIOUS
<1>6. m - 1 \in Nat /\ m - 1 < m
  BY <1>5
<1>7. m - 1 \notin C
  BY <1>2, <1>4, <1>5, <1>6, Zenon
<1>8. m - 1 + 1 \in T
  BY <1>6, <1>7
<1> QED
  BY <1>5, <1>8

----------------------------------------------------------------------------
\* Executing a range

\* The accounts after each certificate of a range.
Running(g, a, from, to) ==
    g = [i \in from .. to |-> IF i = from THEN a ELSE ExecuteCertificate(g[i - 1], i)]

\* They exist.
LEMMA RunExists ==
    ASSUME NEW a, NEW from \in Nat, NEW n \in Nat
    PROVE  \E g : Running(g, a, from, from + n)
<1> DEFINE T == {k \in Nat : \E g : Running(g, a, from, from + k)}
<1>1. 0 \in T
  <2> DEFINE g == [i \in from .. from + 0 |-> a]
  <2>1. Running(g, a, from, from + 0)
    BY DEF Running
  <2> QED
    BY <2>1, Zenon
<1>2. ASSUME NEW k \in Nat, k \in T PROVE k + 1 \in T
  <2>1. PICK g : Running(g, a, from, from + k)
    BY <1>2
  <2> DEFINE last == from + (k + 1)
             E(f, i) == ExecuteCertificate(f[i - 1], i)
             h == [i \in from .. last |-> IF i = last THEN E(g, i) ELSE g[i]]
  <2>2. \A i \in from .. from + k : g[i] = IF i = from THEN a ELSE E(g, i)
    BY <2>1 DEF Running
  <2>3. ASSUME NEW i \in from .. last, i # from PROVE h[i - 1] = g[i - 1]
    BY <2>3
  <2>4. ASSUME NEW i \in from .. last PROVE h[i] = IF i = from THEN a ELSE E(h, i)
    <3>1. CASE i = from
      BY <2>2, <3>1
    <3>2. CASE i # from
      <4>1. E(h, i) = E(g, i)
        BY <2>3, <3>2, Zenon
      <4>2. CASE i = last
        <5>1. h[i] = E(g, i)
          <6> HIDE DEF E
          <6> QED BY <4>2
        <5> QED
          BY <3>2, <4>1, <5>1, Zenon
      <4>3. CASE i # last
        <5>1. i \in from .. from + k
          BY <4>3
        <5>2. h[i] = g[i]
          <6> HIDE DEF E
          <6> QED BY <4>3
        <5> QED
          BY <2>2, <3>2, <4>1, <5>1, <5>2, Zenon
      <4> QED
        BY <4>2, <4>3
    <3> QED
      BY <3>1, <3>2
  <2>5. h = [i \in from .. last |-> h[i]]
    OBVIOUS
  <2>6. Running(h, a, from, last)
    <3> HIDE DEF h, last
    <3> QED BY <2>4, <2>5, Zenon DEF Running
  <2>7. \E f : Running(f, a, from, last)
    <3> HIDE DEF h, last
    <3> QED BY <2>6, Zenon
  <2> QED
    BY <2>7
<1>3. Nat \subseteq T
  <2> HIDE DEF T
  <2> QED BY <1>1, <1>2, Induct
<1> QED
  BY <1>3

\* What ExecuteRange returns is the last of them.
LEMMA RangeIsRun ==
    ASSUME NEW a, NEW from \in Nat, NEW n \in Nat
    PROVE  \E g : Running(g, a, from, from + n) /\ ExecuteRange(a, from, from + n) = g[from + n]
<1> DEFINE c == CHOOSE g : Running(g, a, from, from + n)
<1>1. Running(c, a, from, from + n)
  BY RunExists, Zenon
<1>2. ExecuteRange(a, from, from + n) = c[from + n]
  BY Zenon DEF ExecuteRange, Running
<1> QED
  BY <1>1, <1>2, Zenon

\* An empty range changes nothing.
LEMMA NoneExecuted ==
    ASSUME NEW a, NEW from \in Nat PROVE ExecuteRange(a, from, from) = a
<1>1. PICK g : Running(g, a, from, from + 0) /\ ExecuteRange(a, from, from + 0) = g[from + 0]
  BY RangeIsRun, 0 \in Nat, Zenon
<1>2. from + 0 = from
  OBVIOUS
<1>3. g[from] = a
  BY <1>1 DEF Running
<1> QED
  BY <1>1, <1>2, <1>3, Zenon

\* One certificate more is executed on what the ones before it came to.
LEMMA OneMoreExecuted ==
    ASSUME NEW a, NEW from \in Nat, NEW n \in Nat
    PROVE  ExecuteRange(a, from, from + (n + 1))
             = ExecuteCertificate(ExecuteRange(a, from, from + n), from + (n + 1))
<1>1. PICK g : Running(g, a, from, from + n) /\ ExecuteRange(a, from, from + n) = g[from + n]
  BY RangeIsRun, Zenon
<1>2. n + 1 \in Nat
  OBVIOUS
<1>3. PICK h : /\ Running(h, a, from, from + (n + 1))
               /\ ExecuteRange(a, from, from + (n + 1)) = h[from + (n + 1)]
  BY <1>2, RangeIsRun, Zenon
<1>4. g[from + n] = h[from + n]
  <2> DEFINE E(f, i) == ExecuteCertificate(f[i - 1], i)
             T == {k \in Nat : k <= n => g[from + k] = h[from + k]}
  <2>1. /\ \A i \in from .. from + n : g[i] = IF i = from THEN a ELSE E(g, i)
        /\ \A i \in from .. from + (n + 1) : h[i] = IF i = from THEN a ELSE E(h, i)
    BY <1>1, <1>3 DEF Running
  <2>2. 0 \in T
    BY <2>1
  <2>3. ASSUME NEW k \in Nat, k \in T PROVE k + 1 \in T
    <3> SUFFICES ASSUME k + 1 <= n PROVE g[from + (k + 1)] = h[from + (k + 1)]
      OBVIOUS
    <3> DEFINE j == from + (k + 1)
    <3>1. g[from + k] = h[from + k]
      BY <2>3
    <3>2. j - 1 = from + k /\ j # from /\ j \in from .. from + n /\ j \in from .. from + (n + 1)
      OBVIOUS
    <3>3. E(g, j) = E(h, j)
      <4>1. g[j - 1] = h[j - 1]
        BY <3>1, <3>2
      <4> QED
        BY <4>1, Zenon
    <3> QED
      BY <2>1, <3>2, <3>3, Zenon
  <2>4. Nat \subseteq T
    <3> HIDE DEF T
    <3> QED BY <2>2, <2>3, Induct
  <2> QED
    BY <2>4
<1> DEFINE i == from + (n + 1)
<1>5. i \in from .. i /\ i # from /\ i - 1 = from + n
  OBVIOUS
<1>6. h[i] = ExecuteCertificate(h[i - 1], i)
  <2>1. Running(h, a, from, i)
    BY <1>3
  <2> HIDE DEF i
  <2> QED BY <1>5, <2>1 DEF Running
<1>7. h[i] = ExecuteCertificate(g[from + n], i)
  <2>1. h[i - 1] = g[from + n]
    BY <1>4, <1>5
  <2> QED
    BY <1>6, <2>1, Zenon
<1> QED
  BY <1>1, <1>3, <1>7, Zenon

\* Executing a range, and the next one on what it came to, is executing both
\* at once.
LEMMA RangesCompose ==
    ASSUME NEW a, NEW d \in Nat, NEW n \in Nat
    PROVE  ExecuteRange(ExecuteRange(a, 0, d), d, d + n) = ExecuteRange(a, 0, d + n)
<1> DEFINE b == ExecuteRange(a, 0, d)
           T == {k \in Nat : ExecuteRange(b, d, d + k) = ExecuteRange(a, 0, d + k)}
<1>1. 0 \in T
  <2>1. ExecuteRange(b, d, d) = b
    BY NoneExecuted, Zenon
  <2>2. d + 0 = d
    OBVIOUS
  <2>3. ExecuteRange(b, d, d + 0) = ExecuteRange(a, 0, d + 0)
    BY <2>1, <2>2, Zenon
  <2> QED
    BY <2>3, 0 \in Nat, Zenon
<1>2. ASSUME NEW k \in Nat, k \in T PROVE k + 1 \in T
  <2>1. ExecuteRange(b, d, d + k) = ExecuteRange(a, 0, d + k)
    BY <1>2, Zenon
  <2>2. /\ 0 + (d + k) = d + k /\ 0 + ((d + k) + 1) = d + (k + 1) /\ d + k \in Nat
        /\ k + 1 \in Nat /\ 0 \in Nat
    OBVIOUS
  <2>3. ExecuteRange(b, d, d + (k + 1))
          = ExecuteCertificate(ExecuteRange(b, d, d + k), d + (k + 1))
    BY OneMoreExecuted, Zenon
  <2>4. ExecuteRange(a, 0, 0 + ((d + k) + 1))
          = ExecuteCertificate(ExecuteRange(a, 0, 0 + (d + k)), 0 + ((d + k) + 1))
    <3> DEFINE m == d + k
    <3>1. m \in Nat
      BY <2>2
    <3> HIDE DEF m
    <3>2. ExecuteRange(a, 0, 0 + (m + 1)) = ExecuteCertificate(ExecuteRange(a, 0, 0 + m), 0 + (m + 1))
      BY <2>2, <3>1, OneMoreExecuted, Zenon
    <3> QED
      BY <3>2, Zenon DEF m
  <2>5. ExecuteRange(a, 0, d + (k + 1))
          = ExecuteCertificate(ExecuteRange(a, 0, d + k), d + (k + 1))
    BY <2>2, <2>4, Zenon
  <2>6. ExecuteRange(b, d, d + (k + 1)) = ExecuteRange(a, 0, d + (k + 1))
    BY <2>1, <2>3, <2>5, Zenon
  <2> QED
    BY <2>2, <2>6, Zenon
<1>3. Nat \subseteq T
  <2> HIDE DEF T
  <2> QED BY <1>1, <1>2, Induct
<1> QED
  BY <1>3, Zenon

----------------------------------------------------------------------------
\* The executable prefix

\* It ends somewhere from where execution stands to where the order does.
LEMMA PrefixIsWithin ==
    ASSUME NEW from \in Nat, NEW to \in Nat, from <= to, NEW have
    PROVE  take_executable_prefix(from, to, have) \in from .. to
<1> DEFINE Free(k) == \A i \in from + 1 .. k : HasBatch(i) => i \in have
           S == {k \in from .. to : Free(k)}
<1>1. from \in S
  <2>1. from + 1 .. from = {}
    OBVIOUS
  <2> QED
    BY <2>1
<1> HIDE DEF Free
<1>2. \E m \in S : \A y \in S : m >= y
  <2>0. SUFFICES ASSUME \A m \in S : \E y \in S : ~(m >= y) PROVE FALSE
    BY Zenon
  <2> DEFINE U == {k \in Nat : \E y \in S : y >= from + k}
  <2>1. 0 \in U
    BY <1>1
  <2>2. ASSUME NEW k \in Nat, k \in U PROVE k + 1 \in U
    <3>1. PICK y \in S : y >= from + k
      BY <2>2
    <3>2. PICK z \in S : ~(y >= z)
      BY <2>0, Zenon
    <3> QED
      BY <3>1, <3>2
  <2>3. Nat \subseteq U
    <3> HIDE DEF U
    <3> QED BY <2>1, <2>2, Induct
  <2>4. to + 1 \in U
    <3> HIDE DEF U
    <3> QED BY <2>3
  <2>5. PICK y \in S : y >= from + (to + 1)
    <3> HIDE DEF S
    <3> QED BY <2>4, Zenon
  <2> QED
    BY <2>5
<1>3. Max(S) \in S
  <2> HIDE DEF S
  <2> QED BY <1>2, Zenon DEF Max
<1>4. take_executable_prefix(from, to, have) = Max(S)
  BY Zenon DEF take_executable_prefix, Free
<1> QED
  BY <1>3, <1>4

----------------------------------------------------------------------------
\* The invariant

\* What a validator that has not restarted has executed is a prefix of what
\* was ordered, and its accounts are those of that prefix.
ExecInv ==
    /\ restarts \in Nat
    /\ restarts = 0 =>
         /\ done \in Nat /\ ordered \in Nat /\ done <= ordered
         /\ chain = [accts |-> chain.accts, credits |-> chain.credits,
                     tallies |-> chain.tallies, nextQuanto |-> chain.nextQuanto]
         /\ chain.accts = Canonical(done)

\* A commit leaves the participation counts alone and executes the prefix.
LEMMA CommittedAccounts ==
    ASSUME NEW c, NEW to, NEW have,
           c = [accts |-> c.accts, credits |-> c.credits,
                tallies |-> c.tallies, nextQuanto |-> c.nextQuanto]
    PROVE  LET r == Committed(c, to, have)
           IN  /\ r = [accts |-> r.accts, credits |-> r.credits,
                       tallies |-> r.tallies, nextQuanto |-> r.nextQuanto]
               /\ r.accts = ExecuteRange(c.accts, done, take_executable_prefix(done, to, have))
<1> DEFINE fed == [c EXCEPT !.credits = Credited(@, ordered, to)]
           set == set_quanto_participation(fed, gcFloor)
           k   == take_executable_prefix(done, to, have)
           r   == Committed(c, to, have)
<1>1. fed = [accts |-> c.accts, credits |-> Credited(c.credits, ordered, to),
             tallies |-> c.tallies, nextQuanto |-> c.nextQuanto]
  OBVIOUS
<1> HIDE DEF fed
<1>2. /\ set.accts = c.accts
      /\ set = [accts |-> set.accts, credits |-> set.credits,
                tallies |-> set.tallies, nextQuanto |-> set.nextQuanto]
  BY <1>1, Zenon DEF set_quanto_participation
<1>3. r = [set EXCEPT !.accts = ExecuteRange(@, done, k)]
  BY DEF Committed, fed
<1> HIDE DEF set, k, r
<1>4. r = [accts |-> ExecuteRange(set.accts, done, k), credits |-> set.credits,
           tallies |-> set.tallies, nextQuanto |-> set.nextQuanto]
  BY <1>2, <1>3
<1>5. /\ r.accts = ExecuteRange(c.accts, done, k) /\ r.credits = set.credits
      /\ r.tallies = set.tallies /\ r.nextQuanto = set.nextQuanto
  BY <1>2, <1>4
<1>6. r = [accts |-> r.accts, credits |-> r.credits,
           tallies |-> r.tallies, nextQuanto |-> r.nextQuanto]
  BY <1>2, <1>4, <1>5
<1> QED
  BY <1>5, <1>6 DEF r, k

\* The end of every handler keeps the invariant: certificates already queued
\* are never passed by.
LEMMA CommitKeeps ==
    ASSUME ExecInv, NEW to \in Nat, ordered <= to, NEW have, NEW missing,
           try_commit(to, have, missing), restarts' = restarts
    PROVE  ExecInv'
<1>1. restarts' \in Nat
  BY DEF ExecInv
<1>2. ASSUME restarts' = 0
      PROVE  /\ done' \in Nat /\ ordered' \in Nat /\ done' <= ordered'
             /\ chain' = [accts |-> chain'.accts, credits |-> chain'.credits,
                          tallies |-> chain'.tallies, nextQuanto |-> chain'.nextQuanto]
             /\ chain'.accts = Canonical(done')
  <2>1. /\ done \in Nat /\ ordered \in Nat /\ done <= ordered
        /\ chain = [accts |-> chain.accts, credits |-> chain.credits,
                    tallies |-> chain.tallies, nextQuanto |-> chain.nextQuanto]
        /\ chain.accts = Canonical(done)
    BY <1>2 DEF ExecInv
  <2> DEFINE k == take_executable_prefix(done, to, have)
  <2>2. /\ ordered' = to /\ done' = k /\ chain' = Committed(chain, to, have)
    BY DEF try_commit
  <2>3. k \in done .. to
    <3>1. done <= to
      BY <2>1
    <3> QED
      BY <2>1, <3>1, PrefixIsWithin, Zenon
  <2> HIDE DEF k
  <2>4. /\ chain' = [accts |-> chain'.accts, credits |-> chain'.credits,
                     tallies |-> chain'.tallies, nextQuanto |-> chain'.nextQuanto]
        /\ chain'.accts = ExecuteRange(chain.accts, done, k)
    <3>1. LET r == Committed(chain, to, have)
          IN  /\ r = [accts |-> r.accts, credits |-> r.credits,
                      tallies |-> r.tallies, nextQuanto |-> r.nextQuanto]
              /\ r.accts = ExecuteRange(chain.accts, done, take_executable_prefix(done, to, have))
      BY <2>1, CommittedAccounts, Zenon
    <3> QED
      BY <2>2, <3>1, Zenon DEF k
  <2>5. k - done \in Nat /\ done + (k - done) = k /\ k \in Nat
    BY <2>1, <2>3
  <2>6. ExecuteRange(Canonical(done), done, k) = Canonical(k)
    <3> DEFINE a == Opening.accts
    <3>1. ExecuteRange(ExecuteRange(a, 0, done), done, done + (k - done))
            = ExecuteRange(a, 0, done + (k - done))
      <4> HIDE DEF a
      <4> QED BY <2>1, <2>5, RangesCompose, Zenon
    <3> QED
      BY <2>5, <3>1, Zenon DEF Canonical
  <2> QED
    BY <2>1, <2>2, <2>3, <2>4, <2>5, <2>6
<1> QED
  BY <1>1, <1>2 DEF ExecInv

\* A step that commits nothing keeps it too.
LEMMA OtherKeeps ==
    ASSUME ExecInv, UNCHANGED <<ordered, done, chain, restarts>> PROVE ExecInv'
  BY Zenon DEF ExecInv, Canonical

(* Every step of the node keeps the invariant.                             *)
LEMMA ExecKeepsInv == ExecInv /\ [ExecNext]_execVars => ExecInv'
<1> SUFFICES ASSUME ExecInv, [ExecNext]_execVars PROVE ExecInv'
  OBVIOUS
<1>0. CASE restarts # 0 /\ restarts' \in {restarts, restarts + 1}
  BY <1>0 DEF ExecInv
<1>1. ASSUME restarts = 0 PROVE ordered \in Nat /\ ordered + 1 \in Nat /\ ordered <= ordered + 1 /\ ordered <= ordered
  BY <1>1 DEF ExecInv
<1>2. ASSUME ReceiveCertificate PROVE ExecInv'
  <2>1. /\ restarts' = restarts
        /\ try_commit(ordered + 1, batches, {i \in {ordered + 1} : HasBatch(i)})
    BY <1>2 DEF ReceiveCertificate
  <2>2. CASE restarts = 0
    BY <1>1, <2>1, <2>2, CommitKeeps, Zenon
  <2> QED
    BY <1>0, <2>1, <2>2
<1>3. ASSUME ReceiveAgain PROVE ExecInv'
  <2>1. restarts' = restarts /\ try_commit(ordered, batches, {i \in {ordered} : HasBatch(i)})
    BY <1>3 DEF ReceiveAgain
  <2>2. CASE restarts = 0
    BY <1>1, <2>1, <2>2, CommitKeeps, Zenon
  <2> QED
    BY <1>0, <2>1, <2>2
<1>4. ASSUME NEW i \in Positions, ReceiveBatch(i) \/ GossipedBatch(i) PROVE ExecInv'
  <2>1. restarts' = restarts /\ try_commit(ordered, batches \cup {i}, {})
    BY <1>4 DEF ReceiveBatch, GossipedBatch, admit_batch
  <2>2. CASE restarts = 0
    BY <1>1, <2>1, <2>2, CommitKeeps, Zenon
  <2> QED
    BY <1>0, <2>1, <2>2
<1>5. ASSUME NEW i \in Positions, Serve(i) PROVE ExecInv'
  BY <1>5, OtherKeeps, Zenon DEF Serve
<1>6. ASSUME Lose PROVE ExecInv'
  BY <1>6, OtherKeeps, Zenon DEF Lose
<1>7. ASSUME retry_pending_resync_requests \/ prune_stale_round_state \/ ProposeRound
      PROVE  ExecInv'
  BY <1>7, OtherKeeps, Zenon DEF retry_pending_resync_requests, prune_stale_round_state, ProposeRound
<1>8. ASSUME Restart PROVE ExecInv'
  <2>1. restarts' = restarts + 1
    BY <1>8 DEF Restart
  <2> QED
    BY <2>1 DEF ExecInv
<1>9. ASSUME UNCHANGED execVars PROVE ExecInv'
  BY <1>9, OtherKeeps, Zenon DEF execVars
<1> QED
  BY <1>2, <1>3, <1>4, <1>5, <1>6, <1>7, <1>8, <1>9, Zenon DEF ExecNext

\* A validator that never stopped has, after every handler, the accounts of a
\* prefix of the order (`take_executable_prefix`, `try_commit`): for every
\* order, and however certificates and batches arrive, are lost, asked for
\* again or pruned.
THEOREM ExecutionFollowsOrderAlways == ExecSpec => []ExecutionFollowsOrder
<1>1. ExecInit => ExecInv
  <2> SUFFICES ASSUME ExecInit PROVE ExecInv
    OBVIOUS
  <2>1. restarts = 0 /\ done = 0 /\ ordered = 0 /\ chain = Opening
    BY DEF ExecInit
  <2>2. chain = [accts |-> chain.accts, credits |-> chain.credits,
                 tallies |-> chain.tallies, nextQuanto |-> chain.nextQuanto]
    BY <2>1 DEF Opening
  <2>3. Canonical(0) = Opening.accts
    BY NoneExecuted, 0 \in Nat, Zenon DEF Canonical
  <2> QED
    BY <2>1, <2>2, <2>3 DEF ExecInv
<1>2. ExecInv => ExecutionFollowsOrder
  BY DEF ExecInv, ExecutionFollowsOrder
<1> QED
  BY <1>1, <1>2, ExecKeepsInv, PTL DEF ExecSpec

----------------------------------------------------------------------------
(* The databases.                                                          *)

----------------------------------------------------------------------------
(* The largest element of a bounded set of naturals is what Max picks.     *)
LEMMA MaxIsLargest ==
    ASSUME NEW N \in Nat, NEW S, S \subseteq 0 .. N, S # {}
    PROVE  Max(S) \in S /\ \A n \in S : n <= Max(S)
<1> DEFINE T == {k \in Nat : \A n \in S : n <= k}
           R == OpToRel(<, Nat)
<1>1. IsWellFoundedOn(R, Nat)
  BY NatLessThanWellFounded, Zenon
<1>2. \A x, y \in Nat : x < y => <<x, y>> \in R
  BY DEF OpToRel
<1>3. T \subseteq Nat /\ N \in T
  OBVIOUS
<1> HIDE DEF R
<1>4. PICK m \in T : \A y \in T : ~ (<<y, m>> \in R)
  <2> HIDE DEF T
  <2> QED
    BY <1>1, <1>3, WFMin, Zenon
<1>5. ASSUME NEW k \in T PROVE ~(k < m)
  BY <1>2, <1>3, <1>4, Zenon
<1>6. m \in S
  <2> SUFFICES ASSUME m \notin S PROVE FALSE
    OBVIOUS
  <2>1. m # 0
    <3> SUFFICES ASSUME m = 0 PROVE FALSE
      OBVIOUS
    <3>1. PICK n \in S : TRUE
      BY Zenon
    <3> QED
      BY <3>1
  <2>2. m - 1 \in T
    BY <2>1
  <2> QED
    BY <1>5, <2>2
<1>7. \E x \in S : \A y \in S : x >= y
  BY <1>6
<1> QED
  BY <1>7, Zenon DEF Max

----------------------------------------------------------------------------
(* The databases.                                                          *)

(* What a database may hold under a key.                                   *)
Values == Data \union {Absent}

(* What the flush relies on: a key that is not marked is on disk already.  *)
StoreInv ==
    /\ mem \in [StoreKeys -> Values] /\ table \in [StoreKeys -> Values]
    /\ \A k \in StoreKeys : k \in dirty \/ mem[k] = table[k]
    /\ table = committed

(* The places in the queue of writes that are for key i.                   *)
Queued(i) == {n \in DOMAIN pending : pending[n].key = i}

(* What the log relies on: nothing at or above the counter holds a value,  *)
(* on disk or in the queue.                                                *)
LogInv ==
    /\ next_id \in Ids
    /\ pending \in Seq([key : Ids, value : Values])
    /\ log \in [Ids -> Values] /\ appended \in [Ids -> Values]
    /\ \A i \in Ids : i >= next_id => log[i] = Absent
    /\ \A n \in DOMAIN pending : pending[n].key >= next_id => pending[n].value = Absent
    /\ \A i \in Ids : LogGet(i) = appended[i]

(* Both invariants hold when the node starts.                              *)
LEMMA StoreInitially == StoreInit => StoreInv /\ LogInv
<1> SUFFICES ASSUME StoreInit PROVE StoreInv /\ LogInv
  OBVIOUS
<1>1. StoreInv
  BY DEF StoreInit, StoreInv, Values
<1>2. pending = << >> /\ DOMAIN pending = {}
  BY DEF StoreInit
<1>3. 0 \in Ids
  BY StoreAssumption DEF Ids
<1>4. \A i \in Ids : LogGet(i) = log[i]
  BY <1>2 DEF LogGet
<1>5. next_id = 0 /\ log = [i \in Ids |-> Absent] /\ appended = log
  BY DEF StoreInit
<1>6. pending \in Seq([key : Ids, value : Values])
  BY <1>2
<1> QED
  BY <1>1, <1>2, <1>3, <1>4, <1>5, <1>6 DEF LogInv, Values

(* Every write marks its key, a flush writes all that are marked, and a    *)
(* reopened store starts from the table.                                   *)
LEMMA StoreKeepsInv ==
    ASSUME StoreInv, StoreNext
    PROVE  StoreInv'
<1>1. ASSUME NEW k \in StoreKeys, NEW v \in Values, StoreSet(k, v) PROVE StoreInv'
  <2>1. /\ mem' = [mem EXCEPT ![k] = v] /\ dirty' = dirty \union {k}
        /\ table' = table /\ committed' = committed
    BY <1>1 DEF StoreSet
  <2> QED
    BY <2>1 DEF StoreInv
<1>2. ASSUME StoreFlush PROVE StoreInv'
  <2>1. /\ table' = [k \in StoreKeys |-> IF k \in dirty THEN mem[k] ELSE table[k]]
        /\ committed' = mem /\ mem' = mem
    BY <1>2 DEF StoreFlush
  <2>2. table' = mem
    BY <2>1 DEF StoreInv
  <2> QED
    BY <2>1, <2>2 DEF StoreInv
<1>3. ASSUME StoreReopen PROVE StoreInv'
  BY <1>3 DEF StoreReopen, StoreInv
<1> QED
  BY <1>1, <1>2, <1>3 DEF StoreNext, Values

(* The last queued write of a key is the one that counts.                  *)
LEMMA YoungestQueued ==
    ASSUME LogInv, NEW i \in Ids
    PROVE  /\ Queued(i) = {} => LogGet(i) = log[i]
           /\ Queued(i) # {} => /\ Max(Queued(i)) \in Queued(i)
                                /\ \A n \in Queued(i) : n <= Max(Queued(i))
                                /\ LogGet(i) = pending[Max(Queued(i))].value
<1>1. Queued(i) \subseteq 1 .. Len(pending) /\ Len(pending) \in Nat
  BY DEF LogInv, Queued
<1>2. Queued(i) \subseteq 0 .. Len(pending)
  BY <1>1
<1>3. ASSUME Queued(i) # {}
      PROVE  Max(Queued(i)) \in Queued(i) /\ \A n \in Queued(i) : n <= Max(Queued(i))
  BY <1>1, <1>2, <1>3, MaxIsLargest
<1> QED
  BY <1>3 DEF LogGet, Queued

(* One more write at the end of the queue.                                 *)
LEMMA OneMoreQueued ==
    ASSUME LogInv, NEW k \in Ids, NEW v \in Values,
           pending' = Append(pending, [key |-> k, value |-> v]),
           appended' = [appended EXCEPT ![k] = v], log' = log
    PROVE  /\ pending' \in Seq([key : Ids, value : Values])
           /\ appended' \in [Ids -> Values]
           /\ \A i \in Ids : LogGet(i)' = appended'[i]
<1> DEFINE last == Len(pending) + 1
<1>1. /\ pending' \in Seq([key : Ids, value : Values])
      /\ Len(pending) \in Nat /\ DOMAIN pending = 1 .. Len(pending)
      /\ DOMAIN pending' = 1 .. last
      /\ pending'[last] = [key |-> k, value |-> v]
      /\ \A n \in DOMAIN pending : pending'[n] = pending[n]
  BY DEF LogInv
<1>2. appended' \in [Ids -> Values]
  BY DEF LogInv
<1>3. ASSUME NEW i \in Ids PROVE LogGet(i)' = appended'[i]
  <2> DEFINE q == {n \in DOMAIN pending' : pending'[n].key = i}
  <2>1. LogGet(i)' = IF q = {} THEN log[i] ELSE pending'[Max(q)].value
    BY DEF LogGet
  <2>2. CASE i = k
    <3>1. last \in q /\ \A n \in q : n \in Nat /\ n <= last
      BY <1>1, <2>2
    <3>2. Max(q) = last
      BY <3>1 DEF Max
    <3>3. LogGet(i)' = pending'[last].value
      BY <2>1, <3>1, <3>2, Zenon
    <3> QED
      BY <1>1, <2>2, <3>3 DEF LogInv
  <2>3. CASE i # k
    <3>1. q = Queued(i)
      BY <1>1, <2>3 DEF Queued
    <3>2. appended'[i] = LogGet(i)
      BY <2>3 DEF LogInv
    <3>3. Queued(i) \subseteq DOMAIN pending
      BY DEF Queued
    <3> HIDE DEF q
    <3> QED
      BY <1>1, <2>1, <3>1, <3>2, <3>3, YoungestQueued
  <2> QED
    BY <2>2, <2>3
<1> QED
  BY <1>1, <1>2, <1>3

(* Appending, removing, flushing and reopening: what is read is what was   *)
(* written, and the counter stays above every value.                       *)
LEMMA LogKeepsInv ==
    ASSUME LogInv, LogNext
    PROVE  LogInv'
<1>1. ASSUME NEW v \in Data, LogAppend(v) PROVE LogInv'
  <2>1. /\ next_id < MaxIds /\ next_id' = next_id + 1
        /\ pending' = Append(pending, [key |-> next_id, value |-> v])
        /\ appended' = [appended EXCEPT ![next_id] = v] /\ log' = log
    BY <1>1 DEF LogAppend, generate_id
  <2>2. next_id \in Ids /\ v \in Values
    BY DEF LogInv, Values
  <2>3. /\ pending' \in Seq([key : Ids, value : Values])
        /\ appended' \in [Ids -> Values]
        /\ \A i \in Ids : LogGet(i)' = appended'[i]
    BY <2>1, <2>2, OneMoreQueued, Zenon
  <2>4. next_id' \in Ids /\ \A i \in Ids : i >= next_id' => log'[i] = Absent
    BY <2>1, <2>2, StoreAssumption DEF LogInv, Ids
  <2>5. \A n \in DOMAIN pending' : pending'[n].key >= next_id' => pending'[n].value = Absent
    <3>0. pending \in Seq([key : Ids, value : Values])
      BY DEF LogInv
    <3>1. /\ DOMAIN pending' = 1 .. Len(pending) + 1
          /\ pending'[Len(pending) + 1] = [key |-> next_id, value |-> v]
          /\ Len(pending) \in Nat /\ DOMAIN pending = 1 .. Len(pending)
          /\ \A n \in DOMAIN pending : pending'[n] = pending[n]
      BY <2>1, <3>0
    <3>a. \A n \in DOMAIN pending : pending[n].key \in Ids
      <4> DEFINE R == [key : Ids, value : Values]
      <4>1. \A n \in DOMAIN pending : pending[n] \in R
        <5>1. pending \in Seq(R)
          BY <3>0
        <5> HIDE DEF R
        <5> QED BY <5>1
      <4> QED
        BY <4>1
    <3>2. \A n \in DOMAIN pending : pending[n].key >= next_id => pending[n].value = Absent
      BY DEF LogInv
    <3>3. next_id \in Nat /\ \A i \in Ids : i \in Nat
      BY <2>2, StoreAssumption DEF Ids
    <3> QED
      BY <2>1, <3>1, <3>a, <3>2, <3>3
  <2>6. log' \in [Ids -> Values]
    BY <2>1 DEF LogInv
  <2> QED
    BY <2>3, <2>4, <2>5, <2>6 DEF LogInv
<1>2. ASSUME NEW k \in 0 .. next_id, LogRemove(k) PROVE LogInv'
  <2>1. /\ next_id' = next_id
        /\ pending' = Append(pending, [key |-> k, value |-> Absent])
        /\ appended' = [appended EXCEPT ![k] = Absent] /\ log' = log
    BY <1>2 DEF LogRemove
  <2>2. k \in Ids /\ Absent \in Values
    BY StoreAssumption DEF LogInv, Values, Ids
  <2>3. /\ pending' \in Seq([key : Ids, value : Values])
        /\ appended' \in [Ids -> Values]
        /\ \A i \in Ids : LogGet(i)' = appended'[i]
    BY <2>1, <2>2, OneMoreQueued, Zenon
  <2>4. \A n \in DOMAIN pending' : pending'[n].key >= next_id' => pending'[n].value = Absent
    BY <2>1, <2>2 DEF LogInv
  <2> QED
    BY <2>1, <2>3, <2>4 DEF LogInv
<1>3. ASSUME LogFlush PROVE LogInv'
  <2>1. /\ log' = Replayed(Len(pending)) /\ pending' = << >>
        /\ next_id' = next_id /\ appended' = appended
    BY <1>3 DEF LogFlush
  <2>2. \A i \in Ids : log'[i] = LogGet(i)
    <3>1. DOMAIN pending = 1 .. Len(pending)
      BY DEF LogInv
    <3> QED
      BY <2>1, <3>1, Zenon DEF Replayed, LogGet
  <2>3. log' = appended
    <3>1. DOMAIN log' = Ids /\ log' = [i \in Ids |-> log'[i]]
      BY <2>1 DEF Replayed
    <3> QED
      BY <2>2, <3>1 DEF LogInv
  <2>4. \A i \in Ids : LogGet(i)' = log'[i]
    BY <2>1 DEF LogGet
  <2>5. ASSUME NEW i \in Ids, i >= next_id PROVE log'[i] = Absent
    <3>1. CASE Queued(i) = {}
      BY <2>2, <2>5, <3>1, YoungestQueued DEF LogInv
    <3>2. CASE Queued(i) # {}
      <4>1. Max(Queued(i)) \in DOMAIN pending /\ pending[Max(Queued(i))].key = i
        BY <3>2, YoungestQueued, Zenon DEF Queued
      <4> QED
        BY <2>2, <2>5, <3>2, <4>1, YoungestQueued DEF LogInv
    <3> QED
      BY <3>1, <3>2
  <2>6. pending' \in Seq([key : Ids, value : Values]) /\ DOMAIN pending' = {}
    BY <2>1
  <2> QED
    BY <2>1, <2>3, <2>4, <2>5, <2>6 DEF LogInv
<1>4. ASSUME LogReopen PROVE LogInv'
  <2> DEFINE used == {j \in Ids : log[j] # Absent}
             above == {0} \union {i + 1 : i \in used}
  <2>1. next_id' = Max(above) /\ pending' = << >> /\ appended' = log /\ log' = log
    BY <1>4 DEF LogReopen
  <2>2. above \subseteq 0 .. MaxIds
    <3>1. \A i \in used : i < next_id
      BY StoreAssumption DEF LogInv, Ids
    <3> QED
      BY <3>1, StoreAssumption DEF LogInv, Ids
  <2>3. above # {} /\ above \subseteq Nat
    BY <2>2, StoreAssumption
  <2>4. Max(above) \in above /\ \A i \in above : i <= Max(above)
    <3> HIDE DEF above
    <3> QED
      BY <2>2, <2>3, StoreAssumption, MaxIsLargest, Zenon
  <2>5. next_id' \in Ids
    BY <2>1, <2>2, <2>4 DEF Ids
  <2>6. \A i \in Ids : i >= next_id' => log'[i] = Absent
    <3> SUFFICES ASSUME NEW i \in used PROVE ~(i >= next_id')
      BY <2>1
    <3>1. i + 1 \in above /\ i \in Nat
      BY StoreAssumption DEF Ids
    <3> QED
      BY <2>1, <2>2, <2>3, <2>4, <3>1
  <2>7. \A i \in Ids : LogGet(i)' = log'[i]
    BY <2>1 DEF LogGet
  <2>8. pending' \in Seq([key : Ids, value : Values]) /\ DOMAIN pending' = {}
    BY <2>1
  <2> QED
    BY <2>1, <2>5, <2>6, <2>7, <2>8 DEF LogInv
<1> QED
  BY <1>1, <1>2, <1>3, <1>4 DEF LogNext

(* What is not touched stays as it is.                                     *)
LEMMA DatabasesAtRest ==
    ASSUME StoreInv, LogInv
    PROVE  /\ UNCHANGED <<mem, dirty, table, committed>> => StoreInv'
           /\ UNCHANGED logVars => LogInv'
<1>1. UNCHANGED <<mem, dirty, table, committed>> => StoreInv'
  BY Zenon DEF StoreInv
<1>2. ASSUME UNCHANGED logVars PROVE LogInv'
  <2>1. /\ pending' = pending /\ next_id' = next_id /\ log' = log /\ appended' = appended
    BY <1>2 DEF logVars
  <2> QED
    BY <2>1, Zenon DEF LogInv, LogGet
<1> QED
  BY <1>1, <1>2, Zenon

(* Both databases give back what was written to them, through any writes,  *)
(* failed or successful flushes and restarts.                              *)
THEOREM DatabasesAreExactAlways == StoreSpec => []DatabasesAreExact
<1>1. StoreInv /\ LogInv /\ [StoreNext \/ LogNext]_databaseVars => (StoreInv /\ LogInv)'
  <2> SUFFICES ASSUME StoreInv, LogInv, [StoreNext \/ LogNext]_databaseVars
               PROVE  StoreInv' /\ LogInv'
    OBVIOUS
  <2>1. CASE StoreNext
    <3>1. UNCHANGED logVars
      BY <2>1 DEF StoreNext, StoreSet, StoreFlush, StoreReopen
    <3> QED
      BY <2>1, <3>1, StoreKeepsInv, DatabasesAtRest
  <2>2. CASE LogNext
    <3>1. UNCHANGED <<mem, dirty, table, committed>>
      BY <2>2, Zenon DEF LogNext, LogAppend, LogRemove, LogFlush, LogReopen, storeVars
    <3> QED
      BY <2>2, <3>1, LogKeepsInv, DatabasesAtRest
  <2>3. CASE UNCHANGED databaseVars
    BY <2>3, DatabasesAtRest DEF databaseVars, logVars
  <2> QED
    BY <2>1, <2>2, <2>3
<1>2. StoreInv /\ LogInv => DatabasesAreExact
  <2> SUFFICES ASSUME StoreInv, LogInv PROVE DatabasesAreExact
    OBVIOUS
  <2>1. DiskIsLastFlush
    BY DEF StoreInv, DiskIsLastFlush
  <2>2. next_id \in Ids /\ next_id >= next_id
    BY StoreAssumption DEF LogInv, Ids
  <2>3. LogReadsItsWrites
    BY <2>2, Zenon DEF LogInv, LogReadsItsWrites
  <2> QED
    BY <2>1, <2>3 DEF DatabasesAreExact
<1> QED
  BY StoreInitially, <1>1, <1>2, PTL DEF StoreSpec

=============================================================================
