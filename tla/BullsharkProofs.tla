--------------------------- MODULE BullsharkProofs ---------------------------
(*****************************************************************************)
(* The commit rule and the walk, for any stakes, any committees (rotating or *)
(* not) and any DAG.                                                         *)
(*                                                                           *)
(* The commit rule on a partial DAG against the rule on the whole one: what  *)
(* is directly committed or skipped here is so there, the witness found here *)
(* is the witness there, and a leader committed here is committed there.     *)
(*                                                                           *)
(* The walk of a committed leader's causal history (`walk_causal_history`):  *)
(* for any barrier and set of certificates already emitted, what it emits is *)
(* new, is emitted once, is not below the barrier, and follows its parents.  *)
(* The recursion of the walk is unfolded with Iterates, and its invariant    *)
(* carried along with NatInduct.                                             *)
(*****************************************************************************)
EXTENDS Bullshark, WellFoundedInduction

----------------------------------------------------------------------------
\* Induction and iteration

\* A set of naturals has a least element.
LEMMA LeastNatural ==
    ASSUME NEW T, T \subseteq Nat, T # {}
    PROVE  \E m \in T : \A k \in T : m <= k
<1> DEFINE R == OpToRel(<, Nat)
<1>1. IsWellFoundedOn(R, Nat)
  BY NatLessThanWellFounded, Zenon
<1>2. \A x, y \in Nat : x < y => <<x, y>> \in R
  BY DEF OpToRel
<1> HIDE DEF R
<1>3. PICK m \in T : \A y \in T : ~ (<<y, m>> \in R)
  BY <1>1, WFMin, Zenon
<1>4. ASSUME NEW k \in T PROVE m <= k
  <2>1. m \in Nat /\ k \in Nat
    OBVIOUS
  <2>2. ~(k < m)
    BY <1>2, <1>3, <2>1, Zenon
  <2> QED
    BY <2>1, <2>2
<1> QED
  BY <1>4

\* Induction: a set that contains 0, and n + 1 with n, contains the naturals.
LEMMA NatInduct ==
    ASSUME NEW T, 0 \in T, \A n \in Nat : n \in T => n + 1 \in T
    PROVE  Nat \subseteq T
<1> DEFINE C == Nat \ T
<1> SUFFICES ASSUME C # {} PROVE FALSE
  OBVIOUS
<1>1. PICK m \in C : \A k \in C : m <= k
  BY LeastNatural, Zenon
<1>2. m # 0 /\ m \in Nat
  OBVIOUS
<1>3. m - 1 \in Nat /\ m - 1 \notin C
  BY <1>1, <1>2
<1>4. m - 1 + 1 \in T
  BY <1>3
<1> QED
  BY <1>2, <1>4

\* Iterating a function on a set: the sequence of its values exists.
Iteration(S, a, F, g) ==
    g \in [Nat -> S] /\ g[0] = a /\ \A n \in Nat : g[n + 1] = F[g[n]]

LEMMA Iterates ==
    ASSUME NEW S, NEW a \in S, NEW F \in [S -> S]
    PROVE  \E g : Iteration(S, a, F, g)
<1> DEFINE Follows(g, k) == g \in [0 .. k -> S] /\ g[0] = a
                              /\ \A n \in 0 .. k - 1 : g[n + 1] = F[g[n]]
           T == {k \in Nat : \E g : Follows(g, k)}
<1>1. 0 \in T
  <2> DEFINE g == [n \in 0 .. 0 |-> a]
  <2>1. Follows(g, 0)
    OBVIOUS
  <2> QED
    BY <2>1, Zenon
<1>2. ASSUME NEW k \in Nat, k \in T PROVE k + 1 \in T
  <2>1. PICK g : Follows(g, k)
    BY <1>2
  <2> DEFINE h == [n \in 0 .. k + 1 |-> IF n = k + 1 THEN F[g[k]] ELSE g[n]]
  <2>2. g[k] \in S /\ F[g[k]] \in S
    BY <2>1
  <2>3. h \in [0 .. k + 1 -> S] /\ h[0] = a
    BY <2>1, <2>2
  <2>4. ASSUME NEW n \in 0 .. k + 1 - 1 PROVE h[n + 1] = F[h[n]]
    <3>1. n \in 0 .. k /\ n + 1 \in 0 .. k + 1 /\ h[n] = g[n]
      OBVIOUS
    <3>2. CASE n = k
      BY <3>1, <3>2
    <3>3. CASE n < k
      <4>1. n \in 0 .. k - 1 /\ h[n + 1] = g[n + 1]
        BY <3>1, <3>3
      <4> QED
        BY <2>1, <3>1, <4>1
    <3> QED
      BY <3>2, <3>3
  <2>5. Follows(h, k + 1)
    <3> HIDE DEF h
    <3> QED BY <2>3, <2>4
  <2>6. \E f : Follows(f, k + 1)
    <3> HIDE DEF h, Follows
    <3> QED BY <2>5
  <2> QED
    BY <2>6
<1>3. \A k \in Nat : \E g : Follows(g, k)
  <2>1. Nat \subseteq T
    <3> HIDE DEF T
    <3> QED BY <1>1, <1>2, NatInduct
  <2> QED
    BY <2>1
<1> DEFINE G(k) == CHOOSE g : Follows(g, k)
           g == [k \in Nat |-> G(k)[k]]
<1>4. ASSUME NEW k \in Nat PROVE Follows(G(k), k)
  BY <1>3, Zenon
<1> HIDE DEF G
<1>5. ASSUME NEW k \in Nat PROVE \A n \in 0 .. k : G(k)[n] = G(k + 1)[n]
  <2> DEFINE E == {n \in Nat : n <= k => G(k)[n] = G(k + 1)[n]}
  <2>1. 0 \in E
    BY <1>4
  <2>2. ASSUME NEW n \in Nat, n \in E PROVE n + 1 \in E
    <3> SUFFICES ASSUME n + 1 <= k PROVE G(k)[n + 1] = G(k + 1)[n + 1]
      OBVIOUS
    <3>1. G(k)[n] = G(k + 1)[n] /\ n \in 0 .. k - 1 /\ n \in 0 .. k + 1 - 1
      BY <2>2
    <3>2. G(k)[n + 1] = F[G(k)[n]]
      BY <1>4, <3>1
    <3>3. Follows(G(k + 1), k + 1)
      BY <1>4
    <3>4. G(k + 1)[n + 1] = F[G(k + 1)[n]]
      BY <3>1, <3>3
    <3> QED
      BY <3>1, <3>2, <3>4
  <2>3. Nat \subseteq E
    <3> HIDE DEF E
    <3> QED BY <2>1, <2>2, NatInduct
  <2> QED
    BY <2>3
<1>6. g \in [Nat -> S] /\ g[0] = a
  BY <1>4
<1>7. ASSUME NEW n \in Nat PROVE g[n + 1] = F[g[n]]
  <2>1. Follows(G(n + 1), n + 1)
    BY <1>4
  <2>2. G(n + 1)[n + 1] = F[G(n + 1)[n]]
    BY <2>1
  <2>3. G(n)[n] = G(n + 1)[n]
    BY <1>5
  <2> QED
    BY <2>2, <2>3
<1> HIDE DEF g
<1>8. Iteration(S, a, F, g)
  BY <1>6, <1>7 DEF Iteration
<1> QED
  BY <1>8

\* A finite set of naturals that is not empty has a greatest element.
LEMMA GreatestNatural ==
    ASSUME NEW S, S \subseteq Nat, S # {}, IsFiniteSet(S)
    PROVE  \E m \in S : \A k \in S : k <= m
<1> DEFINE Topped(X) == X # {} => \E m \in X : \A k \in X : k <= m
           T == {n \in Nat : \A X \in SUBSET Nat :
                    IsFiniteSet(X) /\ Cardinality(X) = n => Topped(X)}
<1>1. 0 \in T
  BY FS_EmptySet
<1>2. ASSUME NEW n \in Nat, n \in T PROVE n + 1 \in T
  <2> SUFFICES ASSUME NEW X \in SUBSET Nat, IsFiniteSet(X), Cardinality(X) = n + 1, X # {}
               PROVE  \E m \in X : \A k \in X : k <= m
    OBVIOUS
  <2>1. PICK x \in X : TRUE
    BY Zenon
  <2>2. IsFiniteSet(X \ {x}) /\ Cardinality(X \ {x}) = n
    <3>1. IsFiniteSet(X \ {x}) /\ Cardinality(X \ {x}) = Cardinality(X) - 1
      BY FS_RemoveElement, Zenon
    <3> QED
      BY <3>1
  <2>3. X \ {x} # {} => \E m \in X \ {x} : \A k \in X \ {x} : k <= m
    BY <1>2, <2>2
  <2>4. CASE X \ {x} = {}
    BY <2>4
  <2>5. CASE X \ {x} # {}
    <3>1. PICK m \in X \ {x} : \A k \in X \ {x} : k <= m
      BY <2>3, <2>5
    <3>2. x \in Nat /\ m \in Nat /\ m \in X
      OBVIOUS
    <3>3. \A k \in X : k = x \/ k <= m
      BY <3>1
    <3>4. CASE x <= m
      BY <3>2, <3>3, <3>4
    <3>5. CASE m <= x
      <4>1. \A k \in X : k <= x
        BY <3>2, <3>3, <3>5
      <4> QED
        BY <4>1
    <3> QED
      BY <3>2, <3>4, <3>5
  <2> QED
    BY <2>4, <2>5
<1>3. Nat \subseteq T
  <2> HIDE DEF T
  <2> QED BY <1>1, <1>2, NatInduct
<1>4. Cardinality(S) \in Nat
  BY FS_CardinalityType
<1> QED
  BY <1>3, <1>4

\* What a function makes of a finite set is finite.
LEMMA ImageIsFinite ==
    ASSUME NEW S, IsFiniteSet(S), NEW f
    PROVE  IsFiniteSet({f[x] : x \in S})
<1> DEFINE T == {f[x] : x \in S}
           g == [x \in S |-> f[x]]
<1>1. g \in Surjection(S, T)
  BY DEF Surjection
<1> HIDE DEF g, T
<1>2. IsFiniteSet(T)
  BY <1>1, FS_Surjection
<1> QED
  BY <1>2 DEF T

----------------------------------------------------------------------------
\* The direct rule

\* More certificates never take support away from a leader.
LEMMA CommitGrows ==
    ASSUME NEW n, NEW d, d \subseteq n, NEW r, DirectlyCommitted(d, r)
    PROVE  DirectlyCommitted(n, r)
<1>1. PICK l \in LeaderCert(d, r) : IsQuorum(r, Supporters(d, r, l))
  BY DEF DirectlyCommitted
<1>2. l \in LeaderCert(n, r)
  BY <1>1 DEF LeaderCert, CertificatesInRound
<1>3. Supporters(d, r, l) \subseteq Supporters(n, r, l)
  BY DEF Supporters, CertificatesInRound
<1>4. /\ StakeOf(r, Supporters(d, r, l)) \in Nat
      /\ StakeOf(r, Supporters(n, r, l)) \in Nat
      /\ StakeOf(r, Supporters(d, r, l)) <= StakeOf(r, Supporters(n, r, l))
  BY <1>3, StakeMonotone
<1>5. TotalStake(r) \in Nat /\ QuorumThreshold(r) \in Nat
  BY StakeMonotone DEF TotalStake, QuorumThreshold
<1>6. IsQuorum(r, Supporters(n, r, l))
  BY <1>1, <1>4, <1>5 DEF IsQuorum
<1> QED
  BY <1>2, <1>6 DEF DirectlyCommitted

\* Every supporter in the whole DAG is a supporter here or an author whose
\* next-round certificate is still unknown here: `unknown_stake` counts all of
\* the support that can still appear.
LEMMA SupportIsKnownOrUnknown ==
    ASSUME NEW n, IsDag(n), NEW d, d \subseteq n, NEW r \in Nat, NEW l
    PROVE  Supporters(n, r, l) \subseteq Supporters(d, r, l) \cup UnknownAuthors(d, r)
<1> SUFFICES ASSUME NEW v \in Supporters(n, r, l), v \notin UnknownAuthors(d, r)
             PROVE  v \in Supporters(d, r, l)
  OBVIOUS
<1>1. PICK c \in n : Round[c] = r + 1 /\ l \in Parents[c] /\ v = Author[c]
  BY DEF Supporters, CertificatesInRound
<1>2. c \in Cert /\ v \in CommitteeOf(r + 1)
  BY <1>1, CertTyped DEF IsDag
<1>3. PICK e \in d : Round[e] = r + 1 /\ Author[e] = v
  BY <1>2 DEF UnknownAuthors, AuthorsInRound, CertificatesInRound
<1>4. e = c
  BY <1>1, <1>3 DEF IsDag
<1> QED
  BY <1>1, <1>3, <1>4 DEF Supporters, CertificatesInRound

\* A leader skipped on a partial DAG is not directly committed on the whole.
LEMMA SkipNeverCommits ==
    ASSUME NEW n, IsDag(n), NEW d, d \subseteq n, NEW r \in Nat, DirectlySkipped(d, r)
    PROVE  ~DirectlyCommitted(n, r)
<1> SUFFICES ASSUME DirectlyCommitted(n, r) PROVE FALSE
  OBVIOUS
<1>1. PICK l \in LeaderCert(n, r) : IsQuorum(r, Supporters(n, r, l))
  BY DEF DirectlyCommitted
<1>2. l \in n /\ Round[l] = r /\ Author[l] = Leader[r]
  BY <1>1 DEF LeaderCert, CertificatesInRound
<1>3. Author[l] \in Validators
  BY <1>2, CertTyped DEF CommitteeOf, IsDag
<1> DEFINE known == Supporters(d, r, l)
           unknown == UnknownAuthors(d, r)
<1>4. TotalStake(r) \in Nat /\ QuorumThreshold(r) \in Nat
  BY StakeMonotone DEF TotalStake, QuorumThreshold
<1>5. StakeOf(r, known) \in Nat /\ StakeOf(r, unknown) \in Nat
      /\ StakeOf(r, known \cap unknown) \in Nat
  BY StakeMonotone
<1>6. StakeOf(r, Supporters(n, r, l)) <= StakeOf(r, known) + StakeOf(r, unknown)
  <2>1. Supporters(n, r, l) \subseteq known \cup unknown
    BY SupportIsKnownOrUnknown
  <2>2. /\ StakeOf(r, Supporters(n, r, l)) \in Nat
        /\ StakeOf(r, known \cup unknown) \in Nat
        /\ StakeOf(r, Supporters(n, r, l)) <= StakeOf(r, known \cup unknown)
    BY <2>1, StakeMonotone
  <2>3. StakeOf(r, known \cup unknown)
          = StakeOf(r, known) + StakeOf(r, unknown) - StakeOf(r, known \cap unknown)
    BY StakeUnion
  <2> QED
    BY <1>5, <2>2, <2>3
<1>7. StakeOf(r, Supporters(n, r, l)) \in Nat
      /\ StakeOf(r, Supporters(n, r, l)) >= QuorumThreshold(r)
  BY <1>1, StakeMonotone DEF IsQuorum
<1>8. CASE Leader[r] = Nobody
  BY <1>2, <1>3, <1>8, NobodyIsNoValidator
<1>9. CASE \E k \in LeaderCert(d, r) :
              StakeOf(r, Supporters(d, r, k)) + StakeOf(r, unknown) < QuorumThreshold(r)
  <2>1. PICK k \in LeaderCert(d, r) :
              StakeOf(r, Supporters(d, r, k)) + StakeOf(r, unknown) < QuorumThreshold(r)
    BY <1>9
  <2>2. k \in n /\ Round[k] = r /\ Author[k] = Leader[r]
    BY <2>1 DEF LeaderCert, CertificatesInRound
  <2>3. k = l
    BY <1>2, <2>2 DEF IsDag
  <2> QED
    BY SMTT(30), <1>4, <1>5, <1>6, <1>7, <2>1, <2>3
<1>10. CASE /\ LeaderCert(d, r) = {}
            /\ StakeOf(r, unknown) < QuorumThreshold(r)
            /\ \A c \in CertificatesInRound(d, r + 1) : Parents[c] \subseteq d
  <2>1. l \notin d
    BY <1>2, <1>10 DEF LeaderCert, CertificatesInRound
  <2>2. known = {}
    BY <1>10, <2>1 DEF Supporters, CertificatesInRound
  <2>3. UnitsOf(r, known) = {}
    BY <2>2 DEF UnitsOf
  <2>4. StakeOf(r, known) = 0
    BY <2>3, FS_EmptySet DEF StakeOf
  <2> QED
    BY SMTT(30), <1>4, <1>5, <1>6, <1>7, <1>10, <2>4
<1> QED
  BY <1>8, <1>9, <1>10 DEF DirectlySkipped

----------------------------------------------------------------------------
\* Verdicts through a witness

\* A leader skipped here is skipped there: the support and the unknown stake of
\* the whole DAG are both part of what the partial one counts.
LEMMA SkipGrows ==
    ASSUME NEW n, IsDag(n), NEW d, d \subseteq n, NEW r \in Nat, DirectlySkipped(d, r)
    PROVE  DirectlySkipped(n, r)
<1> DEFINE Q == QuorumThreshold(r)
<1>1. /\ TotalStake(r) \in Nat /\ Q \in Nat
      /\ \A S : StakeOf(r, S) \in Nat
  BY StakeMonotone DEF TotalStake, QuorumThreshold
<1>2. UnknownAuthors(n, r) \subseteq UnknownAuthors(d, r)
  BY DEF UnknownAuthors, AuthorsInRound, CertificatesInRound
<1>3. ASSUME NEW l
      PROVE  StakeOf(r, Supporters(n, r, l)) + StakeOf(r, UnknownAuthors(n, r))
                <= StakeOf(r, Supporters(d, r, l) \cup UnknownAuthors(d, r))
  <2> DEFINE A == Supporters(n, r, l)
             B == UnknownAuthors(n, r)
             C == Supporters(d, r, l) \cup UnknownAuthors(d, r)
  <2>1. A \cap B = {}
    BY DEF Supporters, UnknownAuthors, AuthorsInRound, CertificatesInRound
  <2>2. A \cup B \subseteq C
    BY <1>2, SupportIsKnownOrUnknown
  <2> HIDE DEF A, B, C
  <2>3. StakeOf(r, A \cup B) <= StakeOf(r, C)
    BY <2>2, StakeMonotone
  <2>4. StakeOf(r, A \cup B) = StakeOf(r, A) + StakeOf(r, B) - StakeOf(r, A \cap B)
    BY StakeUnion
  <2>5. StakeOf(r, A \cap B) = 0
    <3>1. UnitsOf(r, A \cap B) = {}
      BY <2>1 DEF UnitsOf
    <3> QED
      BY <3>1, FS_EmptySet DEF StakeOf
  <2>6. StakeOf(r, A) + StakeOf(r, B) <= StakeOf(r, C)
    BY <1>1, <2>3, <2>4, <2>5
  <2> QED
    BY <2>6 DEF A, B, C
<1>4. CASE Leader[r] = Nobody
  BY <1>4 DEF DirectlySkipped
<1>5. CASE \E l \in LeaderCert(d, r) :
              StakeOf(r, Supporters(d, r, l)) + StakeOf(r, UnknownAuthors(d, r)) < Q
  <2>1. PICK l \in LeaderCert(d, r) :
              StakeOf(r, Supporters(d, r, l)) + StakeOf(r, UnknownAuthors(d, r)) < Q
    BY <1>5
  <2>2. l \in LeaderCert(n, r)
    BY <2>1 DEF LeaderCert, CertificatesInRound
  <2> DEFINE A == Supporters(d, r, l)
             B == UnknownAuthors(d, r)
  <2>3. StakeOf(r, A \cup B) = StakeOf(r, A) + StakeOf(r, B) - StakeOf(r, A \cap B)
    BY StakeUnion
  <2>4. StakeOf(r, A \cup B) < Q
    <3>1. StakeOf(r, A) + StakeOf(r, B) < Q
      BY <2>1
    <3> HIDE DEF A, B, Q
    <3> QED
      BY <1>1, <2>3, <3>1
  <2>5. StakeOf(r, Supporters(n, r, l)) + StakeOf(r, UnknownAuthors(n, r)) < Q
    <3>1. StakeOf(r, Supporters(n, r, l)) + StakeOf(r, UnknownAuthors(n, r))
            <= StakeOf(r, A \cup B)
      BY <1>3
    <3> HIDE DEF A, B, Q
    <3> QED
      BY <1>1, <2>4, <3>1
  <2> QED
    BY <2>2, <2>5 DEF DirectlySkipped
<1>6. CASE /\ LeaderCert(d, r) = {}
           /\ StakeOf(r, UnknownAuthors(d, r)) < Q
           /\ \A c \in CertificatesInRound(d, r + 1) : Parents[c] \subseteq d
  <2>1. CASE LeaderCert(n, r) = {}
    <3>1. StakeOf(r, UnknownAuthors(n, r)) <= StakeOf(r, UnknownAuthors(d, r))
      BY <1>2, StakeMonotone
    <3>2. StakeOf(r, UnknownAuthors(n, r)) < Q
      <4> HIDE DEF Q
      <4> QED BY <1>1, <1>6, <3>1
    <3>3. \A c \in CertificatesInRound(n, r + 1) : Parents[c] \subseteq n
      BY DEF CertificatesInRound, IsDag
    <3> QED
      BY <2>1, <3>2, <3>3 DEF DirectlySkipped
  <2>2. CASE LeaderCert(n, r) # {}
    <3>1. PICK l \in LeaderCert(n, r) : TRUE
      BY <2>2
    <3>2. l \notin d
      BY <1>6, <3>1 DEF LeaderCert, CertificatesInRound
    <3>3. Supporters(d, r, l) = {}
      BY <1>6, <3>2 DEF Supporters, CertificatesInRound
    <3>4. Supporters(d, r, l) \cup UnknownAuthors(d, r) = UnknownAuthors(d, r)
      BY <3>3
    <3>5. StakeOf(r, Supporters(n, r, l)) + StakeOf(r, UnknownAuthors(n, r)) < Q
      <4>1. StakeOf(r, Supporters(n, r, l)) + StakeOf(r, UnknownAuthors(n, r))
               <= StakeOf(r, UnknownAuthors(d, r))
        BY <1>3, <3>4
      <4> HIDE DEF Q
      <4> QED BY <1>1, <1>6, <4>1
    <3> QED
      BY <3>1, <3>5 DEF DirectlySkipped
  <2> QED
    BY <2>1, <2>2
<1> QED
  BY <1>4, <1>5, <1>6 DEF DirectlySkipped

\* The highest round of a DAG is at or above every round in it.
LEMMA HighestRoundBounds ==
    ASSUME NEW d \in SUBSET Cert
    PROVE  /\ HighestRound(d) \in Nat
           /\ \A c \in d : Round[c] <= HighestRound(d)
<1>1. CASE d = {}
  BY <1>1 DEF HighestRound
<1>2. CASE d # {}
  <2> DEFINE S == {Round[c] : c \in d}
  <2>1. S \subseteq Nat /\ S # {}
    BY <1>2, CertTyped
  <2>2. IsFiniteSet(S)
    <3>1. IsFiniteSet(d)
      BY CertLinked, FS_Subset
    <3> QED
      BY <3>1, ImageIsFinite
  <2>3. HighestRound(d) = Max(S)
    BY <1>2 DEF HighestRound
  <2>4. \A c \in d : Round[c] \in S
    OBVIOUS
  <2> HIDE DEF S
  <2>5. \E top \in S : \A q \in S : q <= top
    BY <2>1, <2>2, GreatestNatural, Zenon
  <2>6. Max(S) \in S /\ \A q \in S : q <= Max(S)
    BY <2>1, <2>5, Zenon DEF Max
  <2> QED
    BY <2>1, <2>3, <2>4, <2>6, Zenon
<1> QED
  BY <1>1, <1>2

\* The lowest round of a DAG is a round.
LEMMA LowestRoundIsNat ==
    ASSUME NEW d \in SUBSET Cert
    PROVE  LowestRound(d) \in Nat
<1>1. CASE d = {}
  BY <1>1 DEF LowestRound
<1>2. CASE d # {}
  <2> DEFINE S == {Round[c] : c \in d}
  <2>1. S \subseteq Nat /\ S # {}
    BY <1>2, CertTyped
  <2>2. LowestRound(d) = Min(S)
    BY <1>2 DEF LowestRound
  <2> HIDE DEF S
  <2>3. \E low \in S : \A q \in S : low <= q
    BY <2>1, LeastNatural, Zenon
  <2>4. Min(S) \in S
    BY <2>1, <2>3, Zenon DEF Min
  <2> QED
    BY <2>1, <2>2, <2>4, Zenon
<1> QED
  BY <1>1, <1>2

\* A leader's certificate is the only one of its author and round.
LEMMA OneLeader ==
    ASSUME NEW n, IsDag(n), NEW d, d \subseteq n, NEW r, NEW l \in LeaderCert(d, r)
    PROVE  /\ LeaderCert(d, r) = {l} /\ LeaderCert(n, r) = {l}
           /\ l \in d /\ l \in n /\ Round[l] = r
<1>1. l \in d /\ l \in n /\ Round[l] = r /\ Author[l] = Leader[r]
  BY DEF LeaderCert, CertificatesInRound
<1>2. \A k \in n : Round[k] = r /\ Author[k] = Leader[r] => k = l
  BY <1>1 DEF IsDag
<1> QED
  BY <1>1, <1>2 DEF LeaderCert, CertificatesInRound

\* A traversal, level by level.
Levels(d, gcFloor, from, L) ==
    /\ L[0] = {from}
    /\ \A k \in Nat : L[k + 1] = L[k] \cup UNION {Parents[c] : c \in Expandable(d, gcFloor, L[k])}
    /\ Reached(d, gcFloor, from) = L[Round[from] + 1]

\* The recursion that computes them has a solution.
LEMMA ReachedByLevels ==
    ASSUME NEW d, NEW gcFloor, NEW from \in Cert
    PROVE  \E L \in [Nat -> SUBSET Cert] : Levels(d, gcFloor, from, L)
<1> DEFINE X == SUBSET Cert
           More(S) == S \cup UNION {Parents[c] : c \in Expandable(d, gcFloor, S)}
           F == [S \in X |-> More(S)]
           Level[k \in Nat] == IF k = 0 THEN {from}
                               ELSE LET S == Level[k - 1]
                                    IN  S \cup UNION {Parents[c] : c \in Expandable(d, gcFloor, S)}
<1>1. {from} \in X /\ F \in [X -> X]
  <2>1. \A S \in X : More(S) \in X
    BY CertTyped DEF Expandable
  <2> HIDE DEF More
  <2> QED
    BY <2>1
<1>2. PICK g : Iteration(X, {from}, F, g)
  <2> HIDE DEF X, F
  <2> QED BY <1>1, Iterates
<1>3. g \in [Nat -> X] /\ g[0] = {from} /\ \A k \in Nat : g[k + 1] = More(g[k])
  <2>1. g \in [Nat -> X] /\ g[0] = {from}
    BY <1>2 DEF Iteration
  <2>2. ASSUME NEW k \in Nat PROVE g[k] \in X /\ g[k + 1] = F[g[k]]
    <3> HIDE DEF X, F
    <3> QED BY <1>2 DEF Iteration
  <2> HIDE DEF X, More
  <2>3. \A S \in X : F[S] = More(S)
    BY DEF F
  <2> QED
    BY <2>1, <2>2, <2>3, Zenon
<1> DEFINE Body(h, k) == IF k = 0 THEN {from} ELSE More(h[k - 1])
           E(h) == h = [k \in Nat |-> Body(h, k)]
<1>4. Level = CHOOSE h : E(h)
  BY DEF Level
<1> HIDE DEF More, Level
<1>5. E(g)
  <2>1. ASSUME NEW k \in Nat, k # 0 PROVE g[k] = More(g[k - 1])
    <3> DEFINE j == k - 1
    <3>1. j \in Nat /\ j + 1 = k
      BY <2>1
    <3> HIDE DEF j
    <3>2. g[j + 1] = More(g[j])
      BY <1>3, <3>1
    <3> QED
      BY <3>1, <3>2 DEF j
  <2>2. \A k \in Nat : g[k] = Body(g, k)
    BY <1>3, <2>1
  <2> HIDE DEF Body, X
  <2> QED
    BY <1>3, <2>2
<1>6. E(Level)
  <2>1. E(CHOOSE h : E(h))
    <3> HIDE DEF E
    <3> QED BY <1>5
  <2> QED
    BY <1>4, <2>1, Zenon
<1>7. \A k \in Nat : Level[k] = IF k = 0 THEN {from} ELSE More(Level[k - 1])
  <2> HIDE DEF Body
  <2>1. \A k \in Nat : Level[k] = Body(Level, k)
    BY <1>6
  <2> QED
    BY <2>1 DEF Body
<1>8. \A k \in Nat : Level[k] = g[k]
  <2> DEFINE T == {k \in Nat : Level[k] = g[k]}
  <2>1. 0 \in T
    BY <1>3, <1>7, SMTT(60)
  <2>2. ASSUME NEW k \in Nat, k \in T PROVE k + 1 \in T
    <3>1. k + 1 \in Nat /\ k + 1 # 0 /\ (k + 1) - 1 = k
      OBVIOUS
    <3>2. Level[k + 1] = More(Level[(k + 1) - 1])
      BY <1>7, <3>1
    <3> QED
      BY <1>3, <2>2, <3>1, <3>2
  <2>3. Nat \subseteq T
    <3> HIDE DEF T
    <3> QED BY <2>1, <2>2, NatInduct
  <2> QED
    BY <2>3
<1>9. Reached(d, gcFloor, from) = Level[Round[from] + 1]
  BY DEF Reached, Level
<1>10. Reached(d, gcFloor, from) = g[Round[from] + 1]
  <2>1. Round[from] + 1 \in Nat
    BY CertTyped
  <2> QED
    BY <1>8, <1>9, <2>1
<1>11. Levels(d, gcFloor, from, g)
  BY <1>3, <1>10 DEF More, Levels
<1> QED
  BY <1>3, <1>11

\* A larger DAG with a lower barrier reaches at least as much.
LEMMA ReachGrows ==
    ASSUME NEW n \in SUBSET Cert, NEW d \in SUBSET n, NEW gcFloor \in Nat, NEW from \in Cert
    PROVE  Reached(d, gcFloor, from) \subseteq Reached(n, 0, from)
<1>1. PICK L \in [Nat -> SUBSET Cert] : Levels(d, gcFloor, from, L)
  BY ReachedByLevels
<1>2. PICK M \in [Nat -> SUBSET Cert] : Levels(n, 0, from, M)
  BY ReachedByLevels, Zenon
<1> DEFINE T == {k \in Nat : L[k] \subseteq M[k]}
<1>3. 0 \in T
  BY <1>1, <1>2 DEF Levels
<1>4. ASSUME NEW k \in Nat, k \in T PROVE k + 1 \in T
  <2>1. L[k] \subseteq M[k] /\ M[k] \subseteq Cert
    BY <1>2, <1>4
  <2>2. Expandable(d, gcFloor, L[k]) \subseteq Expandable(n, 0, M[k])
    BY <2>1, CertTyped DEF Expandable
  <2>3. /\ L[k + 1] = L[k] \cup UNION {Parents[c] : c \in Expandable(d, gcFloor, L[k])}
        /\ M[k + 1] = M[k] \cup UNION {Parents[c] : c \in Expandable(n, 0, M[k])}
    BY <1>1, <1>2, Zenon DEF Levels
  <2> QED
    BY <2>1, <2>2, <2>3
<1>5. Nat \subseteq T
  <2> HIDE DEF T
  <2> QED BY <1>3, <1>4, NatInduct
<1>6. Round[from] + 1 \in Nat
  BY CertTyped
<1> QED
  BY <1>1, <1>2, <1>5, <1>6 DEF Levels

\* A witness found on a partial DAG is the witness of the whole one.
LEMMA WitnessIsFinal ==
    ASSUME NEW n, IsDag(n), NEW d, d \subseteq n, NEW r \in Nat, NEW upTo \in Int,
           NEW w \in UltimateWitness(d, r, upTo)
    PROVE  UltimateWitness(n, r, HighestRound(n)) = {w} /\ w \in n
<1>1. PICK t \in r .. upTo : /\ DirectlyCommitted(d, t) /\ w \in LeaderCert(d, t)
                             /\ \A q \in r .. t - 1 : DirectlySkipped(d, q)
  BY DEF UltimateWitness
<1>2. LeaderCert(n, t) = {w} /\ w \in n /\ Round[w] = t
  BY <1>1, OneLeader
<1>3. t \in Nat /\ t \in r .. HighestRound(n)
  <2>1. HighestRound(n) \in Nat /\ Round[w] <= HighestRound(n)
    BY <1>2, HighestRoundBounds DEF IsDag
  <2> QED
    BY <1>1, <1>2, <2>1
<1>4. DirectlyCommitted(n, t)
  BY <1>1, CommitGrows
<1>5. \A q \in r .. t - 1 : q \in Nat /\ DirectlySkipped(n, q)
  BY <1>1, SkipGrows
<1>6. \A q \in Nat : DirectlySkipped(n, q) => ~DirectlyCommitted(n, q)
  BY SkipNeverCommits
<1>7. ASSUME NEW s \in r .. HighestRound(n), DirectlyCommitted(n, s),
             \A q \in r .. s - 1 : DirectlySkipped(n, q)
      PROVE  s = t
  <2>1. ~(s < t)
    BY <1>3, <1>5, <1>6, <1>7
  <2>2. ~(t < s)
    BY <1>3, <1>4, <1>6, <1>7
  <2> QED
    BY <1>3, <2>1, <2>2
<1>8. {s \in r .. HighestRound(n) : /\ DirectlyCommitted(n, s)
                                    /\ \A q \in r .. s - 1 : DirectlySkipped(n, q)} = {t}
  BY <1>3, <1>4, <1>5, <1>7
<1> QED
  BY <1>2, <1>8 DEF UltimateWitness

\* What the whole network's DAG says of round r's leader.
Final(n, r, l) == Resolve(n, 0, r, HighestRound(n)) = Committed(l)

\* A leader committed on a partial DAG, directly or through a witness, is
\* committed by the whole one.
THEOREM ResolveIsFinal ==
    ASSUME NEW n, IsDag(n), NEW d \in SUBSET n, NEW gcFloor \in Nat,
           NEW r \in Nat, NEW upTo \in Int
    PROVE  \/ Resolve(d, gcFloor, r, upTo) = Skipped
           \/ Resolve(d, gcFloor, r, upTo) = Undecided
           \/ \E l \in n : /\ Resolve(d, gcFloor, r, upTo) = Committed(l)
                           /\ Round[l] = r /\ Final(n, r, l)
<1>1. CASE DirectlyCommitted(d, r)
  <2>1. PICK l \in LeaderCert(d, r) : TRUE
    BY <1>1 DEF DirectlyCommitted
  <2>2. LeaderCert(d, r) = {l} /\ LeaderCert(n, r) = {l} /\ l \in n /\ Round[l] = r
    BY OneLeader
  <2>3. DirectlyCommitted(n, r)
    BY <1>1, CommitGrows
  <2>4. (CHOOSE x \in {l} : TRUE) = l
    OBVIOUS
  <2>5. Resolve(d, gcFloor, r, upTo) = Committed(l) /\ Final(n, r, l)
    BY <1>1, <2>2, <2>3, <2>4 DEF Resolve, Final
  <2> QED
    BY <2>2, <2>5
<1>2. CASE ~DirectlyCommitted(d, r) /\ DirectlySkipped(d, r)
  <2> DEFINE W == UltimateWitness(d, r + 1, upTo)
  <2>1. Resolve(d, gcFloor, r, upTo) = ResolveByWitness(d, gcFloor, LeaderCert(d, r), W)
    BY <1>2 DEF Resolve
  <2>2. CASE LeaderCert(d, r) = {} \/ W = {}
    BY <2>1, <2>2 DEF ResolveByWitness
  <2>3. CASE LeaderCert(d, r) # {} /\ W # {}
    <3>1. PICK l \in LeaderCert(d, r) : TRUE
      BY <2>3
    <3>2. LeaderCert(d, r) = {l} /\ LeaderCert(n, r) = {l} /\ l \in n /\ Round[l] = r
      BY OneLeader
    <3> DEFINE w == CHOOSE x \in W : TRUE
    <3>3. w \in W
      BY <2>3
    <3>4. (CHOOSE x \in {l} : TRUE) = l
      OBVIOUS
    <3>5. Resolve(d, gcFloor, r, upTo) = ReachVerdict(d, gcFloor, w, l)
      BY <2>1, <2>3, <3>2, <3>4 DEF ResolveByWitness
    <3> HIDE DEF w
    <3>6. UltimateWitness(n, r + 1, HighestRound(n)) = {w} /\ w \in n
      BY <3>3, WitnessIsFinal
    <3>7. Resolve(n, 0, r, HighestRound(n)) = ReachVerdict(n, 0, w, l)
      <4>1. DirectlySkipped(n, r) /\ ~DirectlyCommitted(n, r)
        BY <1>2, SkipGrows, SkipNeverCommits
      <4>2. (CHOOSE x \in {w} : TRUE) = w
        OBVIOUS
      <4>3. Resolve(n, 0, r, HighestRound(n)) = ResolveByWitness(n, 0, {l}, {w})
        BY <3>2, <3>6, <4>1 DEF Resolve
      <4> QED
        BY <3>4, <4>2, <4>3 DEF ResolveByWitness
    <3>8. Reached(d, gcFloor, w) \subseteq Reached(n, 0, w)
      BY <3>6, ReachGrows DEF IsDag
    <3>9. CASE l \in Reached(d, gcFloor, w)
      <4>1. ReachVerdict(d, gcFloor, w, l) = Committed(l)
        BY <3>9 DEF ReachVerdict
      <4>2. ReachVerdict(n, 0, w, l) = Committed(l)
        BY <3>8, <3>9 DEF ReachVerdict
      <4> QED
        BY <3>2, <3>5, <3>7, <4>1, <4>2 DEF Final
    <3>10. CASE l \notin Reached(d, gcFloor, w)
      BY <3>5, <3>10 DEF ReachVerdict
    <3> QED
      BY <3>9, <3>10
  <2> QED
    BY <2>2, <2>3
<1>3. CASE ~DirectlyCommitted(d, r) /\ ~DirectlySkipped(d, r)
  BY <1>3 DEF Resolve
<1> QED
  BY <1>1, <1>2, <1>3

----------------------------------------------------------------------------
\* The causal history of a leader.

\* A finite set of certificates can be listed in the order of their digests.
LEMMA SortingExists ==
    ASSUME NEW P \in SUBSET Cert
    PROVE  \E s \in [1 .. Cardinality(P) -> P] :
              \A i, j \in 1 .. Cardinality(P) : i < j => Rank[s[i]] < Rank[s[j]]
<1> DEFINE Sorted(s, k) == \A i, j \in 1 .. k : i < j => Rank[s[i]] < Rank[s[j]]
           T == {k \in Nat : \A X \in SUBSET Cert : Cardinality(X) = k =>
                    \E s \in [1 .. k -> X] : Sorted(s, k)}
<1>1. \A X \in SUBSET Cert : IsFiniteSet(X) /\ Cardinality(X) \in Nat
  BY CertLinked, FS_Subset, FS_CardinalityType
<1>2. 0 \in T
  <2> SUFFICES ASSUME NEW X \in SUBSET Cert, Cardinality(X) = 0
               PROVE  \E s \in [1 .. 0 -> X] : Sorted(s, 0)
    OBVIOUS
  <2> DEFINE s == [i \in 1 .. 0 |-> CHOOSE x \in X : TRUE]
  <2>1. s \in [1 .. 0 -> X] /\ Sorted(s, 0)
    OBVIOUS
  <2> QED
    BY <2>1, Zenon
<1>3. ASSUME NEW k \in Nat, k \in T PROVE k + 1 \in T
  <2> SUFFICES ASSUME NEW X \in SUBSET Cert, Cardinality(X) = k + 1
               PROVE  \E s \in [1 .. k + 1 -> X] : Sorted(s, k + 1)
    OBVIOUS
  <2> DEFINE ranks == {Rank[x] : x \in X}
  <2>1. IsFiniteSet(ranks)
    BY <1>1, ImageIsFinite
  <2>2. X # {}
    BY FS_EmptySet
  <2>3. ranks \subseteq Nat /\ ranks # {}
    BY <2>2, CertLinked
  <2>4. PICK top \in ranks : \A q \in ranks : q <= top
    BY <2>1, <2>3, GreatestNatural, Zenon
  <2>5. PICK m \in X : Rank[m] = top
    OBVIOUS
  <2>6. \A x \in X \ {m} : Rank[x] < Rank[m]
    <3> SUFFICES ASSUME NEW x \in X \ {m} PROVE Rank[x] < Rank[m]
      OBVIOUS
    <3>1. Rank[x] \in Nat /\ Rank[m] \in Nat /\ Rank[x] # Rank[m]
      BY CertLinked
    <3>2. Rank[x] <= Rank[m]
      BY <2>4, <2>5
    <3> QED
      BY <3>1, <3>2
  <2>7. Cardinality(X \ {m}) = k
    <3>1. Cardinality(X \ {m}) = Cardinality(X) - 1
      BY <1>1, FS_RemoveElement
    <3> QED
      BY <3>1
  <2>8. PICK s \in [1 .. k -> X \ {m}] : Sorted(s, k)
    BY <1>3, <2>7
  <2> DEFINE t == [i \in 1 .. k + 1 |-> IF i = k + 1 THEN m ELSE s[i]]
  <2>9. t \in [1 .. k + 1 -> X]
    BY <2>8
  <2>10. Sorted(t, k + 1)
    <3> SUFFICES ASSUME NEW i \in 1 .. k + 1, NEW j \in 1 .. k + 1, i < j
                 PROVE  Rank[t[i]] < Rank[t[j]]
      OBVIOUS
    <3>1. i \in 1 .. k /\ t[i] = s[i] /\ s[i] \in X \ {m}
      BY <2>8
    <3>2. CASE j = k + 1
      BY <2>6, <3>1, <3>2
    <3>3. CASE j # k + 1
      <4>1. j \in 1 .. k /\ t[j] = s[j]
        BY <3>3
      <4> QED
        BY <2>8, <3>1, <4>1
    <3> QED
      BY <3>2, <3>3
  <2> QED
    <3> HIDE DEF t, Sorted
    <3> QED BY <2>9, <2>10
<1>4. Nat \subseteq T
  <2> HIDE DEF T
  <2> QED BY <1>2, <1>3, NatInduct
<1> QED
  BY <1>1, <1>4

\* The sorted parents are parents.
LEMMA SortedParentsTyped ==
    ASSUME NEW c \in Cert
    PROVE  SortedParents[c] \in Seq(Parents[c])
<1> DEFINE k == Cardinality(Parents[c])
<1>1. Parents[c] \in SUBSET Cert
  BY CertTyped
<1>2. IsFiniteSet(Parents[c]) /\ k \in Nat
  BY <1>1, CertLinked, FS_Subset, FS_CardinalityType
<1>3. \E s \in [1 .. k -> Parents[c]] :
        \A i, j \in DOMAIN s : i < j => Rank[s[i]] < Rank[s[j]]
  <2>1. PICK s \in [1 .. k -> Parents[c]] :
           \A i, j \in 1 .. k : i < j => Rank[s[i]] < Rank[s[j]]
    BY <1>1, SortingExists, Zenon
  <2>2. DOMAIN s = 1 .. k
    BY <2>1
  <2> QED
    BY <2>1, <2>2, Zenon
<1>4. SortedParents[c] \in [1 .. k -> Parents[c]]
  BY <1>3, Zenon DEF SortedParents
<1> QED
  BY <1>2, <1>4

\* The number of turns is a number.
LEMMA TurnsAreNat ==
    ASSUME NEW d \in SUBSET Cert
    PROVE  WalkTurns(d) \in Nat
<1> DEFINE edges == UNION {{c} \X Parents[c] : c \in d}
<1>1. IsFiniteSet(Cert) /\ IsFiniteSet(Cert \X Cert)
  BY CertLinked, FS_Product
<1>2. IsFiniteSet(edges)
  <2>1. edges \subseteq Cert \X Cert
    BY CertTyped
  <2> HIDE DEF edges
  <2> QED
    BY <1>1, <2>1, FS_Subset
<1>3. Cardinality(d) \in Nat /\ Cardinality(edges) \in Nat
  BY <1>1, <1>2, FS_Subset, FS_CardinalityType
<1> QED
  BY <1>3 DEF WalkTurns

\* A set of certificates with all their parents.
Closed(n) == n \subseteq Cert /\ \A c \in n : Parents[c] \subseteq n

Steps(n) == [step : {"enter", "exit"}, cert : n]
Walks(n) == [stack : Seq(Steps(n)), order : Seq(n), failed : SUBSET n]

\* What a walk keeps: its stack never leads below the barrier; what it emits is
\* emitted once, was not emitted before, and comes after its parents.
EmitsOnce(seen, order) ==
    \A i \in DOMAIN order : order[i] \notin seen /\ \A j \in DOMAIN order : order[i] = order[j] => i = j
EmitsAbove(gcFloor, order) == \A i \in DOMAIN order : Round[order[i]] >= gcFloor
EmitsAfter(gcFloor, seen, order) ==
    \A i \in DOMAIN order : Round[order[i]] > gcFloor =>
        Parents[order[i]] \subseteq seen \cup {order[j] : j \in 1 .. i - 1}

SoundOrder(n, gcFloor, seen, order) ==
    /\ order \in Seq(n)
    /\ EmitsOnce(seen, order) /\ EmitsAbove(gcFloor, order) /\ EmitsAfter(gcFloor, seen, order)

SoundWalk(n, gcFloor, seen, w) ==
    /\ w \in Walks(n)
    /\ \A i \in DOMAIN w.stack : Round[w.stack[i].cert] >= gcFloor
    /\ SoundOrder(n, gcFloor, seen, w.order)

\* Emitting one more certificate.
LEMMA OneMore ==
    ASSUME NEW n \in SUBSET Cert, NEW gcFloor \in Nat, NEW seen, NEW order,
           SoundOrder(n, gcFloor, seen, order),
           NEW c \in n, Round[c] >= gcFloor, c \notin seen \cup Range(order),
           Round[c] > gcFloor => Parents[c] \subseteq seen \cup Range(order)
    PROVE  SoundOrder(n, gcFloor, seen, Append(order, c))
<1> DEFINE new == Append(order, c)
           k == Len(order)
<1>1. /\ order \in Seq(n) /\ k \in Nat /\ DOMAIN order = 1 .. k
      /\ new \in Seq(n) /\ DOMAIN new = 1 .. k + 1
      /\ \A i \in 1 .. k : new[i] = order[i]
      /\ new[k + 1] = c
  BY DEF SoundOrder
<1>2. Range(order) = {order[i] : i \in 1 .. k}
  BY <1>1 DEF Range
<1> HIDE DEF new, k
<1>3. EmitsOnce(seen, new)
  <2>1. \A i \in 1 .. k : order[i] \notin seen /\ order[i] # c
    BY <1>1, <1>2 DEF SoundOrder, EmitsOnce
  <2>2. \A i, j \in 1 .. k : order[i] = order[j] => i = j
    BY <1>1 DEF SoundOrder, EmitsOnce
  <2>3. \A i \in 1 .. k + 1 : i \in 1 .. k \/ i = k + 1
    BY <1>1
  <2> QED
    BY <1>1, <2>1, <2>2, <2>3 DEF EmitsOnce
<1>4. EmitsAbove(gcFloor, new)
  BY <1>1 DEF SoundOrder, EmitsAbove
<1>5. EmitsAfter(gcFloor, seen, new)
  <2> SUFFICES ASSUME NEW i \in 1 .. k + 1, Round[new[i]] > gcFloor
               PROVE  Parents[new[i]] \subseteq seen \cup {new[j] : j \in 1 .. i - 1}
    BY <1>1 DEF EmitsAfter
  <2>1. CASE i = k + 1
    <3>1. 1 .. i - 1 = 1 .. k
      BY <1>1, <2>1
    <3>2. {new[j] : j \in 1 .. i - 1} = {order[j] : j \in 1 .. k}
      BY <1>1, <3>1
    <3> QED
      BY <1>1, <1>2, <2>1, <3>2
  <2>2. CASE i \in 1 .. k
    <3>1. {new[j] : j \in 1 .. i - 1} = {order[j] : j \in 1 .. i - 1}
      BY <1>1, <2>2
    <3>2. Parents[order[i]] \subseteq seen \cup {order[j] : j \in 1 .. i - 1}
      BY <1>1, <2>2 DEF SoundOrder, EmitsAfter
    <3> QED
      BY <1>1, <2>2, <3>1, <3>2
  <2> QED
    BY <1>1, <2>1, <2>2
<1> QED
  BY <1>1, <1>3, <1>4, <1>5 DEF SoundOrder, new


\* The certificate on top of a walk's stack, what is below it, and what its
\* parents put in its place.
Top(w)  == Head(w.stack).cert
Rest(w) == Tail(w.stack)
Above(c) == [i \in DOMAIN SortedParents[c] |-> Enter(SortedParents[c][i])] \o <<Exit(c)>>

\* The possible turns.
Passes(w)  == [w EXCEPT !.stack = Rest(w)]
Fails(w)   == [w EXCEPT !.stack = Rest(w), !.failed = @ \cup {Top(w)}]
Emits(w)   == [w EXCEPT !.stack = Rest(w), !.order = Append(@, Top(w))]
Expands(w) == [w EXCEPT !.stack = Above(Top(w)) \o Rest(w)]

\* What replaces an expanded certificate on the stack is at or above the barrier.
LEMMA AboveTyped ==
    ASSUME NEW n, Closed(n), NEW c \in n
    PROVE  /\ Above(c) \in Seq(Steps(n))
           /\ \A i \in DOMAIN Above(c) : Above(c)[i].cert \in Parents[c] \cup {c}
<1> DEFINE sp == SortedParents[c]
           par == [i \in DOMAIN sp |-> Enter(sp[i])]
<1>1. c \in Cert /\ Parents[c] \subseteq n
  BY DEF Closed
<1>2. sp \in Seq(Parents[c])
  BY <1>1, SortedParentsTyped
<1>3. Len(sp) \in Nat /\ DOMAIN sp = 1 .. Len(sp) /\ \A i \in DOMAIN sp : sp[i] \in Parents[c]
  BY <1>2
<1> HIDE DEF sp
<1>4. \A i \in DOMAIN sp : Enter(sp[i]) \in Steps(n) /\ Enter(sp[i]).cert \in Parents[c]
  BY <1>1, <1>3 DEF Enter, Steps
<1>5. par \in Seq(Steps(n)) /\ Len(par) = Len(sp)
      /\ \A i \in 1 .. Len(sp) : par[i].cert \in Parents[c]
  BY <1>3, <1>4
<1>6. Exit(c) \in Steps(n) /\ Exit(c).cert = c
  BY DEF Exit, Steps
<1> HIDE DEF par
<1>7. Above(c) = par \o <<Exit(c)>>
  BY DEF Above, par, sp
<1>8. /\ par \o <<Exit(c)>> \in Seq(Steps(n))
      /\ Len(par \o <<Exit(c)>>) = Len(sp) + 1
      /\ \A i \in 1 .. Len(sp) : (par \o <<Exit(c)>>)[i] = par[i]
      /\ (par \o <<Exit(c)>>)[Len(sp) + 1] = Exit(c)
  BY <1>3, <1>5, <1>6
<1>9. DOMAIN (par \o <<Exit(c)>>) = 1 .. Len(sp) + 1
  BY <1>8
<1>10. \A i \in 1 .. Len(sp) + 1 : i \in 1 .. Len(sp) \/ i = Len(sp) + 1
  BY <1>3, SMTT(60)
<1> QED
  BY <1>5, <1>6, <1>7, <1>8, <1>9, <1>10

\* A turn of the loop is one of these.
LEMMA TurnIs ==
    ASSUME NEW n, Closed(n), NEW d, NEW gcFloor \in Nat, NEW seen, NEW w \in Walks(n),
           w.stack # << >>
    PROVE  /\ Top(w) \in n /\ Rest(w) \in Seq(Steps(n))
           /\ \/ WalkStep(d, gcFloor, seen, w) = Passes(w)
              \/ WalkStep(d, gcFloor, seen, w) = Fails(w)
              \/ /\ WalkStep(d, gcFloor, seen, w) = Emits(w)
                 /\ Top(w) \notin Resolved(seen, w)
                 /\ Round[Top(w)] <= gcFloor \/ Parents[Top(w)] \subseteq Resolved(seen, w)
              \/ /\ WalkStep(d, gcFloor, seen, w) = Expands(w)
                 /\ Round[Top(w)] > gcFloor
<1> DEFINE c == Top(w)
           next == WalkStep(d, gcFloor, seen, w)
<1>1. Head(w.stack) \in Steps(n) /\ Rest(w) \in Seq(Steps(n))
  BY DEF Walks, Rest
<1>2. c \in n
  BY <1>1 DEF Steps, Top
<1>3. Round[c] \in Nat
  BY <1>2, CertTyped DEF Closed
<1>4. CASE c \in Resolved(seen, w) \cup w.failed
  BY <1>1, <1>2, <1>4, SMTT(60) DEF WalkStep, Passes, Top, Rest
<1>5. CASE c \notin Resolved(seen, w) \cup w.failed /\ Head(w.stack).step = "enter"
  <2>1. next = Entered(d, gcFloor, w, c)
    BY <1>5 DEF WalkStep, Top
  <2>2. Expanded(w, c) = Expands(w)
    BY DEF Expanded, Expands, Above, Rest
  <2>3. Emitted(w, c) = Emits(w) /\ Unresolved(w, c) = Fails(w)
    BY SMTT(60) DEF Emitted, Emits, Unresolved, Fails, Rest
  <2> QED
    BY <1>1, <1>2, <1>3, <1>5, <2>1, <2>2, <2>3 DEF Entered
<1>6. CASE c \notin Resolved(seen, w) \cup w.failed /\ Head(w.stack).step # "enter"
  <2>1. next = Left(seen, w, c)
    BY <1>6 DEF WalkStep, Top
  <2>2. Emitted(w, c) = Emits(w) /\ Unresolved(w, c) = Fails(w)
    BY DEF Emitted, Emits, Unresolved, Fails, Rest
  <2> QED
    BY <1>1, <1>2, <1>6, <2>1, <2>2 DEF Left
<1> QED
  BY <1>4, <1>5, <1>6

\* A turn keeps a walk a walk.
LEMMA TurnTyped ==
    ASSUME NEW n, Closed(n), NEW d, NEW gcFloor \in Nat, NEW seen, NEW w \in Walks(n),
           w.stack # << >>
    PROVE  WalkStep(d, gcFloor, seen, w) \in Walks(n)
<1>1. /\ Top(w) \in n /\ Rest(w) \in Seq(Steps(n))
      /\ \/ WalkStep(d, gcFloor, seen, w) = Passes(w)
         \/ WalkStep(d, gcFloor, seen, w) = Fails(w)
         \/ WalkStep(d, gcFloor, seen, w) = Emits(w)
         \/ WalkStep(d, gcFloor, seen, w) = Expands(w)
  BY TurnIs, ZenonT(60)
<1>2. Above(Top(w)) \in Seq(Steps(n))
  BY <1>1, AboveTyped
<1>3. Above(Top(w)) \o Rest(w) \in Seq(Steps(n))
  BY <1>1, <1>2
<1>4. Append(w.order, Top(w)) \in Seq(n) /\ w.failed \cup {Top(w)} \subseteq n
  BY <1>1 DEF Walks
<1>5. Passes(w) \in Walks(n)
  BY <1>1, Zenon DEF Walks, Passes
<1>6. Fails(w) \in Walks(n)
  BY <1>1, <1>4, Zenon DEF Walks, Fails
<1>7. Emits(w) \in Walks(n)
  BY <1>1, <1>4, Zenon DEF Walks, Emits
<1>8. Expands(w) \in Walks(n)
  BY <1>3, Zenon DEF Walks, Expands
<1> QED
  BY <1>1, <1>5, <1>6, <1>7, <1>8

StackAbove(gcFloor, stack) == \A i \in DOMAIN stack : Round[stack[i].cert] >= gcFloor

\* What a turn leaves on the stack is at or above the barrier.
LEMMA TurnAbove ==
    ASSUME NEW n, Closed(n), NEW gcFloor \in Nat, NEW w \in Walks(n),
           w.stack # << >>, StackAbove(gcFloor, w.stack)
    PROVE  /\ Top(w) \in n /\ Round[Top(w)] >= gcFloor
           /\ StackAbove(gcFloor, Rest(w))
           /\ Round[Top(w)] > gcFloor => StackAbove(gcFloor, Above(Top(w)) \o Rest(w))
<1> DEFINE k == Len(w.stack)
           a == Above(Top(w))
           q == Rest(w)
<1>1. /\ w.stack \in Seq(Steps(n)) /\ k \in Nat /\ k >= 1 /\ DOMAIN w.stack = 1 .. k
      /\ Head(w.stack) = w.stack[1] /\ w.stack[1] \in Steps(n)
  BY DEF Walks
<1>2. q \in Seq(Steps(n)) /\ Len(q) = k - 1 /\ \A i \in 1 .. k - 1 : q[i] = w.stack[i + 1]
  BY <1>1 DEF Rest
<1>3. Top(w) \in n /\ Round[Top(w)] >= gcFloor
  BY <1>1 DEF Top, Steps, StackAbove
<1>4. DOMAIN q = 1 .. k - 1
  BY <1>2
<1> HIDE DEF k, q
<1>5. StackAbove(gcFloor, q)
  <2> SUFFICES ASSUME NEW i \in 1 .. k - 1 PROVE Round[q[i].cert] >= gcFloor
    BY <1>4 DEF StackAbove
  <2>1. i + 1 \in 1 .. k /\ q[i] = w.stack[i + 1]
    BY <1>1, <1>2
  <2> QED
    BY <1>1, <2>1 DEF StackAbove
<1>6. ASSUME Round[Top(w)] > gcFloor PROVE StackAbove(gcFloor, a \o q)
  <2>1. a \in Seq(Steps(n)) /\ \A i \in DOMAIN a : a[i].cert \in Parents[Top(w)] \cup {Top(w)}
    BY <1>3, AboveTyped
  <2>2. \A p \in Parents[Top(w)] \cup {Top(w)} : Round[p] >= gcFloor
    <3>1. Top(w) \in Cert /\ Round[Top(w)] \in Nat /\ Parents[Top(w)] \subseteq Cert
      BY <1>3, CertTyped DEF Closed
    <3>2. \A p \in Parents[Top(w)] : Round[p] \in Nat /\ Round[Top(w)] = Round[p] + 1
      BY <3>1, CertTyped, CertLinked
    <3> QED
      BY <1>3, <1>6, <3>1, <3>2
  <2> HIDE DEF a
  <2>3. /\ Len(a) \in Nat /\ DOMAIN a = 1 .. Len(a) /\ Len(q) \in Nat /\ DOMAIN q = 1 .. Len(q)
        /\ DOMAIN (a \o q) = 1 .. Len(a) + Len(q)
        /\ \A i \in 1 .. Len(a) : (a \o q)[i] = a[i]
        /\ \A i \in 1 .. Len(a) + Len(q) : i > Len(a) => (a \o q)[i] = q[i - Len(a)]
    <3>1. a \in Seq(Steps(n)) /\ q \in Seq(Steps(n))
      BY <1>2, <2>1
    <3> HIDE DEF a, q
    <3> QED
      BY <3>1
  <2> SUFFICES ASSUME NEW i \in 1 .. Len(a) + Len(q) PROVE Round[(a \o q)[i].cert] >= gcFloor
    BY <2>3 DEF StackAbove
  <2>4. CASE i <= Len(a)
    <3>1. i \in 1 .. Len(a)
      BY <2>3, <2>4
    <3> QED
      BY <2>1, <2>2, <2>3, <3>1
  <2>5. CASE i > Len(a)
    <3>1. i - Len(a) \in 1 .. Len(q)
      BY <2>3, <2>5, SMTT(60)
    <3> QED
      BY <1>5, <2>3, <2>5, <3>1 DEF StackAbove
  <2> QED
    BY <2>3, <2>4, <2>5
<1> QED
  BY <1>3, <1>5, <1>6 DEF q

\* A turn keeps what a walk keeps.
LEMMA TurnSound ==
    ASSUME NEW n, Closed(n), NEW d, NEW gcFloor \in Nat, NEW seen, NEW w,
           SoundWalk(n, gcFloor, seen, w), w.stack # << >>
    PROVE  SoundWalk(n, gcFloor, seen, WalkStep(d, gcFloor, seen, w))
<1> DEFINE next == WalkStep(d, gcFloor, seen, w)
<1>1. w \in Walks(n) /\ StackAbove(gcFloor, w.stack) /\ SoundOrder(n, gcFloor, seen, w.order)
  BY DEF SoundWalk, StackAbove
<1>2. next \in Walks(n)
  BY <1>1, TurnTyped, SMTT(60)
<1>3. /\ Top(w) \in n /\ Round[Top(w)] >= gcFloor
      /\ StackAbove(gcFloor, Rest(w))
      /\ Round[Top(w)] > gcFloor => StackAbove(gcFloor, Above(Top(w)) \o Rest(w))
  BY <1>1, TurnAbove, SMTT(60)
<1> SUFFICES StackAbove(gcFloor, next.stack) /\ SoundOrder(n, gcFloor, seen, next.order)
  BY <1>2, SMTT(60) DEF SoundWalk, StackAbove
<1>4. \/ next = Passes(w)
      \/ next = Fails(w)
      \/ /\ next = Emits(w)
         /\ Top(w) \notin Resolved(seen, w)
         /\ Round[Top(w)] <= gcFloor \/ Parents[Top(w)] \subseteq Resolved(seen, w)
      \/ /\ next = Expands(w)
         /\ Round[Top(w)] > gcFloor
  BY <1>1, TurnIs, SMTT(60)
<1> HIDE DEF next
<1>5. CASE next = Passes(w)
  <2>1. next.stack = Rest(w) /\ next.order = w.order
    BY <1>1, <1>5 DEF Passes, Walks
  <2> QED
    BY <1>1, <1>3, <2>1
<1>6. CASE next = Fails(w)
  <2>1. next.stack = Rest(w) /\ next.order = w.order
    BY <1>1, <1>6, SMTT(60) DEF Fails, Walks
  <2> QED
    BY <1>1, <1>3, <2>1
<1>7. CASE /\ next = Emits(w)
           /\ Top(w) \notin Resolved(seen, w)
           /\ Round[Top(w)] <= gcFloor \/ Parents[Top(w)] \subseteq Resolved(seen, w)
  <2>1. next.stack = Rest(w) /\ next.order = Append(w.order, Top(w))
    BY <1>1, <1>7, SMTT(60) DEF Emits, Walks
  <2>2. n \in SUBSET Cert /\ Round[Top(w)] \in Nat
    BY <1>3, CertTyped DEF Closed
  <2>3. Top(w) \notin seen \cup Range(w.order)
    BY <1>7 DEF Resolved
  <2>4. Round[Top(w)] > gcFloor => Parents[Top(w)] \subseteq seen \cup Range(w.order)
    BY <1>7, <2>2, SMTT(60) DEF Resolved
  <2>5. SoundOrder(n, gcFloor, seen, Append(w.order, Top(w)))
    BY <1>1, <1>3, <2>2, <2>3, <2>4, OneMore, SMTT(60)
  <2> QED
    BY <1>3, <2>1, <2>5
<1>8. CASE next = Expands(w) /\ Round[Top(w)] > gcFloor
  <2>1. next.stack = Above(Top(w)) \o Rest(w) /\ next.order = w.order
    BY <1>1, <1>8, SMTT(60) DEF Expands, Walks
  <2> QED
    BY <1>1, <1>3, <1>8, <2>1
<1> QED
  BY <1>4, <1>5, <1>6, <1>7, <1>8, SMTT(60)

\* The loop keeps what its turns keep.
THEOREM WalkIsSound ==
    ASSUME NEW n, Closed(n), NEW d \in SUBSET n, NEW gcFloor \in Nat, NEW seen,
           NEW root \in n, Round[root] >= gcFloor
    PROVE  SoundWalk(n, gcFloor, seen, Walk(d, gcFloor, root, seen))
<1> DEFINE start == [stack |-> <<Enter(root)>>, order |-> << >>, failed |-> {}]
           S == WalkStates
           Then(f) == [w \in S |-> IF w.stack = << >> THEN w
                                   ELSE f[WalkStep(d, gcFloor, seen, w)]]
           Turns[k \in Nat] ==
              [w \in S |-> IF k = 0 \/ w.stack = << >> THEN w
                           ELSE Turns[k - 1][WalkStep(d, gcFloor, seen, w)]]
           id == [w \in S |-> w]
           F == [f \in [S -> S] |-> Then(f)]
           Kept(f) == \A w \in S : SoundWalk(n, gcFloor, seen, w)
                                      => SoundWalk(n, gcFloor, seen, f[w])
           T == {k \in Nat : Kept(Turns[k])}
<1>1. S = Walks(Cert)
  BY DEF WalkStates, Walks, Steps
<1>2. \A w \in S : w.stack # << >> => WalkStep(d, gcFloor, seen, w) \in S
  BY <1>1, CertTyped, TurnTyped DEF Closed
<1>3. id \in [S -> S] /\ F \in [[S -> S] -> [S -> S]]
  <2> HIDE DEF S
  <2>1. ASSUME NEW f \in [S -> S] PROVE Then(f) \in [S -> S]
    BY <1>2, <2>1
  <2> QED
    BY <2>1
<1>4. PICK g : Iteration([S -> S], id, F, g)
  <2> HIDE DEF S, F, id
  <2> QED BY <1>3, Iterates, SMTT(60)
<1>5. /\ Turns[0] = id
      /\ \A k \in Nat : Turns[k + 1] = Then(Turns[k])
  <2> DEFINE Body(h, k) == [w \in S |-> IF k = 0 \/ w.stack = << >> THEN w
                                        ELSE h[k - 1][WalkStep(d, gcFloor, seen, w)]]
             E(h) == h = [k \in Nat |-> Body(h, k)]
  <2>1. \A h : Body(h, 0) = id
    OBVIOUS
  <2>2. \A h : \A k \in Nat : Body(h, k + 1) = Then(h[k])
    <3> SUFFICES ASSUME NEW h, NEW k \in Nat PROVE Body(h, k + 1) = Then(h[k])
      OBVIOUS
    <3>1. k + 1 # 0 /\ (k + 1) - 1 = k
      OBVIOUS
    <3> QED
      BY <3>1
  <2> HIDE DEF Body, Then, id
  <2>3. E(g)
    <3>1. g[0] = Body(g, 0)
      BY <1>4, <2>1 DEF Iteration
    <3>2. ASSUME NEW k \in Nat, k # 0 PROVE g[k] = Body(g, k)
      <4> DEFINE j == k - 1
      <4>1. j \in Nat /\ j + 1 = k
        BY <3>2
      <4> HIDE DEF j
      <4>2. g[j + 1] = F[g[j]] /\ g[j] \in [S -> S]
        <5> HIDE DEF S, F
        <5> QED BY <1>4, <4>1 DEF Iteration
      <4>3. F[g[j]] = Then(g[j])
        <5> HIDE DEF S
        <5> QED BY <4>2
      <4>4. Body(g, j + 1) = Then(g[j])
        BY <2>2, <4>1
      <4> QED
        BY <4>1, <4>2, <4>3, <4>4
    <3> HIDE DEF S
    <3>3. \A k \in Nat : g[k] = Body(g, k)
      BY <3>1, <3>2
    <3> QED
      BY <1>4, <3>3 DEF Iteration
  <2>4. Turns = CHOOSE h : E(h)
    BY DEF Turns, Body
  <2>5. E(CHOOSE h : E(h))
    <3> HIDE DEF E
    <3> QED BY <2>3
  <2>6. E(Turns)
    BY <2>4, <2>5, Zenon
  <2> HIDE DEF Turns
  <2>7. Turns[0] = Body(Turns, 0)
    BY <2>6
  <2>8. ASSUME NEW k \in Nat PROVE Turns[k + 1] = Body(Turns, k + 1)
    <3>1. k + 1 \in Nat
      OBVIOUS
    <3> QED
      BY <2>6, <3>1
  <2> QED
    BY <2>1, <2>2, <2>7, <2>8
<1> HIDE DEF Turns
<1>6. 0 \in T
  BY <1>5
<1>7. ASSUME NEW k \in Nat, k \in T PROVE k + 1 \in T
  <2> SUFFICES ASSUME NEW w \in S, SoundWalk(n, gcFloor, seen, w)
               PROVE  SoundWalk(n, gcFloor, seen, Turns[k + 1][w])
    OBVIOUS
  <2>0. Turns[k + 1][w] = IF w.stack = << >> THEN w
                          ELSE Turns[k][WalkStep(d, gcFloor, seen, w)]
    <3>1. Turns[k + 1] = Then(Turns[k])
      <4> HIDE DEF Then, id
      <4> QED BY <1>5
    <3> HIDE DEF S
    <3> QED
      BY <3>1
  <2>1. CASE w.stack = << >>
    BY <2>0, <2>1, SMTT(60)
  <2>2. CASE w.stack # << >>
    <3>1. Turns[k + 1][w] = Turns[k][WalkStep(d, gcFloor, seen, w)]
      BY <2>0, <2>2, SMTT(60)
    <3>2. SoundWalk(n, gcFloor, seen, WalkStep(d, gcFloor, seen, w))
      BY <2>2, TurnSound
    <3>3. WalkStep(d, gcFloor, seen, w) \in S
      BY <1>2, <2>2, SMTT(60)
    <3> QED
      BY <1>7, <3>1, <3>2, <3>3, SMTT(60)
  <2> QED
    BY <2>1, <2>2
<1>8. Kept(Turns[WalkTurns(d)])
  <2>1. Nat \subseteq T
    <3> HIDE DEF T
    <3> QED BY <1>6, <1>7, NatInduct
  <2>2. WalkTurns(d) \in Nat
    BY TurnsAreNat DEF Closed
  <2> QED
    BY <2>1, <2>2
<1>9. start \in S /\ start \in Walks(n)
  <2>1. root \in Cert /\ Enter(root) \in Steps(n) /\ Enter(root) \in Steps(Cert)
    BY DEF Closed, Enter, Steps
  <2>2. <<Enter(root)>> \in Seq(Steps(n)) /\ <<Enter(root)>> \in Seq(Steps(Cert))
    BY <2>1, SMTT(60)
  <2> QED
    BY <1>1, <2>2 DEF Walks
<1>10. SoundWalk(n, gcFloor, seen, start)
  <2>1. SoundOrder(n, gcFloor, seen, << >>)
    BY DEF SoundOrder, EmitsOnce, EmitsAbove, EmitsAfter
  <2>2. start.order = << >> /\ \A i \in DOMAIN start.stack : start.stack[i].cert = root
    BY DEF Enter
  <2> QED
    BY <1>9, <2>1, <2>2 DEF SoundWalk
<1>11. Walk(d, gcFloor, root, seen) = Turns[WalkTurns(d)][start]
  BY DEF Walk, Turns
<1> QED
  BY <1>8, <1>9, <1>10, <1>11

----------------------------------------------------------------------------
\* One order after another.

\* The elements of a concatenation.
LEMMA Concat ==
    ASSUME NEW n, NEW a \in Seq(n), NEW b \in Seq(n)
    PROVE  /\ a \o b \in Seq(n)
           /\ Len(a) \in Nat /\ Len(b) \in Nat
           /\ DOMAIN a = 1 .. Len(a) /\ DOMAIN b = 1 .. Len(b)
           /\ DOMAIN (a \o b) = 1 .. Len(a) + Len(b)
           /\ \A i \in 1 .. Len(a) : (a \o b)[i] = a[i]
           /\ \A j \in 1 .. Len(b) : (a \o b)[Len(a) + j] = b[j]
           /\ \A i \in 1 .. Len(a) + Len(b) :
                 i \in 1 .. Len(a) \/ \E j \in 1 .. Len(b) : i = Len(a) + j
<1>1. /\ a \o b \in Seq(n) /\ Len(a) \in Nat /\ Len(b) \in Nat
      /\ DOMAIN a = 1 .. Len(a) /\ DOMAIN b = 1 .. Len(b)
      /\ DOMAIN (a \o b) = 1 .. Len(a) + Len(b)
      /\ \A i \in 1 .. Len(a) : (a \o b)[i] = a[i]
  OBVIOUS
<1>2. \A j \in 1 .. Len(b) : (a \o b)[Len(a) + j] = b[j]
  OBVIOUS
<1>3. ASSUME NEW i \in 1 .. Len(a) + Len(b), i \notin 1 .. Len(a)
      PROVE  \E j \in 1 .. Len(b) : i = Len(a) + j
  <2>1. i - Len(a) \in 1 .. Len(b) /\ i = Len(a) + (i - Len(a))
    BY <1>1, <1>3
  <2> QED
    BY <2>1
<1> QED
  BY <1>1, <1>2, <1>3

LEMMA ConcatSet ==
    ASSUME NEW n, NEW a \in Seq(n), NEW b \in Seq(n)
    PROVE  Range(a \o b) = Range(a) \cup Range(b)
<1>1. Range(a) = {a[i] : i \in 1 .. Len(a)} /\ Range(b) = {b[j] : j \in 1 .. Len(b)}
  BY Concat DEF Range
<1>2. Range(a \o b) = {(a \o b)[i] : i \in 1 .. Len(a) + Len(b)}
  <2>1. DOMAIN (a \o b) = 1 .. Len(a) + Len(b)
    BY Concat
  <2> QED
    BY <2>1 DEF Range
<1>3. ASSUME NEW x \in Range(a \o b) PROVE x \in Range(a) \cup Range(b)
  <2>1. PICK i \in 1 .. Len(a) + Len(b) : x = (a \o b)[i]
    BY <1>2
  <2>2. i \in 1 .. Len(a) \/ \E j \in 1 .. Len(b) : i = Len(a) + j
    BY Concat
  <2>3. CASE i \in 1 .. Len(a)
    BY <1>1, <2>1, <2>3, Concat
  <2>4. CASE \E j \in 1 .. Len(b) : i = Len(a) + j
    BY <1>1, <2>1, <2>4, Concat
  <2> QED
    BY <2>2, <2>3, <2>4
<1>4. ASSUME NEW x \in Range(a) PROVE x \in Range(a \o b)
  <2>1. PICK i \in 1 .. Len(a) : x = a[i]
    BY <1>1
  <2>2. i \in 1 .. Len(a) + Len(b) /\ (a \o b)[i] = x
    BY <2>1, Concat
  <2> QED
    BY <1>2, <2>2
<1>5. ASSUME NEW x \in Range(b) PROVE x \in Range(a \o b)
  <2>1. PICK j \in 1 .. Len(b) : x = b[j]
    BY <1>1
  <2>2. Len(a) \in Nat /\ Len(b) \in Nat
    BY Concat
  <2>3. Len(a) + j \in 1 .. Len(a) + Len(b)
    BY <2>2
  <2>4. (a \o b)[Len(a) + j] = x
    BY <2>1, Concat
  <2> QED
    BY <1>2, <2>3, <2>4
<1> QED
  BY <1>3, <1>4, <1>5

\* Nothing is emitted twice.
LEMMA ConcatOnce ==
    ASSUME NEW n, NEW a \in Seq(n), NEW b \in Seq(n), NEW seen, NEW later,
           EmitsOnce(seen, a), EmitsOnce(later, b),
           \A j \in DOMAIN b : b[j] \notin seen \cup Range(a)
    PROVE  EmitsOnce(seen, a \o b)
<1> DEFINE c == a \o b
           ka == Len(a)
           kb == Len(b)
<1>1. /\ ka \in Nat /\ kb \in Nat /\ DOMAIN a = 1 .. ka /\ DOMAIN b = 1 .. kb
      /\ DOMAIN c = 1 .. ka + kb
      /\ \A i \in 1 .. ka : c[i] = a[i]
      /\ \A j \in 1 .. kb : c[ka + j] = b[j]
      /\ \A i \in 1 .. ka + kb : i \in 1 .. ka \/ \E j \in 1 .. kb : i = ka + j
  BY Concat
<1> HIDE DEF c, ka, kb
<1>2. \A i \in 1 .. ka : a[i] \in Range(a) /\ a[i] \notin seen
  BY <1>1 DEF Range, EmitsOnce
<1>3. \A j \in 1 .. kb : b[j] \notin seen \cup Range(a)
  BY <1>1, Zenon
<1>4. ASSUME NEW i \in 1 .. ka + kb PROVE c[i] \notin seen
  BY <1>1, <1>2, <1>3
<1>5. ASSUME NEW i \in 1 .. ka + kb, NEW j \in 1 .. ka + kb, c[i] = c[j] PROVE i = j
  <2>1. CASE i \in 1 .. ka /\ j \in 1 .. ka
    BY <1>1, <1>5, <2>1 DEF EmitsOnce
  <2>2. CASE i \in 1 .. ka /\ j \notin 1 .. ka
    <3>1. c[i] \in Range(a)
      BY <1>1, <1>2, <2>2
    <3>2. c[j] \notin Range(a)
      BY <1>1, <1>3, <2>2
    <3> QED
      BY <1>5, <3>1, <3>2
  <2>3. CASE i \notin 1 .. ka /\ j \in 1 .. ka
    <3>1. c[j] \in Range(a)
      BY <1>1, <1>2, <2>3
    <3>2. c[i] \notin Range(a)
      BY <1>1, <1>3, <2>3
    <3> QED
      BY <1>5, <3>1, <3>2
  <2>4. CASE i \notin 1 .. ka /\ j \notin 1 .. ka
    <3>1. PICK p \in 1 .. kb : i = ka + p
      BY <1>1, <2>4
    <3>2. PICK q \in 1 .. kb : j = ka + q
      BY <1>1, <2>4
    <3>3. b[p] = b[q]
      BY <1>1, <1>5, <3>1, <3>2
    <3>4. p = q
      BY <1>1, <3>3, Zenon DEF EmitsOnce
    <3> QED
      BY <3>1, <3>2, <3>4
  <2> QED
    BY <2>1, <2>2, <2>3, <2>4
<1>6. EmitsOnce(seen, c)
  BY <1>1, <1>4, <1>5, SMTT(60) DEF EmitsOnce
<1> QED
  BY <1>6 DEF c

\* Parents stay before children.
LEMMA ConcatAfter ==
    ASSUME NEW n, NEW a \in Seq(n), NEW b \in Seq(n), NEW gcFloor, NEW seen, NEW later,
           EmitsAfter(gcFloor, seen, a), EmitsAfter(gcFloor, later, b),
           later \subseteq seen \cup Range(a)
    PROVE  EmitsAfter(gcFloor, seen, a \o b)
<1> DEFINE c == a \o b
           ka == Len(a)
           kb == Len(b)
<1>1. /\ ka \in Nat /\ kb \in Nat /\ DOMAIN a = 1 .. ka /\ DOMAIN b = 1 .. kb
      /\ DOMAIN c = 1 .. ka + kb
      /\ \A i \in 1 .. ka : c[i] = a[i]
      /\ \A j \in 1 .. kb : c[ka + j] = b[j]
      /\ \A i \in 1 .. ka + kb : i \in 1 .. ka \/ \E j \in 1 .. kb : i = ka + j
  BY Concat
<1>2. Range(a) = {a[i] : i \in 1 .. ka}
  BY <1>1 DEF Range
<1> HIDE DEF c, ka, kb
<1> SUFFICES ASSUME NEW i \in 1 .. ka + kb, Round[c[i]] > gcFloor
             PROVE  Parents[c[i]] \subseteq seen \cup {c[j] : j \in 1 .. i - 1}
  BY <1>1, Zenon DEF EmitsAfter, c
<1>3. CASE i \in 1 .. ka
  <2>1. c[i] = a[i] /\ Parents[a[i]] \subseteq seen \cup {a[j] : j \in 1 .. i - 1}
    BY <1>1, <1>3, SMTT(60) DEF EmitsAfter
  <2>2. \A j \in 1 .. i - 1 : a[j] = c[j]
    BY <1>1, <1>3
  <2> QED
    BY <2>1, <2>2
<1>4. CASE i \notin 1 .. ka
  <2>1. PICK p \in 1 .. kb : i = ka + p
    BY <1>1, <1>4, SMTT(60)
  <2>2. c[i] = b[p] /\ Parents[b[p]] \subseteq later \cup {b[j] : j \in 1 .. p - 1}
    BY <1>1, <2>1, SMTT(60) DEF EmitsAfter
  <2>3. \A j \in 1 .. p - 1 : ka + j \in 1 .. i - 1 /\ c[ka + j] = b[j]
    BY <1>1, <2>1
  <2>4. \A j \in 1 .. ka : j \in 1 .. i - 1 /\ c[j] = a[j]
    BY <1>1, <2>1
  <2>5. {b[j] : j \in 1 .. p - 1} \subseteq {c[j] : j \in 1 .. i - 1}
    BY <2>3, SMTT(60)
  <2>6. Range(a) \subseteq {c[j] : j \in 1 .. i - 1}
    BY <1>2, <2>4
  <2> QED
    BY <2>2, <2>5, <2>6, Zenon
<1> QED
  BY <1>3, <1>4

\* Nothing below the barrier.
LEMMA ConcatAbove ==
    ASSUME NEW n, NEW a \in Seq(n), NEW b \in Seq(n), NEW gcFloor,
           EmitsAbove(gcFloor, a), EmitsAbove(gcFloor, b)
    PROVE  EmitsAbove(gcFloor, a \o b)
<1>1. /\ DOMAIN a = 1 .. Len(a) /\ DOMAIN b = 1 .. Len(b)
      /\ DOMAIN (a \o b) = 1 .. Len(a) + Len(b)
      /\ \A i \in 1 .. Len(a) : (a \o b)[i] = a[i]
      /\ \A j \in 1 .. Len(b) : (a \o b)[Len(a) + j] = b[j]
      /\ \A i \in 1 .. Len(a) + Len(b) :
            i \in 1 .. Len(a) \/ \E j \in 1 .. Len(b) : i = Len(a) + j
  BY Concat
<1> DEFINE c == a \o b
           ka == Len(a)
           kb == Len(b)
<1> HIDE DEF c, ka, kb
<1> SUFFICES ASSUME NEW i \in 1 .. ka + kb PROVE Round[c[i]] >= gcFloor
  BY <1>1, Zenon DEF EmitsAbove, c, ka, kb
<1>2. CASE i \in 1 .. ka
  <2>1. c[i] = a[i] /\ i \in DOMAIN a
    BY <1>1, <1>2 DEF c, ka
  <2> QED
    BY <2>1 DEF EmitsAbove
<1>3. CASE \E j \in 1 .. kb : i = ka + j
  <2>1. PICK j \in 1 .. kb : i = ka + j
    BY <1>3
  <2>2. c[i] = b[j] /\ j \in DOMAIN b
    BY <1>1, <2>1 DEF c, ka, kb
  <2> QED
    BY <2>2 DEF EmitsAbove
<1> QED
  BY <1>1, <1>2, <1>3 DEF ka, kb

=============================================================================
