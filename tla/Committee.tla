----------------------------- MODULE Committee -----------------------------
(***************************************************************************)
(* The stake-weighted validator sets of qchain-consensus (quorum.rs) and    *)
(* the committee in force at each round (schedule.rs, `for_round`).         *)
(*                                                                         *)
(* A validator's `stake: u64` is represented by the units of stake it owns: *)
(* at round r, unit u belongs to Owner[r][u], and to Nobody when no member  *)
(* of that round's committee holds it.  A sum of stakes over a set of       *)
(* distinct validators is then the cardinality of a set of units, and the   *)
(* stakes of two different committees may differ in any way.                *)
(***************************************************************************)
EXTENDS Integers, FiniteSets, FiniteSetTheorems, TLAPS

CONSTANTS
    Validators,     \* every validator identity, of any epoch
    Nobody,         \* owner of a unit of stake outside the round's committee
    Units,          \* units of stake
    Owner           \* Owner[r][u]: who holds unit u in round r's committee

ASSUME UnitsFinite == IsFiniteSet(Units)

ASSUME NobodyIsNoValidator == Nobody \notin Validators

\* `ValidatorSet::ids_sorted`, as a set: the members of round r's committee.
CommitteeOf(r) == {v \in Validators : \E u \in Units : Owner[r][u] = v}

\* The units behind a set of validators in round r's committee ...
UnitsOf(r, S) == {u \in Units : Owner[r][u] \in S}

\* ... and their number: the sum of `stake_of` over S (0 for a non-member).
StakeOf(r, S) == Cardinality(UnitsOf(r, S))

TotalStake(r) == StakeOf(r, Validators)

\* `quorum_threshold`: the least integer strictly above two thirds.
QuorumThreshold(r) == (2 * TotalStake(r)) \div 3 + 1

IsQuorum(r, S) == StakeOf(r, S) >= QuorumThreshold(r)

----------------------------------------------------------------------------
\* The stake of any set of validators is a natural number no larger than that
\* of a larger set (`stake_of` summed over distinct ids).
LEMMA StakeMonotone ==
    ASSUME NEW r, NEW S, NEW T, S \subseteq T
    PROVE  /\ StakeOf(r, S) \in Nat
           /\ StakeOf(r, T) \in Nat
           /\ StakeOf(r, S) <= StakeOf(r, T)
<1>1. IsFiniteSet(UnitsOf(r, S)) /\ IsFiniteSet(UnitsOf(r, T))
  BY UnitsFinite, FS_Subset DEF UnitsOf
<1>2. UnitsOf(r, S) \subseteq UnitsOf(r, T)
  BY DEF UnitsOf
<1>3. Cardinality(UnitsOf(r, S)) <= Cardinality(UnitsOf(r, T))
  BY <1>1, <1>2, FS_Subset
<1> QED
  BY <1>1, <1>3, FS_CardinalityType DEF StakeOf

\* The stake of a union is the two stakes less what they share: no validator's
\* stake is counted twice.
LEMMA StakeUnion ==
    ASSUME NEW r, NEW S, NEW T
    PROVE  StakeOf(r, S \cup T) = StakeOf(r, S) + StakeOf(r, T) - StakeOf(r, S \cap T)
<1>1. IsFiniteSet(UnitsOf(r, S)) /\ IsFiniteSet(UnitsOf(r, T))
  BY UnitsFinite, FS_Subset DEF UnitsOf
<1>2. UnitsOf(r, S \cup T) = UnitsOf(r, S) \cup UnitsOf(r, T)
  BY DEF UnitsOf
<1>3. UnitsOf(r, S \cap T) = UnitsOf(r, S) \cap UnitsOf(r, T)
  BY DEF UnitsOf
<1>4. Cardinality(UnitsOf(r, S) \cup UnitsOf(r, T))
        = Cardinality(UnitsOf(r, S)) + Cardinality(UnitsOf(r, T))
            - Cardinality(UnitsOf(r, S) \cap UnitsOf(r, T))
  BY <1>1, FS_Union
<1> QED
  BY <1>2, <1>3, <1>4, Zenon DEF StakeOf

\* Two quorums of one committee share more than a third of its stake: the
\* intersection `quorum_threshold` is chosen to guarantee.
THEOREM QuorumsIntersect ==
    ASSUME NEW r, NEW S, S \subseteq Validators, NEW T, T \subseteq Validators,
           IsQuorum(r, S), IsQuorum(r, T)
    PROVE  3 * StakeOf(r, S \cap T) > TotalStake(r)
<1>1. StakeOf(r, S) \in Nat /\ StakeOf(r, T) \in Nat /\ StakeOf(r, S \cap T) \in Nat
  BY StakeMonotone
<1>2. StakeOf(r, S \cup T) \in Nat /\ TotalStake(r) \in Nat
      /\ StakeOf(r, S \cup T) <= TotalStake(r)
  BY StakeMonotone DEF TotalStake
<1>3. StakeOf(r, S \cup T) = StakeOf(r, S) + StakeOf(r, T) - StakeOf(r, S \cap T)
  BY StakeUnion
<1>4. StakeOf(r, S) >= QuorumThreshold(r) /\ StakeOf(r, T) >= QuorumThreshold(r)
  BY DEF IsQuorum
<1>5. QuorumThreshold(r) \in Nat /\ 3 * QuorumThreshold(r) > 2 * TotalStake(r)
  BY <1>2 DEF QuorumThreshold
<1> QED
  BY <1>1, <1>2, <1>3, <1>4, <1>5

=============================================================================
