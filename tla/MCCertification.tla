--------------------------- MODULE MCCertification ---------------------------
(***************************************************************************)
(* Instances of Certification: one Byzantine validator below a third of the *)
(* stake, or none, and stakes of 2, 1, 1 or of 1, 1, 1.                     *)
(***************************************************************************)
EXTENDS Certification

CONSTANTS a, b, z

MCValidators == {a, b, z}

\* Four units, a holding two: the quorum is 3, a and one other.
MCOwner == [r \in Rounds |-> <<a, a, b, z>>]

\* The slots voted on: that of the Byzantine author, or the first round's.
ByzSlots == {<<0, z>>}
FirstRound == {0} \X MCValidators

\* `forgot` only records history: no action and no property but the one about
\* conflicting certificates reads it.
WithoutHistory == <<local, proposals, votes, certified>>

=============================================================================
