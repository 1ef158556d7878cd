-------------------------- MODULE SigningAuthority --------------------------
(***************************************************************************)
(* What the remote signer promises whoever relies on it, without queues,    *)
(* connections, files or crashes: its signatures over own vertices come in  *)
(* the order of their rounds, one vertex a round; so do its signatures over *)
(* state roots; and only signed vertices are ever published.                *)
(***************************************************************************)
EXTENDS Naturals

CONSTANTS Vertices, Attestations    \* records with a field `round`

VARIABLES
    votes,          \* vertices signed
    attestations,   \* state roots signed
    published       \* vertices broadcast

authorityVars == <<votes, attestations, published>>

\* s may be signed again, and else must lie above everything signed so far.
InOrder(S, s) == \A t \in S : t = s \/ t.round < s.round

AuthorityInit == votes = {} /\ attestations = {} /\ published = {}

SignVertex(s) ==
    /\ InOrder(votes, s)
    /\ votes' = votes \cup {s}
    /\ UNCHANGED <<attestations, published>>

SignRoot(s) ==
    /\ InOrder(attestations, s)
    /\ attestations' = attestations \cup {s}
    /\ UNCHANGED <<votes, published>>

Publish(s) ==
    /\ s \in votes
    /\ published' = published \cup {s}
    /\ UNCHANGED <<votes, attestations>>

AuthorityNext ==
    \/ \E s \in Vertices : SignVertex(s) \/ Publish(s)
    \/ \E s \in Attestations : SignRoot(s)

AuthoritySpec == AuthorityInit /\ [][AuthorityNext]_authorityVars

=============================================================================
