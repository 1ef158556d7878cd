------------------------------- MODULE Signer -------------------------------
(***************************************************************************)
(* A validator whose consensus key lives in the remote signer               *)
(* (qchain-remote-signer): the node's two guarded requests, one connection  *)
(* with a timeout and one retry, and the daemon with its persisted          *)
(* `DoubleSignGuard`.  Requests are lost, answered late or answered twice;  *)
(* node and daemon crash independently.                                     *)
(*                                                                         *)
(* A vertex digest is the set of transactions the vertex carries (its round *)
(* is named apart and its author is the node); a state root is the number   *)
(* of commits executed.                                                     *)
(***************************************************************************)
EXTENDS Naturals, Sequences

CONSTANTS
    Tx,                 \* transactions that may reach the node, each once
    Zero,               \* content of no vertex
    StateCheckpoints,   \* the node's `state_checkpoints` setting
    MaxRound,           \* bound on the rounds proposed
    MaxRoot,            \* bound on commits executed
    MaxFaults           \* bound on timeouts, crashes and failed writes

ASSUME BoundsTyped ==
    /\ MaxRound \in Nat /\ MaxRoot \in Nat /\ MaxFaults \in Nat
    /\ StateCheckpoints \in BOOLEAN
    /\ Zero \notin Tx

Rounds == 0 .. MaxRound
Roots  == 0 .. MaxRoot
Digest == SUBSET Tx
NoDigest == {Zero}      \* the all-zero digest of `GuardState::empty`

OwnVote == [kind : {"own"}, round : Rounds, what : Digest]
\* `SignPeerVote` carries the vertex: here always one of this validator's own.
PeerVote == [kind : {"peer"}, round : Rounds, what : Digest]
Checkpoint == [kind : {"checkpoint"}, round : Rounds, what : Roots]
Request == OwnVote \cup PeerVote \cup Checkpoint

Frame == [req : Request, live : BOOLEAN]

NoRequest == [kind |-> "none", round |-> 0, what |-> 0]

\* `Option<GuardState>`: the last own vote and the last checkpoint signed.
\* `known` is FALSE for None, whose fields are those of `GuardState::empty`,
\* which a first record starts from.
GuardState == [known : BOOLEAN,
               ownRound : Rounds, ownDigest : Digest \cup {NoDigest},
               cpRound : Rounds, cpRoot : Roots, cpSeen : BOOLEAN]
NoGuard == [known |-> FALSE, ownRound |-> 0, ownDigest |-> NoDigest,
            cpRound |-> 0, cpRoot |-> 0, cpSeen |-> FALSE]

VARIABLES
    \* the node
    nextRound,      \* `next_round`, checkpointed with every proposal
    pending,        \* a proposal of its own is waiting for its quorum
    pool,           \* transactions ready to be drained
    gone,           \* transactions that have been drained
    root,           \* the ledger's state root
    snapshot,       \* a captured (round, root) whose signature is not asked yet
    asking,         \* the request the node waits for, NoRequest if none
    attempt,        \* 1 or 2: `request` retries once
    \* the connection
    inbox,          \* frames the daemon has not answered, in the order of their
                    \* connections: [req, live], live if the node still listens
    reply,          \* the answer the node has not read
    \* the daemon
    guard, disk,    \* the guard in memory and in its file
    granted,        \* the first frame has passed the guard and is being signed
    \* history
    signed,         \* signatures made: over own vertices, over state roots
    attested,
    proposed,       \* own vertices the node broadcast
    faults

node   == <<nextRound, pending, pool, gone, root, snapshot, asking, attempt, proposed>>
daemon == <<guard, disk, granted, signed, attested>>
vars   == <<node, inbox, reply, daemon, faults>>

Init ==
    /\ nextRound = 0 /\ pending = FALSE
    /\ pool = {} /\ gone = {} /\ root = 0
    /\ snapshot = NoRequest /\ asking = NoRequest /\ attempt = 1
    /\ inbox = << >> /\ reply = "none"
    /\ guard = NoGuard /\ disk = NoGuard /\ granted = FALSE
    /\ signed = {} /\ attested = {} /\ proposed = {}
    /\ faults = 0

Fault == faults < MaxFaults /\ faults' = faults + 1

----------------------------------------------------------------------------
\* The node.  `propose_round` keeps the state lock while it waits for its
\* signature; a checkpoint is signed without that lock.

StateUnlocked == asking.kind # "own"

ReceiveTransaction(t) ==
    /\ StateUnlocked
    /\ t \notin pool \cup gone
    /\ pool' = pool \cup {t}
    /\ UNCHANGED <<nextRound, pending, gone, root, snapshot, asking, attempt,
                   proposed, inbox, reply, daemon, faults>>

\* `try_commit` executing committed vertices: the root moves, the round does not.
Execute ==
    /\ StateUnlocked
    /\ root < MaxRoot
    /\ root' = root + 1
    /\ UNCHANGED <<nextRound, pending, pool, gone, snapshot, asking, attempt,
                   proposed, inbox, reply, daemon, faults>>

\* The proposal's votes reach the quorum.
Certified ==
    /\ StateUnlocked
    /\ pending
    /\ pending' = FALSE
    /\ UNCHANGED <<nextRound, pool, gone, root, snapshot, asking, attempt,
                   proposed, inbox, reply, daemon, faults>>

\* Sending a request on the connection, whose lock one request holds at a time.
Send(req) ==
    /\ asking.kind = "none"
    /\ asking' = req
    /\ attempt' = 1
    /\ inbox' = Append(inbox, [req |-> req, live |-> TRUE])

\* `propose_round` up to `sign_own_vote`: what the pool holds is drained into
\* the vertex, and stays drained whatever the signer answers.
Propose ==
    /\ ~pending
    /\ nextRound < MaxRound
    /\ Send([kind |-> "own", round |-> nextRound, what |-> pool])
    /\ pool' = {}
    /\ gone' = gone \cup pool
    /\ UNCHANGED <<nextRound, pending, root, snapshot, proposed, reply, daemon, faults>>

\* `cast_vote` on a vertex of the node's own.  The signer does not rely on the
\* node's `voted_for` lock, so any such vertex may come.
VoteOnOwn(r, d) ==
    /\ Send([kind |-> "peer", round |-> r, what |-> d])
    /\ UNCHANGED <<nextRound, pending, pool, gone, root, snapshot, proposed,
                   reply, daemon, faults>>

\* `cached_snapshot`: round and root are read under the state lock ...
Capture ==
    /\ StateCheckpoints
    /\ StateUnlocked
    /\ snapshot.kind = "none"
    /\ snapshot' = [kind |-> "checkpoint", round |-> nextRound, what |-> root]
    /\ UNCHANGED <<nextRound, pending, pool, gone, root, asking, attempt,
                   proposed, inbox, reply, daemon, faults>>

\* ... and signed after it was released.
AskCheckpoint ==
    /\ snapshot.kind # "none"
    /\ Send(snapshot)
    /\ snapshot' = NoRequest
    /\ UNCHANGED <<nextRound, pending, pool, gone, root, proposed, reply, daemon, faults>>

\* The answer to the request.  A signed proposal is committed to the node's
\* state and its round checkpoint before it is broadcast; a refusal leaves the
\* round as it was.
ReceiveReply ==
    /\ asking.kind # "none"
    /\ reply # "none"
    /\ reply' = "none"
    /\ asking' = NoRequest
    /\ IF asking.kind = "own" /\ reply = "signature"
       THEN /\ nextRound' = nextRound + 1
            /\ pending' = TRUE
            /\ proposed' = proposed \cup {[round |-> asking.round, what |-> asking.what]}
       ELSE UNCHANGED <<nextRound, pending, proposed>>
    /\ UNCHANGED <<pool, gone, root, snapshot, attempt, inbox, daemon, faults>>

\* What the daemon still sends on an abandoned connection reaches nobody.
Abandoned == [i \in DOMAIN inbox |-> [inbox[i] EXCEPT !.live = FALSE]]

\* IO_TIMEOUT, or an I/O error: the connection is dropped, and the request sent
\* once more on a new one or given up.  The daemon serves one connection after
\* the other, so it comes to the abandoned frames first.
Timeout ==
    /\ asking.kind # "none"
    /\ Fault
    /\ reply' = "none"
    /\ IF attempt = 1
       THEN /\ attempt' = 2
            /\ inbox' = Append(Abandoned, [req |-> asking, live |-> TRUE])
            /\ UNCHANGED asking
       ELSE /\ asking' = NoRequest
            /\ inbox' = Abandoned
            /\ UNCHANGED attempt
    /\ UNCHANGED <<nextRound, pending, pool, gone, root, snapshot, proposed, daemon>>

\* The node restarts from its checkpointed round, without a mempool.
NodeRestart ==
    /\ Fault
    /\ pending' = FALSE /\ pool' = {} /\ gone' = gone \cup pool
    /\ snapshot' = NoRequest /\ asking' = NoRequest
    /\ inbox' = Abandoned /\ reply' = "none"
    /\ UNCHANGED <<nextRound, root, attempt, proposed, daemon>>

----------------------------------------------------------------------------
\* The daemon: `respond_with_policy` on the oldest frame

Recorded(g, r, d) == g.known /\ r = g.ownRound /\ d = g.ownDigest

\* `check_and_record_own`
AllowsOwn(g, r, d) == ~g.known \/ r > g.ownRound \/ Recorded(g, r, d)

RecordOwn(g, r, d) ==
    IF Recorded(g, r, d) THEN g
    ELSE [g EXCEPT !.known = TRUE, !.ownRound = r, !.ownDigest = d]

\* `check_and_record_checkpoint`
AllowsCheckpoint(g, r, x) ==
    ~g.cpSeen \/ r > g.cpRound \/ (r = g.cpRound /\ x = g.cpRoot)

RecordCheckpoint(g, r, x) ==
    [g EXCEPT !.known = TRUE, !.cpRound = r, !.cpRoot = x, !.cpSeen = TRUE]

\* A vote on a peer's vertex is refused when the vertex is the signer's own.
Allows(g, req) ==
    \/ req.kind = "own" /\ AllowsOwn(g, req.round, req.what)
    \/ req.kind = "checkpoint" /\ AllowsCheckpoint(g, req.round, req.what)

Record(g, req) ==
    IF req.kind = "own" THEN RecordOwn(g, req.round, req.what)
    ELSE RecordCheckpoint(g, req.round, req.what)

\* The frame is answered, on its own connection.
Answer(a) ==
    /\ inbox' = Tail(inbox)
    /\ reply' = IF Head(inbox).live THEN a ELSE reply

\* Mutant: the guard's file is not written before the signature is made.
GrantUnrecorded ==
    /\ inbox # << >> /\ ~granted
    /\ Allows(guard, Head(inbox).req)
    /\ guard' = Record(guard, Head(inbox).req)
    /\ granted' = TRUE
    /\ UNCHANGED <<disk, node, inbox, reply, signed, attested, faults>>

\* The guard lets the request through once its file has it.
Grant ==
    /\ inbox # << >> /\ ~granted
    /\ Allows(guard, Head(inbox).req)
    /\ guard' = Record(guard, Head(inbox).req)
    /\ disk' = guard'
    /\ granted' = TRUE
    /\ UNCHANGED <<node, inbox, reply, signed, attested, faults>>

Sign ==
    /\ inbox # << >> /\ granted
    /\ LET req == Head(inbox).req
           s   == [round |-> req.round, what |-> req.what]
       IN  IF req.kind = "checkpoint"
           THEN attested' = attested \cup {s} /\ UNCHANGED signed
           ELSE signed' = signed \cup {s} /\ UNCHANGED attested
    /\ Answer("signature")
    /\ granted' = FALSE
    /\ UNCHANGED <<node, guard, disk, faults>>

\* By the guard, by the authorship check of a peer vote, or by the policy (rate
\* limit, chain id), which comes first and depends on neither.
Refuse ==
    /\ inbox # << >> /\ ~granted
    /\ Answer("refused")
    /\ UNCHANGED <<node, daemon, faults>>

\* The guard's file cannot be written: nothing is recorded and nothing signed.
PersistFails ==
    /\ inbox # << >> /\ ~granted
    /\ Allows(guard, Head(inbox).req)
    /\ Fault
    /\ Answer("refused")
    /\ UNCHANGED <<node, daemon>>

\* Mutant: the guard's file is not read back.
RestartUnguarded ==
    /\ Fault
    /\ guard' = NoGuard
    /\ granted' = FALSE
    /\ inbox' = << >>
    /\ UNCHANGED <<node, reply, disk, signed, attested>>

\* `DoubleSignGuard::load`; the connections are gone.
DaemonRestart ==
    /\ Fault
    /\ guard' = disk
    /\ granted' = FALSE
    /\ inbox' = << >>
    /\ UNCHANGED <<node, reply, disk, signed, attested>>

----------------------------------------------------------------------------
Next ==
    \/ \E t \in Tx : ReceiveTransaction(t)
    \/ Execute \/ Certified \/ Propose
    \/ \E r \in Rounds, d \in Digest : VoteOnOwn(r, d)
    \/ Capture \/ AskCheckpoint
    \/ ReceiveReply \/ Timeout \/ NodeRestart
    \/ Grant \/ Sign \/ Refuse \/ PersistFails \/ DaemonRestart

Spec == Init /\ [][Next]_vars

----------------------------------------------------------------------------
\* Properties

TypeOK ==
    /\ nextRound \in Rounds /\ pending \in BOOLEAN
    /\ pool \subseteq Tx /\ gone \subseteq Tx /\ root \in Roots
    /\ snapshot \in Checkpoint \cup {NoRequest}
    /\ asking \in Request \cup {NoRequest} /\ attempt \in {1, 2}
    /\ inbox \in Seq(Frame)
    /\ reply \in {"none", "signature", "refused"}
    /\ guard \in GuardState /\ disk \in GuardState /\ granted \in BOOLEAN
    /\ signed \subseteq [round : Rounds, what : Digest]
    /\ attested \subseteq [round : Rounds, what : Roots]
    /\ proposed \subseteq [round : Rounds, what : Digest]
    /\ faults \in 0 .. MaxFaults

\* The promise of the `DoubleSignGuard`: through retries, late frames, crashes
\* of either process and both voting paths, the signer never signs two vertices
\* of its validator for one round.
OneVertexPerRound ==
    \A s, t \in signed : s.round = t.round => s.what = t.what

\* The same for state checkpoints, although the root can move while the round
\* stays, and between the capture of a snapshot and its signature.
OneRootPerRound ==
    \A s, t \in attested : s.round = t.round => s.what = t.what

\* What the node broadcasts as its proposal carries a signature made for that
\* very vertex: no late answer to an abandoned request is taken for it.
ProposalsAreSigned == proposed \subseteq signed

\* Daemon, connection and node together implement the abstract signer: what
\* they sign and publish, seen without the machinery, is a behaviour of it.
Authority == INSTANCE SigningAuthority WITH
    Vertices <- [round : Rounds, what : Digest], Attestations <- [round : Rounds, what : Roots],
    votes <- signed, attestations <- attested, published <- proposed

ImplementsAuthority == Authority!AuthoritySpec

=============================================================================
