---------------------------- MODULE SignerProofs ----------------------------
(***************************************************************************)
(* The remote signer never signs two own vertices, nor two state roots, for *)
(* one round, and what the node proposes is what was signed: for any set of *)
(* transactions, any number of rounds, commits and faults.                  *)
(***************************************************************************)
EXTENDS Signer, TLAPS

\* A signature over an own vertex lies below the guard's own-vote record or is
\* that record; the same for state roots.
Covered(g, s) ==
    /\ g.known
    /\ \/ s.round < g.ownRound
       \/ s.round = g.ownRound /\ s.what = g.ownDigest

CoveredRoot(g, s) ==
    /\ g.cpSeen
    /\ \/ s.round < g.cpRound
       \/ s.round = g.cpRound /\ s.what = g.cpRoot

\* The request being signed is the guard's record.
GrantRecorded ==
    granted =>
        /\ inbox # << >>
        /\ \/ /\ Head(inbox).req.kind = "own"
              /\ Recorded(guard, Head(inbox).req.round, Head(inbox).req.what)
           \/ /\ Head(inbox).req.kind = "checkpoint"
              /\ guard.cpSeen
              /\ Head(inbox).req.round = guard.cpRound
              /\ Head(inbox).req.what = guard.cpRoot

\* The strengthening: signatures are covered by what the guard's file holds,
\* and memory and file agree.
GuardInv ==
    /\ guard = disk
    /\ \A s \in signed : Covered(guard, s)
    /\ \A s \in attested : CoveredRoot(guard, s)
    /\ GrantRecorded

\* At most one frame is live, it is the request the node waits for, and then
\* there is no answer yet; a signature that waits to be read is over that request.
ChannelInv ==
    /\ \A i \in DOMAIN inbox : inbox[i].live =>
          /\ inbox[i].req = asking
          /\ reply = "none"
    /\ \A i, j \in DOMAIN inbox : inbox[i].live /\ inbox[j].live => i = j
    /\ reply # "none" => asking.kind # "none"
    /\ reply = "signature" /\ asking.kind = "own" =>
          [round |-> asking.round, what |-> asking.what] \in signed

----------------------------------------------------------------------------
\* Sequence facts the steps use.
LEMMA TailFacts ==
    ASSUME NEW S, NEW q \in Seq(S), q # << >>
    PROVE  /\ Tail(q) \in Seq(S)
           /\ Head(q) = q[1] /\ Head(q) \in S
           /\ \A i \in DOMAIN Tail(q) : i + 1 \in DOMAIN q /\ Tail(q)[i] = q[i + 1] /\ i \in Nat /\ i >= 1
           /\ 1 \in DOMAIN q
  OBVIOUS

LEMMA AppendFacts ==
    ASSUME NEW S, NEW q \in Seq(S), NEW e \in S
    PROVE  /\ Append(q, e) \in Seq(S)
           /\ Append(q, e) # << >>
           /\ \A i \in DOMAIN Append(q, e) : \/ i \in DOMAIN q /\ Append(q, e)[i] = q[i]
                                             \/ i = Len(q) + 1 /\ Append(q, e)[i] = e
           /\ q # << >> => Head(Append(q, e)) = Head(q)
  OBVIOUS

LEMMA AbandonedFacts ==
    ASSUME inbox \in Seq(Frame)
    PROVE  /\ Abandoned \in Seq(Frame)
           /\ DOMAIN Abandoned = DOMAIN inbox
           /\ \A i \in DOMAIN inbox : Abandoned[i].live = FALSE /\ Abandoned[i].req = inbox[i].req
           /\ inbox # << >> => Abandoned # << >> /\ Head(Abandoned).req = Head(inbox).req
  <1>0. \A i \in DOMAIN inbox : inbox[i] \in Frame
    OBVIOUS
  <1>1. \A i \in DOMAIN inbox : /\ [inbox[i] EXCEPT !.live = FALSE] \in Frame
                                 /\ [inbox[i] EXCEPT !.live = FALSE].live = FALSE
                                 /\ [inbox[i] EXCEPT !.live = FALSE].req = inbox[i].req
    BY <1>0, Zenon DEF Frame
  <1>2. Abandoned \in [1 .. Len(inbox) -> Frame]
    BY <1>1 DEF Abandoned
  <1>3. Abandoned \in Seq(Frame) /\ Len(Abandoned) = Len(inbox)
    BY <1>2
  <1>4. \A i \in DOMAIN inbox : Abandoned[i].live = FALSE /\ Abandoned[i].req = inbox[i].req
    BY <1>1, Zenon DEF Abandoned
  <1>5. DOMAIN Abandoned = DOMAIN inbox
    BY DEF Abandoned
  <1>6. inbox # << >> => Abandoned # << >> /\ Head(Abandoned).req = Head(inbox).req
    BY <1>3, <1>4
  <1> QED
    BY <1>3, <1>4, <1>5, <1>6

----------------------------------------------------------------------------
\* A proposal being signed is for the node's next round.
OwnIsNext == asking.kind = "own" => asking.round = nextRound /\ nextRound < MaxRound

TypeInv == TypeOK /\ OwnIsNext

\* The typing above holds throughout.
LEMMA TypeInvariant == Spec => []TypeInv
  <1> USE BoundsTyped DEF BoundsTyped, Rounds, Roots, Digest
  <1>0. NoRequest.kind = "none" /\ << >> \in Seq(Frame)
    BY DEF NoRequest
  <1>1. Init => TypeInv
    <2>1. NoGuard \in GuardState
      BY DEF NoGuard, GuardState
    <2>2. Init => inbox \in Seq(Frame) /\ guard \in GuardState /\ disk \in GuardState
      BY <1>0, <2>1 DEF Init
    <2>3. Init => OwnIsNext
      BY <1>0 DEF Init, OwnIsNext
    <2>4. Init => /\ snapshot \in Checkpoint \cup {NoRequest}
                  /\ asking \in Request \cup {NoRequest}
                  /\ pending \in BOOLEAN /\ granted \in BOOLEAN
      BY Zenon DEF Init
    <2>5. Init => /\ nextRound \in Rounds /\ root \in Roots /\ attempt \in {1, 2}
                  /\ faults \in 0 .. MaxFaults
                  /\ reply \in {"none", "signature", "refused"}
      BY DEF Init
    <2>6. Init => /\ pool \subseteq Tx /\ gone \subseteq Tx
                  /\ signed \subseteq [round : Rounds, what : Digest]
                  /\ attested \subseteq [round : Rounds, what : Roots]
                  /\ proposed \subseteq [round : Rounds, what : Digest]
      BY DEF Init
    <2> QED
      BY <2>2, <2>3, <2>4, <2>5, <2>6 DEF TypeInv, TypeOK
  <1>2. TypeInv /\ [Next]_vars => TypeInv'
    <2> SUFFICES ASSUME TypeInv, [Next]_vars PROVE TypeInv'
      OBVIOUS
    <2>a. /\ \A e \in Frame : Append(inbox, e) \in Seq(Frame) /\ Append(Abandoned, e) \in Seq(Frame)
          /\ Abandoned \in Seq(Frame)
          /\ inbox # << >> => /\ Tail(inbox) \in Seq(Frame)
                              /\ Head(inbox) \in Frame
                              /\ Head(inbox).req \in Request /\ Head(inbox).live \in BOOLEAN
      <3>1. inbox \in Seq(Frame)
        BY DEF TypeInv, OwnIsNext, TypeOK
      <3>2. Abandoned \in Seq(Frame)
        BY <3>1, AbandonedFacts
      <3>3. inbox # << >> => Tail(inbox) \in Seq(Frame) /\ Head(inbox) \in Frame
        BY <3>1, TailFacts
      <3> QED
        BY <3>1, <3>2, <3>3 DEF Frame
    <2>b. ASSUME NEW k \in Request PROVE [req |-> k, live |-> TRUE] \in Frame
      BY DEF Frame
    <2>1. ASSUME NEW t \in Tx, ReceiveTransaction(t) PROVE TypeInv'
      BY <2>1 DEF TypeInv, OwnIsNext, TypeOK, ReceiveTransaction, daemon
    <2>2. CASE Execute
      BY <2>2 DEF TypeInv, OwnIsNext, TypeOK, Execute, daemon
    <2>3. CASE Certified
      BY <2>3, Zenon DEF TypeInv, OwnIsNext, TypeOK, Certified, daemon
    <2>4. CASE Propose
      <3>1. [kind |-> "own", round |-> nextRound, what |-> pool] \in Request
        BY DEF TypeInv, OwnIsNext, TypeOK, Request, OwnVote
      <3>2. inbox' \in Seq(Frame)
        BY <2>4, <2>a, <2>b, <3>1 DEF Propose, Send
      <3> QED
        BY <2>4, <3>1, <3>2 DEF TypeInv, OwnIsNext, TypeOK, Propose, Send, daemon
    <2>5. ASSUME NEW r \in Rounds, NEW d \in Digest, VoteOnOwn(r, d) PROVE TypeInv'
      <3>1. [kind |-> "peer", round |-> r, what |-> d] \in Request
        BY DEF Request, PeerVote
      <3>2. inbox' \in Seq(Frame)
        BY <2>5, <2>a, <2>b, <3>1 DEF VoteOnOwn, Send
      <3> QED
        BY <2>5, <3>1, <3>2 DEF TypeInv, OwnIsNext, TypeOK, VoteOnOwn, Send, daemon
    <2>6. CASE Capture
      <3>1. [kind |-> "checkpoint", round |-> nextRound, what |-> root] \in Checkpoint
        BY DEF TypeInv, OwnIsNext, TypeOK, Checkpoint
      <3> QED
        BY <2>6, <3>1 DEF TypeInv, OwnIsNext, TypeOK, Capture, daemon
    <2>7. CASE AskCheckpoint
      <3>1. snapshot \in Request
        BY <1>0, <2>7 DEF TypeInv, TypeOK, AskCheckpoint, Request
      <3>2. inbox' \in Seq(Frame)
        BY <2>7, <2>a, <2>b, <3>1 DEF AskCheckpoint, Send
      <3>3. snapshot.kind # "own"
        BY <1>0 DEF TypeInv, TypeOK, Checkpoint
      <3> QED
        BY <1>0, <2>7, <3>1, <3>2, <3>3 DEF TypeInv, OwnIsNext, TypeOK, AskCheckpoint, Send, daemon
    <2>8. CASE ReceiveReply
      <3>1. CASE asking.kind = "own" /\ reply = "signature"
        <4>1. asking \in OwnVote
          BY <3>1 DEF TypeInv, OwnIsNext, TypeOK, Request, OwnVote, PeerVote, Checkpoint, NoRequest
        <4>2. [round |-> asking.round, what |-> asking.what] \in [round : Rounds, what : Digest]
          BY <4>1 DEF OwnVote
        <4> QED
          BY <1>0, <2>8, <3>1, <4>2 DEF TypeInv, OwnIsNext, TypeOK, ReceiveReply, daemon
      <3>2. CASE ~(asking.kind = "own" /\ reply = "signature")
        BY <1>0, <2>8, <3>2 DEF TypeInv, OwnIsNext, TypeOK, ReceiveReply, daemon
      <3> QED
        BY <3>1, <3>2
    <2>9. CASE Timeout
      <3>1. asking \in Request
        BY <1>0, <2>9 DEF TypeInv, TypeOK, Timeout
      <3>2. inbox' \in Seq(Frame)
        BY <2>9, <2>a, <2>b, <3>1, Zenon DEF Timeout
      <3> QED
        BY <1>0, <2>9, <3>1, <3>2 DEF TypeInv, OwnIsNext, TypeOK, Timeout, Fault, daemon
    <2>10. CASE NodeRestart
      <3>1. inbox' \in Seq(Frame)
        BY <2>10, <2>a DEF NodeRestart
      <3>2. /\ snapshot' \in Checkpoint \cup {NoRequest}
            /\ asking' \in Request \cup {NoRequest} /\ asking'.kind = "none"
        BY <1>0, <2>10 DEF NodeRestart
      <3>3. faults' \in 0 .. MaxFaults
        BY <2>10 DEF NodeRestart, Fault, TypeInv, TypeOK
      <3>4. pending' \in BOOLEAN /\ pool' \subseteq Tx /\ gone' \subseteq Tx
        BY <2>10, Zenon DEF NodeRestart, TypeInv, TypeOK
      <3> QED
        BY <2>10, <3>1, <3>2, <3>3, <3>4 DEF TypeInv, OwnIsNext, TypeOK, NodeRestart, daemon
    <2>11. CASE Grant
      <3>1. Record(guard, Head(inbox).req) \in GuardState
        BY <2>11, <2>a, Zenon DEF TypeInv, OwnIsNext, TypeOK, Grant, Allows, Record, RecordOwn, RecordCheckpoint,
                           Request, OwnVote, PeerVote, Checkpoint, GuardState
      <3> QED
        BY <2>11, <3>1 DEF TypeInv, OwnIsNext, TypeOK, Grant, node
    <2>12. CASE Sign
      <3>1. CASE Head(inbox).req.kind = "checkpoint"
        <4>1. [round |-> Head(inbox).req.round, what |-> Head(inbox).req.what]
                  \in [round : Rounds, what : Roots]
          BY <2>12, <2>a, <3>1 DEF Sign, Request, OwnVote, PeerVote, Checkpoint
        <4> QED
          BY <2>12, <2>a, <3>1, <4>1, Zenon DEF TypeInv, OwnIsNext, TypeOK, Sign, Answer, node
      <3>2. CASE Head(inbox).req.kind # "checkpoint"
        <4>1. [round |-> Head(inbox).req.round, what |-> Head(inbox).req.what]
                  \in [round : Rounds, what : Digest]
          BY <2>12, <2>a, <3>2 DEF Sign, Request, OwnVote, PeerVote, Checkpoint
        <4> QED
          BY <2>12, <2>a, <3>2, <4>1, Zenon DEF TypeInv, OwnIsNext, TypeOK, Sign, Answer, node
      <3> QED
        BY <3>1, <3>2
    <2>13. CASE Refuse
      BY <2>13, <2>a DEF TypeInv, OwnIsNext, TypeOK, Refuse, Answer, node, daemon
    <2>14. CASE PersistFails
      BY <2>14, <2>a DEF TypeInv, OwnIsNext, TypeOK, PersistFails, Answer, Fault, node, daemon
    <2>15. CASE DaemonRestart
      <3>1. inbox' \in Seq(Frame)
        BY <1>0, <2>15 DEF DaemonRestart
      <3>2. guard' \in GuardState /\ disk' \in GuardState /\ granted' \in BOOLEAN
        BY <2>15, Zenon DEF DaemonRestart, TypeInv, TypeOK
      <3>3. faults' \in 0 .. MaxFaults
        BY <2>15 DEF DaemonRestart, Fault, TypeInv, TypeOK
      <3> QED
        BY <2>15, <3>1, <3>2, <3>3 DEF TypeInv, OwnIsNext, TypeOK, DaemonRestart, node
    <2>16. CASE UNCHANGED vars
      BY <2>16 DEF TypeInv, OwnIsNext, TypeOK, vars, node, daemon
    <2> QED
      BY <2>1, <2>2, <2>3, <2>4, <2>5, <2>6, <2>7, <2>8, <2>9, <2>10, <2>11, <2>12,
         <2>13, <2>14, <2>15, <2>16 DEF Next
  <1> QED
    BY <1>1, <1>2, PTL DEF Spec

\* Node, connection and daemon state stay well typed under every handler.
THEOREM TypeCorrect == Spec => []TypeOK
  BY TypeInvariant, PTL DEF TypeInv

----------------------------------------------------------------------------
\* What the guard records is what it was asked, and what it covered before it
\* still covers.
LEMMA RecordCovers ==
    ASSUME BoundsTyped, NEW g \in GuardState, NEW req \in Request, Allows(g, req)
    PROVE  /\ \A s \in [round : Rounds, what : Digest] :
                 Covered(g, s) => Covered(Record(g, req), s)
           /\ \A s \in [round : Rounds, what : Roots] :
                 CoveredRoot(g, s) => CoveredRoot(Record(g, req), s)
           /\ \/ /\ req.kind = "own"
                 /\ Recorded(Record(g, req), req.round, req.what)
              \/ /\ req.kind = "checkpoint"
                 /\ Record(g, req).cpSeen
                 /\ req.round = Record(g, req).cpRound
                 /\ req.what = Record(g, req).cpRoot
  <1>1. CASE req.kind = "own"
    <2>1. AllowsOwn(g, req.round, req.what) /\ Record(g, req) = RecordOwn(g, req.round, req.what)
      BY <1>1 DEF Allows, Record
    <2> QED
      BY <1>1, <2>1 DEF AllowsOwn, RecordOwn, Recorded, Covered, CoveredRoot, GuardState,
                        Rounds, Request, OwnVote, PeerVote, Checkpoint, BoundsTyped
  <1>2. CASE req.kind = "checkpoint"
    <2>1. /\ AllowsCheckpoint(g, req.round, req.what)
          /\ Record(g, req) = RecordCheckpoint(g, req.round, req.what)
      BY <1>2 DEF Allows, Record
    <2> QED
      BY <1>2, <2>1 DEF AllowsCheckpoint, RecordCheckpoint, Covered, CoveredRoot, GuardState,
                        Rounds, Request, OwnVote, PeerVote, Checkpoint, BoundsTyped
  <1> QED
    BY <1>1, <1>2 DEF Allows

\* Signatures never leave the guard's cover.
LEMMA GuardInvariant == Spec => []GuardInv
  <1>1. Init => GuardInv
    BY DEF Init, GuardInv, GrantRecorded
  <1>2. TypeOK /\ GuardInv /\ [Next]_vars => GuardInv'
    <2> SUFFICES ASSUME TypeOK, GuardInv, [Next]_vars PROVE GuardInv'
      OBVIOUS
    <2> USE BoundsTyped
    <2>a. inbox \in Seq(Frame)
      BY DEF TypeOK
    \* Steps that leave the daemon alone and keep the oldest frame's request.
    <2>b. ASSUME UNCHANGED daemon,
                 inbox # << >> => inbox' # << >> /\ Head(inbox').req = Head(inbox).req
          PROVE  GuardInv'
      BY <2>b DEF GuardInv, GrantRecorded, Covered, CoveredRoot, Recorded, daemon
    <2>c. ASSUME NEW k \in Request, Send(k), UNCHANGED daemon PROVE GuardInv'
      <3>1. [req |-> k, live |-> TRUE] \in Frame
        BY DEF Frame
      <3>2. inbox # << >> => inbox' # << >> /\ Head(inbox').req = Head(inbox).req
        BY <2>a, <2>c, <3>1, AppendFacts DEF Send
      <3> QED
        BY <2>b, <2>c, <3>2
    <2>1. ASSUME NEW t \in Tx, ReceiveTransaction(t) PROVE GuardInv'
      BY <2>1, <2>b DEF ReceiveTransaction
    <2>2. CASE Execute \/ Certified \/ Capture \/ ReceiveReply
      BY <2>2, <2>b DEF Execute, Certified, Capture, ReceiveReply
    <2>3. CASE Propose
      <3>1. [kind |-> "own", round |-> nextRound, what |-> pool] \in Request
        BY DEF TypeOK, Request, OwnVote, Digest
      <3> QED
        BY <2>3, <2>c, <3>1 DEF Propose
    <2>4. ASSUME NEW r \in Rounds, NEW d \in Digest, VoteOnOwn(r, d) PROVE GuardInv'
      <3>1. [kind |-> "peer", round |-> r, what |-> d] \in Request
        BY DEF Request, PeerVote
      <3> QED
        BY <2>4, <2>c, <3>1 DEF VoteOnOwn
    <2>5. CASE AskCheckpoint
      <3>1. snapshot \in Request
        BY <2>5 DEF TypeOK, AskCheckpoint, Request, NoRequest
      <3> QED
        BY <2>5, <2>c, <3>1 DEF AskCheckpoint
    <2>6. CASE Timeout
      <3>1. asking \in Request
        BY <2>6 DEF TypeOK, Timeout, NoRequest
      <3>2. [req |-> asking, live |-> TRUE] \in Frame
        BY <3>1 DEF Frame
      <3>3. inbox # << >> => inbox' # << >> /\ Head(inbox').req = Head(inbox).req
        BY <2>a, <2>6, <3>2, AbandonedFacts, AppendFacts DEF Timeout
      <3> QED
        BY <2>6, <2>b, <3>3 DEF Timeout
    <2>7. CASE NodeRestart
      <3>1. inbox # << >> => inbox' # << >> /\ Head(inbox').req = Head(inbox).req
        BY <2>a, <2>7, AbandonedFacts DEF NodeRestart
      <3> QED
        BY <2>7, <2>b, <3>1 DEF NodeRestart
    <2>8. CASE Grant
      <3>1. guard \in GuardState /\ Head(inbox).req \in Request
        <4>1. Head(inbox) \in Frame
          BY <2>a, <2>8, TailFacts, SMTT(60) DEF Grant
        <4> QED
          BY <4>1 DEF TypeOK, Frame
      <3>2. /\ \A s \in signed : Covered(guard', s)
            /\ \A s \in attested : CoveredRoot(guard', s)
        BY SMTT(60), <2>8, <3>1, RecordCovers DEF Grant, GuardInv, TypeOK
      <3>3. GrantRecorded'
        BY <2>8, <3>1, RecordCovers DEF Grant, GrantRecorded
      <3> QED
        BY <2>8, <3>2, <3>3 DEF Grant, GuardInv
    <2>9. CASE Sign
      <3> DEFINE req == Head(inbox).req
                 s   == [round |-> req.round, what |-> req.what]
      <3>1. guard' = guard /\ disk' = disk /\ granted' = FALSE /\ granted
        BY <2>9 DEF Sign
      <3>2. GrantRecorded /\ GrantRecorded'
        BY <3>1 DEF GuardInv, GrantRecorded
      <3>3. CASE req.kind = "checkpoint"
        <4>1. signed' = signed /\ attested' = attested \cup {s}
          BY <2>9, <3>3 DEF Sign
        <4>2. CoveredRoot(guard, s)
          BY <3>1, <3>2, <3>3 DEF GrantRecorded, CoveredRoot
        <4> QED
          BY <3>1, <3>2, <4>1, <4>2 DEF GuardInv
      <3>4. CASE req.kind # "checkpoint"
        <4>1. signed' = signed \cup {s} /\ attested' = attested
          BY <2>9, <3>4 DEF Sign
        <4>2. Covered(guard, s)
          BY <3>1, <3>2, <3>4 DEF GrantRecorded, Covered, Recorded
        <4> QED
          BY <3>1, <3>2, <4>1, <4>2 DEF GuardInv
      <3> QED
        BY <3>3, <3>4
    <2>10. CASE Refuse \/ PersistFails
      BY <2>10 DEF Refuse, PersistFails, GuardInv, GrantRecorded, daemon, Covered, CoveredRoot
    <2>11. CASE DaemonRestart
      BY <2>11 DEF DaemonRestart, GuardInv, GrantRecorded
    <2>12. CASE UNCHANGED vars
      BY <2>12, <2>b DEF vars
    <2> QED
      BY <2>1, <2>2, <2>3, <2>4, <2>5, <2>6, <2>7, <2>8, <2>9, <2>10, <2>11, <2>12 DEF Next
  <1> QED
    BY <1>1, <1>2, TypeCorrect, PTL DEF Spec

\* Only `Sign` makes signatures, and only the node's reading of an answer
\* broadcasts a proposal.
LEMMA SignaturesAreMadeBySign ==
    ASSUME [Next]_vars, ~Sign
    PROVE  signed' = signed /\ attested' = attested
  <1>1. ASSUME NEW t \in Tx, ReceiveTransaction(t) PROVE UNCHANGED daemon
    BY <1>1 DEF ReceiveTransaction
  <1>2. CASE Execute \/ Certified \/ Propose
    BY <1>2 DEF Execute, Certified, Propose, daemon
  <1>3. ASSUME NEW r \in Rounds, NEW d \in Digest, VoteOnOwn(r, d) PROVE UNCHANGED daemon
    BY <1>3 DEF VoteOnOwn
  <1>4. CASE Capture \/ AskCheckpoint
    BY <1>4 DEF Capture, AskCheckpoint, daemon
  <1>5. CASE ReceiveReply \/ Timeout \/ NodeRestart
    BY <1>5 DEF ReceiveReply, Timeout, NodeRestart, daemon
  <1>6. CASE Grant \/ DaemonRestart
    BY <1>6 DEF Grant, DaemonRestart
  <1>7. CASE Refuse \/ PersistFails
    BY <1>7 DEF Refuse, PersistFails, daemon
  <1>8. CASE UNCHANGED vars
    BY <1>8 DEF vars, daemon
  <1>9. UNCHANGED daemon => signed' = signed /\ attested' = attested
    BY DEF daemon
  <1> QED
    BY <1>1, <1>2, <1>3, <1>4, <1>5, <1>6, <1>7, <1>8, <1>9 DEF Next

LEMMA ProposalsAreMadeByReplies ==
    ASSUME [Next]_vars, ~ReceiveReply
    PROVE  proposed' = proposed
  <1>1. ASSUME NEW t \in Tx, ReceiveTransaction(t) PROVE proposed' = proposed
    BY <1>1 DEF ReceiveTransaction
  <1>2. CASE Execute \/ Certified \/ Propose
    BY <1>2 DEF Execute, Certified, Propose
  <1>3. ASSUME NEW r \in Rounds, NEW d \in Digest, VoteOnOwn(r, d) PROVE proposed' = proposed
    BY <1>3 DEF VoteOnOwn
  <1>4. CASE Capture \/ AskCheckpoint
    BY <1>4 DEF Capture, AskCheckpoint
  <1>5. CASE Timeout \/ NodeRestart
    BY <1>5 DEF Timeout, NodeRestart
  <1>6. CASE Grant \/ Sign \/ DaemonRestart
    BY <1>6 DEF Grant, Sign, DaemonRestart, node
  <1>7. CASE Refuse \/ PersistFails
    BY <1>7 DEF Refuse, PersistFails, node
  <1>8. CASE UNCHANGED vars
    BY <1>8 DEF vars, node
  <1> QED
    BY <1>1, <1>2, <1>3, <1>4, <1>5, <1>6, <1>7, <1>8 DEF Next

\* Whatever is lost, late, repeated or crashes, the signer never signs two
\* vertices of its validator for one round (`check_and_record_own`).
THEOREM OneVertexPerRoundAlways == Spec => []OneVertexPerRound
  <1>1. Init => OneVertexPerRound
    BY DEF Init, OneVertexPerRound
  <1>2. TypeOK /\ GuardInv /\ OneVertexPerRound /\ [Next]_vars => OneVertexPerRound'
    <2> SUFFICES ASSUME TypeOK, GuardInv, OneVertexPerRound, [Next]_vars PROVE OneVertexPerRound'
      OBVIOUS
    <2>1. CASE Sign
      <3> DEFINE new == [round |-> Head(inbox).req.round, what |-> Head(inbox).req.what]
      <3>1. CASE signed' = signed
        BY <3>1 DEF OneVertexPerRound
      <3>2. CASE signed' # signed
        <4>1. signed' = signed \cup {new} /\ new.round = guard.ownRound /\ new.what = guard.ownDigest
          BY <2>1, <3>2 DEF Sign, GuardInv, GrantRecorded, Recorded
        <4>2. \A t \in signed : t.round \in Nat /\ guard.ownRound \in Nat
          BY BoundsTyped DEF TypeOK, Rounds, GuardState, BoundsTyped
        <4>3. \A t \in signed : t.round = new.round => t.what = new.what
          BY <4>1, <4>2 DEF GuardInv, Covered
        <4> HIDE DEF new
        <4> QED
          BY <4>1, <4>3 DEF OneVertexPerRound
      <3> QED
        BY <3>1, <3>2
    <2>2. CASE ~Sign
      <3>1. signed' = signed
        BY <2>2, SignaturesAreMadeBySign
      <3> QED
        BY SMTT(30), <3>1 DEF OneVertexPerRound
    <2> QED
      BY <2>1, <2>2
  <1> QED
    BY <1>1, <1>2, TypeCorrect, GuardInvariant, PTL DEF Spec

\* Nor two state roots (`check_and_record_checkpoint`).
THEOREM OneRootPerRoundAlways == Spec => []OneRootPerRound
  <1>1. Init => OneRootPerRound
    BY DEF Init, OneRootPerRound
  <1>2. TypeOK /\ GuardInv /\ OneRootPerRound /\ [Next]_vars => OneRootPerRound'
    <2> SUFFICES ASSUME TypeOK, GuardInv, OneRootPerRound, [Next]_vars PROVE OneRootPerRound'
      OBVIOUS
    <2>1. CASE Sign
      <3> DEFINE new == [round |-> Head(inbox).req.round, what |-> Head(inbox).req.what]
      <3>1. CASE attested' = attested
        BY <3>1 DEF OneRootPerRound
      <3>2. CASE attested' # attested
        <4>1. attested' = attested \cup {new} /\ new.round = guard.cpRound /\ new.what = guard.cpRoot
          BY <2>1, <3>2 DEF Sign, GuardInv, GrantRecorded, Recorded
        <4>2. \A t \in attested : t.round \in Nat /\ guard.cpRound \in Nat
          BY BoundsTyped DEF TypeOK, Rounds, GuardState, BoundsTyped
        <4>3. \A t \in attested : t.round = new.round => t.what = new.what
          BY <4>1, <4>2 DEF GuardInv, CoveredRoot
        <4> HIDE DEF new
        <4> QED
          BY <4>1, <4>3 DEF OneRootPerRound
      <3> QED
        BY <3>1, <3>2
    <2>2. CASE ~Sign
      <3>1. attested' = attested
        BY <2>2, SignaturesAreMadeBySign
      <3> QED
        BY <3>1 DEF OneRootPerRound
    <2> QED
      BY <2>1, <2>2
  <1> QED
    BY <1>1, <1>2, TypeCorrect, GuardInvariant, PTL DEF Spec

----------------------------------------------------------------------------
\* No answer is ever taken for one to another request.
LEMMA ChannelInvariant == Spec => []ChannelInv
  <1>1. Init => ChannelInv
    BY DEF Init, ChannelInv
  <1>2. TypeOK /\ GuardInv /\ ChannelInv /\ [Next]_vars => ChannelInv'
    <2> SUFFICES ASSUME TypeOK, GuardInv, ChannelInv, [Next]_vars PROVE ChannelInv'
      OBVIOUS
    <2>a. inbox \in Seq(Frame)
      BY DEF TypeOK
    <2>b. ASSUME UNCHANGED <<inbox, reply, asking, signed>> PROVE ChannelInv'
      BY <2>b DEF ChannelInv
    \* While the node waits for nothing, no frame is live.
    <2>c. ASSUME NEW k \in Request, k.kind # "none", Send(k), UNCHANGED <<reply, signed>>
          PROVE  ChannelInv'
      <3>1. [req |-> k, live |-> TRUE] \in Frame
        BY DEF Frame
      <3>2. reply = "none" /\ asking.kind = "none"
        BY <2>c DEF Send, ChannelInv, TypeOK
      <3>3. \A i \in DOMAIN inbox : ~inbox[i].live
        <4>1. \A i \in DOMAIN inbox : inbox[i] \in Frame
          BY <2>a
        <4>2. \A f \in Frame : f.req.kind # "none"
          BY DEF Frame, Request, OwnVote, PeerVote, Checkpoint
        <4> QED
          BY <3>2, <4>1, <4>2 DEF ChannelInv
      <3>4. \A i \in DOMAIN inbox' : inbox'[i].live =>
                i = Len(inbox) + 1 /\ inbox'[i] = [req |-> k, live |-> TRUE]
        BY <2>a, <2>c, <3>1, <3>3, AppendFacts DEF Send
      <3> QED
        BY <2>c, <3>2, <3>4 DEF ChannelInv, Send
    \* Answering the oldest frame; a signature is over what it asked for.
    <2>d. ASSUME NEW a \in {"signature", "refused"}, Answer(a), inbox # << >>,
                 UNCHANGED asking, signed \subseteq signed',
                 a = "signature" /\ Head(inbox).req.kind = "own" =>
                    [round |-> Head(inbox).req.round, what |-> Head(inbox).req.what] \in signed'
          PROVE  ChannelInv'
      <3>1. /\ Head(inbox) = inbox[1] /\ 1 \in DOMAIN inbox /\ Head(inbox) \in Frame
            /\ \A i \in DOMAIN inbox' : i + 1 \in DOMAIN inbox /\ inbox'[i] = inbox[i + 1]
                                         /\ i \in Nat /\ i >= 1
        BY <2>a, <2>d, TailFacts DEF Answer
      <3>2. CASE Head(inbox).live
        <4>1. Head(inbox).req = asking /\ reply' = a
          BY <2>d, <3>1, <3>2 DEF ChannelInv, Answer
        <4>2. \A i \in DOMAIN inbox' : ~inbox'[i].live
          BY <3>1, <3>2 DEF ChannelInv
        <4>3. asking.kind # "none"
          BY <3>1, <4>1 DEF Frame, Request, OwnVote, PeerVote, Checkpoint
        <4> QED
          BY <2>d, <4>1, <4>2, <4>3 DEF ChannelInv
      <3>3. CASE ~Head(inbox).live
        <4>1. reply' = reply
          BY <2>d, <3>3 DEF Answer
        <4>2. \A i \in DOMAIN inbox' : inbox'[i].live => inbox'[i].req = asking /\ reply = "none"
          BY <3>1 DEF ChannelInv
        <4>3. \A i, j \in DOMAIN inbox' : inbox'[i].live /\ inbox'[j].live => i = j
          BY <3>1 DEF ChannelInv
        <4> QED
          BY <2>d, <4>1, <4>2, <4>3 DEF ChannelInv
      <3> QED
        BY <3>2, <3>3
    <2>1. ASSUME NEW t \in Tx, ReceiveTransaction(t) PROVE ChannelInv'
      BY <2>1, <2>b DEF ReceiveTransaction, daemon
    <2>2. CASE Execute \/ Certified \/ Capture
      BY <2>2, <2>b DEF Execute, Certified, Capture, daemon
    <2>3. CASE Propose
      <3>1. [kind |-> "own", round |-> nextRound, what |-> pool] \in Request
        BY DEF TypeOK, Request, OwnVote, Digest
      <3> QED
        BY <2>3, <2>c, <3>1 DEF Propose, daemon
    <2>4. ASSUME NEW r \in Rounds, NEW d \in Digest, VoteOnOwn(r, d) PROVE ChannelInv'
      <3>1. [kind |-> "peer", round |-> r, what |-> d] \in Request
        BY DEF Request, PeerVote
      <3> QED
        BY <2>4, <2>c, <3>1 DEF VoteOnOwn, daemon
    <2>5. CASE AskCheckpoint
      <3>1. snapshot \in Request
        BY <2>5 DEF TypeOK, AskCheckpoint, Request, NoRequest
      <3> QED
        BY <2>5, <2>c, <3>1 DEF AskCheckpoint, daemon
    <2>6. CASE ReceiveReply
      <3>1. \A i \in DOMAIN inbox : ~inbox[i].live
        BY <2>6 DEF ReceiveReply, ChannelInv
      <3> QED
        BY <2>6, <3>1 DEF ReceiveReply, ChannelInv
    <2>7. CASE Timeout
      <3>1. /\ Abandoned \in Seq(Frame) /\ DOMAIN Abandoned = DOMAIN inbox
            /\ \A i \in DOMAIN inbox : Abandoned[i].live = FALSE
        BY <2>a, AbandonedFacts, Zenon
      <3>2. asking \in Request
        BY <2>7 DEF TypeOK, Timeout, NoRequest
      <3>3. [req |-> asking, live |-> TRUE] \in Frame
        BY <3>2 DEF Frame
      <3>4. CASE attempt = 1
        <4>1. inbox' = Append(Abandoned, [req |-> asking, live |-> TRUE]) /\ asking' = asking
          BY <2>7, <3>4 DEF Timeout
        <4>2. \A i \in DOMAIN inbox' : inbox'[i].live =>
                  i = Len(Abandoned) + 1 /\ inbox'[i] = [req |-> asking, live |-> TRUE]
          BY SMTT(30), <3>1, <3>3, <4>1, AppendFacts
        <4> QED
          BY <2>7, <4>1, <4>2 DEF ChannelInv, Timeout
      <3>5. CASE attempt # 1
        BY <2>7, <3>1, <3>5 DEF ChannelInv, Timeout
      <3> QED
        BY <3>4, <3>5
    <2>8. CASE NodeRestart
      <3>1. /\ DOMAIN Abandoned = DOMAIN inbox
            /\ \A i \in DOMAIN inbox : Abandoned[i].live = FALSE
        BY <2>a, AbandonedFacts, Zenon
      <3> QED
        BY <2>8, <3>1 DEF NodeRestart, ChannelInv
    <2>9. CASE Grant
      BY <2>9, <2>b DEF Grant, node
    <2>10. CASE Sign
      BY <2>10, <2>d DEF Sign, node
    <2>11. CASE Refuse \/ PersistFails
      BY <2>11, <2>d DEF Refuse, PersistFails, node, daemon
    <2>12. CASE DaemonRestart
      BY <2>12 DEF DaemonRestart, ChannelInv, node
    <2>13. CASE UNCHANGED vars
      BY <2>13, <2>b DEF vars, node, daemon
    <2> QED
      BY <2>1, <2>2, <2>3, <2>4, <2>5, <2>6, <2>7, <2>8, <2>9, <2>10, <2>11, <2>12, <2>13 DEF Next
  <1> QED
    BY <1>1, <1>2, TypeCorrect, GuardInvariant, PTL DEF Spec

\* Every vertex the node broadcasts as its proposal was signed as such: no late
\* answer to an abandoned request (`RemoteSigner::request`) is taken for it.
THEOREM ProposalsAreSignedAlways == Spec => []ProposalsAreSigned
  <1>1. Init => ProposalsAreSigned
    BY DEF Init, ProposalsAreSigned
  <1>2. ChannelInv /\ ProposalsAreSigned /\ [Next]_vars => ProposalsAreSigned'
    <2> SUFFICES ASSUME ChannelInv, ProposalsAreSigned, [Next]_vars PROVE ProposalsAreSigned'
      BY SMTT(30)
    <2>1. signed \subseteq signed'
      <3>1. CASE Sign
        BY <3>1 DEF Sign
      <3>2. CASE ~Sign
        BY <3>2, SignaturesAreMadeBySign
      <3> QED
        BY <3>1, <3>2
    <2>2. CASE ReceiveReply
      BY <2>1, <2>2 DEF ReceiveReply, ChannelInv, ProposalsAreSigned
    <2>3. CASE ~ReceiveReply
      <3>1. proposed' = proposed
        BY <2>3, ProposalsAreMadeByReplies
      <3> QED
        BY SMTT(30), <2>1, <3>1 DEF ProposalsAreSigned
    <2> QED
      BY <2>2, <2>3
  <1> QED
    BY <1>1, <1>2, ChannelInvariant, PTL DEF Spec

----------------------------------------------------------------------------
\* A granted request is above, or is, everything signed before it: the guard's
\* record covers all signatures, and the request is that record.
LEMMA GrantedIsInOrder ==
    ASSUME TypeOK, GuardInv, Sign,
           NEW s, s = [round |-> Head(inbox).req.round, what |-> Head(inbox).req.what]
    PROVE  \/ /\ Authority!SignVertex(s) /\ s \in [round : Rounds, what : Digest]
           \/ /\ Authority!SignRoot(s) /\ s \in [round : Rounds, what : Roots]
  <1>0. inbox \in Seq(Frame) /\ inbox # << >> /\ granted
    BY DEF TypeOK, Sign
  <1>1. Head(inbox) \in Frame
    BY <1>0, TailFacts
  <1>2. Head(inbox).req \in Request
    BY <1>1 DEF Frame
  <1>3. proposed' = proposed
    BY SMTT(60) DEF Sign, node
  <1>4. CASE Head(inbox).req.kind = "checkpoint"
    <2>1. s.round = guard.cpRound /\ s.what = guard.cpRoot
      BY <1>0, <1>4, SMTT(60) DEF GuardInv, GrantRecorded
    <2>2. s \in [round : Rounds, what : Roots]
      BY <1>2, <1>4 DEF Request, OwnVote, PeerVote, Checkpoint
    <2>3. \A t \in attested : t \in [round : Rounds, what : Roots] /\ CoveredRoot(guard, t)
      BY SMTT(60) DEF TypeOK, GuardInv
    <2>4. ASSUME NEW t \in attested PROVE t = s \/ t.round < s.round
      BY <2>1, <2>2, <2>3, SMTT(60) DEF CoveredRoot
    <2>5. attested' = attested \cup {s} /\ signed' = signed
      BY <1>4, SMTT(60) DEF Sign
    <2> QED
      BY <1>3, <2>2, <2>4, <2>5, SMTT(60) DEF Authority!SignRoot, Authority!InOrder
  <1>5. CASE Head(inbox).req.kind # "checkpoint"
    <2>1. s.round = guard.ownRound /\ s.what = guard.ownDigest
      BY <1>0, <1>5 DEF GuardInv, GrantRecorded, Recorded
    <2>2. s \in [round : Rounds, what : Digest]
      BY <1>2, <1>5 DEF Request, OwnVote, PeerVote, Checkpoint
    <2>3. \A t \in signed : t \in [round : Rounds, what : Digest] /\ Covered(guard, t)
      BY DEF TypeOK, GuardInv
    <2>4. ASSUME NEW t \in signed PROVE t = s \/ t.round < s.round
      BY <2>1, <2>2, <2>3, SMTT(60) DEF Covered
    <2>5. signed' = signed \cup {s} /\ attested' = attested
      BY <1>5 DEF Sign
    <2> QED
      BY <1>3, <2>2, <2>4, <2>5 DEF Authority!SignVertex, Authority!InOrder
  <1> QED
    BY <1>4, <1>5

\* Node, connection and daemon implement the abstract signer: whatever is lost,
\* late, repeated or crashes, what they sign and publish is what the abstract
\* signer may, in its order of rounds (`DoubleSignGuard`, `RemoteSigner`).
THEOREM SignerImplementsAuthority == Spec => ImplementsAuthority
  <1>1. Init => Authority!AuthorityInit
    BY DEF Init, Authority!AuthorityInit
  <1>2. TypeOK /\ GuardInv /\ ChannelInv /\ [Next]_vars
          => [Authority!AuthorityNext]_(Authority!authorityVars)
    <2> SUFFICES ASSUME TypeOK, GuardInv, ChannelInv, [Next]_vars
                 PROVE  Authority!AuthorityNext \/ UNCHANGED Authority!authorityVars
      BY SMTT(60)
    <2>1. CASE Sign
      <3>1. PICK s : s = [round |-> Head(inbox).req.round, what |-> Head(inbox).req.what]
        BY Zenon
      <3> QED
        BY <2>1, <3>1, GrantedIsInOrder DEF Authority!AuthorityNext
    <2>2. CASE ReceiveReply
      <3>0. signed' = signed /\ attested' = attested
        BY <2>2 DEF ReceiveReply, daemon
      <3>1. CASE asking.kind = "own" /\ reply = "signature"
        <4>1. PICK s : s = [round |-> asking.round, what |-> asking.what]
          BY Zenon
        <4>2. s \in signed /\ proposed' = proposed \cup {s}
          BY <2>2, <3>1, <4>1 DEF ReceiveReply, ChannelInv
        <4>3. s \in [round : Rounds, what : Digest]
          BY <4>2 DEF TypeOK
        <4> QED
          BY <3>0, <4>2, <4>3 DEF Authority!AuthorityNext, Authority!Publish
      <3>2. CASE ~(asking.kind = "own" /\ reply = "signature")
        BY <2>2, <3>0, <3>2 DEF ReceiveReply, Authority!authorityVars
      <3> QED
        BY <3>1, <3>2
    <2>3. CASE ~Sign /\ ~ReceiveReply
      <3>1. signed' = signed /\ attested' = attested
        BY <2>3, SignaturesAreMadeBySign
      <3>2. proposed' = proposed
        BY <2>3, ProposalsAreMadeByReplies
      <3> QED
        BY <3>1, <3>2 DEF Authority!authorityVars
    <2> QED
      BY <2>1, <2>2, <2>3
  <1> QED
    BY <1>1, <1>2, TypeCorrect, GuardInvariant, ChannelInvariant, PTL
    DEF Spec, ImplementsAuthority, Authority!AuthoritySpec

=============================================================================
