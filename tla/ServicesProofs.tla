--------------------------- MODULE ServicesProofs ---------------------------
(***************************************************************************)
(* What holds of the services of a node: its sessions hand over every message*)
(* once, to the peer it was meant for, and its faucet pays whom it says it *)
(* paid, for any number of calls, connections, accounts, requests and faults.*)
(***************************************************************************)
EXTENDS Transport, Faucet, FiniteSetTheorems, TLAPS

----------------------------------------------------------------------------
(* The transport.                                                          *)

(* Where a call of send_to is, and what the records of the model hold: a   *)
(* session's key and counter, a frame, a connection, a call, the bindings  *)
(* and the counts of the tracker.                                          *)
Places == {"lookup", "evict", "dial", "handshake", "insert", "write", "failed", "ok", "err"}
Sessions == [key : Seq(Nat), counter : Nat]
Frames == [msg : Tasks, under : [key : Seq(Nat), nonce : Nat], cut : BOOLEAN]
Conns == [server : {"admitted", "shaking", "bound", "closed"}, answer : {"none", "sent"},
          final : BOOLEAN, wire : Seq(Frames), send : Sessions, recv : Sessions,
          close : BOOLEAN, first : BOOLEAN, frames : Nat, strikes : Nat]
TaskStates == [at : Places, conn : Nat \union {NoConn}, retried : BOOLEAN]
Bindings == SUBSET [conn : Nat, seq : Nat]
Trackers == [total : Int, per_ip : Int, per_validator : Bindings,
             next_seq : Nat, banned : BOOLEAN]

(* The types of the transport's variables.                                 *)
TransportTyped ==
    /\ setup \in Setups
    /\ task \in [Tasks -> TaskStates]
    /\ conn \in Seq(Conns)
    /\ tracker \in Trackers
    /\ delivered \in Seq({setup.me} \X Tasks)

(* The peer answers only whom it trusts, and the dialler goes on only with *)
(* the peer it wants.                                                      *)
PeerAccepts ==
    /\ setup.me \in setup.trusted_by_peer
    /\ setup.encrypts.peer => setup.encrypts.me

(* A handshake is answered only to a peer that may be answered.            *)
AnswersInv == \A c \in DOMAIN conn : conn[c].answer = "sent" => PeerAccepts

(* Connection c was made with the peer the dialler wanted, by a dialler it *)
(* trusts.                                                                 *)
Authentic(c) == c \in DOMAIN conn /\ PeerAccepts /\ VerifiedPeer

(* The cached connection and the one about to be cached are authentic.     *)
ClientInv ==
    /\ cached = NoConn \/ Authentic(cached)
    /\ \A t \in Tasks :
          /\ task[t].at \in {"handshake", "write"} => task[t].conn \in DOMAIN conn
          /\ task[t].at = "insert" => Authentic(task[t].conn)

(* The frames still on the wire were sealed under counters below the       *)
(* session's, no two under the same.                                       *)
Sealed(r) ==
    /\ \A i \in DOMAIN r.wire : r.wire[i].under.nonce < r.send.counter
    /\ \A i, j \in DOMAIN r.wire : r.wire[i].under.nonce = r.wire[j].under.nonce => i = j

(* No session seals two frames under one nonce.                            *)
FramesInv == \A c \in DOMAIN conn : Sealed(conn[c])

(* The frames that were written to the end.                                *)
Whole(w) == {i \in DOMAIN w : ~w[i].cut}

(* A message that is written to the end or received belongs to a call that *)
(* has returned, and it is in one place only.                              *)
MessagesInv ==
    /\ \A c \in DOMAIN conn : \A i \in Whole(conn[c].wire) :
          /\ task[conn[c].wire[i].msg].at = "ok"
          /\ \A n \in DOMAIN delivered : delivered[n][2] # conn[c].wire[i].msg
    /\ \A c, d \in DOMAIN conn : \A i \in Whole(conn[c].wire), j \in Whole(conn[d].wire) :
          conn[c].wire[i].msg = conn[d].wire[j].msg => c = d /\ i = j
    /\ \A n \in DOMAIN delivered : task[delivered[n][2]].at = "ok"
    /\ \A m, n \in DOMAIN delivered : delivered[m][2] = delivered[n][2] => m = n

(* The connections that hold a slot, the ones whose identity is bound, and *)
(* the ones the tracker has a binding for.                                 *)
Live == {c \in DOMAIN conn : Slot(c)}
Bound == {c \in DOMAIN conn : conn[c].server = "bound"}
Holder == Superseded(tracker)

(* The tracker's counts are the connections that hold a slot; at most one  *)
(* connection has the binding, and every other bound one was told to       *)
(* close.                                                                  *)
SlotsInv ==
    /\ tracker.total = Cardinality(Live) /\ tracker.per_ip = tracker.total
    /\ Holder \subseteq Bound
    /\ \A c, d \in Holder : c = d
    /\ \A c \in Bound : c \in Holder \/ conn[c].close
    /\ \A c \in Holder : ~conn[c].close
    /\ \A c \in DOMAIN conn : conn[c].server \in {"admitted", "shaking"} => ~conn[c].close

(* The inductive invariant of the transport.                               *)
TransportInv ==
    /\ TransportTyped /\ AnswersInv /\ ClientInv /\ FramesInv /\ MessagesInv /\ SlotsInv

----------------------------------------------------------------------------
(* What steps do to a call and to a connection.                            *)

(* What moving a call does to it and to the other calls.                   *)
LEMMA GotoDoes ==
    ASSUME task \in [Tasks -> TaskStates], NEW t \in Tasks, NEW at \in Places,
           NEW c \in Nat \union {NoConn}, Goto(t, at, c)
    PROVE  /\ task' \in [Tasks -> TaskStates]
           /\ task'[t].at = at /\ task'[t].conn = c
           /\ \A u \in Tasks : u # t => task'[u] = task[u]
<1> DEFINE r == [task[t] EXCEPT !.at = at, !.conn = c]
<1>1. r \in TaskStates /\ r.at = at /\ r.conn = c
  BY Zenon DEF TaskStates
<1>2. task' = [task EXCEPT ![t] = r]
  BY Zenon DEF Goto
<1> HIDE DEF r
<1> QED
  BY <1>1, <1>2, Zenon

(* Connection c becomes r.                                                 *)
Becomes(c, r) ==
    /\ conn' \in Seq(Conns) /\ DOMAIN conn' = DOMAIN conn
    /\ conn'[c] = r /\ \A d \in DOMAIN conn : d # c => conn'[d] = conn[d]

(* Replacing one connection leaves the others as they were.                *)
LEMMA OneBecomes ==
    ASSUME conn \in Seq(Conns), NEW c \in DOMAIN conn, NEW r \in Conns,
           conn' = [conn EXCEPT ![c] = r]
    PROVE  Becomes(c, r)
<1>1. c \in 1 .. Len(conn) /\ DOMAIN conn = 1 .. Len(conn)
  OBVIOUS
<1>2. /\ conn' \in Seq(Conns) /\ Len(conn') = Len(conn)
      /\ \A j \in 1 .. Len(conn) : conn'[j] = IF j = c THEN r ELSE conn[j]
  BY <1>1
<1> QED
  BY <1>1, <1>2, Zenon DEF Becomes

(* The next nonce of a session is that of a session, one higher.           *)
LEMMA NextNonce ==
    ASSUME NEW d \in Sessions
    PROVE  /\ next_nonce(d) \in Sessions /\ next_nonce(d).counter = d.counter + 1
           /\ Seal(d) \in [key : Seq(Nat), nonce : Nat] /\ Seal(d).nonce = d.counter
<1> DEFINE k == IF d.counter # 0 /\ d.counter % REKEY_INTERVAL = 0
                THEN Append(d.key, d.counter) ELSE d.key
<1>1. d.key \in Seq(Nat) /\ d.counter \in Nat
  BY Zenon DEF Sessions
<1>2. Append(d.key, d.counter) \in Seq(Nat)
  BY <1>1
<1>3. k \in Seq(Nat)
  BY <1>1, <1>2, Zenon
<1>4. next_nonce(d) = [key |-> k, counter |-> d.counter + 1]
  BY Zenon DEF next_nonce
<1> HIDE DEF k
<1>5. next_nonce(d) \in Sessions /\ next_nonce(d).counter = d.counter + 1 /\ next_nonce(d).key = k
  BY <1>1, <1>3, <1>4 DEF Sessions
<1>6. Seal(d) = [key |-> k, nonce |-> d.counter]
  BY <1>1, <1>5 DEF Seal
<1> QED
  BY <1>1, <1>3, <1>5, <1>6

(* The frames of a connection.                                             *)
LEMMA FramesTyped ==
    ASSUME NEW r \in Conns
    PROVE  /\ r.wire \in Seq(Frames) /\ r.send \in Sessions /\ r.send.counter \in Nat
           /\ \A i \in DOMAIN r.wire : /\ r.wire[i] \in Frames /\ r.wire[i].msg \in Tasks
                                       /\ r.wire[i].under.nonce \in Nat
<1>1. r.wire \in Seq(Frames) /\ r.send \in Sessions
  BY Zenon DEF Conns
<1>2. r.send.counter \in Nat
  BY <1>1, Zenon DEF Sessions
<1>3. ASSUME NEW i \in DOMAIN r.wire
      PROVE  r.wire[i] \in Frames /\ r.wire[i].msg \in Tasks /\ r.wire[i].under.nonce \in Nat
  <2>1. r.wire[i] \in Frames
    BY <1>1
  <2> QED
    BY <2>1, Zenon DEF Frames
<1> QED
  BY <1>1, <1>2, <1>3, Zenon

(* Every connection has its type.                                          *)
LEMMA ConnTyped ==
    ASSUME TransportTyped, NEW c \in DOMAIN conn PROVE conn[c] \in Conns
<1>1. conn \in Seq(Conns)
  BY Zenon DEF TransportTyped
<1> QED
  BY <1>1

----------------------------------------------------------------------------
(* What a step leaves alone stays as it is.                                *)

(* The messages stay where they are when no wire, no delivery and no       *)
(* finished call changes.                                                  *)
LEMMA MessagesKept ==
    ASSUME MessagesInv, DOMAIN conn' = DOMAIN conn, UNCHANGED delivered,
           \A c \in DOMAIN conn : Whole(conn'[c].wire) = Whole(conn[c].wire)
                /\ \A i \in Whole(conn[c].wire) : conn'[c].wire[i] = conn[c].wire[i],
           TransportTyped, \A t \in Tasks : task[t].at = "ok" => task'[t].at = "ok"
    PROVE  MessagesInv'
<1>1. ASSUME NEW c \in DOMAIN conn, NEW i \in Whole(conn[c].wire)
      PROVE  conn[c].wire[i].msg \in Tasks
  <2>1. i \in DOMAIN conn[c].wire
    BY Zenon DEF Whole
  <2> QED
    BY <2>1, ConnTyped, FramesTyped, Zenon
<1>2. \A n \in DOMAIN delivered : delivered[n][2] \in Tasks
  BY DEF TransportTyped
<1>3. ASSUME NEW c \in DOMAIN conn', NEW i \in Whole(conn'[c].wire)
      PROVE  /\ c \in DOMAIN conn /\ i \in Whole(conn[c].wire)
             /\ conn'[c].wire[i] = conn[c].wire[i] /\ conn[c].wire[i].msg \in Tasks
  BY <1>1, Zenon
<1>4. \A c \in DOMAIN conn' : \A i \in Whole(conn'[c].wire) :
          /\ task'[conn'[c].wire[i].msg].at = "ok"
          /\ \A n \in DOMAIN delivered' : delivered'[n][2] # conn'[c].wire[i].msg
  BY <1>3 DEF MessagesInv
<1>5. \A c, d \in DOMAIN conn' : \A i \in Whole(conn'[c].wire), j \in Whole(conn'[d].wire) :
          conn'[c].wire[i].msg = conn'[d].wire[j].msg => c = d /\ i = j
  BY <1>3 DEF MessagesInv
<1>6. /\ \A n \in DOMAIN delivered' : task'[delivered'[n][2]].at = "ok"
      /\ \A m, n \in DOMAIN delivered' : delivered'[m][2] = delivered'[n][2] => m = n
  BY <1>2, Zenon DEF MessagesInv
<1>7. \A w : Whole(w)' = Whole(w)
  BY Zenon DEF Whole
<1> QED
  BY <1>4, <1>5, <1>6, Zenon DEF MessagesInv, Whole

(* The slots stay exact when no connection changes its standing.           *)
LEMMA SlotsKept ==
    ASSUME SlotsInv, DOMAIN conn' = DOMAIN conn,
           \A c \in DOMAIN conn : /\ conn'[c].close = conn[c].close
                                  /\ Slot(c)' = Slot(c)
                                  /\ (conn'[c].server = "bound") = (conn[c].server = "bound"),
           tracker'.total = tracker.total, tracker'.per_ip = tracker.per_ip,
           tracker'.per_validator = tracker.per_validator
    PROVE  SlotsInv'
<1>1. Live' = Live /\ Bound' = Bound /\ Holder' = Holder
  BY Zenon DEF Live, Bound, Holder, Superseded
<1>2. \A c \in DOMAIN conn : conn'[c].server \in {"admitted", "shaking"}
                              => conn[c].server \in {"admitted", "shaking"}
  BY Zenon DEF Slot
<1>3. Bound \subseteq DOMAIN conn
  BY Zenon DEF Bound
<1> QED
  BY <1>1, <1>2, <1>3, Zenon DEF SlotsInv

(* The client's end moves while the connections stay as they are.          *)
LEMMA ConnectionsAtRest ==
    ASSUME TransportInv, UNCHANGED <<setup, conn, tracker, delivered>>,
           task' \in [Tasks -> TaskStates],
           \A t \in Tasks : task[t].at = "ok" => task'[t].at = "ok"
    PROVE  TransportTyped' /\ AnswersInv' /\ FramesInv' /\ MessagesInv' /\ SlotsInv'
<1>1. TransportTyped'
  BY Zenon DEF TransportInv, TransportTyped
<1>2. AnswersInv'
  BY Zenon DEF TransportInv, AnswersInv, PeerAccepts
<1>3. FramesInv'
  BY Zenon DEF TransportInv, FramesInv, Sealed
<1>4. MessagesInv'
  BY MessagesKept, Zenon DEF TransportInv
<1>5. SlotsInv'
  BY SlotsKept, Zenon DEF TransportInv, Slot
<1> QED
  BY <1>1, <1>2, <1>3, <1>4, <1>5, Zenon

(* What the client's end holds stays authentic as long as the connections  *)
(* are there.                                                              *)
LEMMA ClientKept ==
    ASSUME ClientInv, UNCHANGED <<setup, cached, task>>, DOMAIN conn \subseteq DOMAIN conn'
    PROVE  ClientInv'
  BY Zenon DEF ClientInv, Authentic, PeerAccepts, VerifiedPeer

----------------------------------------------------------------------------
(* The calls.                                                              *)

(* A call moves on and the connections stay as they are.                   *)
LEMMA CallMoves ==
    ASSUME TransportInv, NEW t \in Tasks, NEW at \in Places, NEW c, Goto(t, at, c),
           task[t].at # "ok", UNCHANGED <<setup, conn, tracker, delivered>>,
           cached' = NoConn \/ cached' = cached \/ Authentic(cached'),
           c = NoConn \/ c \in DOMAIN conn,
           at \in {"handshake", "write"} => c \in DOMAIN conn,
           at = "insert" => Authentic(c)
    PROVE  TransportInv'
<1>1. task \in [Tasks -> TaskStates] /\ c \in Nat \union {NoConn}
  BY DEF TransportInv, TransportTyped
<1>2. /\ task' \in [Tasks -> TaskStates]
      /\ task'[t].at = at /\ task'[t].conn = c
      /\ \A u \in Tasks : u # t => task'[u] = task[u]
  BY <1>1, GotoDoes, Zenon
<1>3. TransportTyped' /\ AnswersInv' /\ FramesInv' /\ MessagesInv' /\ SlotsInv'
  BY <1>2, ConnectionsAtRest, Zenon
<1>4. \A d : Authentic(d)' = Authentic(d)
  BY Zenon DEF Authentic, PeerAccepts, VerifiedPeer
<1>5. cached = NoConn \/ Authentic(cached)
  BY Zenon DEF TransportInv, ClientInv
<1>6. ClientInv'
  BY <1>2, <1>4, <1>5, Zenon DEF TransportInv, ClientInv
<1> QED
  BY <1>3, <1>6, Zenon DEF TransportInv

(* A call looks for a cached connection.                                   *)
LEMMA LookupKeeps == ASSUME TransportInv, NEW t \in Tasks, Lookup(t) PROVE TransportInv'
<1>1. task[t].at = "lookup" /\ UNCHANGED <<setup, cached, conn, tracker, delivered>>
  BY Zenon DEF Lookup
<1>2. cached = NoConn \/ cached \in DOMAIN conn
  BY Zenon DEF TransportInv, ClientInv, Authentic
<1>3. \/ Goto(t, "dial", NoConn)
      \/ Goto(t, "evict", NoConn)
      \/ cached # NoConn /\ Goto(t, "write", cached)
  BY Zenon DEF Lookup
<1> QED
  BY <1>1, <1>2, <1>3, CallMoves, Zenon DEF Places

(* A call drops the cached connection it could not write to.               *)
LEMMA RemoveCachedKeeps ==
    ASSUME TransportInv, NEW t \in Tasks, RemoveCached(t) PROVE TransportInv'
<1>1. task[t].at # "ok" /\ cached' = NoConn /\ UNCHANGED <<setup, conn, tracker, delivered>>
  BY Zenon DEF RemoveCached
<1>2. Goto(t, "dial", NoConn) \/ Goto(t, "lookup", NoConn)
  BY Zenon DEF RemoveCached
<1> QED
  BY <1>1, <1>2, CallMoves, Zenon DEF Places

(* A connect or a handshake fails.                                         *)
LEMMA DialFailsKeeps ==
    ASSUME TransportInv, NEW t \in Tasks, DialFails(t) PROVE TransportInv'
<1>1. task[t].at # "ok" /\ Goto(t, "err", NoConn)
      /\ UNCHANGED <<setup, cached, conn, tracker, delivered>>
  BY Zenon DEF DialFails
<1> QED
  BY <1>1, CallMoves, Zenon DEF Places

(* A call caches the connection it has made, or finds another cached       *)
(* first.                                                                  *)
LEMMA InsertKeeps == ASSUME TransportInv, NEW t \in Tasks, Insert(t) PROVE TransportInv'
<1>1. task[t].at = "insert" /\ Goto(t, "write", cached')
      /\ UNCHANGED <<setup, conn, tracker, delivered>>
  BY Zenon DEF Insert
<1>2. Authentic(task[t].conn) /\ (cached = NoConn \/ Authentic(cached))
  BY <1>1, Zenon DEF TransportInv, ClientInv
<1>3. Authentic(cached')
  BY <1>2, Zenon DEF Insert
<1>4. cached' \in DOMAIN conn
  BY <1>3, Zenon DEF Authentic
<1> QED
  BY <1>1, <1>3, <1>4, CallMoves, Zenon DEF Places

(* One connection changes and its frames stay on the wire.                 *)
LEMMA WireStays ==
    ASSUME TransportInv, NEW c \in DOMAIN conn, NEW r \in Conns,
           conn' = [conn EXCEPT ![c] = r],
           UNCHANGED <<setup, delivered>>, tracker' \in Trackers,
           r.wire = conn[c].wire,
           r.send = conn[c].send \/ r.send.counter = conn[c].send.counter + 1,
           r.answer = "sent" => conn[c].answer = "sent" \/ PeerAccepts,
           task' \in [Tasks -> TaskStates],
           \A t \in Tasks : task[t].at = "ok" => task'[t].at = "ok"
    PROVE  Becomes(c, r) /\ TransportTyped' /\ AnswersInv' /\ FramesInv' /\ MessagesInv'
<1>1. conn \in Seq(Conns) /\ conn[c] \in Conns
  BY DEF TransportInv, TransportTyped
<1>2. Becomes(c, r)
  BY <1>1, OneBecomes, Zenon
<1>3. TransportTyped'
  BY <1>2, Zenon DEF TransportInv, TransportTyped, Becomes
<1>4. AnswersInv'
  BY <1>2, Zenon DEF TransportInv, AnswersInv, Becomes, PeerAccepts
<1>5. Sealed(r)
  <2>1. Sealed(conn[c])
    BY Zenon DEF TransportInv, FramesInv
  <2>2. /\ conn[c].send.counter \in Nat
        /\ \A i \in DOMAIN conn[c].wire : conn[c].wire[i].under.nonce \in Nat
    BY <1>1, FramesTyped, Zenon
  <2> QED
    BY <2>1, <2>2 DEF Sealed
<1>6. FramesInv'
  <2> SUFFICES ASSUME NEW d \in DOMAIN conn' PROVE Sealed(conn'[d])
    BY Zenon DEF FramesInv, Sealed
  <2>1. CASE d = c
    BY <1>2, <1>5, <2>1, Zenon DEF Becomes
  <2>2. CASE d # c
    BY <1>2, <2>2, Zenon DEF Becomes, TransportInv, FramesInv
  <2> QED
    BY <2>1, <2>2, Zenon
<1>7. MessagesInv'
  <2>1. \A d \in DOMAIN conn : conn'[d].wire = conn[d].wire
    BY <1>2, Zenon DEF Becomes
  <2> QED
    BY <1>2, <2>1, MessagesKept, Zenon DEF Becomes, TransportInv
<1> QED
  BY <1>2, <1>3, <1>4, <1>6, <1>7, Zenon

(* The dialler verifies the answer of its peer.                            *)
LEMMA ClientHandshakeKeeps ==
    ASSUME TransportInv, NEW t \in Tasks, client_handshake(t) PROVE TransportInv'
<1> DEFINE c == task[t].conn
           r == [conn[c] EXCEPT !.final = TRUE]
<1>1. /\ task[t].at = "handshake" /\ conn[c].answer = "sent"
      /\ UNCHANGED <<setup, cached, tracker, delivered>>
  BY Zenon DEF client_handshake
<1>2. c \in DOMAIN conn /\ PeerAccepts
  BY <1>1, Zenon DEF TransportInv, ClientInv, AnswersInv
<1>3. CASE VerifiedPeer
  <2>1. conn' = [conn EXCEPT ![c] = r] /\ Goto(t, "insert", c)
    BY <1>3, Zenon DEF client_handshake
  <2>2. conn[c] \in Conns /\ c \in Nat /\ task \in [Tasks -> TaskStates]
    BY <1>2 DEF TransportInv, TransportTyped
  <2>3. /\ r \in Conns /\ r.wire = conn[c].wire /\ r.send = conn[c].send
        /\ r.answer = conn[c].answer /\ r.server = conn[c].server /\ r.close = conn[c].close
    BY <2>2, Zenon DEF Conns
  <2>4. /\ task' \in [Tasks -> TaskStates] /\ task'[t].at = "insert" /\ task'[t].conn = c
        /\ \A u \in Tasks : u # t => task'[u] = task[u]
    BY <2>1, <2>2, GotoDoes DEF Places
  <2> HIDE DEF r
  <2>5. Becomes(c, r) /\ TransportTyped' /\ AnswersInv' /\ FramesInv' /\ MessagesInv'
    BY <1>1, <1>2, <2>1, <2>3, <2>4, WireStays, Zenon DEF TransportInv, TransportTyped
  <2>6. SlotsInv'
    BY <1>1, <2>3, <2>5, SlotsKept, Zenon DEF TransportInv, Becomes, Slot
  <2>7. \A d : Authentic(d)' = Authentic(d)
    BY <1>1, <2>5, Zenon DEF Authentic, PeerAccepts, VerifiedPeer, Becomes
  <2>8. ClientInv'
    BY <1>1, <1>2, <1>3, <2>4, <2>5, <2>7, Zenon DEF TransportInv, ClientInv, Becomes, Authentic
  <2> QED
    BY <2>5, <2>6, <2>8, Zenon DEF TransportInv
<1>4. CASE ~VerifiedPeer
  <2>1. Goto(t, "err", NoConn) /\ UNCHANGED conn
    BY <1>4, Zenon DEF client_handshake
  <2> QED
    BY <1>1, <2>1, CallMoves, Zenon DEF Places
<1> QED
  BY <1>3, <1>4, Zenon

(* The frame that a write adds, and the connection with it.                *)
FrameOf(x, t, cut) == [msg |-> t, under |-> Seal(x.send), cut |-> cut]
(* Connection x with the frame of t at the end of its wire.                *)
Longer(x, t, cut) ==
    [x EXCEPT !.send = next_nonce(x.send), !.wire = Append(x.wire, FrameOf(x, t, cut))]

(* One more frame on the wire, under the next counter.                     *)
LEMMA OneMoreFrame ==
    ASSUME NEW x \in Conns, Sealed(x), NEW t \in Tasks, NEW cut \in BOOLEAN
    PROVE  LET f == FrameOf(x, t, cut)
               r == Longer(x, t, cut)
           IN  /\ r \in Conns /\ Sealed(r)
               /\ r.answer = x.answer /\ r.server = x.server /\ r.close = x.close
               /\ r.wire = Append(x.wire, f)
               /\ DOMAIN r.wire = DOMAIN x.wire \union {Len(x.wire) + 1}
               /\ Len(x.wire) + 1 \notin DOMAIN x.wire
               /\ r.wire[Len(x.wire) + 1] = f
               /\ \A i \in DOMAIN x.wire : r.wire[i] = x.wire[i]
<1> DEFINE f == FrameOf(x, t, cut)
           r == Longer(x, t, cut)
<1>1. x.wire \in Seq(Frames) /\ x.send \in Sessions
  BY Zenon DEF Conns
<1>2. /\ next_nonce(x.send) \in Sessions /\ next_nonce(x.send).counter = x.send.counter + 1
      /\ Seal(x.send) \in [key : Seq(Nat), nonce : Nat] /\ Seal(x.send).nonce = x.send.counter
  BY <1>1, NextNonce, Zenon
<1>3. f \in Frames /\ f.under.nonce = x.send.counter
  BY <1>2, Zenon DEF Frames, FrameOf
<1> HIDE DEF f
<1>4. Append(x.wire, f) \in Seq(Frames)
  BY <1>1, <1>3
<1>5. /\ r \in Conns /\ r.answer = x.answer /\ r.server = x.server /\ r.close = x.close
      /\ r.wire = Append(x.wire, f) /\ r.send.counter = x.send.counter + 1
  BY <1>2, <1>4, Zenon DEF Conns, Longer, f
<1> HIDE DEF r
<1>6. /\ DOMAIN r.wire = DOMAIN x.wire \union {Len(x.wire) + 1}
      /\ Len(x.wire) + 1 \notin DOMAIN x.wire
      /\ r.wire[Len(x.wire) + 1] = f
      /\ \A i \in DOMAIN x.wire : r.wire[i] = x.wire[i]
  <2> DEFINE w == x.wire
  <2>1. w \in Seq(Frames) /\ r.wire = Append(w, f)
    BY <1>1, <1>5, Zenon
  <2> HIDE DEF w
  <2>2. DOMAIN w = 1 .. Len(w) /\ Len(w) \in Nat
    BY <2>1
  <2>3. /\ DOMAIN Append(w, f) = DOMAIN w \union {Len(w) + 1}
        /\ Len(w) + 1 \notin DOMAIN w
    BY <2>1, <2>2
  <2>4. /\ Append(w, f)[Len(w) + 1] = f
        /\ \A i \in DOMAIN w : Append(w, f)[i] = w[i]
    BY <2>1, <2>2
  <2> QED
    BY <2>1, <2>3, <2>4, Zenon DEF w
<1>7. x.send.counter \in Nat /\ \A i \in DOMAIN x.wire : x.wire[i].under.nonce \in Nat
  BY FramesTyped, Zenon
<1>8. Sealed(r)
  BY <1>3, <1>5, <1>6, <1>7, SMTT(60) DEF Sealed
<1> QED
  BY <1>5, <1>6, <1>8, Zenon DEF f, r

(* A call writes its message and is done, or is abandoned half way.        *)
LEMMA WrittenKeeps ==
    ASSUME TransportInv, NEW t \in Tasks, task[t].at = "write", NEW cut \in BOOLEAN,
           Written(task[t].conn, t, cut),
           task' \in [Tasks -> TaskStates], task'[t].conn = NoConn,
           task'[t].at \in (IF cut THEN {"err", "failed"} ELSE {"ok"}),
           \A u \in Tasks : u # t => task'[u] = task[u],
           UNCHANGED <<setup, cached, tracker, delivered>>
    PROVE  TransportInv'
<1> DEFINE c == task[t].conn
           x == conn[c]
           f == FrameOf(x, t, cut)
           r == Longer(x, t, cut)
           n == Len(x.wire) + 1
<1>1. c \in DOMAIN conn /\ conn \in Seq(Conns) /\ x \in Conns /\ Sealed(x)
  BY DEF TransportInv, TransportTyped, ClientInv, FramesInv
<1>2. conn' = [conn EXCEPT ![c] = r]
  BY <1>1, Zenon DEF Written, Longer, FrameOf
<1>3. /\ r \in Conns /\ Sealed(r)
      /\ r.answer = x.answer /\ r.server = x.server /\ r.close = x.close
      /\ r.wire = Append(x.wire, f)
      /\ DOMAIN r.wire = DOMAIN x.wire \union {n}
      /\ n \notin DOMAIN x.wire
      /\ r.wire[n] = f
      /\ \A i \in DOMAIN x.wire : r.wire[i] = x.wire[i]
  <2>1. x \in Conns /\ Sealed(x)
    BY <1>1, Zenon
  <2> HIDE DEF x
  <2> QED BY <2>1, OneMoreFrame, Zenon
<1>4. f.msg = t /\ f.cut = cut
  BY Zenon DEF FrameOf
<1>w. Whole(r.wire) = IF r.wire[n].cut THEN Whole(x.wire) ELSE Whole(x.wire) \union {n}
  <2> HIDE DEF r, f, n
  <2>1. /\ n \notin DOMAIN x.wire /\ DOMAIN r.wire = DOMAIN x.wire \union {n}
        /\ \A i \in DOMAIN x.wire : r.wire[i] = x.wire[i]
    BY <1>3, Zenon
  <2>2. CASE r.wire[n].cut
    BY <2>1, <2>2, Zenon DEF Whole
  <2>3. CASE ~r.wire[n].cut
    BY <2>1, <2>3, Zenon DEF Whole
  <2> QED BY <2>2, <2>3, Zenon
<1> HIDE DEF r, f, n
<1>5. Becomes(c, r)
  BY <1>1, <1>2, <1>3, OneBecomes, Zenon
<1>6. TransportTyped'
  BY <1>5, ZenonT(60) DEF TransportInv, TransportTyped, Becomes
<1>7. AnswersInv'
  BY <1>3, <1>5 DEF TransportInv, AnswersInv, Becomes, PeerAccepts
<1>8. FramesInv'
  <2> SUFFICES ASSUME NEW d \in DOMAIN conn' PROVE Sealed(conn'[d])
    BY Zenon DEF FramesInv, Sealed
  <2>1. CASE d = c
    BY <1>3, <1>5, <2>1, Zenon DEF Becomes
  <2>2. CASE d # c
    BY <1>5, <2>2, Zenon DEF Becomes, TransportInv, FramesInv
  <2> QED
    BY <2>1, <2>2, Zenon
<1>9. SlotsInv'
  BY <1>3, <1>5, SlotsKept, Zenon DEF TransportInv, Becomes, Slot
<1>10. ClientInv'
  <2>1. \A d : Authentic(d)' = Authentic(d)
    BY <1>5, Zenon DEF Authentic, PeerAccepts, VerifiedPeer, Becomes
  <2>2. task'[t].at \notin {"handshake", "write", "insert"}
    OBVIOUS
  <2> QED
    BY <1>5, <2>1, <2>2, Zenon DEF TransportInv, ClientInv, Becomes
<1>11. \A u \in Tasks : task[u].at = "ok" => task'[u].at = "ok"
  OBVIOUS
<1>12. CASE cut
  <2>1. Whole(r.wire) = Whole(x.wire)
    BY <1>w, <1>3, <1>4, <1>12, Zenon
  <2>2. \A d \in DOMAIN conn : Whole(conn'[d].wire) = Whole(conn[d].wire)
                /\ \A i \in Whole(conn[d].wire) : conn'[d].wire[i] = conn[d].wire[i]
    BY <1>3, <1>5, <2>1, Zenon DEF Becomes, Whole
  <2>3. MessagesInv'
    BY <1>5, <1>11, <2>2, MessagesKept, Zenon DEF Becomes, TransportInv
  <2> QED
    BY <1>6, <1>7, <1>8, <1>9, <1>10, <2>3, Zenon DEF TransportInv
<1>13. CASE ~cut
  <2>1. Whole(r.wire) = Whole(x.wire) \union {n}
    BY <1>w, <1>3, <1>4, <1>13, Zenon
  <2>2. \A d \in DOMAIN conn : \A i \in Whole(conn[d].wire) :
           conn[d].wire[i].msg \in Tasks \ {t}
    <3> SUFFICES ASSUME NEW d \in DOMAIN conn, NEW i \in Whole(conn[d].wire)
                 PROVE  conn[d].wire[i].msg \in Tasks \ {t}
      BY Zenon
    <3>1. i \in DOMAIN conn[d].wire
      BY Zenon DEF Whole
    <3>2. conn[d].wire[i].msg \in Tasks
      BY <3>1, ConnTyped, FramesTyped, Zenon DEF TransportInv
    <3>3. task[conn[d].wire[i].msg].at = "ok"
      BY Zenon DEF TransportInv, MessagesInv
    <3>4. conn[d].wire[i].msg # t
      BY <3>3, Zenon
    <3> QED
      BY <3>2, <3>4, Zenon
  <2>3. \A m \in DOMAIN delivered : delivered[m][2] \in Tasks \ {t}
    BY DEF TransportInv, TransportTyped, MessagesInv
  <2>4. ASSUME NEW d \in DOMAIN conn', NEW i \in Whole(conn'[d].wire)
        PROVE  \/ i \in Whole(conn[d].wire) /\ conn'[d].wire[i] = conn[d].wire[i]
               \/ d = c /\ i = n /\ conn'[d].wire[i].msg = t
    <3>1. CASE d = c
      <4>1. conn'[d] = r /\ (i \in Whole(x.wire) \/ i = n)
        BY <1>5, <2>1, <2>4, <3>1, Zenon DEF Becomes
      <4>2. i \in Whole(x.wire) => i \in DOMAIN x.wire
        BY Zenon DEF Whole
      <4> QED
        BY <1>3, <1>4, <3>1, <4>1, <4>2, ZenonT(60)
    <3>2. CASE d # c
      <4>1. conn'[d] = conn[d]
        BY <1>5, <2>4, <3>2, Zenon DEF Becomes
      <4> QED
        BY <2>4, <4>1, Zenon
    <3> QED
      BY <3>1, <3>2, Zenon
  <2>5. task'[t].at = "ok" /\ DOMAIN conn' = DOMAIN conn
    BY <1>5, <1>13, Zenon DEF Becomes
  <2>6. MessagesInv'
    <3>1. ASSUME NEW d \in DOMAIN conn', NEW i \in Whole(conn'[d].wire)
          PROVE  /\ task'[conn'[d].wire[i].msg].at = "ok"
                 /\ \A m \in DOMAIN delivered : delivered[m][2] # conn'[d].wire[i].msg
      BY <1>11, <2>2, <2>3, <2>4, <2>5, SMTT(60) DEF TransportInv, MessagesInv
    <3>2. ASSUME NEW d \in DOMAIN conn', NEW e \in DOMAIN conn',
                 NEW i \in Whole(conn'[d].wire), NEW j \in Whole(conn'[e].wire),
                 conn'[d].wire[i].msg = conn'[e].wire[j].msg
          PROVE  d = e /\ i = j
      BY <2>2, <2>4, <2>5, <3>2, SMTT(60) DEF TransportInv, MessagesInv
    <3>3. \A m \in DOMAIN delivered : task'[delivered[m][2]].at = "ok"
      BY <1>11, <2>3, Zenon DEF TransportInv, MessagesInv
    <3> QED
      BY <3>1, <3>2, <3>3, SMTT(60) DEF TransportInv, MessagesInv, Whole
  <2> QED
    BY <1>6, <1>7, <1>8, <1>9, <1>10, <2>6, Zenon DEF TransportInv
<1> QED
  BY <1>12, <1>13, Zenon

(* A call writes its frame.                                                *)
LEMMA WriteKeeps == ASSUME TransportInv, NEW t \in Tasks, Write(t) PROVE TransportInv'
<1>1. /\ task[t].at = "write" /\ Written(task[t].conn, t, FALSE) /\ Goto(t, "ok", NoConn)
      /\ UNCHANGED <<setup, cached, tracker, delivered>>
  BY Zenon DEF Write
<1>2. task \in [Tasks -> TaskStates]
  BY Zenon DEF TransportInv, TransportTyped
<1>3. /\ task' \in [Tasks -> TaskStates] /\ task'[t].at = "ok" /\ task'[t].conn = NoConn
      /\ \A u \in Tasks : u # t => task'[u] = task[u]
  BY <1>1, <1>2, GotoDoes, Zenon DEF Places
<1> QED
  BY <1>1, <1>3, WrittenKeeps, Zenon

(* A write fails, and may leave part of a frame on the wire.               *)
LEMMA WriteFailsKeeps ==
    ASSUME TransportInv, NEW t \in Tasks, WriteFails(t) PROVE TransportInv'
<1> DEFINE c == task[t].conn
           r == [conn[c] EXCEPT !.send = next_nonce(conn[c].send)]
           s == [at |-> IF task[t].retried THEN "err" ELSE "failed",
                 conn |-> NoConn, retried |-> TRUE]
<1>1. /\ task[t].at = "write" /\ task' = [task EXCEPT ![t] = s]
      /\ UNCHANGED <<setup, cached, tracker, delivered>>
  BY Zenon DEF WriteFails
<1>2. task \in [Tasks -> TaskStates] /\ c \in DOMAIN conn
  BY <1>1, Zenon DEF TransportInv, TransportTyped, ClientInv
<1>3. s \in TaskStates /\ s.at \in {"err", "failed"} /\ s.conn = NoConn
  BY Zenon DEF TaskStates, Places
<1> HIDE DEF s
<1>4. /\ task' \in [Tasks -> TaskStates] /\ task'[t] = s
      /\ \A u \in Tasks : u # t => task'[u] = task[u]
  BY <1>1, <1>2, <1>3, Zenon
<1>5. CASE Written(c, t, TRUE)
  BY <1>1, <1>3, <1>4, <1>5, WrittenKeeps, Zenon
<1>6. CASE conn' = [conn EXCEPT ![c] = r]
  <2>1. conn[c] \in Conns /\ conn[c].send \in Sessions
    BY <1>2, ConnTyped, FramesTyped, Zenon DEF TransportInv
  <2>2. next_nonce(conn[c].send) \in Sessions
        /\ next_nonce(conn[c].send).counter = conn[c].send.counter + 1
    BY <2>1, NextNonce, Zenon
  <2>3. /\ r \in Conns /\ r.wire = conn[c].wire /\ r.send.counter = conn[c].send.counter + 1
        /\ r.answer = conn[c].answer /\ r.server = conn[c].server /\ r.close = conn[c].close
    BY <2>1, <2>2, Zenon DEF Conns
  <2> HIDE DEF r
  <2>4. \A u \in Tasks : task[u].at = "ok" => task'[u].at = "ok"
    BY <1>1, <1>4, Zenon
  <2>5. Becomes(c, r) /\ TransportTyped' /\ AnswersInv' /\ FramesInv' /\ MessagesInv'
    BY <1>1, <1>2, <1>4, <1>6, <2>3, <2>4, WireStays, Zenon DEF TransportInv, TransportTyped
  <2>6. SlotsInv'
    BY <1>1, <2>3, <2>5, SlotsKept, Zenon DEF TransportInv, Becomes, Slot
  <2>7. \A d : Authentic(d)' = Authentic(d)
    BY <1>1, <2>5, Zenon DEF Authentic, PeerAccepts, VerifiedPeer, Becomes
  <2>8. ClientInv'
    BY <1>1, <1>3, <1>4, <2>5, <2>7, Zenon DEF TransportInv, ClientInv, Becomes
  <2> QED
    BY <2>5, <2>6, <2>8, Zenon DEF TransportInv
<1>7. Written(c, t, TRUE) \/ conn' = [conn EXCEPT ![c] = r]
  BY Zenon DEF WriteFails
<1> QED
  BY <1>5, <1>6, <1>7, Zenon

----------------------------------------------------------------------------
(* The slots of the acceptor.                                              *)

(* The connections that hold a slot can be counted.                        *)
LEMMA LiveIsFinite ==
    ASSUME TransportTyped
    PROVE  IsFiniteSet(Live) /\ Cardinality(Live) \in Nat
<1>1. IsFiniteSet(1 .. Len(conn)) /\ Live \subseteq 1 .. Len(conn)
  BY FS_Interval DEF TransportTyped, Live
<1> QED
  BY <1>1, FS_Subset, FS_CardinalityType, Zenon

(* What admitting a connection does to the counts.                         *)
LEMMA AdmittedCounts ==
    ASSUME NEW t \in Trackers
    PROVE  /\ Admitted(t) \in Trackers /\ Admitted(t).total = t.total + 1
           /\ Admitted(t).per_ip = t.per_ip + 1 /\ Admitted(t).per_validator = t.per_validator
<1>1. t.total \in Int /\ t.per_ip \in Int
  BY Zenon DEF Trackers
<1>2. t.total + 1 \in Int /\ t.per_ip + 1 \in Int
  BY <1>1
<1> QED
  BY <1>2, Zenon DEF Admitted, Trackers

(* What releasing a slot does to the counts and to the bindings.           *)
LEMMA DroppedCounts ==
    ASSUME NEW t \in Trackers, NEW c
    PROVE  /\ Dropped(t, c) \in Trackers /\ Dropped(t, c).total = t.total - 1
           /\ Dropped(t, c).per_ip = t.per_ip - 1
           /\ Dropped(t, c).per_validator = {h \in t.per_validator : h.conn # c}
<1>1. t.total \in Int /\ t.per_ip \in Int /\ t.per_validator \in Bindings
  BY Zenon DEF Trackers
<1>2. t.total - 1 \in Int /\ t.per_ip - 1 \in Int
  BY <1>1
<1>3. {h \in t.per_validator : h.conn # c} \in Bindings
  BY <1>1, Zenon DEF Bindings
<1> QED
  BY <1>2, <1>3, Zenon DEF Dropped, Trackers

(* What a strike or the end of a ban does to the tracker.                  *)
LEMMA BannedCounts ==
    ASSUME NEW t \in Trackers, NEW b \in BOOLEAN
    PROVE  /\ [t EXCEPT !.banned = b] \in Trackers /\ [t EXCEPT !.banned = b].total = t.total
           /\ [t EXCEPT !.banned = b].per_ip = t.per_ip
           /\ [t EXCEPT !.banned = b].per_validator = t.per_validator
  BY Zenon DEF Trackers

(* What binding the identity to a connection does.                         *)
LEMMA BoundCounts ==
    ASSUME NEW t \in Trackers, NEW c \in Nat
    PROVE  /\ bind_validator(t, c) \in Trackers /\ bind_validator(t, c).total = t.total
           /\ bind_validator(t, c).per_ip = t.per_ip
           /\ bind_validator(t, c).per_validator = {[conn |-> c, seq |-> t.next_seq]}
<1>1. t.next_seq \in Nat
  BY Zenon DEF Trackers
<1>2. t.next_seq + 1 \in Nat /\ {[conn |-> c, seq |-> t.next_seq]} \in Bindings
  BY <1>1 DEF Bindings
<1> QED
  BY <1>2, Zenon DEF bind_validator, Trackers

(* A new connection, which starts with nothing on it.                      *)
LEMMA DialKeeps == ASSUME TransportInv, NEW t \in Tasks, Dial(t) PROVE TransportInv'
<1> DEFINE new == Len(conn) + 1
           r == [server |-> IF admit_ip(tracker) THEN "admitted" ELSE "closed",
                 answer |-> "none", final |-> FALSE, wire |-> <<>>,
                 send |-> DirCipher, recv |-> DirCipher,
                 close |-> FALSE, first |-> TRUE, frames |-> 0, strikes |-> 0]
<1>1. /\ task[t].at = "dial" /\ conn' = Append(conn, r)
      /\ tracker' = (IF admit_ip(tracker) THEN Admitted(tracker) ELSE tracker)
      /\ Goto(t, "handshake", new)
      /\ UNCHANGED <<setup, cached, delivered>>
  BY Zenon DEF Dial
<1>2. conn \in Seq(Conns) /\ Len(conn) \in Nat /\ task \in [Tasks -> TaskStates] /\ tracker \in Trackers
  BY SMTT(60) DEF TransportInv, TransportTyped
<1>3. r \in Conns /\ r.wire = <<>> /\ r.answer = "none" /\ ~r.close
      /\ r.server = IF admit_ip(tracker) THEN "admitted" ELSE "closed"
  BY DEF Conns, DirCipher, Sessions
<1> HIDE DEF r
<1>4. /\ conn' \in Seq(Conns) /\ DOMAIN conn' = DOMAIN conn \union {new}
      /\ new \notin DOMAIN conn /\ new \in Nat
      /\ conn'[new] = r /\ \A c \in DOMAIN conn : conn'[c] = conn[c]
  <2>1. DOMAIN conn = 1 .. Len(conn)
    BY <1>2
  <2>2. Append(conn, r) \in Seq(Conns) /\ new \in Nat
    BY <1>2, <1>3
  <2>3. /\ DOMAIN Append(conn, r) = DOMAIN conn \union {new} /\ new \notin DOMAIN conn
    BY <1>2, <2>1
  <2>4. /\ Append(conn, r)[new] = r /\ \A c \in DOMAIN conn : Append(conn, r)[c] = conn[c]
    BY <1>2, <2>1
  <2> QED
    BY <1>1, <2>2, <2>3, <2>4, Zenon
<1> HIDE DEF new
<1>5. /\ task' \in [Tasks -> TaskStates] /\ task'[t].at = "handshake" /\ task'[t].conn = new
      /\ \A u \in Tasks : u # t => task'[u] = task[u]
  BY <1>1, <1>2, <1>4, GotoDoes, Zenon DEF Places
<1>6. tracker' \in Trackers /\ tracker'.per_validator = tracker.per_validator
  <2>1. Admitted(tracker) \in Trackers /\ Admitted(tracker).per_validator = tracker.per_validator
    BY <1>2, AdmittedCounts, Zenon
  <2> QED
    BY <1>1, <1>2, <2>1, Zenon
<1>7. TransportTyped'
  BY <1>1, <1>4, <1>5, <1>6, Zenon DEF TransportInv, TransportTyped
<1>8. AnswersInv'
  BY <1>1, <1>3, <1>4, Zenon DEF TransportInv, AnswersInv, PeerAccepts
<1>9. FramesInv'
  <2>1. Sealed(r)
    BY <1>3 DEF Sealed
  <2> SUFFICES ASSUME NEW d \in DOMAIN conn' PROVE Sealed(conn'[d])
    BY Zenon DEF FramesInv, Sealed
  <2> QED
    BY <1>4, <2>1, Zenon DEF TransportInv, FramesInv
<1>10. ClientInv'
  <2>1. \A d : Authentic(d) => Authentic(d)'
    BY <1>1, <1>4, Zenon DEF Authentic, PeerAccepts, VerifiedPeer
  <2> QED
    BY <1>1, <1>4, <1>5, <2>1, Zenon DEF TransportInv, ClientInv
<1>11. MessagesInv'
  <2>1. \A c \in DOMAIN conn : \A i \in Whole(conn[c].wire) : conn[c].wire[i].msg \in Tasks
    BY ConnTyped, FramesTyped, Zenon DEF TransportInv, Whole
  <2>2. \A n \in DOMAIN delivered : delivered[n][2] \in Tasks
    BY SMTT(60) DEF TransportInv, TransportTyped
  <2>3. Whole(r.wire) = {}
    BY <1>3 DEF Whole
  <2>4. \A u \in Tasks : task[u].at = "ok" => task'[u].at = "ok"
    BY <1>1, <1>5, Zenon
  <2>5. \A c \in DOMAIN conn' : \A i \in Whole(conn'[c].wire) :
           c \in DOMAIN conn /\ conn'[c] = conn[c]
    BY <1>4, <2>3, Zenon
  <2> QED
    <3>1. \A c \in DOMAIN conn' : \A i \in Whole(conn'[c].wire) :
             /\ task'[conn'[c].wire[i].msg].at = "ok"
             /\ \A n \in DOMAIN delivered' : delivered'[n][2] # conn'[c].wire[i].msg
      <4> SUFFICES ASSUME NEW c \in DOMAIN conn', NEW i \in Whole(conn'[c].wire)
                   PROVE  /\ task'[conn'[c].wire[i].msg].at = "ok"
                          /\ \A n \in DOMAIN delivered' : delivered'[n][2] # conn'[c].wire[i].msg
        BY Zenon
      <4>1. c \in DOMAIN conn /\ conn'[c] = conn[c] /\ i \in Whole(conn[c].wire)
        BY <2>5, Zenon
      <4> DEFINE u == conn[c].wire[i].msg
      <4>2. u \in Tasks /\ task[u].at = "ok" /\ \A n \in DOMAIN delivered : delivered[n][2] # u
        BY <2>1, <4>1, Zenon DEF TransportInv, MessagesInv
      <4>3. conn'[c].wire[i].msg = u
        BY <4>1, Zenon
      <4> HIDE DEF u
      <4> QED
        BY <1>1, <2>4, <4>2, <4>3, Zenon
    <3>2. \A c, d \in DOMAIN conn' : \A i \in Whole(conn'[c].wire), j \in Whole(conn'[d].wire) :
             conn'[c].wire[i].msg = conn'[d].wire[j].msg => c = d /\ i = j
      BY <2>5 DEF TransportInv, MessagesInv
    <3>3. /\ \A n \in DOMAIN delivered' : task'[delivered'[n][2]].at = "ok"
          /\ \A m, n \in DOMAIN delivered' : delivered'[m][2] = delivered'[n][2] => m = n
      BY <1>1, <2>2, <2>4, Zenon DEF TransportInv, MessagesInv
    <3> QED
      BY <3>1, <3>2, <3>3, ZenonT(60) DEF MessagesInv, Whole
<1>12. SlotsInv'
  <2>1. Holder' = Holder /\ Bound' = Bound
    BY <1>3, <1>4, <1>6, Zenon DEF Holder, Superseded, Bound
  <2>2. tracker'.total = Cardinality(Live') /\ tracker'.per_ip = tracker'.total
    <3>1. tracker.total \in Int /\ tracker.total = Cardinality(Live) /\ tracker.per_ip = tracker.total
      BY <1>2, Zenon DEF TransportInv, SlotsInv, Trackers
    <3>2. CASE admit_ip(tracker)
      <4>1. Live' = Live \union {new} /\ new \notin Live
        BY <1>3, <1>4, <3>2, Zenon DEF Live, Slot
      <4>2. Cardinality(Live') = Cardinality(Live) + 1
        BY <4>1, LiveIsFinite, FS_AddElement, Zenon DEF TransportInv
      <4>3. tracker'.total = tracker.total + 1 /\ tracker'.per_ip = tracker.per_ip + 1
        BY <1>1, <1>2, <3>2, AdmittedCounts, Zenon
      <4> QED
        BY <3>1, <4>2, <4>3, Zenon
    <3>3. CASE ~admit_ip(tracker)
      <4>1. Live' = Live /\ tracker' = tracker
        BY <1>1, <1>3, <1>4, <3>3, Zenon DEF Live, Slot
      <4> QED
        BY <3>1, <4>1, Zenon
    <3> QED
      BY <3>2, <3>3, Zenon
  <2>3. \A c \in Bound : conn'[c] = conn[c]
    BY <1>4, Zenon DEF Bound
  <2> QED
    BY <1>3, <1>4, <2>1, <2>2, <2>3, Zenon DEF TransportInv, SlotsInv
<1> QED
  BY <1>7, <1>8, <1>9, <1>10, <1>11, <1>12, Zenon DEF TransportInv

(* A connection ends, on whatever way out: its slot is free again, and what *)
(* the identity is bound to afterwards is another connection or none.      *)
LEMMA ClosedKeeps ==
    ASSUME TransportInv, NEW c \in DOMAIN conn, Slot(c), NEW b \in BOOLEAN,
           Closed(c, [tracker EXCEPT !.banned = b]),
           UNCHANGED <<setup, task, cached, delivered>>
    PROVE  TransportInv'
<1> DEFINE r == [conn[c] EXCEPT !.server = "closed"]
           left == {h \in tracker.per_validator : h.conn # c}
<1>1. conn \in Seq(Conns) /\ conn[c] \in Conns /\ tracker \in Trackers
  BY DEF TransportInv, TransportTyped
<1>2. conn' = [conn EXCEPT ![c] = r]
  BY Zenon DEF Closed
<1>3. /\ r \in Conns /\ r.wire = conn[c].wire /\ r.send = conn[c].send
      /\ r.answer = conn[c].answer /\ r.server = "closed" /\ r.close = conn[c].close
  BY <1>1, Zenon DEF Conns
<1>4. /\ tracker' \in Trackers /\ tracker'.total = tracker.total - 1
      /\ tracker'.per_ip = tracker.per_ip - 1 /\ tracker'.per_validator = left
  <2>1. c \in Nat
    BY <1>1
  <2>2. tracker' = Dropped([tracker EXCEPT !.banned = b], c)
    BY Zenon DEF Closed
  <2> QED
    <3> DEFINE u == [tracker EXCEPT !.banned = b]
    <3>1. /\ u \in Trackers /\ u.total = tracker.total /\ u.per_ip = tracker.per_ip
          /\ u.per_validator = tracker.per_validator
      BY <1>1, BannedCounts, Zenon
    <3> HIDE DEF u
    <3>2. /\ tracker' \in Trackers /\ tracker'.total = u.total - 1
          /\ tracker'.per_ip = u.per_ip - 1
          /\ tracker'.per_validator = {h \in u.per_validator : h.conn # c}
      BY <2>2, <3>1, DroppedCounts, Zenon DEF u
    <3> QED
      BY <3>1, <3>2, Zenon DEF left
<1> HIDE DEF r
<1>5. Becomes(c, r) /\ TransportTyped' /\ AnswersInv' /\ FramesInv' /\ MessagesInv'
  BY <1>2, <1>3, <1>4, WireStays, Zenon DEF TransportInv, TransportTyped
<1>6. ClientInv'
  BY <1>5, ClientKept, Zenon DEF TransportInv, Becomes
<1>7. SlotsInv'
  <2>1. Live' = Live \ {c} /\ c \in Live
    BY <1>3, <1>5, Zenon DEF Live, Slot, Becomes
  <2>2. Bound' = Bound \ {c}
    BY <1>3, <1>5, Zenon DEF Bound, Becomes
  <2>3. Holder' = Holder \ {c}
    BY <1>4, Zenon DEF Holder, Superseded
  <2>4. Cardinality(Live') = Cardinality(Live) - 1
    BY <2>1, LiveIsFinite, FS_RemoveElement, Zenon DEF TransportInv
  <2>5. tracker.total = Cardinality(Live) /\ tracker.per_ip = tracker.total
    BY Zenon DEF TransportInv, SlotsInv
  <2>6. \A d \in DOMAIN conn : d # c => conn'[d] = conn[d]
    BY <1>5, Zenon DEF Becomes
  <2>7. Holder \subseteq Bound /\ Bound \subseteq DOMAIN conn /\ DOMAIN conn' = DOMAIN conn
    BY <1>5, Zenon DEF TransportInv, SlotsInv, Bound, Becomes
  <2>8. conn'[c].server = "closed"
    BY <1>3, <1>5, Zenon DEF Becomes
  <2> QED
    BY <1>4, <2>2, <2>3, <2>4, <2>5, <2>6, <2>7, <2>8, Zenon DEF TransportInv, SlotsInv
<1> QED
  BY <1>5, <1>6, <1>7, Zenon DEF TransportInv

(* Writing back the ban that is in force changes nothing.                  *)
LEMMA SameBan == ASSUME tracker \in Trackers PROVE tracker = [tracker EXCEPT !.banned = tracker.banned]
  BY Zenon DEF Trackers

(* The acceptor answers a handshake or closes.                             *)
LEMMA ServerRespondsKeeps ==
    ASSUME TransportInv, NEW c \in DOMAIN conn, ServerResponds(c) PROVE TransportInv'
<1> DEFINE r == [conn[c] EXCEPT !.server = "shaking", !.answer = "sent"]
<1>1. conn[c].server = "admitted" /\ UNCHANGED <<setup, task, cached, delivered>>
  BY Zenon DEF ServerResponds
<1>2. tracker \in Trackers /\ conn[c] \in Conns
  BY DEF TransportInv, TransportTyped
<1>3. CASE Closed(c, tracker)
  BY <1>1, <1>2, <1>3, SameBan, ClosedKeeps, SMTT(60) DEF Slot, Trackers
<1>4. CASE PeerAccepts /\ conn' = [conn EXCEPT ![c] = r] /\ UNCHANGED tracker
  <2>1. /\ r \in Conns /\ r.wire = conn[c].wire /\ r.send = conn[c].send
        /\ r.server = "shaking" /\ r.close = conn[c].close
    BY <1>2, Zenon DEF Conns
  <2> HIDE DEF r
  <2>2. Becomes(c, r) /\ TransportTyped' /\ AnswersInv' /\ FramesInv' /\ MessagesInv'
    BY <1>1, <1>2, <1>4, <2>1, WireStays, Zenon DEF TransportInv, TransportTyped
  <2>3. ClientInv'
    BY <1>1, <2>2, ClientKept, Zenon DEF TransportInv, Becomes
  <2>4. SlotsInv'
    BY <1>1, <1>4, <2>1, <2>2, SlotsKept DEF TransportInv, Becomes, Slot
  <2> QED
    BY <2>2, <2>3, <2>4, Zenon DEF TransportInv
<1>5. Closed(c, tracker) \/ (PeerAccepts /\ conn' = [conn EXCEPT ![c] = r] /\ UNCHANGED tracker)
  BY Zenon DEF ServerResponds, PeerAccepts
<1> QED
  BY <1>3, <1>4, <1>5, Zenon

(* The newest connection of an identity is bound and its elder told to go. *)
LEMMA ServerBindsKeeps ==
    ASSUME TransportInv, NEW c \in DOMAIN conn, ServerBinds(c) PROVE TransportInv'
<1> DEFINE bound(d) == [conn[d] EXCEPT !.server = "bound"]
           told(d) == [conn[d] EXCEPT !.close = TRUE]
           after(d) == CASE d = c -> bound(d)
                         [] d \in Superseded(tracker) -> told(d)
                         [] OTHER -> conn[d]
<1>1. conn[c].server = "shaking" /\ UNCHANGED <<setup, task, cached, delivered>>
  BY Zenon DEF ServerBinds
<1>2. tracker \in Trackers /\ conn \in Seq(Conns) /\ \A d \in DOMAIN conn : conn[d] \in Conns
  BY DEF TransportInv, TransportTyped
<1>3. CASE Closed(c, tracker)
  BY <1>1, <1>2, <1>3, SameBan, ClosedKeeps, Zenon DEF Slot, Trackers
<1> HIDE DEF after
<1>4. CASE conn' = [d \in DOMAIN conn |-> after(d)] /\ tracker' = bind_validator(tracker, c)
  <2>1. ASSUME NEW d \in DOMAIN conn
        PROVE  /\ after(d) \in Conns /\ after(d).wire = conn[d].wire
               /\ after(d).send = conn[d].send /\ after(d).answer = conn[d].answer
               /\ after(d).server = (IF d = c THEN "bound" ELSE conn[d].server)
               /\ after(d).close = ((d # c /\ d \in Holder) \/ conn[d].close)
    <3> DEFINE x == conn[d]
    <3>1. x \in Conns
      BY <1>2, <2>1, Zenon
    <3>2. CASE d = c
      <4>1. after(d) = [x EXCEPT !.server = "bound"]
        <5>1. after(d) = bound(d)
          <6> HIDE DEF bound, told
          <6>1. d \notin Superseded(tracker)
            BY <1>1, <3>2, Zenon DEF TransportInv, SlotsInv, Bound, Holder
          <6> QED BY <3>2, <6>1, Zenon DEF after
        <5> QED BY <5>1, Zenon
      <4> HIDE DEF x
      <4> QED
        BY <3>1, <3>2, <4>1, Zenon DEF Conns, x
    <3>3. CASE d # c /\ d \in Holder
      <4>1. after(d) = [x EXCEPT !.close = TRUE]
        <5>1. after(d) = told(d)
          <6> HIDE DEF bound, told
          <6> QED BY <3>3, Zenon DEF Holder, after
        <5> QED BY <5>1, Zenon
      <4> HIDE DEF x
      <4> QED
        BY <3>1, <3>3, <4>1, Zenon DEF Conns, x
    <3>4. CASE d # c /\ d \notin Holder
      <4>1. after(d) = x
        <5> HIDE DEF bound, told
        <5> QED BY <3>4, Zenon DEF Holder, after
      <4>2. x.close \in BOOLEAN
        BY <3>1, Zenon DEF Conns
      <4> QED
        BY <3>1, <3>4, <4>1, <4>2, Zenon
    <3> QED
      BY <3>2, <3>3, <3>4, Zenon
  <2>2. DOMAIN conn = 1 .. Len(conn) /\ Len(conn) \in Nat
    BY <1>2
  <2>3. conn' \in Seq(Conns) /\ DOMAIN conn' = DOMAIN conn /\ \A d \in DOMAIN conn : conn'[d] = after(d)
    BY <1>4, <2>1, <2>2, SMTT(60)
  <2>4. /\ tracker' \in Trackers /\ tracker'.total = tracker.total
        /\ tracker'.per_ip = tracker.per_ip /\ Holder' = {c}
    <3>1. c \in Nat
      BY <2>2
    <3>2. tracker' \in Trackers /\ tracker'.per_validator = {[conn |-> c, seq |-> tracker.next_seq]}
          /\ tracker'.total = tracker.total /\ tracker'.per_ip = tracker.per_ip
      BY <1>2, <1>4, <3>1, BoundCounts, Zenon
    <3> QED
      BY <3>2 DEF Holder, Superseded
  <2>5. TransportTyped'
    BY <1>1, <2>3, <2>4, Zenon DEF TransportInv, TransportTyped
  <2>6. AnswersInv'
    BY <1>1, <2>1, <2>3 DEF TransportInv, AnswersInv, PeerAccepts
  <2>7. ClientInv'
    BY <1>1, <2>3, ClientKept, Zenon DEF TransportInv
  <2>8. FramesInv'
    <3> SUFFICES ASSUME NEW d \in DOMAIN conn' PROVE Sealed(conn'[d])
      BY Zenon DEF FramesInv, Sealed
    <3>1. Sealed(conn[d])
      BY <2>3, Zenon DEF TransportInv, FramesInv
    <3> QED
      BY <2>1, <2>3, <3>1, SMTT(60) DEF Sealed
  <2>9. MessagesInv'
    BY <1>1, <2>1, <2>3, MessagesKept, Zenon DEF TransportInv
  <2>10. SlotsInv'
    <3>1. Live' = Live
      BY <1>1, <2>1, <2>3, SMTT(60) DEF Live, Slot
    <3>2. Bound' = Bound \union {c} /\ c \notin Bound
      BY <1>1, <2>1, <2>3, Zenon DEF Bound
    <3>3. Holder \subseteq Bound /\ Bound \subseteq DOMAIN conn
      BY Zenon DEF TransportInv, SlotsInv, Bound
    <3>4. \A d \in DOMAIN conn : conn'[d].server = (IF d = c THEN "bound" ELSE conn[d].server)
      BY <2>1, <2>3, Zenon
    <3>5. \A d \in DOMAIN conn : conn'[d].close = ((d # c /\ d \in Holder) \/ conn[d].close)
      BY <2>1, <2>3, Zenon
    <3>6. ~conn[c].close
      BY <1>1, Zenon DEF TransportInv, SlotsInv
    <3>7. \A d \in DOMAIN conn : conn[d].server \in {"admitted", "shaking"} => d \notin Bound
      BY Zenon DEF Bound
    <3>8. tracker'.total = Cardinality(Live') /\ tracker'.per_ip = tracker'.total
      BY <2>4, <3>1, Zenon DEF TransportInv, SlotsInv
    <3>9. \A d \in Bound' : d \in Holder' \/ conn'[d].close
      BY <2>4, <3>2, <3>3, <3>5, Zenon DEF TransportInv, SlotsInv
    <3>10. \A d \in DOMAIN conn' : conn'[d].server \in {"admitted", "shaking"} => ~conn'[d].close
      BY <2>3, <3>3, <3>4, <3>5, <3>7, Zenon DEF TransportInv, SlotsInv
    <3>11. Holder' \subseteq Bound' /\ (\A d \in Holder' : ~conn'[d].close) /\ \A d, e \in Holder' : d = e
      BY <2>4, <3>2, <3>5, <3>6, Zenon
    <3> QED
      BY <3>8, <3>9, <3>10, <3>11, Zenon DEF SlotsInv
  <2> QED
    BY <2>5, <2>6, <2>7, <2>8, <2>9, <2>10, Zenon DEF TransportInv
<1>5. \/ Closed(c, tracker)
      \/ conn' = [d \in DOMAIN conn |-> after(d)] /\ tracker' = bind_validator(tracker, c)
  BY Zenon DEF ServerBinds, after
<1> QED
  BY <1>3, <1>4, <1>5, Zenon

(* The acceptor closes a connection that was told to, or that failed.      *)
LEMMA ServerClosesKeeps ==
    ASSUME TransportInv, NEW c \in DOMAIN conn, ServerCloses(c) PROVE TransportInv'
<1>1. Slot(c) /\ Closed(c, tracker) /\ UNCHANGED <<setup, task, cached, delivered>>
  BY Zenon DEF ServerCloses, Reading, Slot
<1>2. tracker \in Trackers
  BY Zenon DEF TransportInv, TransportTyped
<1> QED
  BY <1>1, <1>2, SameBan, ClosedKeeps, Zenon DEF Trackers

(* A ban runs out.                                                         *)
LEMMA BanExpiresKeeps == ASSUME TransportInv, BanExpires PROVE TransportInv'
<1>1. UNCHANGED <<setup, task, cached, conn, delivered>>
      /\ tracker' = [tracker EXCEPT !.banned = FALSE] /\ tracker \in Trackers
  BY Zenon DEF BanExpires, TransportInv, TransportTyped
<1>2. /\ tracker' \in Trackers /\ tracker'.total = tracker.total
      /\ tracker'.per_ip = tracker.per_ip /\ tracker'.per_validator = tracker.per_validator
  BY <1>1, Zenon DEF Trackers
<1>3. SlotsInv'
  BY <1>1, <1>2, SlotsKept, Zenon DEF TransportInv, Slot
<1>4. TransportTyped'
  BY <1>1, <1>2, Zenon DEF TransportInv, TransportTyped
<1>5. AnswersInv' /\ ClientInv' /\ FramesInv'
  BY <1>1, ClientKept DEF TransportInv, AnswersInv, PeerAccepts, FramesInv, Sealed
<1>6. MessagesInv'
  BY <1>1, MessagesKept, Zenon DEF TransportInv
<1> QED
  BY <1>3, <1>4, <1>5, <1>6, Zenon DEF TransportInv

----------------------------------------------------------------------------
(* The reader.                                                             *)

(* What is left on the wire once its first frame is taken.                 *)
LEMMA TailOfWire ==
    ASSUME NEW w \in Seq(Frames), w # <<>>
    PROVE  /\ Tail(w) \in Seq(Frames) /\ Head(w) = w[1] /\ 1 \in DOMAIN w
           /\ \A i \in DOMAIN Tail(w) : i + 1 \in DOMAIN w /\ i + 1 # 1 /\ Tail(w)[i] = w[i + 1]
           /\ \A i \in DOMAIN Tail(w) : i \in Nat
<1>1. Len(w) \in Nat /\ Len(w) > 0
  OBVIOUS
<1>2. Tail(w) \in Seq(Frames) /\ Len(Tail(w)) = Len(w) - 1
      /\ \A i \in 1 .. Len(w) - 1 : Tail(w)[i] = w[i + 1]
  BY <1>1
<1>3. DOMAIN Tail(w) = 1 .. Len(w) - 1
  BY <1>1, <1>2
<1> QED
  BY <1>1, <1>2, <1>3

(* The connection after a frame was read.                                  *)
AfterRead(x, fresh) ==
    [Metered(x, fresh) EXCEPT !.first = FALSE, !.wire = Tail(@), !.recv = next_nonce(@)]

(* The meter touches only its own counts.                                  *)
LEMMA MeterOnly ==
    ASSUME NEW x \in Conns, NEW fresh \in BOOLEAN
    PROVE  LET m == Metered(x, fresh) IN
             /\ m \in Conns /\ m.wire = x.wire /\ m.recv = x.recv /\ m.send = x.send
             /\ m.answer = x.answer /\ m.server = x.server /\ m.close = x.close
<1> DEFINE n == (IF fresh THEN 0 ELSE x.frames) + 1
<1>1. x.frames \in Nat /\ x.strikes \in Nat
  BY Zenon DEF Conns
<1>2. n \in Nat /\ 0 \in Nat /\ x.strikes + 1 \in Nat
  BY <1>1
<1>3. Metered(x, fresh) = IF n > MAX_FRAMES THEN [x EXCEPT !.frames = 0, !.strikes = @ + 1]
                                            ELSE [x EXCEPT !.frames = n]
  BY Zenon DEF Metered
<1> HIDE DEF n
<1>4. CASE n > MAX_FRAMES
  BY <1>2, <1>3, <1>4, Zenon DEF Conns
<1>5. CASE ~(n > MAX_FRAMES)
  BY <1>2, <1>3, <1>5, Zenon DEF Conns
<1> QED
  BY <1>4, <1>5, Zenon

(* Reading a frame takes the first one off the wire and leaves the rest    *)
(* under the nonces they were sealed with.                                 *)
LEMMA FrameRead ==
    ASSUME NEW x \in Conns, Sealed(x), x.wire # <<>>, NEW fresh \in BOOLEAN
    PROVE  LET r == AfterRead(x, fresh) IN
             /\ r \in Conns /\ Sealed(r) /\ r.wire = Tail(x.wire)
             /\ r.answer = x.answer /\ r.server = x.server /\ r.close = x.close
<1> DEFINE m == Metered(x, fresh)
           r == AfterRead(x, fresh)
<1>1. /\ m \in Conns /\ m.wire = x.wire /\ m.recv = x.recv /\ m.send = x.send
      /\ m.answer = x.answer /\ m.server = x.server /\ m.close = x.close
  BY MeterOnly, Zenon
<1>2. x.wire \in Seq(Frames) /\ x.recv \in Sessions /\ x.send \in Sessions
  BY Zenon DEF Conns
<1>3. next_nonce(x.recv) \in Sessions
  BY <1>2, NextNonce, Zenon
<1>4. /\ Tail(x.wire) \in Seq(Frames)
      /\ \A i \in DOMAIN Tail(x.wire) : i + 1 \in DOMAIN x.wire /\ Tail(x.wire)[i] = x.wire[i + 1]
      /\ \A i \in DOMAIN Tail(x.wire) : i \in Nat
  BY <1>2, TailOfWire, Zenon
<1>5. r = [m EXCEPT !.first = FALSE, !.wire = Tail(x.wire), !.recv = next_nonce(x.recv)]
  BY <1>1, Zenon DEF AfterRead
<1> HIDE DEF m, r
<1>6. /\ r \in Conns /\ r.wire = Tail(x.wire) /\ r.send = x.send
      /\ r.answer = x.answer /\ r.server = x.server /\ r.close = x.close
  BY <1>1, <1>3, <1>4, <1>5, ZenonT(60) DEF Conns
<1> DEFINE w == x.wire
           v == Tail(x.wire)
<1>7. /\ \A i \in DOMAIN w : w[i].under.nonce < x.send.counter
      /\ \A i, j \in DOMAIN w : w[i].under.nonce = w[j].under.nonce => i = j
  BY Zenon DEF Sealed
<1>8. \A i \in DOMAIN v : i \in Nat /\ i + 1 \in DOMAIN w /\ v[i] = w[i + 1]
  BY <1>4, Zenon
<1>9. Sealed(r)
  <2> HIDE DEF w, v
  <2>1. \A i \in DOMAIN v : v[i].under.nonce < x.send.counter
    BY <1>7, <1>8, Zenon
  <2>2. ASSUME NEW i \in DOMAIN v, NEW j \in DOMAIN v, v[i].under.nonce = v[j].under.nonce
        PROVE  i = j
    <3>1. i + 1 = j + 1
      <4> DEFINE k == i + 1
                 l == j + 1
      <4>1. k \in DOMAIN w /\ l \in DOMAIN w /\ v[i] = w[k] /\ v[j] = w[l]
        BY <1>8, Zenon
      <4> HIDE DEF k, l
      <4>2. k = l
        BY <1>7, <2>2, <4>1, Zenon
      <4> QED
        BY <4>2, Zenon DEF k, l
    <3> QED
      BY <1>8, <3>1
  <2>3. r.wire = v
    BY <1>6, Zenon DEF v
  <2> QED
    BY <1>6, <2>1, <2>2, <2>3, Zenon DEF Sealed
<1> QED
  BY <1>6, <1>9, Zenon DEF r

(* What the reader hands over was on the wire, and is there no more.       *)
LEMMA ReadKeeps == ASSUME TransportInv, NEW c \in DOMAIN conn, Read(c) PROVE TransportInv'
<1> DEFINE x == conn[c]
           m == Head(x.wire).msg
<1>1. /\ x.server = "bound" /\ x.wire # <<>> /\ ~Head(x.wire).cut
      /\ UNCHANGED <<setup, task, cached>>
  BY Zenon DEF Read, Reading, Opens
<1>2. PICK fresh \in BOOLEAN :
        \/ /\ conn' = [conn EXCEPT ![c] = AfterRead(x, fresh)]
           /\ delivered' = Append(delivered, <<setup.me, m>>) /\ UNCHANGED tracker
        \/ Closed(c, [tracker EXCEPT !.banned = TRUE]) /\ UNCHANGED delivered
  BY Zenon DEF Read, AfterRead
<1>3. CASE Closed(c, [tracker EXCEPT !.banned = TRUE]) /\ UNCHANGED delivered
  BY <1>1, <1>3, ClosedKeeps, Zenon DEF Slot
<1>4. CASE /\ conn' = [conn EXCEPT ![c] = AfterRead(x, fresh)]
           /\ delivered' = Append(delivered, <<setup.me, m>>) /\ UNCHANGED tracker
  <2> DEFINE r == AfterRead(x, fresh)
             last == Len(delivered) + 1
  <2>1. conn \in Seq(Conns) /\ x \in Conns /\ Sealed(x) /\ x.wire \in Seq(Frames)
    <3>1. conn \in Seq(Conns) /\ Sealed(x)
      BY Zenon DEF TransportInv, TransportTyped, FramesInv
    <3>2. x \in Conns
      BY <3>1
    <3> HIDE DEF x
    <3>3. x.wire \in Seq(Frames)
      BY <3>2, Zenon DEF Conns
    <3> QED
      BY <3>1, <3>2, <3>3, Zenon
  <2>2. /\ r \in Conns /\ Sealed(r) /\ r.wire = Tail(x.wire)
        /\ r.answer = x.answer /\ r.server = x.server /\ r.close = x.close
    BY <1>1, <2>1, FrameRead, Zenon
  <2>3. conn' = [conn EXCEPT ![c] = r]
    BY <1>4, Zenon
  <2> HIDE DEF r
  <2>4. Becomes(c, r)
    BY <2>1, <2>2, <2>3, OneBecomes, Zenon
  <2>5. /\ 1 \in Whole(x.wire) /\ x.wire[1].msg = m /\ m \in Tasks
        /\ \A i \in Whole(r.wire) : i + 1 \in Whole(x.wire) /\ i + 1 # 1 /\ i \in Nat
                                     /\ r.wire[i] = x.wire[i + 1]
    <3> DEFINE w == x.wire
               v == r.wire
    <3>1. w \in Seq(Frames) /\ w # <<>> /\ v = Tail(w) /\ ~Head(w).cut /\ m = Head(w).msg
      BY <1>1, <2>1, <2>2, Zenon
    <3> HIDE DEF w, v
    <3>2. /\ Head(w) = w[1] /\ 1 \in DOMAIN w
          /\ \A i \in DOMAIN v : i + 1 \in DOMAIN w /\ i + 1 # 1 /\ v[i] = w[i + 1]
          /\ \A i \in DOMAIN v : i \in Nat
      BY <3>1, TailOfWire, Zenon
    <3>3. 1 \in Whole(w) /\ w[1].msg = m
      BY <3>1, <3>2, Zenon DEF Whole
    <3>4. m \in Tasks
      <4>1. Head(w) \in Frames
        BY <3>1
      <4> QED
        BY <3>1, <4>1, Zenon DEF Frames
    <3>5. \A i \in Whole(v) : i + 1 \in Whole(w) /\ i + 1 # 1 /\ i \in Nat /\ v[i] = w[i + 1]
      BY <3>2, Zenon DEF Whole
    <3> QED
      BY <3>3, <3>4, <3>5, Zenon DEF w, v
  <2>6. /\ delivered \in Seq({setup.me} \X Tasks) /\ delivered' \in Seq({setup.me} \X Tasks)
        /\ DOMAIN delivered' = DOMAIN delivered \union {last} /\ last \notin DOMAIN delivered
        /\ delivered'[last][2] = m /\ \A n \in DOMAIN delivered : delivered'[n] = delivered[n]
    BY <1>4, <2>5 DEF TransportInv, TransportTyped
  <2> HIDE DEF last, m, x
  <2>7. TransportTyped'
    BY <1>1, <1>4, <2>4, <2>6, Zenon DEF TransportInv, TransportTyped, Becomes
  <2>8. AnswersInv' /\ ClientInv'
    BY <1>1, <2>2, <2>4, ClientKept DEF TransportInv, AnswersInv, PeerAccepts, Becomes, x
  <2>9. FramesInv'
    <3> SUFFICES ASSUME NEW d \in DOMAIN conn' PROVE Sealed(conn'[d])
      BY Zenon DEF FramesInv, Sealed
    <3> QED
      BY <2>2, <2>4, Zenon DEF TransportInv, FramesInv, Becomes
  <2>10. SlotsInv'
    BY <1>4, <2>2, <2>4, SlotsKept, Zenon DEF TransportInv, Becomes, Slot, x
  <2>11. MessagesInv'
    <3>1. ASSUME NEW d \in DOMAIN conn', NEW i \in Whole(conn'[d].wire)
          PROVE  \E k \in Whole(conn[d].wire) :
                    /\ conn'[d].wire[i] = conn[d].wire[k]
                    /\ k = (IF d = c THEN i + 1 ELSE i) /\ i \in Nat /\ (d = c => k # 1)
      <4>1. CASE d = c
        <5>1. i \in Whole(r.wire) /\ conn'[d].wire = r.wire /\ conn[d].wire = x.wire
          BY <2>4, <3>1, <4>1, Zenon DEF Becomes, x
        <5> QED
          BY <2>5, <4>1, <5>1, Zenon
      <4>2. CASE d # c
        <5>1. d \in DOMAIN conn /\ conn'[d].wire = conn[d].wire
          BY <2>4, <4>2, Zenon DEF Becomes
        <5>2. conn[d].wire \in Seq(Frames)
          <6>1. conn[d] \in Conns
            BY <2>1, <5>1
          <6> QED
            BY <6>1, Zenon DEF Conns
        <5>3. i \in Whole(conn[d].wire) /\ i \in Nat
          BY <3>1, <5>1, <5>2 DEF Whole
        <5> QED
          BY <4>2, <5>1, <5>3, Zenon
      <4> QED
        BY <4>1, <4>2, Zenon
    <3>2. DOMAIN conn' = DOMAIN conn /\ c \in DOMAIN conn
      BY <2>4, Zenon DEF Becomes
    <3>3. ASSUME NEW d \in DOMAIN conn', NEW i \in Whole(conn'[d].wire)
          PROVE  /\ task'[conn'[d].wire[i].msg].at = "ok"
                 /\ \A n \in DOMAIN delivered' : delivered'[n][2] # conn'[d].wire[i].msg
      <4>1. PICK k \in Whole(conn[d].wire) :
                    /\ conn'[d].wire[i] = conn[d].wire[k] /\ (d = c => k # 1)
        BY <3>1, <3>3, SMTT(60)
      <4>2. conn[d].wire[k].msg # m
        BY <2>5, <3>2, <4>1 DEF TransportInv, MessagesInv, x
      <4> QED
        BY <1>1, <2>6, <3>2, <4>1, <4>2, SMTT(60) DEF TransportInv, MessagesInv
    <3>4. ASSUME NEW d \in DOMAIN conn', NEW e \in DOMAIN conn',
                 NEW i \in Whole(conn'[d].wire), NEW j \in Whole(conn'[e].wire),
                 conn'[d].wire[i].msg = conn'[e].wire[j].msg
          PROVE  d = e /\ i = j
      <4>1. PICK k \in Whole(conn[d].wire) :
                    /\ conn'[d].wire[i] = conn[d].wire[k]
                    /\ k = (IF d = c THEN i + 1 ELSE i) /\ i \in Nat
        BY <3>1, <3>4, Zenon
      <4>2. PICK l \in Whole(conn[e].wire) :
                    /\ conn'[e].wire[j] = conn[e].wire[l]
                    /\ l = (IF e = c THEN j + 1 ELSE j) /\ j \in Nat
        BY <3>1, <3>4, Zenon
      <4>3. d = e /\ k = l
        BY <3>2, <3>4, <4>1, <4>2, SMTT(60) DEF TransportInv, MessagesInv
      <4> QED
        BY <4>1, <4>2, <4>3
    <3>5. task[m].at = "ok" /\ \A n \in DOMAIN delivered : delivered[n][2] # m
      BY <2>5, SMTT(60) DEF TransportInv, MessagesInv, x
    <3>6. \A n \in DOMAIN delivered' : task'[delivered'[n][2]].at = "ok"
      BY <1>1, <2>6, <3>5, Zenon DEF TransportInv, MessagesInv
    <3>7. \A n, k \in DOMAIN delivered' : delivered'[n][2] = delivered'[k][2] => n = k
      BY <2>6, <3>5, Zenon DEF TransportInv, MessagesInv
    <3> QED
      BY <3>3, <3>4, <3>6, <3>7, Zenon DEF MessagesInv, Whole
  <2> QED
    BY <2>7, <2>8, <2>9, <2>10, <2>11, Zenon DEF TransportInv
<1> QED
  BY <1>2, <1>3, <1>4, Zenon

----------------------------------------------------------------------------
(* The invariant holds when the transport starts.                          *)
LEMMA TransportInitially == TransportInit => TransportInv
<1> SUFFICES ASSUME TransportInit PROVE TransportInv
  OBVIOUS
<1>1. conn = <<>> /\ DOMAIN conn = {} /\ delivered = <<>> /\ DOMAIN delivered = {}
  BY DEF TransportInit
<1>2. TransportTyped
  <2>1. tracker \in Trackers
    <3>1. {} \in Bindings
      BY Zenon DEF Bindings
    <3> QED
      BY <3>1 DEF TransportInit, Trackers
  <2>2. task \in [Tasks -> TaskStates]
    <3>1. [at |-> "lookup", conn |-> NoConn, retried |-> FALSE] \in TaskStates
      BY Zenon DEF TaskStates, Places
    <3> QED
      BY <3>1, Zenon DEF TransportInit
  <2>3. setup \in Setups /\ conn \in Seq(Conns) /\ delivered \in Seq({setup.me} \X Tasks)
    BY <1>1, SMTT(60) DEF TransportInit
  <2> QED
    BY <2>1, <2>2, <2>3, Zenon DEF TransportTyped
<1>3. AnswersInv /\ FramesInv /\ MessagesInv
  BY <1>1, Zenon DEF AnswersInv, FramesInv, MessagesInv
<1>4. ClientInv
  BY Zenon DEF TransportInit, ClientInv
<1>5. SlotsInv
  <2>1. Live = {} /\ Bound = {} /\ Holder = {}
    BY <1>1, Zenon DEF Live, Bound, Holder, Superseded, TransportInit
  <2>2. Cardinality({}) = 0
    BY FS_EmptySet, Zenon
  <2> QED
    BY <1>1, <2>1, <2>2, Zenon DEF SlotsInv, TransportInit
<1> QED
  BY <1>2, <1>3, <1>4, <1>5, Zenon DEF TransportInv

(* Every step of the transport keeps the invariant.                        *)
LEMMA TransportKeepsInv == TransportInv /\ [TransportNext]_transportVars => TransportInv'
<1> SUFFICES ASSUME TransportInv, [TransportNext]_transportVars PROVE TransportInv'
  OBVIOUS
<1>1. CASE UNCHANGED transportVars
  <2>1. UNCHANGED <<setup, task, cached, conn, tracker, delivered>>
    BY <1>1, Zenon DEF transportVars
  <2>2. TransportTyped' /\ AnswersInv' /\ FramesInv' /\ MessagesInv' /\ SlotsInv'
    BY <2>1, ConnectionsAtRest, Zenon DEF TransportInv, TransportTyped
  <2> QED
    BY <2>1, <2>2, ClientKept, Zenon DEF TransportInv
<1>2. CASE TransportNext
  BY <1>2, LookupKeeps, RemoveCachedKeeps, DialKeeps, DialFailsKeeps, ClientHandshakeKeeps,
     InsertKeeps, WriteKeeps, WriteFailsKeeps, ServerRespondsKeeps, ServerBindsKeeps,
     ReadKeeps, ServerClosesKeeps, BanExpiresKeeps, SMTT(60) DEF TransportNext
<1> QED
  BY <1>1, <1>2, Zenon

(* For every set of calls, setups and limits and any number of connections *)
(* and faults: the tracker counts the live connections exactly and lets    *)
(* one identity hold one of them (IpGuard, bind_validator), a message is   *)
(* received at most once and no nonce of a session is used twice, and the  *)
(* connection send_to reuses was made with the peer it is for.             *)
THEOREM SessionsAreExactAlways == TransportSpec => []SessionsAreExact
<1>1. TransportInv => SessionsAreExact
  <2> SUFFICES ASSUME TransportInv PROVE SlotsAreExact /\ DeliveredOnce /\ CachedIsAuthentic
    BY Zenon DEF SessionsAreExact
  <2>1. SlotsAreExact
    <3>1. Cardinality(Holder) <= 1
      <4>1. CASE Holder = {}
        BY <4>1, FS_EmptySet
      <4>2. CASE Holder # {}
        <5>1. PICK h \in Holder : Holder = {h}
          BY <4>2 DEF TransportInv, SlotsInv
        <5> QED
          <6>1. Cardinality(Holder) = 1
            BY <5>1, FS_Singleton, Zenon
          <6> QED
            BY <6>1
      <4> QED
        BY <4>1, <4>2, Zenon
    <3> QED
      BY <3>1, Zenon DEF TransportInv, SlotsInv, SlotsAreExact, Live, Bound, Holder
  <2>2. DeliveredOnce
    BY Zenon DEF TransportInv, MessagesInv, FramesInv, Sealed, DeliveredOnce
  <2>3. CachedIsAuthentic
    <3>1. setup.encrypts.me \in BOOLEAN /\ setup.encrypts.peer \in BOOLEAN
      BY TransportAssumption, Zenon DEF TransportInv, TransportTyped
    <3> QED
      BY <3>1 DEF TransportInv, ClientInv, Authentic, PeerAccepts, VerifiedPeer, CachedIsAuthentic
  <2> QED
    BY <2>1, <2>2, <2>3, Zenon
<1> QED
  BY <1>1, TransportInitially, TransportKeepsInv, PTL DEF TransportSpec

----------------------------------------------------------------------------
(* The faucet.                                                             *)

(* From looking up a balance to seeing it rise, the asker is credited with *)
(* at least what the balance rises by.                                     *)
AwaitedCovered ==
    request.at \in {"post", "poll"} =>
        /\ request = [at |-> request.at, to |-> request.to, nonce |-> request.nonce,
                      before |-> request.before]
        /\ request.before \in Nat
        /\ chain.balance[request.to] + books.funded[request.to]
             <= request.before + books.credited[request.to]

(* The inductive invariant of the faucet: what it awaits is covered, and   *)
(* what it calls funded was credited.                                      *)
FaucetInv ==
    /\ chain = [nonce |-> chain.nonce, funds |-> chain.funds,
                balance |-> chain.balance, pool |-> chain.pool]
    /\ books = [funded |-> books.funded, credited |-> books.credited]
    /\ chain.balance \in [Askers -> Nat]
    /\ books.funded \in [Askers -> Nat] /\ books.credited \in [Askers -> Nat]
    /\ request.at # "idle" => request.to \in Askers
    /\ AwaitedCovered
    /\ FundedIsPaid

(* The request and the books stay, and no balance rises: a lost or refused *)
(* transaction, a coin spent, time.                                        *)
LEMMA NothingRises ==
    ASSUME FaucetInv, UNCHANGED <<request, books>>,
           chain' = [nonce |-> chain'.nonce, funds |-> chain'.funds,
                     balance |-> chain'.balance, pool |-> chain'.pool],
           chain'.balance \in [Askers -> Nat],
           \A a \in Askers : chain'.balance[a] <= chain.balance[a]
    PROVE  FaucetInv'
<1>1. AwaitedCovered'
  BY DEF FaucetInv, AwaitedCovered
<1> QED
  BY <1>1, Zenon DEF FaucetInv, FundedIsPaid

(* A coin arrives, and is entered in the books.                            *)
LEMMA OneIsCredited ==
    ASSUME FaucetInv, NEW a, UNCHANGED request,
           chain' = [nonce |-> chain'.nonce, funds |-> chain'.funds,
                     balance |-> chain'.balance, pool |-> chain'.pool],
           chain'.balance = [chain.balance EXCEPT ![a] = @ + 1],
           books' = [books EXCEPT !.credited[a] = @ + 1]
    PROVE  FaucetInv'
<1>1. /\ books' = [funded |-> books.funded, credited |-> [books.credited EXCEPT ![a] = @ + 1]]
      /\ books'.funded = books.funded /\ books'.credited = [books.credited EXCEPT ![a] = @ + 1]
  BY Zenon DEF FaucetInv
<1>2. /\ chain'.balance \in [Askers -> Nat] /\ books'.credited \in [Askers -> Nat]
      /\ \A b \in Askers : /\ chain'.balance[b] = IF b = a THEN chain.balance[b] + 1 ELSE chain.balance[b]
                           /\ books'.credited[b] = IF b = a THEN books.credited[b] + 1 ELSE books.credited[b]
  <2> DEFINE bal == chain.balance
             cre == books.credited
  <2>1. bal \in [Askers -> Nat] /\ cre \in [Askers -> Nat]
    BY Zenon DEF FaucetInv
  <2>2. chain'.balance = [bal EXCEPT ![a] = @ + 1] /\ books'.credited = [cre EXCEPT ![a] = @ + 1]
    BY <1>1, Zenon
  <2> HIDE DEF bal, cre
  <2>3. ASSUME NEW f \in [Askers -> Nat]
        PROVE  /\ [f EXCEPT ![a] = @ + 1] \in [Askers -> Nat]
               /\ \A b \in Askers : [f EXCEPT ![a] = @ + 1][b] = IF b = a THEN f[b] + 1 ELSE f[b]
    <3> DEFINE h == [f EXCEPT ![a] = @ + 1]
    <3>1. DOMAIN h = Askers /\ \A b \in Askers : h[b] = IF b = a THEN f[b] + 1 ELSE f[b]
      OBVIOUS
    <3>2. \A b \in Askers : h[b] \in Nat
      BY <3>1
    <3> QED
      BY <3>1, <3>2, Zenon
  <2> QED
    BY <2>1, <2>2, <2>3 DEF bal, cre
<1>3. AwaitedCovered'
  BY <1>1, <1>2 DEF FaucetInv, AwaitedCovered
<1>4. FundedIsPaid'
  BY <1>1, <1>2, SMTT(60) DEF FaucetInv, FundedIsPaid
<1> QED
  BY <1>1, <1>2, <1>3, <1>4, Zenon DEF FaucetInv

(* A request begins, goes on to its next call before a balance is looked   *)
(* up, or ends.                                                            *)
LEMMA NothingAwaited ==
    ASSUME FaucetInv, UNCHANGED books,
           chain'.balance = chain.balance,
           chain' = [nonce |-> chain'.nonce, funds |-> chain'.funds,
                     balance |-> chain'.balance, pool |-> chain'.pool],
           request'.at \notin {"post", "poll"},
           request'.at # "idle" => request'.to \in Askers
    PROVE  FaucetInv'
  BY Zenon DEF FaucetInv, AwaitedCovered, FundedIsPaid

(* Every step of the faucet and of the chain keeps the invariant.          *)
LEMMA FaucetKeepsInv == FaucetInv /\ [FaucetNext]_faucetVars => FaucetInv'
<1> SUFFICES ASSUME FaucetInv, [FaucetNext]_faucetVars PROVE FaucetInv'
  OBVIOUS
<1>0. /\ chain = [nonce |-> chain.nonce, funds |-> chain.funds,
                  balance |-> chain.balance, pool |-> chain.pool]
      /\ chain.balance \in [Askers -> Nat]
  BY Zenon DEF FaucetInv
<1>1. ASSUME NEW a \in Askers, faucet(a) PROVE FaucetInv'
  BY <1>0, <1>1, NothingAwaited, Zenon DEF faucet
<1>2. ASSUME fetch_nonce PROVE FaucetInv'
  <2>1. /\ request.at = "nonce" /\ request'.at = "before" /\ request'.to = request.to
        /\ UNCHANGED <<chain, books>>
    BY <1>2 DEF fetch_nonce
  <2>2. request.to \in Askers
    BY <2>1, Zenon DEF FaucetInv
  <2> QED
    BY <1>0, <2>1, <2>2, NothingAwaited, Zenon
<1>3. ASSUME fetch_balance PROVE FaucetInv'
  <2>1. /\ request.at = "before"
        /\ request' = [at |-> "post", to |-> request.to, nonce |-> request.nonce,
                       before |-> chain.balance[request.to]]
        /\ UNCHANGED <<chain, books>>
    BY <1>3, Zenon DEF fetch_balance
  <2>2. request.to \in Askers
    BY <2>1, Zenon DEF FaucetInv
  <2>3. AwaitedCovered'
    BY <2>1, <2>2 DEF AwaitedCovered, FaucetInv, FundedIsPaid
  <2> QED
    BY <2>1, <2>2, <2>3, Zenon DEF FaucetInv, FundedIsPaid
<1>4. ASSUME Post PROVE FaucetInv'
  <2>1. request.at = "post" /\ UNCHANGED books
    BY <1>4, Zenon DEF Post
  <2>2. CASE request.nonce >= chain.nonce
    <3>1. /\ chain' = [chain EXCEPT !.pool = @ \union {Transaction}]
          /\ request' = [request EXCEPT !.at = "poll"]
      BY <1>4, <2>2, Zenon DEF Post
    <3>2. /\ chain'.balance = chain.balance
          /\ chain' = [nonce |-> chain'.nonce, funds |-> chain'.funds,
                       balance |-> chain'.balance, pool |-> chain'.pool]
      BY <1>0, <3>1, Zenon
    <3>3. request = [at |-> request.at, to |-> request.to, nonce |-> request.nonce,
                     before |-> request.before]
      BY <2>1, Zenon DEF FaucetInv, AwaitedCovered
    <3>4. request' = [at |-> "poll", to |-> request.to, nonce |-> request.nonce,
                      before |-> request.before]
      BY <3>1, <3>3, Zenon
    <3>5. AwaitedCovered'
      BY <2>1, <3>2, <3>4, Zenon DEF FaucetInv, AwaitedCovered
    <3> QED
      BY <2>1, <3>2, <3>4, <3>5, Zenon DEF FaucetInv, FundedIsPaid
  <2>3. CASE ~(request.nonce >= chain.nonce)
    <3>1. request' = NoRequest /\ UNCHANGED chain
      BY <1>4, <2>3, Zenon DEF Post
    <3> QED
      BY <1>0, <2>1, <3>1, NothingAwaited, Zenon DEF NoRequest
  <2> QED
    BY <2>2, <2>3, Zenon
<1>5. ASSUME Confirm PROVE FaucetInv'
  <2>1. /\ request.at = "poll" /\ chain.balance[request.to] >= request.before + 1
        /\ books' = [books EXCEPT !.funded[request.to] = @ + 1]
        /\ request' = NoRequest /\ UNCHANGED chain
    BY <1>5, Zenon DEF Confirm, Risen
  <2>2. /\ request.to \in Askers /\ request.before \in Nat
        /\ chain.balance[request.to] + books.funded[request.to]
             <= request.before + books.credited[request.to]
    BY <2>1, Zenon DEF FaucetInv, AwaitedCovered
  <2>3. /\ books' = [funded |-> [books.funded EXCEPT ![request.to] = @ + 1], credited |-> books.credited]
        /\ books'.funded = [books.funded EXCEPT ![request.to] = @ + 1]
        /\ books'.credited = books.credited
    BY <2>1, Zenon DEF FaucetInv
  <2>4. books.funded[request.to] + 1 <= books.credited[request.to]
    BY <2>1, <2>2, SMTT(60) DEF FaucetInv
  <2>5. FundedIsPaid' /\ books'.funded \in [Askers -> Nat]
    BY <2>2, <2>3, <2>4 DEF FaucetInv, FundedIsPaid
  <2>6. request'.at = "idle"
    BY <2>1, Zenon DEF NoRequest
  <2> QED
    BY <2>1, <2>3, <2>5, <2>6, Zenon DEF FaucetInv, AwaitedCovered
<1>6. ASSUME TimeOut \/ GoneAway \/ Restarts PROVE FaucetInv'
  <2>1. request' = NoRequest /\ UNCHANGED <<chain, books>>
    BY <1>6, Zenon DEF TimeOut, GoneAway, Restarts
  <2> QED
    BY <1>0, <2>1, NothingAwaited, Zenon DEF NoRequest
<1>7. ASSUME AnswerLost PROVE FaucetInv'
  <2>1. /\ chain' = [chain EXCEPT !.pool = @ \union {Transaction}]
        /\ request' = NoRequest /\ UNCHANGED books
    BY <1>7, Zenon DEF AnswerLost
  <2>2. /\ chain'.balance = chain.balance
        /\ chain' = [nonce |-> chain'.nonce, funds |-> chain'.funds,
                     balance |-> chain'.balance, pool |-> chain'.pool]
    BY <1>0, <2>1, Zenon
  <2> QED
    BY <2>1, <2>2, NothingAwaited, Zenon DEF NoRequest
<1>8. ASSUME SecondsPass \/ UNCHANGED faucetVars PROVE FaucetInv'
  <2>1. UNCHANGED <<request, chain, books>>
    BY <1>8, Zenon DEF SecondsPass, faucetVars
  <2> QED
    BY <1>0, <2>1, NothingRises
<1>9. ASSUME NEW tx \in chain.pool, NodeExecutes(tx) PROVE FaucetInv'
  <2>1. /\ chain' = [nonce |-> chain.nonce + 1, funds |-> chain.funds - 1,
                     balance |-> [chain.balance EXCEPT ![tx.to] = @ + 1],
                     pool |-> {t \in chain.pool : t.nonce > chain.nonce}]
        /\ books' = [books EXCEPT !.credited[tx.to] = @ + 1] /\ UNCHANGED request
    BY <1>9, Zenon DEF NodeExecutes
  <2> QED
    BY <2>1, OneIsCredited, Zenon
<1>10. ASSUME NEW tx \in chain.pool, NodeDrops(tx) PROVE FaucetInv'
  <2>1. chain' = [chain EXCEPT !.pool = @ \ {tx}] /\ UNCHANGED <<request, books>>
    BY <1>10, Zenon DEF NodeDrops
  <2>2. /\ chain'.balance = chain.balance
        /\ chain' = [nonce |-> chain'.nonce, funds |-> chain'.funds,
                     balance |-> chain'.balance, pool |-> chain'.pool]
    BY <1>0, <2>1, Zenon
  <2> QED
    BY <1>0, <2>1, <2>2, NothingRises
<1>11. ASSUME NEW a \in Askers, OthersPay(a) PROVE FaucetInv'
  <2>1. /\ chain' = [chain EXCEPT !.balance[a] = @ + 1]
        /\ books' = [books EXCEPT !.credited[a] = @ + 1] /\ UNCHANGED request
    BY <1>11, Zenon DEF OthersPay
  <2>2. /\ chain'.balance = [chain.balance EXCEPT ![a] = @ + 1]
        /\ chain' = [nonce |-> chain'.nonce, funds |-> chain'.funds,
                     balance |-> chain'.balance, pool |-> chain'.pool]
    BY <1>0, <2>1, Zenon
  <2> QED
    BY <2>1, <2>2, OneIsCredited, Zenon
<1>12. ASSUME NEW a \in Askers, AskerSpends(a) PROVE FaucetInv'
  <2>1. /\ chain.balance[a] > 0 /\ chain' = [chain EXCEPT !.balance[a] = @ - 1]
        /\ UNCHANGED <<request, books>>
    BY <1>12, Zenon DEF AskerSpends
  <2>2. /\ chain'.balance = [chain.balance EXCEPT ![a] = @ - 1]
        /\ chain' = [nonce |-> chain'.nonce, funds |-> chain'.funds,
                     balance |-> chain'.balance, pool |-> chain'.pool]
    BY <1>0, <2>1, Zenon
  <2>3. chain'.balance \in [Askers -> Nat] /\ \A b \in Askers : chain'.balance[b] <= chain.balance[b]
    BY <1>0, <2>1, <2>2
  <2> QED
    BY <2>1, <2>2, <2>3, NothingRises, Zenon
<1> QED
  BY <1>1, <1>2, <1>3, <1>4, <1>5, <1>6, <1>7, <1>8, <1>9, <1>10, <1>11, <1>12, Zenon
  DEF FaucetNext, Handler

(* Nobody is told "funded" more often than credited, for any number of     *)
(* askers, mishaps and coins moved by others.                              *)
THEOREM FundedIsPaidAlways == FaucetSpec => []FundedIsPaid
<1>1. FaucetInit => FaucetInv
  <2> SUFFICES ASSUME FaucetInit PROVE FaucetInv
    OBVIOUS
  <2>1. /\ chain = [nonce |-> 0, funds |-> Funds, balance |-> [a \in Askers |-> 0], pool |-> {}]
        /\ books = [funded |-> [a \in Askers |-> 0], credited |-> [a \in Askers |-> 0]]
        /\ request.at = "idle"
    BY Zenon DEF FaucetInit, NoRequest
  <2> QED
    BY <2>1, SMTT(60) DEF FaucetInv, AwaitedCovered, FundedIsPaid
<1>2. FaucetInv => FundedIsPaid
  BY Zenon DEF FaucetInv
<1> QED
  BY <1>1, <1>2, FaucetKeepsInv, PTL DEF FaucetSpec

=============================================================================
