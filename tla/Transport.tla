----------------------------- MODULE Transport -----------------------------
(***************************************************************************)
(* The peer-to-peer transport: one node sends messages to one address from *)
(* concurrent tasks, over a cached connection that is dialled,             *)
(* authenticated and encrypted on demand, and the peer behind the address  *)
(* accepts, limits, authenticates, supersedes and reads the connections.   *)
(* TCP itself is external: each connection is a reliable pipe that either  *)
(* end may lose.                                                           *)
(***************************************************************************)
EXTENDS Naturals, Sequences, FiniteSets

CONSTANTS
    Tasks,          \* concurrent calls of send_to, one message each
    Setups,         \* the configurations of the two nodes
    NoConn,
    MaxConns,       \* bound on connections dialled
    MaxFaults,      \* bound on timeouts and failed connects
    REKEY_INTERVAL, CONNECTION_REKEY_FRAMES,
    MAX_HANDSHAKES, \* MAX_CONCURRENT_INBOUND_HANDSHAKES
    MAX_INBOUND, MAX_PER_IP, \* P2pLimits
    MAX_FRAMES, MAX_STRIKES  \* bandwidth quota, a frame being one unit

ASSUME TransportAssumption ==
    \A s \in Setups : s.encrypts.me \in BOOLEAN /\ s.encrypts.peer \in BOOLEAN

VARIABLES
    setup,      \* [me, expected, peer, trusted_by_me, trusted_by_peer,
                \*  networks, encrypts]
    task,       \* send_to: [at, conn, retried] of each call
    cached,     \* connections[addr]
    conn,       \* the connections dialled so far
    tracker,    \* ConnTracker
    delivered,  \* what the peer's engine received: <<sender, message>>
    faults

transportVars == <<setup, task, cached, conn, tracker, delivered, faults>>

----------------------------------------------------------------------------
(* Session: one direction of the encrypted channel.                        *)

(* key is the sequence of the counters at which it was ratcheted.          *)
DirCipher == [key |-> <<>>, counter |-> 0]

(* The cipher after one frame.                                             *)
next_nonce(d) ==
    [key |-> IF d.counter # 0 /\ d.counter % REKEY_INTERVAL = 0
             THEN Append(d.key, d.counter) ELSE d.key,
     counter |-> d.counter + 1]

(* The key and the nonce that frame is sealed or opened under.             *)
Seal(d) == [key |-> next_nonce(d).key, nonce |-> next_nonce(d).counter - 1]

----------------------------------------------------------------------------
(* The peer's connection tracker.                                          *)

Slot(c) == conn[c].server \in {"admitted", "shaking", "bound"}

admit_ip(t) ==
    ~t.banned /\ t.total < MAX_INBOUND /\ t.per_ip < MAX_PER_IP

Admitted(t) == [t EXCEPT !.total = @ + 1, !.per_ip = @ + 1]

(* What a mutant does: the guard releases whatever the identity holds.     *)
DropAnyBinding(t, c) ==
    [t EXCEPT !.total = @ - 1, !.per_ip = @ - 1, !.per_validator = {}]

(* IpGuard::drop: a superseded connection leaves its successor bound.      *)
Dropped(t, c) ==
    [t EXCEPT !.total = @ - 1, !.per_ip = @ - 1,
              !.per_validator = {h \in @ : h.conn # c}]

bind_validator(t, c) ==
    [t EXCEPT !.per_validator = {[conn |-> c, seq |-> t.next_seq]},
              !.next_seq = @ + 1]

(* The connections that binding another signals to close.                  *)
Superseded(t) == {h.conn : h \in t.per_validator}

----------------------------------------------------------------------------
TransportInit ==
    /\ setup \in Setups
    /\ task = [t \in Tasks |-> [at |-> "lookup", conn |-> NoConn, retried |-> FALSE]]
    /\ cached = NoConn
    /\ conn = <<>>
    /\ tracker = [total |-> 0, per_ip |-> 0, per_validator |-> {}, next_seq |-> 0,
                  banned |-> FALSE]
    /\ delivered = <<>>
    /\ faults = 0

Goto(t, at, c) == task' = [task EXCEPT ![t].at = at, ![t].conn = c]

Fault == faults < MaxFaults /\ faults' = faults + 1

(* A client's end is dropped with its last holder.                         *)
Held(c) == cached = c \/ \E t \in Tasks : task[t].conn = c

----------------------------------------------------------------------------
(* connection_for and send_to.                                             *)

over_budget(c) ==
    setup.encrypts.me /\ conn[c].send.counter >= CONNECTION_REKEY_FRAMES

Lookup(t) ==
    /\ task[t].at = "lookup"
    /\ \/ cached = NoConn /\ Goto(t, "dial", NoConn)
       \/ cached # NoConn /\ over_budget(cached) /\ Goto(t, "evict", NoConn)
       \/ cached # NoConn /\ ~over_budget(cached) /\ Goto(t, "write", cached)
    /\ UNCHANGED <<setup, cached, conn, tracker, delivered, faults>>

(* connections.remove: of whatever the address maps to by now.             *)
RemoveCached(t) ==
    /\ task[t].at \in {"evict", "failed"}
    /\ cached' = NoConn
    /\ Goto(t, IF task[t].at = "evict" THEN "dial" ELSE "lookup", NoConn)
    /\ UNCHANGED <<setup, conn, tracker, delivered, faults>>

(* The dialler's half of the connect, and HandshakeInit; the acceptor      *)
(* admits the stream or drops it.                                          *)
Dial(t) ==
    /\ task[t].at = "dial" /\ Len(conn) < MaxConns
    /\ conn' = Append(conn,
           [server |-> IF admit_ip(tracker) THEN "admitted" ELSE "closed",
            answer |-> "none", final |-> FALSE, wire |-> <<>>,
            send |-> DirCipher, recv |-> DirCipher,
            close |-> FALSE, first |-> TRUE, frames |-> 0, strikes |-> 0])
    /\ tracker' = IF admit_ip(tracker) THEN Admitted(tracker) ELSE tracker
    /\ Goto(t, "handshake", Len(conn) + 1)
    /\ UNCHANGED <<setup, cached, delivered, faults>>

(* A connect or a handshake that times out fails the send.                 *)
DialFails(t) ==
    /\ task[t].at \in {"dial", "handshake"}
    /\ \/ Fault
       \/ /\ task[t].at = "handshake" /\ conn[task[t].conn].server = "closed"
          /\ UNCHANGED faults
       \/ /\ task[t].at = "dial" /\ Len(conn) = MaxConns /\ UNCHANGED faults
    /\ Goto(t, "err", NoConn)
    /\ UNCHANGED <<setup, cached, conn, tracker, delivered>>

(* What the dialler demands of HandshakeResp before it signs and trusts.   *)
VerifiedPeer ==
    /\ setup.peer \in setup.trusted_by_me
    /\ setup.expected = setup.peer
    /\ setup.encrypts.me => setup.encrypts.peer
    /\ setup.networks.me = setup.networks.peer

client_handshake(t) ==
    /\ task[t].at = "handshake" /\ conn[task[t].conn].answer = "sent"
    /\ \/ /\ VerifiedPeer
          /\ conn' = [conn EXCEPT ![task[t].conn].final = TRUE]
          /\ Goto(t, "insert", task[t].conn)
       \/ /\ ~VerifiedPeer
          /\ Goto(t, "err", NoConn)
          /\ UNCHANGED conn
    /\ UNCHANGED <<setup, cached, tracker, delivered, faults>>

(* Two tasks may have dialled: the one that finds an entry uses it and     *)
(* discards its own stream.                                                *)
Insert(t) ==
    /\ task[t].at = "insert"
    /\ cached' = IF cached = NoConn THEN task[t].conn ELSE cached
    /\ Goto(t, "write", cached')
    /\ UNCHANGED <<setup, conn, tracker, delivered, faults>>

(* write_envelope: seal, then the length, then the frame.  cut is a write  *)
(* that the send timeout abandons half way: the counter has advanced.      *)
Written(c, t, cut) ==
    conn' = [conn EXCEPT ![c].send = next_nonce(@),
                         ![c].wire = Append(@, [msg |-> t, under |-> Seal(conn[c].send), cut |-> cut])]

(* The write goes through: to a peer that closed already it may too.       *)
Write(t) ==
    /\ task[t].at = "write"
    /\ Written(task[t].conn, t, FALSE)
    /\ Goto(t, "ok", NoConn)
    /\ UNCHANGED <<setup, cached, tracker, delivered, faults>>

(* The write fails on a closed stream or times out on a full one; one      *)
(* retry on a fresh connection.                                            *)
WriteFails(t) ==
    /\ task[t].at = "write"
    /\ \/ /\ conn[task[t].conn].server = "closed"
          /\ conn' = [conn EXCEPT ![task[t].conn].send = next_nonce(@)]
          /\ UNCHANGED faults
       \/ Fault /\ Written(task[t].conn, t, TRUE)
    /\ task' = [task EXCEPT ![t] = [at |-> IF @.retried THEN "err" ELSE "failed",
                                    conn |-> NoConn, retried |-> TRUE]]
    /\ UNCHANGED <<setup, cached, tracker, delivered>>

----------------------------------------------------------------------------
(* The acceptor.                                                           *)

Closed(c, t) ==
    /\ conn' = [conn EXCEPT ![c].server = "closed"]
    /\ tracker' = Dropped(t, c)

Shaking == Cardinality({c \in DOMAIN conn : conn[c].server = "shaking"})

(* server_handshake, first half: under a permit, answer an authorised peer.*)
ServerResponds(c) ==
    /\ conn[c].server = "admitted" /\ Shaking < MAX_HANDSHAKES
    /\ \/ /\ setup.me \in setup.trusted_by_peer
          /\ setup.encrypts.peer => setup.encrypts.me
          /\ conn' = [conn EXCEPT ![c].server = "shaking", ![c].answer = "sent"]
          /\ UNCHANGED tracker
       \/ /\ \/ setup.me \notin setup.trusted_by_peer
             \/ setup.encrypts.peer /\ ~setup.encrypts.me
          /\ Closed(c, tracker)
    /\ UNCHANGED <<setup, task, cached, delivered, faults>>

(* Second half, and the binding to the identity: older ones must close.    *)
ServerBinds(c) ==
    /\ conn[c].server = "shaking" /\ conn[c].final
    /\ \/ /\ ~tracker.banned
          /\ conn' = [d \in DOMAIN conn |->
                 CASE d = c -> [conn[d] EXCEPT !.server = "bound"]
                   [] d \in Superseded(tracker) -> [conn[d] EXCEPT !.close = TRUE]
                   [] OTHER -> conn[d]]
          /\ tracker' = bind_validator(tracker, c)
       \/ tracker.banned /\ Closed(c, tracker)
    /\ UNCHANGED <<setup, task, cached, delivered, faults>>

(* The meter's window may have run out before this frame.                  *)
Metered(r, fresh) ==
    LET n == (IF fresh THEN 0 ELSE r.frames) + 1 IN
    IF n > MAX_FRAMES THEN [r EXCEPT !.frames = 0, !.strikes = @ + 1]
    ELSE [r EXCEPT !.frames = n]

(* A frame opens under the key and the nonce it was sealed with; one that  *)
(* follows an abandoned write is read at the wrong boundary.               *)
Opens(c) ==
    /\ ~Head(conn[c].wire).cut
    /\ setup.encrypts.me => Head(conn[c].wire).under = Seal(conn[c].recv)

(* The first message is read before the close signal is looked at.         *)
Reading(c) ==
    conn[c].server = "bound" /\ (conn[c].first \/ ~conn[c].close)

Read(c) ==
    /\ Reading(c) /\ conn[c].wire # <<>> /\ Opens(c)
    /\ \E fresh \in BOOLEAN :
         LET r == Metered(conn[c], fresh)
             kept == r.strikes = conn[c].strikes \/ r.strikes < MAX_STRIKES
         IN /\ \/ /\ kept
                  /\ conn' = [conn EXCEPT ![c] =
                         [r EXCEPT !.first = FALSE, !.wire = Tail(@), !.recv = next_nonce(@)]]
                  /\ delivered' = Append(delivered, <<setup.me, Head(conn[c].wire).msg>>)
                  /\ UNCHANGED tracker
               \/ /\ ~kept
                  /\ Closed(c, [tracker EXCEPT !.banned = TRUE])
                  /\ UNCHANGED delivered
    /\ UNCHANGED <<setup, task, cached, faults>>

(* The connection ends: superseded, unreadable, at its end, or a timeout.  *)
ServerCloses(c) ==
    /\ \/ /\ conn[c].server = "bound" /\ conn[c].close /\ ~conn[c].first
          /\ UNCHANGED faults
       \/ /\ Reading(c) /\ conn[c].wire # <<>> /\ ~Opens(c)
          /\ (Head(conn[c].wire).cut => Len(conn[c].wire) > 1 \/ ~Held(c))
          /\ UNCHANGED faults
       \/ /\ Slot(c) /\ conn[c].wire = <<>> /\ ~Held(c) /\ ~conn[c].final
          /\ UNCHANGED faults
       \/ /\ Reading(c) /\ conn[c].wire = <<>> /\ ~Held(c)
          /\ UNCHANGED faults
       \/ Slot(c) /\ Fault
    /\ Closed(c, tracker)
    /\ UNCHANGED <<setup, task, cached, delivered>>

BanExpires ==
    /\ tracker.banned
    /\ tracker' = [tracker EXCEPT !.banned = FALSE]
    /\ UNCHANGED <<setup, task, cached, conn, delivered, faults>>

----------------------------------------------------------------------------
TransportNext ==
    \/ \E t \in Tasks : \/ Lookup(t) \/ RemoveCached(t) \/ Dial(t) \/ DialFails(t)
                        \/ client_handshake(t) \/ Insert(t) \/ Write(t) \/ WriteFails(t)
    \/ \E c \in DOMAIN conn : \/ ServerResponds(c) \/ ServerBinds(c)
                              \/ Read(c) \/ ServerCloses(c)
    \/ BanExpires

TransportSpec == TransportInit /\ [][TransportNext]_transportVars

----------------------------------------------------------------------------
(* The tracker's counts are the connections the peer really holds, and the *)
(* one bound to the identity is its newest: every older one still open has *)
(* been told to close (limits.rs: one connection per validator identity,   *)
(* slots freed on every way out).                                          *)
SlotsAreExact ==
    LET live == {c \in DOMAIN conn : Slot(c)}
        bound == {c \in DOMAIN conn : conn[c].server = "bound"}
        holder == Superseded(tracker)
    IN /\ tracker.total = Cardinality(live) /\ tracker.per_ip = tracker.total
       /\ holder \subseteq bound /\ Cardinality(holder) <= 1
       /\ \A c \in bound : c \in holder \/ conn[c].close
       /\ \A c \in holder : ~conn[c].close

(* No two frames of a session are sealed under one key and nonce, whether  *)
(* or not the write of the first went through, and a message is received   *)
(* at most once although a failed send is tried again.                     *)
DeliveredOnce ==
    /\ \A i, j \in DOMAIN delivered : delivered[i][2] = delivered[j][2] => i = j
    /\ \A c \in DOMAIN conn : \A i, j \in DOMAIN conn[c].wire :
           conn[c].wire[i].under = conn[c].wire[j].under => i = j

(* A connection that is used leads to the validator that the peer list     *)
(* names, on this node's network, with the encryption both ends want.      *)
CachedIsAuthentic ==
    cached # NoConn =>
        /\ setup.expected = setup.peer
        /\ setup.networks.me = setup.networks.peer
        /\ setup.encrypts.me = setup.encrypts.peer
        /\ setup.me \in setup.trusted_by_peer /\ setup.peer \in setup.trusted_by_me

(* Connections come and go, frames are lost and sends are tried again, but *)
(* the peer counts exactly the connections it holds, nothing is received   *)
(* twice or sealed twice under one nonce, and a connection that is used    *)
(* leads to the validator it was dialled for.                              *)
SessionsAreExact == SlotsAreExact /\ DeliveredOnce /\ CachedIsAuthentic

=============================================================================
