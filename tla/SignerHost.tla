----------------------------- MODULE SignerHost -----------------------------
(***************************************************************************)
(* What surrounds the double-sign guard of Signer: how the key is kept and *)
(* how the daemon starts from it (keystore.rs and the daemon's main), the  *)
(* authenticated channel between node and daemon, the daemon's policy, and *)
(* the node's start, which asks the daemon how it keeps its key.           *)
(*                                                                         *)
(* Nonces are fresh, so the number of the connection stands for both; a    *)
(* tag, a session key and a frame's MAC are the tuple of what is hashed.   *)
(* The guard's own verdict is Signer's subject and is left open here.      *)
(***************************************************************************)
EXTENDS Naturals, Sequences, FiniteSets, SequencesExt

CONSTANTS
    HostOptions,    \* command lines the daemon may be started with
    NodeOptions,    \* configurations the node may be started with
    SignRequests,   \* signatures the node may ask for
    Passphrases,
    MAX_SIGNS,      \* --max-signs-per-window
    WINDOW,         \* --rate-window-secs
    MaxCounter,     \* bound on the keystore's counter
    MaxTime,        \* bound on the clock
    MaxConns,       \* bound on the connections
    MaxBoots,       \* bound on the daemon's starts
    MaxAsked,       \* bound on the requests
    MaxMishaps      \* bound on crashes and wire faults

VARIABLES
    custody,    \* at: the file of --keypair; guard: the RollbackGuard's file
    host,       \* the daemon
    link,       \* used: connections opened; c2s, s2c: bytes under way on each
    client,     \* the node's RemoteSigner and how far the node's start has come
    clock,
    trail       \* history: counters run from, signatures, answers, frames sent and served

hostVars == <<custody, host, link, client, clock, trail>>

NoCounter == MaxCounter + 1
Plain == [form |-> "plain", pass |-> "none", counter |-> NoCounter]
Torn  == [form |-> "torn", pass |-> "none", counter |-> NoCounter]
Keystore(pass, n) == [form |-> "keystore", pass |-> pass, counter |-> n]

NoSession == [key |-> <<>>, send |-> 0, recv |-> 0]
NoAsk == [n |-> 0, kind |-> "none", chain |-> "none", fit |-> FALSE]
HostDown == [up |-> FALSE, boot |-> 0, token |-> "none", backed |-> FALSE, counter |-> NoCounter,
         bound |-> FALSE, limited |-> FALSE, recent |-> <<>>, next |-> 1, serving |-> 0,
         ready |-> FALSE, sess |-> NoSession]
Away == [phase |-> "down", token |-> "none", mainnet |-> FALSE, leftover |-> FALSE,
         conn |-> 0, ready |-> FALSE, sess |-> NoSession, asking |-> NoAsk, sent |-> FALSE,
         attempt |-> 1]

HostInit ==
    /\ custody = [at |-> Plain, guard |-> NoCounter]
    /\ host = HostDown
    /\ link = [used |-> 0, c2s |-> [c \in 1 .. MaxConns |-> <<>>],
               s2c |-> [c \in 1 .. MaxConns |-> <<>>]]
    /\ client = Away
    /\ clock = 0
    /\ trail = [ran |-> {}, signs |-> <<>>, taken |-> {}, asked |-> 0, mishaps |-> 0,
                sent |-> [c \in 1 .. MaxConns |-> <<>>], served |-> [c \in 1 .. MaxConns |-> <<>>]]

Mishap == trail.mishaps < MaxMishaps

----------------------------------------------------------------------------
(* The key at rest.                                                        *)

\* `qchain keystore-encrypt` writes a keystore to the path the daemon reads, or the
\* operator copies one there, a newer or an older one.  The file is read at the
\* daemon's start only.
KeystoreEncrypt(pass, n) ==
    /\ ~host.up
    /\ custody.at # Keystore(pass, n)
    /\ custody' = [custody EXCEPT !.at = Keystore(pass, n)]
    /\ UNCHANGED <<host, link, client, clock, trail>>

\* write_keystore_file truncates before it writes.
KeystoreTorn ==
    /\ ~host.up /\ Mishap
    /\ custody.at # Torn
    /\ custody' = [custody EXCEPT !.at = Torn]
    /\ trail' = [trail EXCEPT !.mishaps = @ + 1]
    /\ UNCHANGED <<host, link, client, clock>>

is_keystore_file(f) == f.form = "keystore"

\* The AEAD opens under the key of the passphrase it was sealed with.
decrypt_keystore(f, pass) == pass = f.pass

read_keypair_file(f) == f.form = "plain"

read_keypair_or_keystore(f, pass) ==
    IF is_keystore_file(f) THEN decrypt_keystore(f, pass) ELSE read_keypair_file(f)

\* Mutant: the counter is compared with nothing.
AcceptsAnyCounter(guard, n) == TRUE

\* RollbackGuard::check_and_record
AcceptsCounter(guard, n) == guard = NoCounter \/ n >= guard

Recorded(guard, n) == n

\* The daemon's main, in its order: passphrase, rollback guard, key, token,
\* address, --require-keystore.  The counter is on record before the key is read.
BootDaemon(o) ==
    LET f       == custody.at
        guarded == o.pass # "empty" /\ is_keystore_file(f)
        kept    == guarded => AcceptsCounter(custody.guard, f.counter)
        starts  == /\ o.pass # "empty" /\ kept /\ read_keypair_or_keystore(f, o.pass)
                   /\ o.token # "empty"
                   /\ o.loopback \/ o.allow_non_loopback
                   /\ o.require_keystore => is_keystore_file(f)
    IN  /\ ~host.up
        /\ host.boot < MaxBoots
        /\ custody' = IF guarded /\ kept
                      THEN [custody EXCEPT !.guard = Recorded(custody.guard, f.counter)]
                      ELSE custody
        /\ host' = IF starts
                   THEN [HostDown EXCEPT !.up = TRUE, !.boot = host.boot + 1, !.token = o.token,
                                     !.backed = is_keystore_file(f), !.counter = f.counter,
                                     !.bound = o.chain, !.limited = o.limit,
                                     !.next = link.used + 1]
                   ELSE [host EXCEPT !.boot = @ + 1]
        /\ trail' = IF starts /\ is_keystore_file(f)
                    THEN [trail EXCEPT !.ran = @ \union {f.counter}] ELSE trail
        /\ UNCHANGED <<link, client, clock>>

StopDaemon ==
    /\ host.up /\ Mishap
    /\ host' = [HostDown EXCEPT !.boot = host.boot]
    /\ trail' = [trail EXCEPT !.mishaps = @ + 1]
    /\ UNCHANGED <<custody, link, client, clock>>

----------------------------------------------------------------------------
(* The channel.                                                            *)

auth_tag(token, server, nonce) == <<"auth", token, server, nonce>>
derive_session_key(token, server, nonce) == <<"session", token, server, nonce>>

frame_mac(key, dir, seq, body) == <<key, dir, seq, body>>

\* send_frame and recv_frame; without a session a frame is its body.
Sealed(s, dir, body) ==
    [body |-> body, mac |-> IF s = NoSession THEN <<>> ELSE frame_mac(s.key, dir, s.send, body)]
Opens(s, dir, frame) ==
    s = NoSession \/ frame.mac = frame_mac(s.key, dir, s.recv, frame.body)
SentOne(s) == IF s = NoSession THEN s ELSE [s EXCEPT !.send = @ + 1]
TookOne(s) == IF s = NoSession THEN s ELSE [s EXCEPT !.recv = @ + 1]

OnWire(way, c, f) == [way EXCEPT ![c] = Append(@, f)]
Took(way, c) == [way EXCEPT ![c] = Tail(@)]

\* The node's half of the connection is gone.
Broken(c) == ~host.up \/ (c # host.serving /\ c < host.next)

\* `request` without a connection; `dial` up to the connect.
Dial ==
    /\ client.asking # NoAsk /\ client.conn = 0
    /\ host.up /\ link.used < MaxConns
    /\ link' = [link EXCEPT !.used = @ + 1]
    /\ client' = [client EXCEPT !.conn = link.used + 1, !.ready = FALSE, !.sess = NoSession,
                                !.sent = FALSE]
    /\ UNCHANGED <<custody, host, clock, trail>>

\* serve takes the next connection of the listener once it is done with the last.
Accept ==
    /\ host.up /\ host.serving = 0 /\ host.next <= link.used
    /\ host' = [host EXCEPT !.serving = host.next, !.next = @ + 1, !.sess = NoSession,
                            !.ready = (host.token = "none")]
    /\ link' = [link EXCEPT !.s2c =
                 OnWire(@, host.next, [body |-> [challenge |-> host.token # "none"], mac |-> <<>>])]
    /\ UNCHANGED <<custody, client, clock, trail>>

\* How a request that cannot be answered leaves the node: key_security has no
\* answer, and the start goes on to its gate; GetBundle ends the start.
RequestFailed(cl) ==
    [cl EXCEPT !.asking = NoAsk, !.sent = FALSE, !.conn = 0, !.ready = FALSE,
               !.sess = NoSession, !.attempt = 1,
               !.phase = CASE cl.asking.kind = "bundle" -> "refused"
                           [] cl.asking.kind = "security" ->
                                IF cl.mainnet THEN "refused" ELSE "serving"
                           [] OTHER -> cl.phase]

\* `request` drops the connection on an error and tries once more.
Retried(cl) ==
    IF cl.attempt = 1
    THEN [cl EXCEPT !.attempt = 2, !.sent = FALSE, !.conn = 0, !.ready = FALSE,
                    !.sess = NoSession]
    ELSE RequestFailed(cl)

\* `dial` fails, and the request with it, at whichever attempt.
DialFails ==
    /\ client.asking # NoAsk
    /\ \/ client.conn = 0 /\ ~host.up
       \/ client.conn # 0 /\ ~client.ready /\ Broken(client.conn)
    /\ client' = RequestFailed(client)
    /\ UNCHANGED <<custody, host, link, clock, trail>>

\* The end of `dial`: the answer to the challenge, if one is required.
TakeChallenge ==
    LET c == client.conn
        required == Head(link.s2c[c]).body.challenge
    IN  /\ c # 0 /\ ~client.ready /\ link.s2c[c] # <<>>
        /\ IF required /\ client.token = "none"
           THEN /\ client' = RequestFailed(client)
                /\ link' = [link EXCEPT !.s2c = Took(@, c)]
           ELSE /\ client' = [client EXCEPT !.ready = TRUE, !.sess =
                               IF ~required THEN NoSession
                               ELSE [NoSession EXCEPT !.key = derive_session_key(client.token, c, c)]]
                /\ link' = [link EXCEPT !.s2c = Took(@, c), !.c2s =
                             IF ~required THEN @
                             ELSE OnWire(@, c, [body |-> [tag |-> auth_tag(client.token, c, c)], mac |-> <<>>])]
        /\ UNCHANGED <<custody, host, clock, trail>>

\* handle_conn checks the tag, and closes without serving when it differs.
CheckTag ==
    LET c == host.serving
    IN  /\ c # 0 /\ ~host.ready /\ link.c2s[c] # <<>>
        /\ link' = [link EXCEPT !.c2s = Took(@, c)]
        /\ host' = IF "tag" \in DOMAIN Head(link.c2s[c]).body
                      /\ Head(link.c2s[c]).body.tag = auth_tag(host.token, c, c)
                   THEN [host EXCEPT !.ready = TRUE,
                          !.sess = [NoSession EXCEPT !.key = derive_session_key(host.token, c, c)]]
                   ELSE [host EXCEPT !.serving = 0]
        /\ UNCHANGED <<custody, client, clock, trail>>

SendRequest ==
    LET c == client.conn
    IN  /\ c # 0 /\ client.ready /\ client.asking # NoAsk /\ ~client.sent
        /\ link' = [link EXCEPT !.c2s = OnWire(@, c, Sealed(client.sess, "c2s", client.asking))]
        /\ client' = [client EXCEPT !.sent = TRUE, !.sess = SentOne(@)]
        /\ trail' = [trail EXCEPT !.sent[c] = Append(@, client.asking.n)]
        /\ UNCHANGED <<custody, host, clock>>

----------------------------------------------------------------------------
(* The daemon's policy and its answers.                                    *)

Free == {"bundle", "security"}

\* Requests still in the window: allow_at drops the others from the front.
Recent == SelectSeq(host.recent, LAMBDA t : clock - t < WINDOW)

\* RateLimiter::allow_at
allow_at(recent) == ~host.limited \/ Len(recent) < MAX_SIGNS

\* Requests that carry a chain id.
NamesChain(req) == req.kind \in {"own", "peer", "checkpoint", "cert"}

WrongChain(req) == host.bound /\ NamesChain(req) /\ req.chain # "this"

\* respond: what the request's body must be, and the guard.  `fit`: the vertex of
\* a peer vote is well formed and not the signer's own, a transcript has its domain.
Signs(req, guard) ==
    CASE req.kind \in {"own", "checkpoint"}    -> guard
      [] req.kind \in {"peer", "handshake"}    -> req.fit
      [] OTHER                                 -> TRUE

Answer(req, says) == [n |-> req.n, says |-> says]

\* respond_with_policy on the next frame of the connection, and the answer's frame.
Serve(guard) ==
    LET c    == host.serving
        f    == Head(link.c2s[c])
        req  == f.body
        free == req.kind \in Free
        pass == free \/ allow_at(Recent)
        says == CASE ~pass                 -> "refused"
                  [] WrongChain(req)       -> "refused"
                  [] req.kind = "security" -> IF host.backed THEN "encrypted" ELSE "plaintext"
                  [] req.kind = "bundle"   -> "bundle"
                  [] OTHER                 -> IF Signs(req, guard) THEN "signature" ELSE "refused"
    IN  /\ c # 0 /\ host.ready /\ link.c2s[c] # <<>>
        /\ Opens(host.sess, "c2s", f)
        /\ host' = [host EXCEPT !.sess = SentOne(TookOne(@)),
                                !.recent = IF free THEN @
                                           ELSE IF pass THEN Append(Recent, clock) ELSE Recent]
        /\ link' = [link EXCEPT !.c2s = Took(@, c),
                                !.s2c = OnWire(@, c, Sealed(host.sess, "s2c", Answer(req, says)))]
        /\ trail' = [trail EXCEPT !.served[c] = Append(@, req.n),
                      !.signs = IF says = "signature"
                                THEN Append(@, [at |-> clock, boot |-> host.boot, limited |-> host.limited,
                                                bound |-> host.bound, req |-> req])
                                ELSE @]
        /\ UNCHANGED <<custody, client, clock>>

\* A frame whose MAC does not fit ends the connection, as the end of the node's
\* half and ten idle seconds do.
CloseConn ==
    LET c == host.serving
    IN  /\ c # 0
        /\ \/ link.c2s[c] = <<>>
           \/ host.ready /\ link.c2s[c] # <<>> /\ ~Opens(host.sess, "c2s", Head(link.c2s[c]))
        /\ host' = [host EXCEPT !.serving = 0]
        /\ UNCHANGED <<custody, link, client, clock, trail>>

----------------------------------------------------------------------------
(* The node.                                                               *)

Request(kind, chain, fit) ==
    [n |-> trail.asked + 1, kind |-> kind, chain |-> chain, fit |-> fit]

Asks(req, cl) ==
    /\ trail.asked < MaxAsked
    /\ client' = [cl EXCEPT !.asking = req, !.sent = FALSE, !.attempt = 1]
    /\ trail' = [trail EXCEPT !.asked = @ + 1]
    /\ UNCHANGED <<custody, host, link, clock>>

\* The node's main: connect_with_token asks for the bundle.
BootNode(o) ==
    /\ client.phase \in {"down", "refused"}
    /\ Asks(Request("bundle", "none", FALSE),
            [Away EXCEPT !.phase = "bundle", !.token = o.token, !.mainnet = o.mainnet,
                         !.leftover = o.leftover])

\* key_security, on a connection of its own.
AskSecurity ==
    /\ client.phase = "security" /\ client.asking = NoAsk
    /\ Asks(Request("security", "none", FALSE), client)

AskSignature(r) ==
    /\ client.phase = "serving" /\ client.asking = NoAsk
    /\ Asks(Request(r.kind, r.chain, r.fit), client)

\* validate_key_at_rest
validate_key_at_rest(cl, says) == ~cl.mainnet \/ (~cl.leftover /\ says = "encrypted")

\* What the answer to each request leads to.
Answered(cl, says) ==
    LET done == [cl EXCEPT !.asking = NoAsk, !.sent = FALSE, !.attempt = 1, !.sess = TookOne(@)]
    IN  CASE cl.asking.kind = "bundle" ->
               [done EXCEPT !.phase = IF says = "bundle" THEN "security" ELSE "refused",
                            !.conn = 0, !.ready = FALSE, !.sess = NoSession]
          [] cl.asking.kind = "security" ->
               [done EXCEPT !.phase = IF validate_key_at_rest(cl, says) THEN "serving" ELSE "refused"]
          [] OTHER -> done

\* The answer of the daemon, or an error of the connection.
Receive ==
    LET c == client.conn
        f == Head(link.s2c[c])
        fits == /\ Opens(client.sess, "s2c", f)
                /\ "says" \in DOMAIN f.body
    IN  /\ c # 0 /\ client.sent /\ link.s2c[c] # <<>>
        /\ link' = [link EXCEPT !.s2c = Took(@, c)]
        /\ client' = IF fits THEN Answered(client, f.body.says) ELSE Retried(client)
        /\ trail' = IF fits
                    THEN [trail EXCEPT !.taken = @ \union
                           {[asked |-> client.asking.n, answer |-> f.body.n,
                             sealed |-> client.sess # NoSession]}]
                    ELSE trail
        /\ UNCHANGED <<custody, host, clock>>

ConnectionEnds ==
    /\ client.conn # 0 /\ client.ready /\ client.asking # NoAsk
    /\ Broken(client.conn) /\ link.s2c[client.conn] = <<>>
    /\ client' = Retried(client)
    /\ UNCHANGED <<custody, host, link, clock, trail>>

\* IO_TIMEOUT passes although both processes live.
ReadTimesOut ==
    /\ Mishap
    /\ client.sent
    /\ client' = Retried(client)
    /\ trail' = [trail EXCEPT !.mishaps = @ + 1]
    /\ UNCHANGED <<custody, host, link, clock>>

----------------------------------------------------------------------------
(* The wire: a frame comes twice, not at all, or back to where it was sent. *)

WireFault(c) ==
    /\ Mishap
    /\ trail' = [trail EXCEPT !.mishaps = @ + 1]
    /\ \/ /\ link.c2s[c] # <<>>
          /\ link' = [link EXCEPT !.c2s[c] = <<Head(@)>> \o @]
       \/ /\ link.s2c[c] # <<>>
          /\ link' = [link EXCEPT !.s2c[c] = <<Head(@)>> \o @]
       \/ /\ Len(link.c2s[c]) > 0
          /\ link' = [link EXCEPT !.s2c[c] = Append(@, Head(link.c2s[c])), !.c2s[c] = Tail(@)]
       \/ /\ Len(link.s2c[c]) > 0
          /\ link' = [link EXCEPT !.s2c[c] = Tail(@)]
    /\ UNCHANGED <<custody, host, client, clock>>

Tick ==
    /\ host.recent # <<>>
    /\ clock < MaxTime
    /\ clock' = clock + 1
    /\ UNCHANGED <<custody, host, link, client, trail>>

HostNext ==
    \/ \E p \in Passphrases, n \in 0 .. MaxCounter : KeystoreEncrypt(p, n)
    \/ KeystoreTorn
    \/ \E o \in HostOptions : BootDaemon(o)
    \/ StopDaemon
    \/ Dial \/ Accept \/ DialFails \/ TakeChallenge \/ CheckTag \/ SendRequest
    \/ \E g \in BOOLEAN : Serve(g)
    \/ CloseConn
    \/ \E o \in NodeOptions : BootNode(o)
    \/ AskSecurity
    \/ \E r \in SignRequests : AskSignature(r)
    \/ Receive \/ ConnectionEnds \/ ReadTimesOut
    \/ \E c \in 1 .. MaxConns : WireFault(c)
    \/ Tick

----------------------------------------------------------------------------
(* Properties.                                                             *)

\* The RollbackGuard: whatever copies the operator puts in place and however
\* starts fail on the way, a daemon never runs from a keystore older than one
\* that a daemon has run from.
NeverOlderKey == host.up /\ host.backed => \A n \in trail.ran : n <= host.counter

\* The session's MACs and sequence numbers: over a wire that repeats, loses and
\* returns frames, and over retries, an authenticated node takes for the answer
\* to a request only the answer to it, and the daemon serves a connection's
\* requests as they were sent, each at most once.
ChannelIsExact ==
    /\ \A t \in trail.taken : t.sealed => t.asked = t.answer
    /\ \A c \in 1 .. MaxConns :
         c = host.serving /\ host.sess # NoSession => IsPrefix(trail.served[c], trail.sent[c])

\* The policy: in no window does one daemon sign more than it may, over all its
\* connections, and bound to a chain it signs nothing that names another.
PolicyHolds ==
    /\ \A t \in 0 .. MaxTime, b \in 1 .. host.boot :
         Cardinality({i \in DOMAIN trail.signs :
                        /\ trail.signs[i].boot = b /\ trail.signs[i].limited
                        /\ trail.signs[i].at \in t .. t + WINDOW - 1}) <= MAX_SIGNS
    /\ \A i \in DOMAIN trail.signs :
         LET s == trail.signs[i]
         IN  s.bound /\ s.req.kind \in {"own", "peer", "checkpoint", "cert"} => s.req.chain = "this"

=============================================================================
