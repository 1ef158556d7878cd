----------------------------- MODULE Signatures -----------------------------
(***************************************************************************)
(* Signatures: the hybrid schemes of qchain-crypto, their use by a         *)
(* validator's key and by transactions, the registry of algorithms that    *)
(* governance changes, and the cache by which a node skips a verification. *)
(* Nodes execute one committed order, each at its own pace and with a      *)
(* cache of its own.                                                       *)
(*                                                                         *)
(* A byte string is a sequence of fields.  Signatures are unforgeable: the *)
(* bytes of one are the field that names its scheme, its key and what it   *)
(* is over.  A digest is the byte string hashed.                           *)
(***************************************************************************)
EXTENDS Naturals, Sequences, FiniteSets, SequencesExt

CONSTANTS
    Replicas,       \* nodes
    Envelopes,      \* transactions a client or a proposer may present
    CommitBatches,  \* what a certificate may carry: sequences of items
    KeyRequests,    \* what a validator's key may be asked to sign
    MAX_SIG_CACHE,
    MaxCommits      \* bound on the certificates executed

VARIABLES
    node,       \* per replica: cache, done, registry, nonce and verdicts
    order,      \* the committed batches
    made        \* [ask, over]: what the validator's key has signed, and when asked for what

signatureVars == <<node, order, made>>

----------------------------------------------------------------------------
(* qchain-crypto.                                                          *)

ED25519 == 1
ML_DSA_65 == 2
SLH_DSA == 3
Combos == {"hybrid", "triple"}

combo_components(combo) ==
    CASE combo = "hybrid" -> <<ED25519, ML_DSA_65>>
      [] combo = "triple" -> <<ED25519, ML_DSA_65, SLH_DSA>>

Schemes(components) == [i \in DOMAIN components |-> components[i].scheme]

combo_from_components(schemes) == {c \in Combos : combo_components(c) = schemes}

\* What to_address and hash feed the hash function, one component after another.
Fields(component) == <<[scheme |-> component.scheme]>> \o component.bytes

Hashed(components) == FlattenSeq([i \in DOMAIN components |-> Fields(components[i])])

to_address(bundle) == Hashed(bundle)

public_key_bundle(key) ==
    LET required == combo_components(key.combo)
    IN  [i \in DOMAIN required |->
           [scheme |-> required[i], bytes |-> <<[alg |-> required[i], key |-> key.name]>>]]

Proof(scheme, name, msg) == [alg |-> scheme, by |-> name, over |-> msg]

sign(key, msg) ==
    LET required == combo_components(key.combo)
    IN  [i \in DOMAIN required |->
           [scheme |-> required[i], bytes |-> <<Proof(required[i], key.name, msg)>>]]

verify_component(pk, msg, sig) ==
    /\ Len(pk.bytes) = 1 /\ pk.bytes[1].alg = pk.scheme
    /\ sig.bytes = <<Proof(pk.scheme, pk.bytes[1].key, msg)>>

\* Mutant: the components are checked until the first that verifies.
VerifyAny(bundle, msg, signature) ==
    /\ combo_from_components(Schemes(bundle)) # {}
    /\ \E i \in DOMAIN bundle \cap DOMAIN signature : verify_component(bundle[i], msg, signature[i])

verify(bundle, msg, signature) ==
    /\ combo_from_components(Schemes(bundle)) # {}
    /\ Schemes(signature) = Schemes(bundle)
    /\ \A i \in DOMAIN bundle : verify_component(bundle[i], msg, signature[i])

InDomain(domain, msg) == <<[domain |-> domain]>> \o msg
sign_domain(key, domain, msg) == sign(key, InDomain(domain, msg))
verify_domain(bundle, domain, msg, signature) == verify(bundle, InDomain(domain, msg), signature)

----------------------------------------------------------------------------
(* The validator's key.                                                    *)

\* The messages of the `Signer` trait: votes of a vertex, checkpoints of a state,
\* certificates of a network key.  A handshake's transcript carries its domain.
SignedBytes(ask) ==
    CASE ask.op = "vote" ->
           InDomain("VERTEX_VOTE_V1", <<[chain |-> ask.chain], [id |-> ask.digest]>>)
      [] ask.op = "checkpoint" ->
           InDomain("STATE_CHECKPOINT_V1", <<[chain |-> ask.chain], [round |-> ask.round], [id |-> ask.root]>>)
      [] ask.op = "cert" ->
           InDomain("NETWORK_KEY_CERT_V1", <<[chain |-> ask.chain], [id |-> ask.validator], [id |-> ask.addr]>>)
      [] ask.op = "handshake" -> ask.transcript

\* sign_network_handshake takes a transcript of its domain only.
sign_network_handshake(ask) ==
    ask.op = "handshake" => ask.transcript # <<>> /\ Head(ask.transcript) = [domain |-> "P2P_AUTH_V1"]

SignerSigns(ask) ==
    /\ sign_network_handshake(ask)
    /\ made' = made \union {[ask |-> ask, over |-> SignedBytes(ask)]}
    /\ UNCHANGED <<node, order>>

----------------------------------------------------------------------------
(* Transactions.                                                           *)

TxBytes(message) == <<[message |-> message]>>

new_signed_full(key, nonce, chain, version) ==
    LET message == [version |-> version, payer |-> to_address(public_key_bundle(key)),
                    payer_keys |-> public_key_bundle(key), nonce |-> nonce, chain |-> chain]
    IN  [message |-> message, signature |-> sign_domain(key, "TX_SIG_V1", TxBytes(message))]

verify_signature(tx) ==
    /\ to_address(tx.message.payer_keys) = tx.message.payer
    /\ verify_domain(tx.message.payer_keys, "TX_SIG_V1", TxBytes(tx.message), tx.signature)

\* Transaction::hash: the message and the signature's components one after another.
TxHash(tx) == TxBytes(tx.message) \o Hashed(tx.signature)

----------------------------------------------------------------------------
(* The cache of verified transactions.                                     *)

\* SigVerifyCache::insert: first in, first out.
CacheInsert(cache, h) ==
    IF Contains(cache, h) THEN cache
    ELSE LET longer == Append(cache, h)
         IN  IF Len(longer) > MAX_SIG_CACHE THEN Tail(longer) ELSE longer

\* submit_transaction and the gossip of a transaction, as far as they verify;
\* Mempool has the rest.
AdmitTransaction(n, tx) ==
    /\ tx.message.chain = "this" /\ tx.message.version = 1
    /\ ~Contains(node[n].cache, TxHash(tx))
    /\ verify_signature(tx)
    /\ node' = [node EXCEPT ![n].cache = CacheInsert(@, TxHash(tx))]
    /\ UNCHANGED <<order, made>>

Verdict(cache, tx) == Contains(cache, TxHash(tx)) \/ verify_signature(tx)

\* Only a verification that succeeds is remembered.
CacheVerified(cache, tx) == IF verify_signature(tx) THEN CacheInsert(cache, TxHash(tx)) ELSE cache

\* verify_signatures_cached: every hit is found before anything is inserted.
verify_signatures_cached(cache, txs) ==
    [verdicts |-> [i \in DOMAIN txs |-> Verdict(cache, txs[i])],
     cache |-> FoldLeft(CacheVerified, cache, SelectSeq(txs, LAMBDA t : ~Contains(cache, TxHash(t))))]

----------------------------------------------------------------------------
(* The registry of algorithms.                                             *)

genesis_registry ==
    [s \in {ED25519, ML_DSA_65} |-> [status |-> "active", activation |-> 0]]

\* Registered, active by now and not retired.
InUse(registry, scheme, round) ==
    /\ scheme \in DOMAIN registry
    /\ registry[scheme].status # "retired"
    /\ round >= registry[scheme].activation

\* Ledger::check_registry_status
check_registry_status(registry, tx, fresh, round) ==
    \E combo \in combo_from_components(Schemes(tx.message.payer_keys)) :
       \A scheme \in ToSet(combo_components(combo)) :
          /\ InUse(registry, scheme, round)
          /\ fresh => registry[scheme].status # "deprecated"

\* wasm.rs: a contract names the account it takes for the registry.
scheme_acceptable(registry, check, round) ==
    check.registry = "canonical" /\ InUse(registry, check.scheme, round)

host_verify_signature(registry, check, round) ==
    /\ scheme_acceptable(registry, check, round)
    /\ verify_component([scheme |-> check.scheme, bytes |-> <<[alg |-> check.scheme, key |-> check.key]>>],
                        check.msg, [bytes |-> check.sig])

----------------------------------------------------------------------------
(* Execution of the committed order.                                       *)

\* A transaction of the batch, after its signature's verdict: the engine's check
\* of the chain and the ledger's of the algorithms, the version and the nonce.
Outcome(r, tx, ok, round) ==
    LET nonce == r.nonce[tx.message.payer]
    IN  CASE ~ok -> "signature"
          [] tx.message.chain # "this" -> "chain"
          [] ~check_registry_status(r.registry, tx, nonce = 0, round) -> "algorithm"
          [] tx.message.version # 1 -> "version"
          [] nonce # tx.message.nonce -> "nonce"
          [] OTHER -> "ok"

Told(r, item, result) == [r EXCEPT !.verdicts = Append(@, [item |-> item, result |-> result])]

\* One item; a change of the registry is a governance proposal that has passed.
ApplyItem(r, item, ok, round) ==
    CASE item.kind = "tx" ->
           LET result == Outcome(r, item.tx, ok, round)
           IN  [Told(r, item, result) EXCEPT !.nonce[item.tx.message.payer] =
                  IF result = "ok" THEN @ + 1 ELSE @]
      [] item.kind = "change" ->
           [Told(r, item, "ok") EXCEPT !.registry =
              [s \in DOMAIN @ \union {item.scheme} |-> IF s = item.scheme THEN item.entry ELSE @[s]]]
      [] item.kind = "check" ->
           Told(r, item, IF host_verify_signature(r.registry, item, round) THEN "ok" ELSE "no")

Txs(batch) ==
    LET items == SelectSeq(batch, LAMBDA x : x.kind = "tx")
    IN  [i \in DOMAIN items |-> items[i].tx]

CommitBatch(batch) ==
    /\ Len(order) < MaxCommits
    /\ order' = Append(order, batch)
    /\ UNCHANGED <<node, made>>

\* try_commit on the next certificate: every signature first, then item by item.
ExecuteBatch(n) ==
    LET r     == node[n]
        batch == order[r.done + 1]
        known == verify_signatures_cached(r.cache, Txs(batch))
        Nth(i) == Cardinality({j \in 1 .. i : batch[j].kind = "tx"})
        Step(s, i) == ApplyItem(s, batch[i], batch[i].kind = "tx" => known.verdicts[Nth(i)], r.done + 1)
    IN  /\ r.done < Len(order)
        /\ node' = [node EXCEPT ![n] =
                     FoldLeft(Step, [r EXCEPT !.done = @ + 1, !.cache = known.cache],
                              [i \in DOMAIN batch |-> i])]
        /\ UNCHANGED <<order, made>>

\* A restart loses the cache.
LoseCache(n) ==
    /\ node[n].cache # <<>>
    /\ node' = [node EXCEPT ![n].cache = <<>>]
    /\ UNCHANGED <<order, made>>

SignaturesInit ==
    /\ node = [n \in Replicas |->
                [cache |-> <<>>, done |-> 0, registry |-> genesis_registry,
                 nonce |-> [a \in {e.message.payer : e \in Envelopes} |-> 0], verdicts |-> <<>>]]
    /\ order = <<>>
    /\ made = {}

KeyNext == \E ask \in KeyRequests : SignerSigns(ask)

OrderNext ==
    \/ \E n \in Replicas, tx \in Envelopes : AdmitTransaction(n, tx)
    \/ \E batch \in CommitBatches : CommitBatch(batch)
    \/ \E n \in Replicas : ExecuteBatch(n) \/ LoseCache(n)

SignaturesSpec == SignaturesInit /\ [][KeyNext \/ OrderNext]_signatureVars

----------------------------------------------------------------------------
(* Properties.                                                             *)

\* The payer's key has signed the message in every scheme of its combination.
Authorised(tx) ==
    \A i \in DOMAIN tx.message.payer_keys :
       LET pk == tx.message.payer_keys[i]
       IN  Contains(Hashed(tx.signature),
                    Proof(pk.scheme, pk.bytes[1].key, InDomain("TX_SIG_V1", TxBytes(tx.message))))

\* Schemes the order has retired before its item i.
RetiredBefore(verdicts, i) ==
    {s \in 1 .. SLH_DSA :
       \E j \in 1 .. i - 1 :
          /\ verdicts[j].item.kind = "change" /\ verdicts[j].item.scheme = s
          /\ verdicts[j].item.entry.status = "retired"
          /\ \A k \in j + 1 .. i - 1 :
               verdicts[k].item.kind = "change" => verdicts[k].item.scheme # s}

\* Admission, cache and execution together: a transaction takes effect only if
\* its payer's key has signed it in every scheme, and none of them has been
\* retired, however early it was admitted or its verification remembered.  A
\* contract takes no signature of a retired scheme for valid either.
AuthorisedOnly ==
    \A n \in Replicas : \A i \in DOMAIN node[n].verdicts :
       LET v == node[n].verdicts[i]
       IN  v.result = "ok" /\ v.item.kind # "change" =>
             IF v.item.kind = "tx"
             THEN /\ Authorised(v.item.tx)
                  /\ ToSet(Schemes(v.item.tx.message.payer_keys)) \cap RetiredBefore(node[n].verdicts, i) = {}
             ELSE /\ v.item.scheme \notin RetiredBefore(node[n].verdicts, i)
                  /\ v.item.sig[1].by = v.item.key

\* The domains: a signature of the validator's key that verifies as a vote, a
\* checkpoint, a certificate or a handshake was asked for as that, with those
\* contents, although the key signs transcripts that others have a hand in.
NoForeignUse ==
    \A s \in made : \A claim \in KeyRequests :
       SignedBytes(claim) = s.over /\ sign_network_handshake(claim) => s.ask = claim

=============================================================================
