------------------------------ MODULE MCServices ------------------------------
(***************************************************************************)
(* Instances of the services of a node that share no variable: rotation of *)
(* the committee, transport, the account store, the log, rate limits,      *)
(* transaction previews, the uses of a validator's key and the verdicts on *)
(* signatures.  A behaviour exercises the one that part names while the    *)
(* others rest.                                                            *)
(***************************************************************************)
EXTENDS Epochs, Transport, Store, Rpc, Signatures

CONSTANT Parts

VARIABLE part

serviceVars == <<epochVars, transportVars, databaseVars, limitVars, simVars, signatureVars, part>>

(* Epochs: the set of validators turns over twice.                         *)
Cert(r, l, j, v) == [round |-> r, leader |-> l, joins |-> j, leaves |-> v]

mcOrder ==
    <<Cert(0, 1, {"d"}, {}), Cert(1, 2, {}, {"a"}), Cert(2, 3, {}, {}),
      Cert(3, 5, {}, {"b", "c", "d"}), Cert(5, 5, {"e"}, {})>>

(* Transport: who is expected and trusted, the networks, who encrypts.     *)
Pair(expected, mine, theirs, networks, encrypts) ==
    [me |-> "m", expected |-> expected, peer |-> "p",
     trusted_by_me |-> mine, trusted_by_peer |-> theirs,
     networks |-> networks, encrypts |-> encrypts]
Both(x, y) == [me |-> x, peer |-> y]

mcSetups ==
    { Pair("p", {"p", "q"}, {"m"}, Both(1, 1), Both(TRUE, TRUE)),
      Pair("p", {"p"}, {"m"}, Both(1, 1), Both(FALSE, FALSE)),
      Pair("q", {"p", "q"}, {"m"}, Both(1, 1), Both(TRUE, TRUE)),
      Pair("p", {"q"}, {"m"}, Both(1, 1), Both(TRUE, TRUE)),
      Pair("p", {"p"}, {}, Both(1, 1), Both(TRUE, TRUE)),
      Pair("p", {"p"}, {"m"}, Both(1, 2), Both(TRUE, TRUE)),
      Pair("p", {"p"}, {"m"}, Both(1, 1), Both(TRUE, FALSE)),
      Pair("p", {"p"}, {"m"}, Both(1, 1), Both(FALSE, TRUE)) }

(* Rate limits: two addresses, two identifiers and two payers, overlapping.*)
mcCalls ==
    { [rpc |-> i, ip |-> i, txid |-> t, payer |-> p, global |-> "all"] :
        <<i, t, p>> \in {<<"i1", "t1", "p1">>, <<"i2", "t1", "p1">>, <<"i1", "t2", "p2">>} }

(* Previews: two requests for one transaction and one for another.         *)
mcTxOf == [r \in Requests |-> IF r = "r3" THEN "y" ELSE "x"]

(* Signatures: a payer of each combination; envelopes that are not signed  *)
(* by the payer, by half of its keys, for another network or version.      *)
Key(n, c) == [name |-> n, combo |-> c]
Signed(k, nonce) == new_signed_full(k, nonce, "this", 1)
KeyA == Key("a", "hybrid")
PayA == Signed(KeyA, 0)
PayT == Signed(Key("t", "triple"), 0)
NotByA == [PayA EXCEPT !.signature = Signed(Key("b", "hybrid"), 0).signature]
HalfByA == [PayA EXCEPT !.signature = <<Head(@), Signed(Key("b", "hybrid"), 0).signature[2]>>]

Carries(tx) == [kind |-> "tx", tx |-> tx]
Sets(s, status, from) ==
    [kind |-> "change", scheme |-> s, entry |-> [status |-> status, activation |-> from]]
Checks(s, account, by) ==
    [kind |-> "check", scheme |-> s, key |-> "a", registry |-> account, msg |-> <<>>,
     sig |-> <<Proof(s, by, <<>>)>>]

mcStrays ==
    <<NotByA, new_signed_full(KeyA, 0, "other", 1), new_signed_full(KeyA, 0, "this", 2), Signed(KeyA, 1)>>
mcEnvelopes == {PayA, PayT, HalfByA} \cup ToSet(mcStrays)
mcLooks ==
    <<Checks(ML_DSA_65, "canonical", "a"), Checks(ML_DSA_65, "other", "a"), Checks(ED25519, "canonical", "b")>>
mcBatches ==
    { <<Carries(PayA)>>, <<Carries(PayT)>>, <<Carries(HalfByA), Carries(PayA), Carries(HalfByA)>>,
      [i \in DOMAIN mcStrays |-> Carries(mcStrays[i])], mcLooks,
      <<Sets(SLH_DSA, "active", 2), Carries(PayT)>>,
      <<Sets(ML_DSA_65, "retired", 0), Carries(PayA)>> \o mcLooks,
      <<Sets(ED25519, "deprecated", 0), Carries(PayT), Carries(Signed(KeyA, 1))>> }

mcAsks ==
    { [op |-> "vote", chain |-> "this", digest |-> 1],
      [op |-> "checkpoint", chain |-> "this", round |-> 1, root |-> 1],
      [op |-> "cert", chain |-> "this", validator |-> 1, addr |-> 1],
      [op |-> "handshake", transcript |-> <<[domain |-> "P2P_AUTH_V1"], [id |-> 1]>>],
      [op |-> "handshake", transcript |-> <<[domain |-> "VERTEX_VOTE_V1"], [chain |-> "this"], [id |-> 1]>>] }

ServicesInit ==
    /\ part \in Parts
    /\ EpochsInit /\ TransportInit /\ StoreInit /\ LimitInit /\ SimInit
    /\ SignaturesInit
    /\ part # "transport" => setup = CHOOSE s \in Setups : TRUE

Rest(vs) == UNCHANGED <<vs, part>>

EpochsPart(A) ==
    /\ part = "epochs" /\ A
    /\ Rest(<<transportVars, databaseVars, limitVars, simVars, signatureVars>>)

SimPart(A) ==
    /\ part = "simulate" /\ A
    /\ Rest(<<epochVars, transportVars, databaseVars, limitVars, signatureVars>>)

ServicesNext ==
    \/ EpochsPart(EpochsNext)
    \/ /\ part = "transport" /\ TransportNext
       /\ Rest(<<epochVars, databaseVars, limitVars, simVars, signatureVars>>)
    \/ /\ part = "store" /\ StoreNext
       /\ Rest(<<epochVars, transportVars, limitVars, simVars, signatureVars>>)
    \/ /\ part = "log" /\ LogNext
       /\ Rest(<<epochVars, transportVars, limitVars, simVars, signatureVars>>)
    \/ /\ part = "limits" /\ LimitNext
       /\ Rest(<<epochVars, transportVars, databaseVars, simVars, signatureVars>>)
    \/ SimPart(SimNext)
    \/ /\ part = "keys" /\ KeyNext
       /\ Rest(<<epochVars, transportVars, databaseVars, limitVars, simVars>>)
    \/ /\ part = "signatures" /\ OrderNext
       /\ Rest(<<epochVars, transportVars, databaseVars, limitVars, simVars>>)

(* EpochsFairness and the fairness of SimSpec, for the part that moves.    *)
ServicesFairness ==
    /\ WF_serviceVars(EpochsPart(ReceiveRound))
    /\ WF_serviceVars(EpochsPart(Commit))
    /\ WF_serviceVars(EpochsPart(\E i \in Ordered : ReceiveBatch(i)))
    /\ WF_serviceVars(SimPart(\E r \in Requests : Simulating(r)))

ServicesSpec == ServicesInit /\ [][ServicesNext]_serviceVars /\ ServicesFairness

(* The rotation never stops short of the last epoch, and installing,       *)
(* pruning and reloading committees on the way never changes the one that  *)
(* a round above the barrier is resolved under (StableStep of Epochs).     *)
RotationGoesOn ==
    /\ [][part = "epochs" => StableStep]_serviceVars
    /\ <>[](part = "epochs" => frontier = LastEpoch)

(* "no waiter ever hangs": every request for a preview is answered,        *)
(* whichever runner fails or hangs up (rpc.rs, the coalescing of /simulate). *)
PreviewsAreAnswered ==
    <>[](part = "simulate" => \A r \in Requests : request[r].at = "done")

(* CommitteesAgree of Epochs, where committees are derived.                *)
DerivedCommitteesAgree == part = "epochs" => CommitteesAgree

(* What takes effect was signed by the payer's key in every scheme of its  *)
(* combination, none of them retired by then, and no signature of a        *)
(* validator's key passes for something it was not asked for               *)
(* (AuthorisedOnly and NoForeignUse of Signatures).                        *)
SignaturesHold ==
    /\ part = "signatures" => AuthorisedOnly
    /\ part = "keys" => NoForeignUse

(* The front of the RPC: no gate lets more than two windows' worth through *)
(* in a window's length; and a preview is of a state the ledger had while  *)
(* the request waited, run once however many asked for it                  *)
(* (TwoWindowsAtMost, PreviewIsFresh and RunOnce of Rpc).                  *)
RpcIsSound ==
    /\ part = "limits" => TwoWindowsAtMost
    /\ part = "simulate" => PreviewIsFresh /\ RunOnce

=============================================================================
