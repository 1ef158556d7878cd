------------------------------ MODULE MCClients ------------------------------
(***************************************************************************)
(* Instances of what surrounds the node: the contract templates, the       *)
(* faucet, records that older builds wrote, and the network that           *)
(* qchain-simulation runs (four validators of one unit of stake each).     *)
(***************************************************************************)
EXTENDS Templates, Faucet, Schemas, Simulation

Wallets == {"alice", "bob"}
W(n) == WalletAddress(n)
Program(t) == derive_program_address(W("alice"), t)
MCTemplates == [p \in {Program(t) : t \in {"vault", "token", "escrow", "payments", "counter", "shared"}} |-> p[3]]
MCOpening == [a \in {W("alice"), W("bob")} |-> 3]

Call(t, payer, accounts, args) ==
    [payer |-> W(payer), fuel |-> 1,
     ixs |-> <<[kind |-> "call", program |-> Program(t), accounts |-> accounts, args |-> args]>>]
Give(payer, to, n) ==
    [payer |-> W(payer), fuel |-> 1,
     ixs |-> <<[kind |-> "transfer", accounts |-> <<W(payer), to>>, amount |-> n]>>]

P(t, seed) == derive_pda(Program(t), seed)
VaultAt == P("vault", <<"vault">>)
MintAt == P("token", <<"mint">>)
EscrowAt == P("escrow", <<"escrow">>)
GlobalAt == P("shared", <<"global">>)
Held(n) == P("token", holder_seed(W(n)))

VaultOrders ==
    {Call("vault", payer, <<W(first), VaultAt, W(third)>>, <<sel, 1, 0, 0>>) :
        payer \in Wallets, first \in Wallets, third \in Wallets, sel \in 1 .. 3}
    \union {Give("bob", VaultAt, 1)}

TokenOrders ==
    {Call("token", payer, <<W(payer), MintAt>>, <<1, 2, 0, 0>>) : payer \in Wallets}
    \union {Call("token", payer, <<W(payer), MintAt, Held("bob"), W("bob")>>, <<2, n, 0, 0>>) :
              payer \in Wallets, n \in {1, 2}}
    \union {Call("token", payer, <<W(first), Held(first), Held(to), W(to)>>, <<3, 1, 0, 0>>) :
              payer \in Wallets, first \in Wallets, to \in Wallets}
    \union {Call("token", payer, <<W("bob"), Held("bob"), MintAt>>, <<4, 1, 0, 0>>) : payer \in Wallets}
    \union {Give("bob", Held("alice"), 1)}

EscrowOrders ==
    {Call("escrow", payer, <<W("alice"), EscrowAt>>, <<1, 1, 0, 0>>) : payer \in Wallets}
    \union {Call("escrow", payer, <<W("alice"), EscrowAt>>, <<2, n, 0, 0>>) : payer \in Wallets, n \in {1, 3}}
    \union {Call("escrow", "bob", <<W("bob"), EscrowAt, W(to)>>, <<3, n, m, 0>>) :
              to \in {"alice"}, n \in {1, 2, 3}, m \in {1, 2}}

OtherOrders ==
    {Call("payments", payer, <<W("bob"), W("alice"), EscrowAt, VaultAt>>, <<sel, 1, 1, 1>>) :
        payer \in Wallets, sel \in 1 .. 7}
    \union {Call("counter", "bob", <<W(first)>>, <<sel, 3, 0, 0>>) : first \in Wallets, sel \in 1 .. 4}
    \union {Call("shared", "bob", <<W("bob"), at>>, <<sel, 3, 0, 0>>) : at \in {GlobalAt, VaultAt}, sel \in {1, 2}}

MCOrders == VaultOrders \union TokenOrders \union EscrowOrders \union OtherOrders
MCSeeds == {}

MCRoundHash == [r \in 0 .. 20 |-> <<0, 2, 3, 1>>[(r % 4) + 1]]

Everyone == [i \in 1 .. 4 |-> "honest"]
Network(behavior, partition, committees) ==
    [behavior |-> behavior, partition |-> partition, committees |-> committees, epoch_rounds |-> 1]
Always == [e \in {0} |-> 1 .. 4]

\* All honest; one silent; one that proposes twice; a partition that heals;
\* a fourth validator that joins at round 1.
MCScenarios ==
    {Network(Everyone, {}, Always),
     Network([Everyone EXCEPT ![2] = "silent"], {}, Always),
     Network([Everyone EXCEPT ![1] = "equivocator"], {}, Always),
     Network(Everyone, {[group_a |-> {1, 2}, until |-> 3]}, Always),
     Network(Everyone, {}, [e \in {0, 1} |-> IF e = 0 THEN 1 .. 3 ELSE 1 .. 4])}

VARIABLE part

OrdersOf(p) == CASE p = "vault" -> VaultOrders [] p = "token" -> TokenOrders
                 [] p = "escrow" -> EscrowOrders [] p = "others" -> OtherOrders

clientVars == <<contractVars, faucetVars, schemaVars, simulationVars, part>>

Init ==
    /\ TemplatesInit
    /\ FaucetInit
    /\ SimulationInit
    /\ part \in {"vault", "token", "escrow", "others", "faucet", "schemas", "simulation"}
    /\ part # "simulation" => scenario = CHOOSE s \in Scenarios : TRUE
    /\ IF part = "schemas" THEN SchemasInit
       ELSE /\ records = [k \in Kinds |-> {}] /\ meanings = records
            /\ registry = [schema |-> 4, entries |-> 0]
            /\ manifest = {} /\ economics_v7 = TRUE
            /\ schemaNode = "down" /\ writes = 0

TemplateParts == {"vault", "token", "escrow", "others"}

\* The parts do not meet: each behaviour runs one of them.
Next ==
    /\ UNCHANGED part
    /\ \/ /\ part \in TemplateParts /\ TemplatesNext(OrdersOf(part))
          /\ UNCHANGED <<faucetVars, schemaVars, simulationVars>>
       \/ part = "faucet" /\ FaucetNext /\ UNCHANGED <<contractVars, schemaVars, simulationVars>>
       \/ part = "schemas" /\ SchemasNext /\ UNCHANGED <<contractVars, faucetVars, simulationVars>>
       \/ part = "simulation" /\ Tick /\ UNCHANGED <<contractVars, faucetVars, schemaVars>>

Turn(A) == part = "faucet" /\ A /\ UNCHANGED <<contractVars, schemaVars, simulationVars, part>>

Spec ==
    /\ Init /\ [][Next]_clientVars
    /\ WF_clientVars(Turn(\E a \in Askers : faucet(a)))
    /\ WF_clientVars(Turn(Handler))
    /\ WF_clientVars(Turn(SecondsPass))
    /\ WF_clientVars(Turn(\E tx \in chain.pool : NodeExecutes(tx)))

\* The faucet is never stuck on a nonce the chain will not reach: while
\* people ask, everything the wallet can cover is paid out in the end,
\* whatever was lost on the way.
PayoutsGoOn == <>(part = "faucet" => chain.funds = 0)

\* The contract templates keep what their comments promise whatever accounts
\* a call names (TokenIsConserved and OrderedStep of Templates).
TemplatesKeepTheirPromises ==
    [][(part \in TemplateParts) => OrderedStep /\ TokenIsConserved']_clientVars

\* A newer build reads what older builds wrote, and starts on it
\* (MeaningIsKept and NeverBricked of Schemas).
RecordsSurviveBuilds == part = "schemas" => MeaningIsKept /\ NeverBricked

\* Whatever one lost or late message, a silent or an equivocating validator,
\* a partition or a new committee does to the simulated network, its honest
\* validators agree on the order, and all of them have one in the end (what
\* run_simulation reports of a run: HonestOrdersAgree and ProgressIsMade).
NetworkAgrees == part = "simulation" => HonestOrdersAgree /\ ProgressIsMade
=============================================================================
