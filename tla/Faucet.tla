-------------------------------- MODULE Faucet --------------------------------
(***************************************************************************)
(* The test faucet (qchain-faucet/src/main.rs): one signer that pays a     *)
(* fixed amount to whoever asks, one request at a time because the handler *)
(* keeps the state locked across every call it awaits.                     *)
(*                                                                         *)
(* The node is what the faucet sees of it: a pool that admits nonces not   *)
(* yet used, executes them in turn and may lose one, balances that others  *)
(* move too, and answers that may not arrive.  A time that is kept is the  *)
(* time left until it no longer counts.                                    *)
(***************************************************************************)
EXTENDS Naturals, Sequences, FiniteSets

CONSTANTS
    Askers,                 \* addresses that ask for funds
    Funds,                  \* payouts the wallet can cover
    COOLDOWN,               \* cooldown_secs
    RATE_WINDOW,            \* rate_window_secs
    MAX_PAYOUTS,            \* max_payouts_per_window
    MaxMishaps              \* bound on lost answers, lost transactions, restarts,
                            \* and on coins others give or the askers spend

VARIABLES
    faucetState,    \* next_nonce (a set of at most one), last_claim, recent_payouts
    request,        \* the request that holds the lock: at, to, nonce, before
    chain,          \* the node: nonce, funds, balance, pool
    books,          \* how often each asker was told "funded", and was credited
    mishaps

faucetVars == <<faucetState, request, chain, books, mishaps>>

NoRequest == [at |-> "idle"]
New == [next_nonce |-> {}, last_claim |-> [a \in Askers |-> 0], recent_payouts |-> <<>>]

FaucetInit ==
    /\ faucetState = New
    /\ request = NoRequest
    /\ chain = [nonce |-> 0, funds |-> Funds, balance |-> [a \in Askers |-> 0], pool |-> {}]
    /\ books = [funded |-> [a \in Askers |-> 0], credited |-> [a \in Askers |-> 0]]
    /\ mishaps = 0

----------------------------------------------------------------------------
(* A request, from one awaited call to the next.                           *)

\* A request that is refused leaves nothing behind.
faucet(to) ==
    /\ request.at = "idle"
    /\ faucetState.last_claim[to] = 0
    /\ Len(faucetState.recent_payouts) < MAX_PAYOUTS
    /\ request' = [at |-> "nonce", to |-> to]
    /\ UNCHANGED <<faucetState, chain, books, mishaps>>

fetch_nonce ==
    /\ request.at = "nonce"
    /\ \E nonce \in IF faucetState.next_nonce = {} THEN {chain.nonce} ELSE faucetState.next_nonce :
         request' = [at |-> "before", to |-> request.to, nonce |-> nonce]
    /\ UNCHANGED <<faucetState, chain, books, mishaps>>

\* Mutant: the recipient is taken to start from nothing.
BalanceFromZero ==
    /\ request.at = "before"
    /\ request' = [at |-> "post", to |-> request.to, nonce |-> request.nonce, before |-> 0]
    /\ UNCHANGED <<faucetState, chain, books, mishaps>>

fetch_balance ==
    /\ request.at = "before"
    /\ request' = [at |-> "post", to |-> request.to, nonce |-> request.nonce,
                   before |-> chain.balance[request.to]]
    /\ UNCHANGED <<faucetState, chain, books, mishaps>>

Transaction == [nonce |-> request.nonce, to |-> request.to]

\* A nonce already used is refused, and the one kept is forgotten.
Post ==
    /\ request.at = "post"
    /\ IF request.nonce >= chain.nonce
         THEN /\ chain' = [chain EXCEPT !.pool = @ \union {Transaction}]
              /\ request' = [request EXCEPT !.at = "poll"]
              /\ UNCHANGED faucetState
         ELSE /\ faucetState' = [faucetState EXCEPT !.next_nonce = {}]
              /\ request' = NoRequest
              /\ UNCHANGED chain
    /\ UNCHANGED <<books, mishaps>>

Risen == chain.balance[request.to] >= request.before + 1

Confirm ==
    /\ request.at = "poll" /\ Risen
    /\ faucetState' = [next_nonce |-> {request.nonce + 1},
                       last_claim |-> [faucetState.last_claim EXCEPT ![request.to] = COOLDOWN],
                       recent_payouts |-> Append(faucetState.recent_payouts, RATE_WINDOW)]
    /\ books' = [books EXCEPT !.funded[request.to] = @ + 1]
    /\ request' = NoRequest
    /\ UNCHANGED <<chain, mishaps>>

\* Mutant: the nonce kept survives a payout that was not seen to execute.
TimeOutKeeps ==
    /\ request.at = "poll" /\ ~Risen
    /\ request' = NoRequest
    /\ UNCHANGED <<faucetState, chain, books, mishaps>>

TimeOut ==
    /\ request.at = "poll" /\ ~Risen
    /\ faucetState' = [faucetState EXCEPT !.next_nonce = {}]
    /\ request' = NoRequest
    /\ UNCHANGED <<chain, books, mishaps>>

Age(t) == IF t = 0 THEN 0 ELSE t - 1

SecondsPass ==
    /\ \/ faucetState.recent_payouts # <<>>
       \/ \E a \in Askers : faucetState.last_claim[a] > 0
    /\ LET aged == [i \in DOMAIN faucetState.recent_payouts |-> Age(faucetState.recent_payouts[i])]
       IN  faucetState' = [faucetState EXCEPT
                             !.last_claim = [a \in Askers |-> Age(@[a])],
                             !.recent_payouts = SelectSeq(aged, LAMBDA t : t > 0)]
    /\ UNCHANGED <<request, chain, books, mishaps>>

----------------------------------------------------------------------------
(* What may go wrong.                                                      *)

Mishap == mishaps < MaxMishaps /\ mishaps' = mishaps + 1

\* An answer does not arrive or the client goes away: the handler ends where
\* it waits and the state it has written so far stays.
GoneAway ==
    /\ Mishap /\ request.at # "idle"
    /\ request' = NoRequest
    /\ UNCHANGED <<faucetState, chain, books>>

\* The transaction reached the node but the answer was lost.
AnswerLost ==
    /\ Mishap /\ request.at = "post" /\ request.nonce >= chain.nonce
    /\ chain' = [chain EXCEPT !.pool = @ \union {Transaction}]
    /\ request' = NoRequest
    /\ UNCHANGED <<faucetState, books>>

Restarts ==
    /\ Mishap
    /\ faucetState' = New
    /\ request' = NoRequest
    /\ UNCHANGED <<chain, books>>

----------------------------------------------------------------------------
(* The node.                                                               *)

NodeExecutes(tx) ==
    /\ tx \in chain.pool /\ tx.nonce = chain.nonce /\ chain.funds > 0
    /\ chain' = [nonce |-> chain.nonce + 1, funds |-> chain.funds - 1,
                 balance |-> [chain.balance EXCEPT ![tx.to] = @ + 1],
                 pool |-> {t \in chain.pool : t.nonce > chain.nonce}]
    /\ books' = [books EXCEPT !.credited[tx.to] = @ + 1]
    /\ UNCHANGED <<faucetState, request, mishaps>>

\* A fee that rose above the transaction's limit: it goes, its nonce stays.
NodeDrops(tx) ==
    /\ Mishap /\ tx \in chain.pool
    /\ chain' = [chain EXCEPT !.pool = @ \ {tx}]
    /\ UNCHANGED <<faucetState, request, books>>

OthersPay(a) ==
    /\ Mishap
    /\ chain' = [chain EXCEPT !.balance[a] = @ + 1]
    /\ books' = [books EXCEPT !.credited[a] = @ + 1]
    /\ UNCHANGED <<faucetState, request>>

AskerSpends(a) ==
    /\ Mishap /\ chain.balance[a] > 0
    /\ chain' = [chain EXCEPT !.balance[a] = @ - 1]
    /\ UNCHANGED <<faucetState, request, books>>

----------------------------------------------------------------------------

Handler == fetch_nonce \/ fetch_balance \/ Post \/ Confirm \/ TimeOut

FaucetNext ==
    \/ \E a \in Askers : faucet(a) \/ OthersPay(a) \/ AskerSpends(a)
    \/ Handler
    \/ SecondsPass
    \/ GoneAway \/ AnswerLost \/ Restarts
    \/ \E tx \in chain.pool : NodeExecutes(tx) \/ NodeDrops(tx)

\* Somebody keeps asking, the handler and the clock go on, and the node
\* executes what stays executable.
FaucetFairness ==
    /\ WF_faucetVars(\E a \in Askers : faucet(a))
    /\ WF_faucetVars(Handler)
    /\ WF_faucetVars(SecondsPass)
    /\ WF_faucetVars(\E tx \in chain.pool : NodeExecutes(tx))

FaucetSpec == FaucetInit /\ [][FaucetNext]_faucetVars /\ FaucetFairness

----------------------------------------------------------------------------
(* Properties.                                                             *)

\* Whoever is told "funded" n times has been credited at least n times: late
\* payouts of requests that timed out, repeated nonces, restarts and coins
\* from elsewhere never make one credit count for two answers.
FundedIsPaid == \A a \in Askers : books.funded[a] <= books.credited[a]

=============================================================================
