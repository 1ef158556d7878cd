------------------------------ MODULE Templates ------------------------------
(***************************************************************************)
(* The contracts the SDK ships as templates (qchain-sdk/templates), run on *)
(* the machine of Contracts: a call hands the template its accounts, the   *)
(* template runs to its end or aborts, and the ledger's border accepts or  *)
(* refuses what it returns.                                                *)
(*                                                                         *)
(* An operator of the SDK takes the call under way and gives the call      *)
(* afterwards, or Aborted.  A call's accounts are numbered from 1, the     *)
(* template's account 0 being number 1.  A template's data is the tuple of *)
(* its fields; the fuel covers the run, or the run traps.                  *)
(***************************************************************************)
EXTENDS Integers, Contracts

CONSTANTS
    Templates,      \* [program address -> name of its template]
    I64_MAX,        \* largest signed 64-bit number
    U64_MAX,        \* largest unsigned 64-bit number
    PERCENT         \* the 10_000 basis points of the payments template

Aborted == [aborted |-> TRUE]

require(c, condition) == IF condition THEN c ELSE Aborted

----------------------------------------------------------------------------
(* The host's answers, and the SDK over them.                              *)

program_id == Instruction.program

host_get_balance(c, i) ==
    LET n == c.accounts[i].balance IN IF n > I64_MAX THEN n - (U64_MAX + 1) ELSE n

balance(c, i) == IF i \in DOMAIN c.accounts THEN host_get_balance(c, i) ELSE -1

set_balance(c, i, n) ==
    IF n >= 0 /\ i \in DOMAIN c.accounts THEN [c EXCEPT !.accounts[i].balance = n] ELSE c

\* The signer of a call is the payer of its transaction.
is_signer(i) == i <= Len(Instruction.accounts) /\ Instruction.accounts[i] = Payer

ZeroKey == <<"zero">>
pubkey(i) == IF i <= Len(Instruction.accounts) THEN Instruction.accounts[i] ELSE ZeroKey

deployer == store[program_id].data[3]

get_data(c, i) == IF i \in DOMAIN c.accounts THEN c.accounts[i].data ELSE NoData

set_data(c, i, data) ==
    IF c = Aborted THEN Aborted
    ELSE IF i \in DOMAIN c.accounts THEN [c EXCEPT !.accounts[i].data = data] ELSE Aborted

\* The account must be the one derived from the seed; the first use of it
\* takes it over and drops what stood there.
use_pda(c, i, seed) ==
    IF c = Aborted \/ pubkey(i) # derive_pda(program_id, seed) THEN Aborted
    ELSE IF c.accounts[i].owner = program_id THEN c
    ELSE [c EXCEPT !.accounts[i] = [@ EXCEPT !.owner = program_id, !.data = NoData],
                   !.claims = @ \union {i}]

----------------------------------------------------------------------------
(* Moving coins.                                                           *)

require_signer(c, i) == IF is_signer(i) THEN c ELSE Aborted

credit(c, i, amount) ==
    IF c = Aborted \/ amount < 0 THEN Aborted
    ELSE LET b == IF balance(c, i) < 0 THEN 0 ELSE balance(c, i)
         IN  IF b + amount > I64_MAX THEN Aborted ELSE set_balance(c, i, b + amount)

debit(c, i, amount) ==
    IF c = Aborted \/ amount < 0 \/ balance(c, i) < amount THEN Aborted
    ELSE set_balance(c, i, balance(c, i) - amount)

transfer(c, from, to, amount) ==
    IF c = Aborted THEN Aborted
    ELSE credit(debit(require_signer(c, from), from, amount), to, amount)

pda_transfer(c, from, to, amount) == credit(debit(c, from, amount), to, amount)

deposit(c, from, to, amount) == transfer(c, from, to, amount)

require_deployer(c) == require(require_signer(c, 1), is_signer(1) /\ pubkey(1) = deployer)

saturating(n) == IF n > U64_MAX THEN U64_MAX ELSE n

\* Checked arithmetic of the token and the escrow: TRUE when it does not abort.
fits_u64(n) == n >= 0 /\ n <= U64_MAX

holder_seed(holder) == <<"balance", holder>>

----------------------------------------------------------------------------
(* The templates.  args are the selector and three numbers.                *)

withdraw(c, x) ==
    LET admin == get_data(c, 2)[1]
    IN  pda_transfer(require(require_signer(c, 1), pubkey(1) = admin), 2, 3, x)

Vault(c0, sel, x) ==
    LET c == use_pda(c0, 2, <<"vault">>)
        data == get_data(c, 2)
        initialized == data # NoData
        paid == deposit(c, 1, 2, x)
    IN  CASE c = Aborted -> Aborted
          [] sel = 1 /\ ~initialized -> set_data(require_deployer(c), 2, <<pubkey(1), 0>>)
          [] sel = 2 /\ initialized /\ x >= 0 ->
               set_data(paid, 2, <<data[1], saturating(data[2] + x)>>)
          [] sel = 3 /\ initialized /\ x >= 0 -> withdraw(c, x)
          [] OTHER -> Aborted

load_balance(c, i) == IF get_data(c, i) = NoData THEN 0 ELSE get_data(c, i)[1]
store_balance(c, i, n) == set_data(c, i, <<n>>)

\* Mutant: the supply is not brought down.
BurnKeepsSupply(c, amount) ==
    LET b == load_balance(c, 2) - amount
    IN  IF ~fits_u64(b) \/ get_data(c, 3) = NoData THEN Aborted
        ELSE store_balance(c, 2, b)

burn(c, amount) ==
    LET b == load_balance(c, 2) - amount
        mint == get_data(c, 3)
    IN  IF ~fits_u64(b) \/ mint = NoData THEN Aborted
        ELSE LET supply == mint[2] - amount
             IN  IF ~fits_u64(supply) THEN Aborted
                 ELSE set_data(store_balance(c, 2, b), 3, [mint EXCEPT ![2] = supply])

Minted(c, amount) ==
    LET mint == get_data(c, 2)
        supply == mint[2] + amount
        b == load_balance(c, 3) + amount
    IN  IF ~fits_u64(supply) \/ supply > mint[3] \/ ~fits_u64(b) THEN Aborted
        ELSE set_data(store_balance(c, 3, b), 2, [mint EXCEPT ![2] = supply])

Sent(c, amount) ==
    LET from == load_balance(c, 2) - amount
        to == load_balance(c, 3) + amount
    IN  IF ~fits_u64(from) \/ ~fits_u64(to) THEN Aborted
        ELSE store_balance(store_balance(c, 2, from), 3, to)

Token(c0, sel, amount) ==
    LET Mint(i) == use_pda(c0, i, <<"mint">>)
        Own(c) == use_pda(c, 2, holder_seed(pubkey(1)))
        Dest(c) == use_pda(c, 3, holder_seed(pubkey(4)))
    IN  CASE amount < 0 -> Aborted
          [] sel = 1 -> LET c == Mint(2)
                        IN  IF c = Aborted \/ get_data(c, 2) # NoData THEN Aborted
                            ELSE set_data(require_deployer(c), 2, <<pubkey(1), 0, amount>>)
          [] sel = 2 -> LET c == Dest(Mint(2))
                        IN  IF c = Aborted \/ ~is_signer(1) THEN Aborted
                            ELSE IF get_data(c, 2) = NoData THEN Aborted
                            ELSE IF pubkey(1) # get_data(c, 2)[1] THEN Aborted
                            ELSE Minted(c, amount)
          [] sel = 3 -> LET c == Dest(Own(c0))
                        IN  IF c = Aborted \/ ~is_signer(1) THEN Aborted ELSE Sent(c, amount)
          [] sel = 4 -> LET c == use_pda(Own(c0), 3, <<"mint">>)
                        IN  IF c = Aborted \/ ~is_signer(1) THEN Aborted ELSE burn(c, amount)
          [] OTHER -> Aborted

buy(c, units, max_total) ==
    LET data == get_data(c, 2)
        total == units * data[2]
    IN  IF ~fits_u64(total) \/ total > max_total \/ pubkey(3) # data[1] THEN Aborted
        ELSE deposit(c, 1, 3, IF total > I64_MAX THEN total - (U64_MAX + 1) ELSE total)

\* The price may be set by a call that names the seller first.
Escrow(c0, sel, a, b) ==
    LET c == use_pda(c0, 2, <<"escrow">>)
        data == get_data(c, 2)
        initialized == data # NoData
    IN  CASE c = Aborted -> Aborted
          [] sel = 1 /\ ~initialized /\ a >= 0 -> set_data(require_deployer(c), 2, <<pubkey(1), a>>)
          [] sel = 2 /\ initialized /\ a >= 0 ->
               IF pubkey(1) = data[1] THEN set_data(c, 2, [data EXCEPT ![2] = a]) ELSE Aborted
          [] sel = 3 /\ initialized /\ a >= 0 /\ b >= 0 -> buy(c, a, b)
          [] OTHER -> Aborted

Payments(c, args) ==
    LET Pay(c_, i) == transfer(c_, 1, i + 1, args[i + 1])
    IN  CASE args[1] = 1 -> Pay(c, 1)
          [] args[1] \in {2, 6} -> Pay(Pay(c, 1), 2)
          [] args[1] = 3 -> Pay(Pay(Pay(c, 1), 2), 3)
          [] args[1] = 4 -> transfer(c, 1, 2, balance(c, 1))
          [] args[1] = 5 /\ args[2] \in 0 .. PERCENT ->
               transfer(c, 1, 2, (balance(c, 1) \div PERCENT) * args[2])
          [] OTHER -> Aborted

Counter(c, sel, x) ==
    LET data == get_data(c, 1)
        count == IF data = NoData THEN 0 ELSE data[1]
        updates == IF data = NoData THEN 0 ELSE data[2]
        clamped(n) == IF n > I64_MAX THEN I64_MAX ELSE IF n < -I64_MAX - 1 THEN -I64_MAX - 1 ELSE n
    IN  CASE ~is_signer(1) -> Aborted
          [] sel = 1 -> set_data(c, 1, <<x, 0>>)
          [] sel = 2 -> set_data(c, 1, <<clamped(count + x), saturating(updates + 1)>>)
          [] sel = 3 -> set_data(c, 1, <<clamped(count - x), saturating(updates + 1)>>)
          [] OTHER -> Aborted

SharedCounter(c0, sel, x) ==
    LET c == use_pda(c0, 2, <<"global">>)
        data == get_data(c, 2)
        total == IF data = NoData THEN 0 ELSE data[1]
        hits == IF data = NoData THEN 0 ELSE data[2]
    IN  CASE c = Aborted -> Aborted
          [] sel = 1 /\ x >= 0 -> set_data(c, 2, <<saturating(total + x), saturating(hits + 1)>>)
          [] OTHER -> Aborted

dispatch(c, args) ==
    LET template == Templates[program_id]
    IN  CASE template = "vault"    -> Vault(c, args[1], args[2])
          [] template = "token"    -> Token(c, args[1], args[2])
          [] template = "escrow"   -> Escrow(c, args[1], args[2], args[3])
          [] template = "payments" -> Payments(c, args)
          [] template = "counter"  -> Counter(c, args[1], args[2])
          [] template = "shared"   -> SharedCounter(c, args[1], args[2])

----------------------------------------------------------------------------
(* The machine with the templates for contracts.  A guest without fuel is  *)
(* one whose run is over.                                                  *)

entrypoint ==
    /\ machine.at = "guest" /\ Guest.fuel > 0
    /\ LET c == dispatch([accounts |-> Guest.accounts, claims |-> Guest.claims], Instruction.args)
       IN  machine' = IF c = Aborted THEN NoTransaction
                      ELSE [machine EXCEPT !.guest = c @@ [fuel |-> 0]]
    /\ UNCHANGED <<store, modules, orders>>

Deployed(p) ==
    [balance |-> 0, owner |-> LOADER, code_hash |-> <<"good", Templates[p]>>,
     data |-> WasmProgramData(<<"good", Templates[p]>>, p[2])]

TemplatesInit ==
    /\ store = [a \in DOMAIN OpeningCoins |-> Account(OpeningCoins[a], SYSTEM)]
               @@ [p \in DOMAIN Templates |-> Deployed(p)]
    /\ machine = NoTransaction
    /\ modules = [map |-> {}, order |-> <<>>]
    /\ orders = 0

TemplatesNext(txs) ==
    \/ \E tx \in txs : Submit(tx)
    \/ ExecuteNative
    \/ CallRefused
    \/ call
    \/ entrypoint
    \/ Trap
    \/ machine.at = "guest" /\ Guest.fuel = 0 /\ run_wasm_instruction
    \/ CommitWorking

TemplatesSpec == TemplatesInit /\ [][TemplatesNext(Orders)]_contractVars

----------------------------------------------------------------------------
(* Properties.                                                             *)

Pda(p, seed) == derive_pda(p, seed)
DataAt(a) == IF a \in DOMAIN store THEN store[a].data ELSE NoData
Of(template) == {p \in DOMAIN Templates : Templates[p] = template}

\* The token's own books: once a token is open its supply is what its
\* holders have together and within its cap, whatever accounts its calls
\* name and whatever stood at the addresses it takes over.
TokenIsConserved ==
    \A p \in Of("token") :
       LET mint == DataAt(Pda(p, <<"mint">>))
           held == {a \in DOMAIN store : /\ a[1] = "pda" /\ a[2] = p /\ a[3][1] = "balance"
                                         /\ store[a].owner = p /\ store[a].data # NoData}
       IN  mint # NoData =>
             /\ mint[2] = FoldSet(LAMBDA a, sum : sum + store[a].data[1], 0, held)
             /\ mint[2] <= mint[3]

\* Whoever calls a template and whatever accounts the call names: coins
\* leave a wallet only when it signed, they leave the vault only when its
\* deployer signed, a buyer gives no more than the maximum the order
\* carries, and what a vault, a token or an escrow was opened with stays
\* the deployer's.
OrderedStep ==
    store' # store =>
      /\ \A a \in DOMAIN store :
           store'[a].balance < store[a].balance =>
             \/ a = Payer
             \/ \E p \in Of("vault") : a = Pda(p, <<"vault">>) /\ Payer = p[2]
      /\ \A i \in 1 .. Len(machine.tx.ixs) :
           LET ix == machine.tx.ixs[i]
           IN  ix.kind = "call" /\ ix.program \in Of("escrow") /\ ix.args[1] = 3 =>
                 store[Payer].balance - store'[Payer].balance <= ix.args[3]
      /\ \A p \in DOMAIN Templates, seed \in {<<"vault">>, <<"mint">>, <<"escrow">>} :
           LET a == Pda(p, seed)
           IN  a \in DOMAIN store' /\ store'[a].owner = p /\ store'[a].data # NoData =>
                 store'[a].data[1] = p[2]

=============================================================================
