------------------------------ MODULE Contracts ------------------------------
(***************************************************************************)
(* The machine that runs a transaction's instructions: the system program  *)
(* (native.rs), deployed contracts (wasm.rs) and what the ledger checks at *)
(* their border before it takes over the accounts they return              *)
(* (run_wasm_instruction of ledger.rs).                                    *)
(*                                                                         *)
(* A contract is any sequence of calls into the host that its fuel pays    *)
(* for, ended by a return or by a trap.  Addresses, owners and data are    *)
(* tuples whose first component says what they are; hashes of different    *)
(* inputs differ.  Fees are in Ledger; here a transaction moves coins only *)
(* through its instructions.                                               *)
(***************************************************************************)
EXTENDS Naturals, FiniteSets, FiniteSetsExt, SequencesExt

CONSTANTS
    OpeningCoins,            \* [wallet address -> balance] at genesis
    Orders,             \* the transactions that may be submitted
    PdaSeeds,              \* seeds a contract may derive an address from
    MaxBalance,         \* largest balance a contract asks for
    Dust,               \* dust_threshold
    MAX_CACHED_MODULES,
    MaxOrders           \* bound on the transactions of a behaviour

VARIABLES
    store,      \* the committed accounts
    machine,    \* the transaction under way: at, tx, pc, working, guest
    modules,    \* ModuleCache: map (a set of modules) and order
    orders      \* transactions submitted so far

contractVars == <<store, machine, modules, orders>>

----------------------------------------------------------------------------
(* Accounts and addresses.                                                 *)

SYSTEM == <<"system">>
LOADER == <<"loader">>
NoData == <<>>

WalletAddress(name) == <<"wallet", name>>
derive_program_address(payer, salt) == <<"program", payer, salt>>
derive_pda(program, seed) == <<"pda", program, seed>>

Account(balance, owner) == [balance |-> balance, owner |-> owner, data |-> NoData, code_hash |-> NoData]
new_wallet(owner) == Account(0, owner)

WasmProgramData(module, deployer) == <<"program", module, deployer>>

PutAccount(accounts, a, account) ==
    [k \in DOMAIN accounts \union {a} |-> IF k = a THEN account ELSE accounts[k]]
Get(accounts, a, default) == IF a \in DOMAIN accounts THEN accounts[a] ELSE default

----------------------------------------------------------------------------
(* The system program.  Each operator gives the accounts afterwards, or    *)
(* Failed, which has none.                                                 *)

Failed == <<>>

transfer_internal(accounts, from, to, amount) ==
    IF from \notin DOMAIN accounts \/ accounts[from].balance < amount THEN Failed
    ELSE LET debited == [accounts EXCEPT ![from].balance = @ - amount]
             target  == Get(debited, to, new_wallet(SYSTEM))
         IN  PutAccount(debited, to, [target EXCEPT !.balance = @ + amount])

CreateAccount(accounts, ix, payer) ==
    LET at == Head(ix.accounts)
    IN  transfer_internal(PutAccount(accounts, at, Get(accounts, at, new_wallet(ix.owner))),
                          payer, at, ix.amount)

Transfer(accounts, ix, payer) ==
    IF ix.accounts[1] # payer THEN Failed
    ELSE transfer_internal(accounts, payer, ix.accounts[2], ix.amount)

\* Mutant: a second deployment replaces the program.
DeployAgain(accounts, ix, payer) ==
    LET at == Head(ix.accounts)
    IN  IF at # derive_program_address(payer, ix.salt) THEN Failed
        ELSE PutAccount(accounts, at,
                 [balance |-> Get(accounts, at, new_wallet(SYSTEM)).balance, owner |-> LOADER,
                  data |-> WasmProgramData(ix.module, payer), code_hash |-> ix.module])

DeployProgram(accounts, ix, payer) ==
    LET at == Head(ix.accounts)
        existing == Get(accounts, at, new_wallet(SYSTEM))
    IN  IF \/ at # derive_program_address(payer, ix.salt)
           \/ existing.owner = LOADER
          THEN Failed
          ELSE PutAccount(accounts, at,
                   [balance |-> existing.balance, owner |-> LOADER,
                    data |-> WasmProgramData(ix.module, payer), code_hash |-> ix.module])

process(accounts, ix, payer) ==
    CASE ix.kind = "create"   -> CreateAccount(accounts, ix, payer)
      [] ix.kind = "transfer" -> Transfer(accounts, ix, payer)
      [] ix.kind = "deploy"   -> DeployProgram(accounts, ix, payer)

----------------------------------------------------------------------------
(* The cache of compiled modules.                                          *)

compiles(module) == module[1] = "good"

Touched(cache, module) ==
    [cache EXCEPT !.order = Append(SelectSeq(@, LAMBDA m : m # module), module)]

touch(cache, module) == Touched(cache, module)

\* The oldest are dropped until there is room for one more.
Evicted(cache) ==
    LET gone == IF Len(cache.order) >= MAX_CACHED_MODULES
                  THEN Len(cache.order) - MAX_CACHED_MODULES + 1 ELSE 0
    IN  [order |-> SubSeq(cache.order, gone + 1, Len(cache.order)),
         map |-> cache.map \ {cache.order[i] : i \in 1 .. gone}]

get_or_compile(cache, module) ==
    IF module \in cache.map THEN touch(cache, module)
    ELSE IF ~compiles(module) THEN cache
    ELSE LET room == Evicted(cache)
         IN  [map |-> room.map \union {module}, order |-> Append(room.order, module)]

----------------------------------------------------------------------------
(* A transaction and its instructions.                                     *)

Instruction == machine.tx.ixs[machine.pc]
Payer == machine.tx.payer
NoTransaction == [at |-> "idle"]

\* The working copy holds what exists of the payer and the named accounts.
Submit(tx) ==
    /\ machine.at = "idle" /\ orders < MaxOrders
    /\ tx.payer \in DOMAIN store
    /\ orders' = orders + 1
    /\ LET named == {tx.payer} \union UNION {ToSet(tx.ixs[i].accounts) : i \in 1 .. Len(tx.ixs)}
       IN  machine' = [at |-> "exec", tx |-> tx, pc |-> 1,
                       working |-> [a \in named \intersect DOMAIN store |-> store[a]]]
    /\ UNCHANGED <<store, modules>>

\* An instruction that fails ends the transaction; nothing of it is kept.
GoOn(working) ==
    machine' = IF working = Failed THEN NoTransaction
               ELSE [at |-> "exec", tx |-> machine.tx, pc |-> machine.pc + 1, working |-> working]

Executing == machine.at = "exec" /\ machine.pc <= Len(machine.tx.ixs)

\* A module that does not compile, or lacks its entry point, is refused
\* before the system program sees it.
ExecuteNative ==
    /\ Executing /\ Instruction.kind # "call"
    /\ LET refused == Instruction.kind = "deploy" /\ Instruction.module[1] # "good"
       IN GoOn(IF refused THEN Failed ELSE process(machine.working, Instruction, Payer))
    /\ modules' = IF Instruction.kind = "deploy" THEN get_or_compile(modules, Instruction.module)
                  ELSE modules
    /\ UNCHANGED <<store, orders>>

\* The program is looked up among the committed accounts.
Callable(ix) ==
    /\ ix.program \in DOMAIN store
    /\ LET account == store[ix.program]
       IN  /\ account.owner = LOADER
           /\ account.data # NoData /\ account.data[2] = account.code_hash
    /\ Len(ix.accounts) = Cardinality(ToSet(ix.accounts))

CallRefused ==
    /\ Executing /\ Instruction.kind = "call" /\ ~Callable(Instruction)
    /\ GoOn(Failed)
    /\ UNCHANGED <<store, modules, orders>>

Before(ix) == [i \in 1 .. Len(ix.accounts) |-> Get(machine.working, ix.accounts[i], new_wallet(SYSTEM))]

call ==
    /\ Executing /\ Instruction.kind = "call" /\ Callable(Instruction)
    /\ modules' = get_or_compile(modules, store[Instruction.program].code_hash)
    /\ machine' = [machine EXCEPT !.at = "guest"] @@
                  [guest |-> [accounts |-> Before(Instruction), fuel |-> machine.tx.fuel, claims |-> {}]]
    /\ UNCHANGED <<store, orders>>

----------------------------------------------------------------------------
(* What a contract may ask of the host.  A call that the fuel does not     *)
(* cover takes what is left and has no other effect.                       *)

Guest == machine.guest
Slots == 1 .. Len(Guest.accounts)
HOST_CALL == 1

HostCall(cost, after) ==
    /\ machine.at = "guest" /\ Guest.fuel > 0
    /\ machine' = [machine EXCEPT !.guest =
                     IF cost > Guest.fuel THEN [Guest EXCEPT !.fuel = 0]
                     ELSE [after EXCEPT !.fuel = @ - cost]]
    /\ UNCHANGED <<store, modules, orders>>

host_set_balance(i, n) == HostCall(HOST_CALL, [Guest EXCEPT !.accounts[i].balance = n])

host_set_data(i, len) ==
    HostCall(HOST_CALL + len,
             [Guest EXCEPT !.accounts[i].data =
                IF len = 0 THEN NoData ELSE <<"by", Instruction.program>>])

host_use_pda(i, seed) ==
    LET acc == Guest.accounts[i]
    IN  HostCall(HOST_CALL + 1,
          IF \/ Instruction.accounts[i] # derive_pda(Instruction.program, seed)
             \/ acc.owner = Instruction.program
            THEN Guest
            ELSE [Guest EXCEPT !.accounts[i] = [@ EXCEPT !.owner = Instruction.program,
                                                         !.data = NoData],
                               !.claims = @ \union {i}])

\* The calls that only read, and the contract's own work between them.
host_read == HostCall(HOST_CALL, Guest)

Trap ==
    /\ machine.at = "guest"
    /\ machine' = NoTransaction
    /\ UNCHANGED <<store, modules, orders>>

----------------------------------------------------------------------------
(* The border: what the ledger accepts of the accounts a contract returns. *)

Over(ix, before, i) == ix.accounts[i] = Payer \/ before[i].owner = ix.program

Total(accounts) == FoldLeft(LAMBDA sum, acc : sum + acc.balance, 0, accounts)

BorderHolds(ix, before, after) ==
    /\ \A i \in 1 .. Len(before) :
         /\ after[i].balance < before[i].balance => Over(ix, before, i)
         /\ before[i].owner # after[i].owner =>
              after[i].owner = ix.program /\ i \in Guest.claims
         /\ before[i].data # after[i].data =>
              Over(ix, before, i) \/ after[i].owner = ix.program
    /\ Total(after) <= Total(before)

run_wasm_instruction ==
    /\ machine.at = "guest"
    /\ LET ix == Instruction
           after == Guest.accounts
           at == [k \in ToSet(ix.accounts) |-> CHOOSE i \in Slots : ix.accounts[i] = k]
       IN  GoOn(IF ~BorderHolds(ix, Before(ix), after) THEN Failed
                ELSE [k \in DOMAIN machine.working \union ToSet(ix.accounts) |->
                        IF k \in DOMAIN at THEN after[at[k]] ELSE machine.working[k]])
    /\ UNCHANGED <<store, modules, orders>>

\* The working copy is written back; wallets left with dust are emptied.
Swept(account) ==
    IF account.owner = SYSTEM /\ account.balance < Dust THEN [account EXCEPT !.balance = 0] ELSE account

CommitWorking ==
    /\ machine.at = "exec" /\ machine.pc > Len(machine.tx.ixs)
    /\ store' = [a \in DOMAIN store \union DOMAIN machine.working |->
                   IF a \in DOMAIN machine.working THEN Swept(machine.working[a]) ELSE store[a]]
    /\ machine' = NoTransaction
    /\ UNCHANGED <<modules, orders>>

----------------------------------------------------------------------------

ContractsInit ==
    /\ store = [a \in DOMAIN OpeningCoins |-> Account(OpeningCoins[a], SYSTEM)]
    /\ machine = NoTransaction
    /\ modules = [map |-> {}, order |-> <<>>]
    /\ orders = 0

ContractsNext ==
    \/ \E tx \in Orders : Submit(tx)
    \/ ExecuteNative
    \/ CallRefused
    \/ call
    \/ machine.at = "guest" /\ \E i \in Slots, n \in 0 .. MaxBalance : host_set_balance(i, n)
    \/ machine.at = "guest" /\ \E i \in Slots, len \in {0, 1} : host_set_data(i, len)
    \/ machine.at = "guest" /\ \E i \in Slots, seed \in PdaSeeds : host_use_pda(i, seed)
    \/ host_read
    \/ Trap
    \/ run_wasm_instruction
    \/ CommitWorking

ContractsSpec == ContractsInit /\ [][ContractsNext]_contractVars

----------------------------------------------------------------------------
(* Properties.                                                             *)

\* Whatever contracts a transaction calls and however they interleave with
\* its native instructions, no coin appears, and only the payer and the
\* accounts of the programs it calls lose any: another holder loses at most
\* dust.
Called == {machine.tx.ixs[i].program : i \in {j \in 1 .. Len(machine.tx.ixs) :
                                                machine.tx.ixs[j].kind = "call"}}

Coins(accounts) == FoldSet(LAMBDA a, sum : sum + accounts[a].balance, 0, DOMAIN accounts)

Theirs(a) ==
    \/ a = Payer
    \/ store[a].owner \in Called
    \/ \E p \in Called, seed \in PdaSeeds : a = derive_pda(p, seed)

TakenStep ==
    store' # store =>
      /\ Coins(store') <= Coins(store)
      /\ \A a \in DOMAIN store :
           store'[a].balance < store[a].balance => Theirs(a) \/ store[a].balance < Dust

\* What stands in an account derived from a program, once the program owns
\* it, was written by that program and nobody else, although anybody may
\* have created and filled an account at that address before.
StateIsTheProgramsOwn ==
    \A a \in DOMAIN store :
       a[1] = "pda" /\ store[a].owner = a[2] /\ store[a].data # NoData => store[a].data = <<"by", a[2]>>

\* The code at an address, and who deployed it, never change.
PermanentStep ==
    \A a \in DOMAIN store :
       store[a].owner = LOADER /\ store[a].data # NoData => store'[a].data = store[a].data
                                                           /\ store'[a].owner = LOADER

=============================================================================
