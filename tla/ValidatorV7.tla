---------------------------- MODULE ValidatorV7 ----------------------------
(***************************************************************************)
(* The bonded validator registry (validator_v7.rs): registration against a *)
(* bond held in escrow, activation, jailing, exit, slashing, and the life  *)
(* of a validator's keys - time-locked changes of the cold keys, one- and  *)
(* two-phase rotation of the consensus key, an offline recovery committee  *)
(* that can freeze, revoke or expire - together with what the ledger does  *)
(* to the registry when a quanto closes.                                   *)
(*                                                                         *)
(* The registry is a sequence because the code looks a validator up by its *)
(* consensus address and takes the FIRST entry that matches; entries are   *)
(* never deleted, a Removed one is reused only by its own address.  Key    *)
(* bundles are their addresses; a proof of possession is anybody's to give *)
(* (the holder of a key may sign for any operator).  Instructions that are *)
(* refused change nothing, so the actions are those that succeed.          *)
(***************************************************************************)
EXTENDS Integers, Sequences, FiniteSets

CONSTANTS
    ColdAddresses,       \* addresses cold keys may be rotated to
    HotKeys,             \* addresses consensus keys may be rotated to
    Equivocators,        \* consensus keys that signed two vertices for one round
    Committees,          \* recovery committees that may be set up
    NoCommittee,         \* the empty configuration, which clears a committee
    Bond,                \* VALIDATOR_BOND_ATOMS
    Purses,              \* initial balance of each wallet
    WINDOW,              \* KEY_TIMELOCK_*_QUANTOS per kind of change
    RELEASE_QUANTOS,     \* max(VALIDATOR_BOND_UNBONDING_, SLASH_EVIDENCE_WINDOW_QUANTOS)
    SLASH_WINDOW,        \* SLASH_EVIDENCE_WINDOW_QUANTOS
    MAX_RETIRED,         \* MAX_RETIRED_CONSENSUS_KEYS
    MAX_VALIDATORS,      \* MAX_V7_VALIDATORS
    FreezeLength,        \* how far ahead a freeze or an expiry is set
    Workloads,           \* what users may submit in a behaviour: identities to register,
                         \*   classes of instructions, and for how many quantos
    MAX_KM_AUDIT_ENTRIES,
    MaxRecoveryOps       \* bound on the committee operations of a behaviour

Kinds == {"Operator", "Withdrawal", "RecoveryCommittee"}

ASSUME ValidatorAssumption ==
    /\ Bond \in Nat \ {0}
    /\ WINDOW \in [Kinds -> Nat]
    /\ RELEASE_QUANTOS \in Nat /\ SLASH_WINDOW \in Nat
    /\ SLASH_WINDOW <= RELEASE_QUANTOS
    /\ MAX_VALIDATORS \in Nat
    /\ NoCommittee \notin Committees

VARIABLES
    registry,            \* VALIDATOR_REGISTRY
    timelock,            \* VALIDATOR_KEY_TIMELOCK_REGISTRY: pending cold-key changes
    rotation,            \* VALIDATOR_CONSENSUS_ROTATION_REGISTRY: proposed rotations
    recovery,            \* VALIDATOR_RECOVERY_REGISTRY
    auditLog,            \* VALIDATOR_KM_AUDIT_LOG: operations of the committees
    quanto,              \* current_quanto of STAKING_GLOBAL
    tally,               \* participation of the committee in the last closed quanto
    purse,               \* balance of the wallets
    escrow,              \* balance of VALIDATOR_BOND_ESCROW
    unbondingPool,       \* balance of VALIDATOR_UNBONDING_POOL
    slashed,             \* bonds burned so far
    workload             \* the instructions users submit, the bound on quantos; constant

registryVars == <<registry, timelock, rotation, recovery, auditLog>>
moneyVars    == <<purse, escrow, unbondingPool, slashed>>
validatorVars == <<registryVars, moneyVars, quanto, tally, workload>>

KmAuditLog == [head |-> <<>>, count |-> 0, entries |-> <<>>]

Escrowed == {"BondedPending", "Active", "Jailed"}
Leaving  == {"Unbonding", "Revoked"}

ValidatorInit ==
    /\ registry = <<>>
    /\ timelock = {} /\ rotation = {} /\ recovery = {} /\ auditLog = KmAuditLog
    /\ quanto = 0
    /\ tally = <<>>
    /\ purse = Purses
    /\ escrow = 0 /\ unbondingPool = 0 /\ slashed = 0
    /\ workload \in Workloads

----------------------------------------------------------------------------
(* Looking validators up.                                                  *)

find(addr, i) ==
    /\ registry[i].address = addr
    /\ \A j \in 1 .. i - 1 : registry[j].address # addr

Unknown(addr) == \A i \in DOMAIN registry : registry[i].address # addr

addresses_in_use(except) ==
    UNION {{registry[i].address, registry[i].operator, registry[i].withdrawal} :
             i \in {j \in DOMAIN registry : /\ registry[j].state # "Removed"
                                            /\ registry[j].address # except}}

moniker_taken(m, except) ==
    \E i \in DOMAIN registry : /\ registry[i].moniker = m
                               /\ registry[i].state # "Removed"
                               /\ registry[i].address # except

is_frozen(v) == v.frozen_until # 0 /\ quanto < v.frozen_until

consensus_key_disabled(v) ==
    v.key_revoked \/ (v.key_expiry # 0 /\ v.key_expiry <= quanto) \/ is_frozen(v)

(* A validator can be slashed for a key it uses, else for one it retired   *)
(* within the evidence window.                                             *)
find_slashable(author, i) ==
    \/ find(author, i)
    \/ /\ Unknown(author)
       /\ \E r \in DOMAIN registry[i].retired :
             /\ registry[i].retired[r].address = author
             /\ registry[i].retired[r].until >= quanto
       /\ \A j \in 1 .. i - 1 : \A r \in DOMAIN registry[j].retired :
             registry[j].retired[r].address # author \/ registry[j].retired[r].until < quanto

(* The consensus committee derived from the registry: its indices.         *)
active_committee ==
    {i \in DOMAIN registry : /\ registry[i].state = "Active"
                             /\ registry[i].activation <= quanto
                             /\ registry[i].bond = Bond
                             /\ ~consensus_key_disabled(registry[i])}

require_operator(i, addr) ==
    /\ find(addr, i)
    /\ registry[i].state # "Removed"

----------------------------------------------------------------------------
(* Life cycle.  The payer of BondAndRegister is the operator.              *)

bond_and_register(id) ==
    LET entry == [address |-> id.key, operator |-> id.operator,
                  withdrawal |-> id.withdrawal, moniker |-> id.moniker,
                  bond |-> Bond, state |-> "BondedPending",
                  registered |-> quanto, activation |-> quanto + 1, release |-> 0,
                  participation |-> "Unscored", key_expiry |-> 0, key_revoked |-> FALSE,
                  retired |-> <<>>, frozen_until |-> 0]
    IN  /\ \A i \in DOMAIN registry : find(id.key, i) => registry[i].state = "Removed"
        /\ ~moniker_taken(id.moniker, id.key)
        /\ {id.key, id.operator, id.withdrawal} \cap addresses_in_use(id.key) = {}
        /\ Unknown(id.key) => Len(registry) < MAX_VALIDATORS
        /\ purse[id.operator] >= Bond
        /\ purse' = [purse EXCEPT ![id.operator] = @ - Bond]
        /\ escrow' = escrow + Bond
        /\ \/ /\ Unknown(id.key)
              /\ registry' = Append(registry, entry)
           \/ \E i \in DOMAIN registry : /\ find(id.key, i)
                                         /\ registry' = [registry EXCEPT ![i] = entry]
        /\ UNCHANGED <<timelock, rotation, recovery, auditLog, quanto, tally,
                       unbondingPool, slashed>>

begin_exit(i, addr) ==
    /\ find(addr, i)
    /\ registry[i].state \in Escrowed
    /\ ~is_frozen(registry[i])
    /\ escrow >= Bond
    /\ escrow' = escrow - Bond
    /\ unbondingPool' = unbondingPool + Bond
    /\ registry' = [registry EXCEPT ![i].state = "Unbonding",
                                    ![i].release = quanto + RELEASE_QUANTOS]
    /\ UNCHANGED <<timelock, rotation, recovery, auditLog, quanto, tally, purse, slashed>>

(* Mutant: a frozen validator may withdraw.                                *)
WithdrawFrozen(i, addr) ==
    /\ find(addr, i)
    /\ registry[i].state \in Leaving
    /\ quanto >= registry[i].release
    /\ unbondingPool >= Bond
    /\ unbondingPool' = unbondingPool - Bond
    /\ purse' = [purse EXCEPT ![registry[i].withdrawal] = @ + Bond]
    /\ registry' = [registry EXCEPT ![i].state = "Removed", ![i].bond = 0]
    /\ UNCHANGED <<timelock, rotation, recovery, auditLog, quanto, tally, escrow, slashed>>

withdraw_bond(i, addr) ==
    /\ find(addr, i)
    /\ registry[i].state \in Leaving
    /\ ~is_frozen(registry[i])
    /\ quanto >= registry[i].release
    /\ unbondingPool >= Bond
    /\ unbondingPool' = unbondingPool - Bond
    /\ purse' = [purse EXCEPT ![registry[i].withdrawal] = @ + Bond]
    /\ registry' = [registry EXCEPT ![i].state = "Removed", ![i].bond = 0]
    /\ UNCHANGED <<timelock, rotation, recovery, auditLog, quanto, tally, escrow, slashed>>

report_equivocation(i, author) ==
    /\ find_slashable(author, i)
    /\ registry[i].state \notin {"Slashed", "Removed"}
    /\ \/ /\ registry[i].state \notin Leaving
          /\ escrow >= Bond
          /\ escrow' = escrow - Bond
          /\ UNCHANGED unbondingPool
       \/ /\ registry[i].state \in Leaving
          /\ unbondingPool >= Bond
          /\ unbondingPool' = unbondingPool - Bond
          /\ UNCHANGED escrow
    /\ slashed' = slashed + Bond
    /\ registry' = [registry EXCEPT ![i].state = "Slashed", ![i].bond = 0]
    /\ UNCHANGED <<timelock, rotation, recovery, auditLog, quanto, tally, purse>>

unjail(i, addr) ==
    /\ find(addr, i)
    /\ registry[i].state = "Jailed"
    /\ registry' = [registry EXCEPT ![i].state = "Active", ![i].participation = "Unscored"]
    /\ UNCHANGED <<timelock, rotation, recovery, auditLog, quanto, tally, moneyVars>>

----------------------------------------------------------------------------
(* Cold keys: a change is proposed, waits out its window, and can then be  *)
(* applied by anyone.  A second proposal of a kind replaces the first.     *)

propose_key_change(i, addr, kind, new) ==
    /\ ~is_frozen(registry[i])
    /\ timelock' = {t \in timelock : ~(t.addr = addr /\ t.kind = kind)}
                     \cup {[addr |-> addr, kind |-> kind, new |-> new,
                            proposed |-> quanto, ready |-> quanto + WINDOW[kind]]}
    /\ UNCHANGED <<registry, rotation, recovery, auditLog, quanto, tally, moneyVars>>

RotateColdKey(i, addr, kind, new) ==
    /\ kind \in {"Operator", "Withdrawal"}
    /\ require_operator(i, addr)
    /\ new \notin addresses_in_use(addr)
    /\ propose_key_change(i, addr, kind, new)

set_recovery_committee(i, addr, config) ==
    /\ require_operator(i, addr)
    /\ registry[i].state # "Revoked"
    /\ propose_key_change(i, addr, "RecoveryCommittee", config)

(* Replacing a committee keeps its nonce; clearing one forgets the nonce.  *)
WithCommittee(addr, config) ==
    {r \in recovery : r.addr # addr}
      \cup (IF config = NoCommittee
              THEN {}
              ELSE {[addr |-> addr, config |-> config,
                     nonce |-> IF \E r \in recovery : r.addr = addr
                                 THEN (CHOOSE r \in recovery : r.addr = addr).nonce
                                 ELSE 0]})

apply_pending_key_change(i, addr, t) ==
    /\ t.addr = addr
    /\ quanto >= t.ready
    /\ find(addr, i)
    /\ registry[i].state \notin {"Revoked", "Removed"}
    /\ ~is_frozen(registry[i])
    /\ registry[i].registered <= t.proposed
    /\ \/ /\ t.kind = "Operator"
          /\ t.new \notin addresses_in_use(addr)
          /\ registry' = [registry EXCEPT ![i].operator = t.new]
          /\ UNCHANGED recovery
       \/ /\ t.kind = "Withdrawal"
          /\ t.new \notin addresses_in_use(addr)
          /\ registry' = [registry EXCEPT ![i].withdrawal = t.new]
          /\ UNCHANGED recovery
       \/ /\ t.kind = "RecoveryCommittee"
          /\ recovery' = WithCommittee(addr, t.new)
          /\ UNCHANGED registry
    /\ timelock' = timelock \ {t}
    /\ UNCHANGED <<rotation, auditLog, quanto, tally, moneyVars>>

cancel_pending_key_change(i, addr, t) ==
    /\ require_operator(i, addr)
    /\ t.addr = addr
    /\ timelock' = timelock \ {t}
    /\ UNCHANGED <<registry, rotation, recovery, auditLog, quanto, tally, moneyVars>>

----------------------------------------------------------------------------
(* The consensus key.                                                      *)

(* The keys still slashable after `old` is retired: those whose window has *)
(* not passed, then `old`; beyond the cap the one that expires first goes. *)
Fresh(keys) == SelectSeq(keys, LAMBDA r : r.until > quanto)

SoonestToExpire(keys) ==
    CHOOSE k \in DOMAIN keys : /\ \A j \in DOMAIN keys : keys[k].until <= keys[j].until
                               /\ \A j \in 1 .. k - 1 : keys[k].until < keys[j].until

Capped(keys) ==
    IF Len(keys) <= MAX_RETIRED
      THEN keys
      ELSE [k \in 1 .. Len(keys) - 1 |->
              keys[IF k < SoonestToExpire(keys) THEN k ELSE k + 1]]

retire_consensus_key(keys, old) ==
    Capped(Append(Fresh(keys), [address |-> old, until |-> quanto + SLASH_WINDOW]))

apply_consensus_rotation(i, new) ==
    /\ new # registry[i].address
    /\ new \notin addresses_in_use(registry[i].address)
    /\ registry' = [registry EXCEPT
         ![i].retired = retire_consensus_key(@, registry[i].address),
         ![i].address = new,
         ![i].key_revoked = FALSE,
         ![i].key_expiry = 0]

rotate_consensus_key(i, addr, new) ==
    /\ require_operator(i, addr)
    /\ ~is_frozen(registry[i])
    /\ apply_consensus_rotation(i, new)
    /\ rotation' = {r \in rotation : r.addr # addr}
    /\ UNCHANGED <<timelock, recovery, auditLog, quanto, tally, moneyVars>>

propose_consensus_key_rotation(i, addr, new) ==
    /\ require_operator(i, addr)
    /\ registry[i].state # "Revoked"
    /\ ~is_frozen(registry[i])
    /\ new # addr
    /\ new \notin addresses_in_use(addr)
    /\ rotation' = {r \in rotation : r.addr # addr}
                     \cup {[addr |-> addr, new |-> new, proposed |-> quanto]}
    /\ UNCHANGED <<registry, timelock, recovery, auditLog, quanto, tally, moneyVars>>

accept_consensus_key_rotation(i, addr, r) ==
    /\ r.addr = addr
    /\ find(addr, i)
    /\ registry[i].state \notin {"Revoked", "Removed"}
    /\ registry[i].registered <= r.proposed
    /\ ~is_frozen(registry[i])
    /\ apply_consensus_rotation(i, r.new)
    /\ rotation' = rotation \ {r}
    /\ UNCHANGED <<timelock, recovery, auditLog, quanto, tally, moneyVars>>

cancel_consensus_key_rotation(i, addr, r) ==
    /\ require_operator(i, addr)
    /\ r.addr = addr
    /\ rotation' = rotation \ {r}
    /\ UNCHANGED <<registry, timelock, recovery, auditLog, quanto, tally, moneyVars>>

revoke_consensus_key(i, addr) ==
    /\ require_operator(i, addr)
    /\ registry' = [registry EXCEPT ![i].key_revoked = TRUE]
    /\ UNCHANGED <<timelock, rotation, recovery, auditLog, quanto, tally, moneyVars>>

set_consensus_key_expiry(i, addr, expiry) ==
    /\ require_operator(i, addr)
    /\ registry' = [registry EXCEPT ![i].key_expiry = expiry]
    /\ UNCHANGED <<timelock, rotation, recovery, auditLog, quanto, tally, moneyVars>>

----------------------------------------------------------------------------
(* The recovery committee.  A quorum signs (validator, operation, nonce);  *)
(* a success raises the nonce and is recorded in the audit log.            *)

(* The log is a hash chain of which the newest entries are kept.  A hash is *)
(* what was hashed: the previous hash and the fields of the entry.          *)
km_audit_entry_hash(prev, fields) == Append(prev, fields)

append(log, event, addr, detail) ==
    LET fields == [seq |-> log.count, event |-> event, addr |-> addr,
                   quanto |-> quanto, detail |-> detail]
        entry  == [prev |-> log.head, fields |-> fields,
                   hash |-> km_audit_entry_hash(log.head, fields)]
        longer == Append(log.entries, entry)
    IN  [head |-> entry.hash, count |-> log.count + 1,
         entries |-> IF Len(longer) > MAX_KM_AUDIT_ENTRIES THEN Tail(longer) ELSE longer]

(* KmAuditLog::verify                                                       *)
KmVerify(log) ==
    LET e == log.entries
    IN  /\ \A k \in DOMAIN e : e[k].hash = km_audit_entry_hash(e[k].prev, e[k].fields)
        /\ \A k \in 2 .. Len(e) : e[k - 1].hash = e[k].prev
        /\ e # <<>> => e[Len(e)].hash = log.head

RecoveryOps == {"Revoke", "Freeze", "Unfreeze", "SetExpiry"}

RecoveryEffect(i, op) ==
    \/ /\ op = "Revoke"
       /\ registry[i].state \in Escrowed
       /\ escrow >= Bond
       /\ escrow' = escrow - Bond
       /\ unbondingPool' = unbondingPool + Bond
       /\ registry' = [registry EXCEPT ![i].state = "Revoked",
                                       ![i].release = quanto + RELEASE_QUANTOS]
    \/ /\ op = "Freeze"
       /\ registry[i].state \notin {"Revoked", "Removed"}
       /\ registry' = [registry EXCEPT ![i].frozen_until = quanto + FreezeLength]
       /\ UNCHANGED <<escrow, unbondingPool>>
    \/ /\ op = "Unfreeze"
       /\ registry' = [registry EXCEPT ![i].frozen_until = 0]
       /\ UNCHANGED <<escrow, unbondingPool>>
    \/ /\ op = "SetExpiry"
       /\ registry' = [registry EXCEPT ![i].key_expiry = quanto + FreezeLength]
       /\ UNCHANGED <<escrow, unbondingPool>>

recover_op(i, rec, op) ==
    /\ auditLog.count < MaxRecoveryOps
    /\ find(rec.addr, i)
    /\ RecoveryEffect(i, op)
    /\ recovery' = (recovery \ {rec}) \cup {[rec EXCEPT !.nonce = @ + 1]}
    /\ auditLog' = append(auditLog, op, rec.addr,
                          IF op \in {"Freeze", "SetExpiry"} THEN quanto + FreezeLength ELSE 0)
    /\ IF op = "Revoke"
         THEN /\ timelock' = {t \in timelock : t.addr # rec.addr}
              /\ rotation' = {r \in rotation : r.addr # rec.addr}
         ELSE UNCHANGED <<timelock, rotation>>
    /\ UNCHANGED <<quanto, tally, purse, slashed>>

----------------------------------------------------------------------------
(* Closing a quanto: validators whose activation has come become Active,   *)
(* then the tally of the quanto BEFORE the one being closed is written and *)
(* whoever it shows absent is jailed.  `score` is what the node's tally of *)
(* the quanto being closed will say of its committee.                      *)

Activated(v) ==
    IF v.state = "BondedPending" /\ v.activation <= quanto
      THEN [v EXCEPT !.state = "Active"]
      ELSE v

Scored(v) ==
    IF v.address \in DOMAIN tally THEN [v EXCEPT !.participation = tally[v.address]] ELSE v

jail_inactive(v) ==
    IF v.state = "Active" /\ v.participation = "Absent"
      THEN [v EXCEPT !.state = "Jailed"]
      ELSE v

(* With an empty tally apply_participation_for_quanto returns at once.     *)
Closed(v) ==
    IF DOMAIN tally = {} THEN Activated(v) ELSE jail_inactive(Scored(Activated(v)))

close_quanto(score) ==
    /\ quanto < workload.quantos
    /\ quanto' = quanto + 1
    /\ registry' = [i \in DOMAIN registry |-> Closed(registry[i])]
    /\ tally' = score
    /\ UNCHANGED <<timelock, rotation, recovery, auditLog, moneyVars>>

CommitteeKeys == {registry[i].address : i \in active_committee}

(* What users submit in a behaviour: the classes of instructions it uses.   *)
Lifecycle(i, addr) ==
    \/ begin_exit(i, addr)
    \/ withdraw_bond(i, addr)

ColdKeys(i, addr) ==
    \E kind \in {"Operator", "Withdrawal"}, new \in ColdAddresses :
       RotateColdKey(i, addr, kind, new)

ProposedChanges(i, addr) ==
    \E t \in timelock : \/ apply_pending_key_change(i, addr, t)
                        \/ cancel_pending_key_change(i, addr, t)

TurnOff(i, addr) ==
    \/ revoke_consensus_key(i, addr)
    \/ set_consensus_key_expiry(i, addr, quanto + FreezeLength)

TwoPhase(i, addr) ==
    \/ \E new \in HotKeys : propose_consensus_key_rotation(i, addr, new)
    \/ \E r \in rotation : \/ accept_consensus_key_rotation(i, addr, r)
                           \/ cancel_consensus_key_rotation(i, addr, r)

Recovery(i, addr) ==
    \/ \E c \in Committees \cup {NoCommittee} : set_recovery_committee(i, addr, c)
    \/ \E rec \in recovery, op \in RecoveryOps : recover_op(i, rec, op)

Submitted(i, addr) ==
    \/ "lifecycle" \in workload.classes /\ Lifecycle(i, addr)
    \/ "cold" \in workload.classes /\ ColdKeys(i, addr)
    \/ {"cold", "recovery"} \cap workload.classes # {} /\ ProposedChanges(i, addr)
    \/ "turn_off" \in workload.classes /\ TurnOff(i, addr)
    \/ "rotate" \in workload.classes /\ \E new \in HotKeys : rotate_consensus_key(i, addr, new)
    \/ "two_phase" \in workload.classes /\ TwoPhase(i, addr)
    \/ "recovery" \in workload.classes /\ Recovery(i, addr)
    \/ "jail" \in workload.classes /\ unjail(i, addr)
    \/ "evidence" \in workload.classes /\ \E a \in Equivocators : report_equivocation(i, a)

Scores ==
    [CommitteeKeys -> IF "jail" \in workload.classes THEN {"Absent", "Present"} ELSE {"Present"}]

ValidatorNext ==
    /\ \/ \E id \in workload.ids : bond_and_register(id)
       \/ \E i \in DOMAIN registry : Submitted(i, registry[i].address)
       \/ \E score \in Scores : close_quanto(score)
    /\ UNCHANGED workload

----------------------------------------------------------------------------
(* The checks of invariants_v7.rs and invariants.rs over the registry.     *)

bond_is_in_escrow(state) == state \in Escrowed

check_bond_escrow ==
    LET held == {i \in DOMAIN registry : bond_is_in_escrow(registry[i].state)}
    IN  /\ \A i \in held : registry[i].bond = Bond
        /\ escrow = Bond * Cardinality(held)

check_registry_uniqueness ==
    LET live  == {i \in DOMAIN registry : registry[i].state # "Removed"}
        roles == {"address", "operator", "withdrawal"}
    IN  /\ \A i, j \in live, r, q \in roles :
              registry[i][r] = registry[j][q] => i = j /\ r = q
        /\ \A i, j \in live : registry[i].moniker = registry[j].moniker => i = j

ValidatorSpec == ValidatorInit /\ [][ValidatorNext]_validatorVars
----------------------------------------------------------------------------
(* The bonds.  Every bond of a validator that is registered, active or      *)
(* jailed sits in the escrow account, every bond of one that is leaving     *)
(* sits in the unbonding pool, and nothing else does (check_bond_escrow of  *)
(* invariants_v7.rs): no sequence of exits, slashes, revocations,           *)
(* withdrawals and re-registrations moves a bond twice or leaves one behind. *)
BondsAreExact ==
    /\ check_bond_escrow
    /\ unbondingPool = Bond * Cardinality({i \in DOMAIN registry : registry[i].state \in Leaving})

(* While a validator is frozen its keys do not change, its bond is not moved *)
(* except to be slashed, and nobody else takes its slot: what               *)
(* require_not_frozen lists as refused, whichever instruction is tried.     *)
FrozenStep ==
    \A i \in DOMAIN registry : is_frozen(registry[i]) =>
       /\ registry'[i].address = registry[i].address
       /\ registry'[i].operator = registry[i].operator
       /\ registry'[i].withdrawal = registry[i].withdrawal
       /\ registry'[i].bond = registry[i].bond \/ registry'[i].state = "Slashed"
       /\ \A r \in recovery : r.addr = registry[i].address =>
             \E n \in recovery' : n.addr = r.addr /\ n.config = r.config

(* Revocation by the recovery committee is terminal: the operator can bring  *)
(* the validator back to no other state, nor change where its bond goes.    *)
RevokedStep ==
    \A i \in DOMAIN registry : registry[i].state = "Revoked" =>
       /\ registry'[i].state \in {"Revoked", "Slashed", "Removed"}
       /\ registry'[i].withdrawal = registry[i].withdrawal

(* "Among live validators none of the three role addresses nor the moniker   *)
(* may repeat", which invariants.rs states of any committed registry.       *)
RegistryIsUnique == check_registry_uniqueness

(* The audit log can be verified although old entries are dropped from it,  *)
(* the entries kept are the newest of all that were ever made, and whoever   *)
(* is frozen or was revoked by a committee finds the operation in it, under  *)
(* the key used then, as long as it has not been cut.                        *)
Logged(v, ops, detail) ==
    \/ \E k \in DOMAIN auditLog.entries :
          LET f == auditLog.entries[k].fields
          IN  /\ f.event \in ops /\ f.detail = detail
              /\ f.addr \in {v.address} \cup {v.retired[r].address : r \in DOMAIN v.retired}
    \/ auditLog.count > Len(auditLog.entries)

AuditIsExact ==
    /\ KmVerify(auditLog)
    /\ Len(auditLog.head) = auditLog.count
    /\ \A k \in DOMAIN auditLog.entries :
          auditLog.entries[k].fields.seq = auditLog.count - Len(auditLog.entries) + k - 1
    /\ \A i \in DOMAIN registry :
          /\ registry[i].frozen_until # 0 => Logged(registry[i], {"Freeze"}, registry[i].frozen_until)
          /\ registry[i].state = "Revoked" => Logged(registry[i], {"Revoke"}, 0)
=============================================================================
