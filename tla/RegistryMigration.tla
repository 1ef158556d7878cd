-------------------------- MODULE RegistryMigration --------------------------
(***************************************************************************)
(* The validator registry account across its four schemas, and the offline *)
(* tool that rewrites it (qchain-migrate-registry).  The node reads any    *)
(* schema and writes the current one; the tool, run while the node is      *)
(* down, backs the account up, rewrites it, verifies what it wrote and can *)
(* roll back.  The tool may die between any two of its steps.              *)
(*                                                                         *)
(* The bytes of the account are the schema they were encoded under and the *)
(* entries, each a record of the fields that schema has.                   *)
(***************************************************************************)
EXTENDS Integers, SequencesExt

CONSTANTS Founding,        \* the registries a data directory may start with:
                           \* their bytes and what those mean
          NewEntry,        \* the entry a running node registers
          MaxRegistered,   \* bound: registrations while the node runs
          MaxToolCrashes   \* bound: runs of the tool that die

VARIABLES disk,            \* the bytes of the account in the store
          backups,         \* the backup files, some torn by a crash
          tool,            \* the run of the tool: at, read
          running,         \* is the node up
          meant,           \* the registry the chain's history says there is
          registered, toolCrashes

registryVars == <<disk, backups, tool, running, meant, registered, toolCrashes>>

------------------------------------------------------------------------------
(* validator_v7.rs *)

(* Borsh accepts bytes under the schema they were written in; an empty     *)
(* registry has the same bytes under every schema.                         *)
try_from_slice(b, v) == b.schema = v \/ (b.schema \in 1..4 /\ b.entries = << >>)

detect_registry_schema(b) ==
    IF \E v \in 1..4 : try_from_slice(b, v)
    THEN CHOOSE v \in 1..4 : /\ try_from_slice(b, v)
                             /\ \A w \in (v + 1)..4 : ~try_from_slice(b, w)
    ELSE 0

(* The fields each schema added, with the value migrate gives them. *)
Roles(e) == [operator |-> e.address, withdrawal |-> e.address]

KeyLife == [expiry |-> 0, revoked |-> FALSE, retired |-> << >>]

Freeze == [frozen_until |-> 0]

migrate(e, v) ==
    CASE v = 1 -> e @@ Roles(e) @@ KeyLife @@ Freeze
      [] v = 2 -> e @@ KeyLife @@ Freeze
      [] v = 3 -> e @@ Freeze
      [] v = 4 -> e

EntriesWith(b, v) == [i \in DOMAIN b.entries |-> migrate(b.entries[i], v)]

(* decode_registry, for bytes that decode at all. *)
Decodes(b) == detect_registry_schema(b) # 0

decode_registry(b) == EntriesWith(b, detect_registry_schema(b))

encode_registry(r) == [schema |-> 4, entries |-> r]

------------------------------------------------------------------------------
NoRun == [at |-> "idle", read |-> << >>]

InitRegistry ==
    /\ \E f \in Founding : disk = f.bytes /\ meant = f.means
    /\ backups = << >>
    /\ tool = NoRun
    /\ running = FALSE
    /\ registered = 0 /\ toolCrashes = 0

(* The node starts only on a registry that decodes; the tool needs the     *)
(* store to itself.                                                        *)
NodeStart ==
    /\ ~running /\ tool.at = "idle"
    /\ Decodes(disk)
    /\ running' = TRUE
    /\ UNCHANGED <<disk, backups, tool, meant, registered, toolCrashes>>

(* read_registry, push, write_registry: the account moves to schema 4. *)
NodeRegister ==
    /\ running /\ registered < MaxRegistered
    /\ disk' = encode_registry(Append(decode_registry(disk), NewEntry))
    /\ meant' = Append(meant, NewEntry)
    /\ registered' = registered + 1
    /\ UNCHANGED <<backups, tool, running, toolCrashes>>

NodeStop ==
    /\ running
    /\ running' = FALSE
    /\ UNCHANGED <<disk, backups, tool, meant, registered, toolCrashes>>

(* The tool with --apply --yes: it reads the account and goes on only for  *)
(* an older schema.                                                        *)
ToolPlan ==
    /\ ~running /\ tool.at = "idle"
    /\ detect_registry_schema(disk) \in 1..3
    /\ tool' = [at |-> "planned", read |-> disk]
    /\ UNCHANGED <<disk, backups, running, meant, registered, toolCrashes>>

(* It refuses to overwrite a backup of the same bytes, torn or not. *)
ToolBackup ==
    /\ tool.at = "planned"
    /\ IF \E i \in DOMAIN backups : backups[i].of = tool.read
       THEN tool' = NoRun /\ UNCHANGED backups
       ELSE /\ tool' = [tool EXCEPT !.at = "backed"]
            /\ backups' = Append(backups, [of |-> tool.read, means |-> meant, torn |-> FALSE])
    /\ UNCHANGED <<disk, running, meant, registered, toolCrashes>>

ToolWrite ==
    /\ tool.at = "backed"
    /\ disk' = encode_registry(decode_registry(tool.read))
    /\ tool' = [tool EXCEPT !.at = "written"]
    /\ UNCHANGED <<backups, running, meant, registered, toolCrashes>>

(* What it reads back is compared with what it wrote, else restored. *)
ToolVerify ==
    /\ tool.at = "written"
    /\ disk' = IF disk = encode_registry(decode_registry(tool.read))
               THEN disk ELSE tool.read
    /\ tool' = NoRun
    /\ UNCHANGED <<backups, running, meant, registered, toolCrashes>>

(* The tool dies, perhaps in the middle of writing the backup file. *)
ToolCrash ==
    /\ tool.at # "idle" /\ toolCrashes < MaxToolCrashes
    /\ tool' = NoRun
    /\ backups' \in {backups} \cup
          (IF tool.at = "planned" /\ ~\E i \in DOMAIN backups : backups[i].of = tool.read
           THEN {Append(backups, [of |-> tool.read, means |-> meant, torn |-> TRUE])} ELSE {})
    /\ toolCrashes' = toolCrashes + 1
    /\ UNCHANGED <<disk, running, meant, registered>>

(* --rollback: a backup that does not decode is refused.  Registrations    *)
(* made since the backup are gone from the registry.                       *)
ToolRollback(i) ==
    /\ ~running /\ tool.at = "idle"
    /\ ~backups[i].torn /\ Decodes(backups[i].of)
    /\ disk' = backups[i].of
    /\ meant' = backups[i].means
    /\ UNCHANGED <<backups, tool, running, registered, toolCrashes>>

NextRegistry ==
    \/ NodeStart
    \/ NodeRegister
    \/ NodeStop
    \/ ToolPlan
    \/ ToolBackup
    \/ ToolWrite
    \/ ToolVerify
    \/ ToolCrash
    \/ \E i \in DOMAIN backups : ToolRollback(i)

RegistrySpec == InitRegistry /\ [][NextRegistry]_registryVars

------------------------------------------------------------------------------
(* Whatever the tool has done to the bytes, and wherever it died, a node   *)
(* that reads the account finds the registry that the chain's history (or  *)
(* the rollback the operator asked for) says there is: every validator,    *)
(* with the roles and the key life it had (migrate of each schema,         *)
(* decode_registry, the tool's write and restore).                         *)
RegistryIsKept == Decodes(disk) => decode_registry(disk) = meant
==============================================================================
