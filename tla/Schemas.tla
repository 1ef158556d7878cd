------------------------------- MODULE Schemas -------------------------------
(***************************************************************************)
(* The records a chain keeps in accounts, across the layouts they have had *)
(* (schema.rs and each record's read_or_legacy).  A node reads every       *)
(* layout it knows, trying the current one first, and writes the current   *)
(* one.  It starts only on records that decode and, on a chain founded     *)
(* with a schema manifest, only if each one has the version declared there.*)
(*                                                                         *)
(* A record is its head, the fields every layout begins with and decodes   *)
(* alike, and its tail: one cell per integer, and for an Option a tag cell *)
(* with the value behind it when the tag is 1.  A proposal's passed_round  *)
(* and a stake account's unbonding_requested_at_round stand just before    *)
(* the appended field, so old and new blobs can have the same length.      *)
(***************************************************************************)
EXTENDS Integers, SequencesExt

CONSTANTS
    APR,             \* DEFAULT_EMISSION_APR_BPS
    THRESHOLD,       \* the signatures a treasury asked for before it had tiers
    MaxWrites        \* bound: records the running node writes

VARIABLES
    records,         \* per kind, the account's data: a set of at most one blob
    registry,        \* the validator registry: schema (0 for the v6 one), entries
    manifest,        \* the versions the chain declares: a set of at most one manifest
    economics_v7,
    schemaNode,      \* "down", "up" or "refused"
    meanings,        \* per kind, what the chain's history says it holds
    writes

schemaVars == <<records, registry, manifest, economics_v7, schemaNode, meanings, writes>>

Kinds == {"params", "fee", "stake", "proposal", "treasury"}

\* For each kind, the tails of its layouts, the current one first, and what
\* the fields an older layout lacks are given when it is read.
EconomicParams == [layouts |-> << <<"int", "int">>, <<"int">>, <<>> >>, added |-> <<APR, 0>>]

FeeState == [layouts |-> << <<"int">>, <<>> >>, added |-> <<0>>]

StakeAccountData == [layouts |-> << <<"option", "int">>, <<"option">> >>, added |-> <<0, 0>>]

ProposalV0 == <<"option">>

Proposal == [layouts |-> << ProposalV0 \o <<"int">>, ProposalV0 >>, added |-> <<0, 0>>]

\* An operation still pending in an old treasury is a release, the one kind
\* whose fields have not changed.
TreasuryState ==
    [layouts |-> << <<"int", "int", "int">>, <<>> >>, added |-> <<THRESHOLD, THRESHOLD, 0>>]

Kind(k) ==
    CASE k = "params" -> EconomicParams
      [] k = "fee" -> FeeState
      [] k = "stake" -> StakeAccountData
      [] k = "proposal" -> Proposal
      [] k = "treasury" -> TreasuryState

Layouts(k) == Kind(k).layouts

Added(k) == Kind(k).added

----------------------------------------------------------------------------
(* Borsh over the cells of a tail.                                         *)

NONE == -1

Cells(kind, v) == IF kind = "int" THEN <<v>> ELSE IF v = NONE THEN <<0>> ELSE <<1, v>>

Encode(layout, fields) ==
    FoldLeft(LAMBDA cells, i : cells \o Cells(layout[i], fields[i]), <<>>,
             [i \in 1 .. Len(layout) |-> i])

\* One field is taken off the cells; an end met too early is remembered.
ReadField(read, kind) ==
    LET width == CASE kind = "int" -> 1
                   [] read.rest = <<>> -> 1
                   [] OTHER -> 1 + read.rest[1]
    IN  IF width > Len(read.rest)
        THEN [read EXCEPT !.eof = TRUE, !.rest = <<>>]
        ELSE [read EXCEPT !.rest = SubSeq(read.rest, width + 1, Len(read.rest)),
                          !.fields = Append(@, IF kind = "option" /\ width = 1
                                               THEN NONE ELSE read.rest[width])]

Parse(cells, layout) ==
    FoldLeft(ReadField, [rest |-> cells, fields |-> <<>>, eof |-> FALSE], layout)

\* try_from_slice: every field is there, and nothing is left over.
DecodesAs(cells, layout) == LET read == Parse(cells, layout) IN ~read.eof /\ read.rest = <<>>

Newest(k) == Layouts(k)[1]

\* The fields in their order, the ones an older layout lacks filled in.
Filled(k, fields) == fields \o SubSeq(Added(k), Len(fields) + 1, Len(Added(k)))

\* Mutant: a tail the current layout cannot read counts as a fresh record.
FreshOnMismatch(k, cells) ==
    {IF DecodesAs(cells, Newest(k)) THEN Parse(cells, Newest(k)).fields ELSE Added(k)}

\* read_or_legacy: a set with what is read, empty when no layout decodes.
read_or_legacy(k, cells) ==
    LET fits == {i \in DOMAIN Layouts(k) : DecodesAs(cells, Layouts(k)[i])}
    IN  {Filled(k, Parse(cells, Layouts(k)[i]).fields) :
            i \in {j \in fits : \A other \in fits : j <= other}}

\* A treasury may also be the 32 bytes of one authority: a single signer.
Authority == [head |-> "authority", cells |-> <<>>]

Single == <<1, 1, 0>>

decode_any_version(blob) ==
    IF blob = Authority THEN {Single} ELSE read_or_legacy("treasury", blob.cells)

ReadRecord(k, blob) ==
    IF k = "treasury" THEN decode_any_version(blob) ELSE read_or_legacy(k, blob.cells)

----------------------------------------------------------------------------
(* The validator registry, and the startup gates.                          *)

\* An empty registry has the same bytes under every schema, v6 included; a
\* v6 registry with entries is none of the v7 schemas.
detect_registry_schema == IF registry.entries = 0 THEN 4 ELSE registry.schema

validate_critical_singletons ==
    /\ \E blob \in records["params"] : read_or_legacy("params", blob.cells) # {}
    /\ \A blob \in records["fee"] : read_or_legacy("fee", blob.cells) # {}
    /\ economics_v7 => /\ detect_registry_schema # 0
                       /\ \A blob \in records["treasury"] : decode_any_version(blob) # {}

\* The singletons whose version a manifest declares; the others have had one
\* layout only.
Singletons == {"params", "fee", "treasury", "registry"}

current_version(s) == CASE s = "registry" -> 4 [] s = "treasury" -> 2 [] OTHER -> 1

canonical == [s \in Singletons |-> current_version(s)]

\* 0 when no layout decodes.
detect_version(s, blob) ==
    CASE s = "treasury" -> IF blob = Authority THEN 1
                           ELSE IF read_or_legacy(s, blob.cells) # {} THEN 2 ELSE 0
      [] OTHER -> IF read_or_legacy(s, blob.cells) # {} THEN 1 ELSE 0

verify(declared) ==
    /\ detect_registry_schema = declared["registry"]
    /\ \A s \in Singletons \ {"registry"} : \A blob \in records[s] :
         detect_version(s, blob) = declared[s]

verify_schema_manifest == \A declared \in manifest : verify(declared)

----------------------------------------------------------------------------
\* The blobs older builds may have left: any layout of each kind, an Option
\* set or not; a fee state or a treasury may be missing.
Values(layout) ==
    {f \in [1 .. Len(layout) -> {NONE, 1}] : \A i \in DOMAIN f : layout[i] = "int" => f[i] = 1}

Blob(layout, fields) == [head |-> "head", cells |-> Encode(layout, fields)]

Written(k, layouts) ==
    UNION {{[blobs |-> {Blob(l, f)}, means |-> {Filled(k, f)}] : f \in Values(l)} : l \in layouts}

Absent == [blobs |-> {}, means |-> {}]

AnyLayout(k) == {Layouts(k)[i] : i \in DOMAIN Layouts(k)}

Founded(k) ==
    Written(k, AnyLayout(k))
    \union (IF k \in {"fee", "treasury"} THEN {Absent} ELSE {})
    \union (IF k = "treasury" THEN {[blobs |-> {Authority}, means |-> {Single}]} ELSE {})

\* The other records, where one is looked at in all its layouts.
Current(k) ==
    IF k = "treasury" /\ ~economics_v7 THEN Absent
    ELSE [blobs |-> {Blob(Newest(k), [i \in DOMAIN Newest(k) |-> 1])},
          means |-> {[i \in DOMAIN Newest(k) |-> 1]}]

\* Manifests are as old as the registry's schema 2; by then every other
\* record had its current layout.
SchemasInit ==
    /\ economics_v7 \in BOOLEAN
    /\ manifest \in {{}} \union {{[canonical EXCEPT !["registry"] = v]} : v \in 2 .. 4}
    /\ \E k \in IF economics_v7 THEN Kinds ELSE Kinds \ {"treasury"} :
         \E was \in IF manifest = {} THEN Founded(k) ELSE Written(k, {Newest(k)}) :
           /\ records = [j \in Kinds |-> IF j = k THEN was.blobs ELSE Current(j).blobs]
           /\ meanings = [j \in Kinds |-> IF j = k THEN was.means ELSE Current(j).means]
    /\ registry \in [schema : IF ~economics_v7 THEN {0}
                              ELSE IF manifest = {} THEN 1 .. 4
                              ELSE {declared["registry"] : declared \in manifest},
                     entries : {0, 1}]
    /\ schemaNode = "down"
    /\ writes = 0

\* main: after the state is loaded the gates are passed, or the node exits.
NodeStarts ==
    /\ schemaNode = "down"
    /\ schemaNode' = IF validate_critical_singletons /\ verify_schema_manifest
                     THEN "up" ELSE "refused"
    /\ UNCHANGED <<records, registry, manifest, economics_v7, meanings, writes>>

NodeStops ==
    /\ schemaNode = "up"
    /\ schemaNode' = "down"
    /\ UNCHANGED <<records, registry, manifest, economics_v7, meanings, writes>>

\* A program reads a record, changes one of its fields and writes it back.
WriteRecord(k, i, v) ==
    /\ schemaNode = "up" /\ writes < MaxWrites
    /\ \E blob \in records[k], means \in meanings[k] : \E fields \in ReadRecord(k, blob) :
         /\ records' = [records EXCEPT ![k] = {Blob(Newest(k), [fields EXCEPT ![i] = v])}]
         /\ meanings' = [meanings EXCEPT ![k] = {[means EXCEPT ![i] = v]}]
    /\ writes' = writes + 1
    /\ UNCHANGED <<registry, manifest, economics_v7, schemaNode>>

\* write_registry, or RegisterValidator on a v6 chain: the entry is added and
\* the account is written under the build's own schema.
WriteRegistry ==
    /\ schemaNode = "up" /\ writes < MaxWrites
    /\ registry' = [schema |-> IF economics_v7 THEN 4 ELSE 0, entries |-> 1]
    /\ writes' = writes + 1
    /\ UNCHANGED <<records, manifest, economics_v7, schemaNode, meanings>>

SchemasNext ==
    \/ NodeStarts
    \/ NodeStops
    \/ \E k \in Kinds : \E i \in DOMAIN Added(k) : WriteRecord(k, i, 2)
    \/ WriteRegistry

----------------------------------------------------------------------------
\* Whatever layout a record was last written in, and whichever were written
\* since by this build, a program reads what the chain's history put there,
\* with the fields an old layout lacks at the values that keep the old
\* behaviour (read_or_legacy of params.rs, staking.rs, the proposal and the
\* treasury).  An old blob with its Option set is as long as a new one
\* without it, and must not be taken for it.
MeaningIsKept ==
    \A k \in Kinds :
        /\ records[k] = {} <=> meanings[k] = {}
        /\ \A blob \in records[k] : ReadRecord(k, blob) = meanings[k]

\* The startup gates are "brick-safe": a chain without a manifest starts
\* whatever layouts its records have, and a v7 chain founded by this build
\* with one starts again after anything the programs have written
\* (Ledger::validate_critical_singletons, SchemaManifest::verify).
NeverBricked ==
    schemaNode = "refused" => \E declared \in manifest : declared # canonical \/ ~economics_v7
=============================================================================
