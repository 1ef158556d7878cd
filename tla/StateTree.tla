----------------------------- MODULE StateTree -----------------------------
(***************************************************************************)
(* The two state-commitment trees over account addresses: the sparse       *)
(* Merkle tree of fixed depth and the path-compressed one, each with the   *)
(* definition over the whole set of leaves, the tree kept incrementally    *)
(* beside the account store, the what-if root and proof of a transaction   *)
(* that has not been committed, and the verifier of proofs.  A hash is the *)
(* term that is hashed, domain separator first: no two collide.            *)
(***************************************************************************)
EXTENDS Naturals, Sequences, FiniteSets, FiniteSetsExt, SequencesExt

CONSTANTS
    KEY_BITS,
    Keys,       \* the addresses that are written: sequences of bits
    Values,     \* encoded accounts
    Batches     \* how many accounts one transaction may write

AllKeys == [1 .. KEY_BITS -> {0, 1}]

VARIABLES
    accounts,   \* the store: the addresses set so far and their accounts
    legacy,     \* IncrementalStateTree.cache, by prefix
    compressed  \* IncrementalCompressedTree.root

treeVars == <<accounts, legacy, compressed>>

hash_leaf(v) == <<"00", v>>
bit_at(key, depth) == key[depth + 1] = 1
Leaves(written) == {[key |-> k, hash |-> hash_leaf(written[k])] : k \in DOMAIN written}

(* The leaves with that bit clear, and those with it set.                  *)
partition(leaves, depth) ==
    [left |-> {l \in leaves : ~bit_at(l.key, depth)},
     right |-> {l \in leaves : bit_at(l.key, depth)}]

The(leaves) == CHOOSE l \in leaves : TRUE

----------------------------------------------------------------------------
(* The sparse tree.                                                        *)

hash_internal(l, r) == <<"01", l, r>>

(* An empty subtree of that height.                                        *)
empty_hashes[d \in 0 .. KEY_BITS] ==
    IF d = 0 THEN <<"00">> ELSE hash_internal(empty_hashes[d - 1], empty_hashes[d - 1])

RECURSIVE compute_root(_, _)
compute_root(leaves, depth) ==
    IF leaves = {} THEN empty_hashes[KEY_BITS - depth]
    ELSE IF depth = KEY_BITS THEN The(leaves).hash
    ELSE LET p == partition(leaves, depth) IN
         hash_internal(compute_root(p.left, depth + 1), compute_root(p.right, depth + 1))

mask_prefix(key, depth) == SubSeq(key, 1, depth)
prefix_with_bit(key, depth, bit) == Append(SubSeq(key, 1, depth), bit)
Flip(bit) == 1 - bit

cached_or_empty(cache, depth, prefix) ==
    IF prefix \in DOMAIN cache THEN cache[prefix] ELSE empty_hashes[KEY_BITS - depth]

With(cache, prefix, hash) ==
    [p \in DOMAIN cache \union {prefix} |-> IF p = prefix THEN hash ELSE cache[p]]

(* The walk of note_set from the leaf towards the root.                    *)
RECURSIVE Upwards(_, _, _, _)
Upwards(cache, key, depth, current) ==
    LET sibling == cached_or_empty(cache, depth, prefix_with_bit(key, depth - 1, Flip(key[depth])))
        above == IF bit_at(key, depth - 1) THEN hash_internal(sibling, current)
                 ELSE hash_internal(current, sibling)
        noted == With(cache, mask_prefix(key, depth - 1), above)
    IN IF depth = 0 THEN cache ELSE Upwards(noted, key, depth - 1, above)

(* What a mutant does: the leaf changes and the path to it does not.       *)
NoteLeafOnly(cache, key, v) == With(cache, key, hash_leaf(v))

note_set(cache, key, v) ==
    Upwards(With(cache, key, hash_leaf(v)), key, KEY_BITS, hash_leaf(v))

(* Siblings from the leaf up, and the leaf's hash.                         *)
prove(cache, key) ==
    [key |-> key,
     leaf |-> cached_or_empty(cache, KEY_BITS, key),
     siblings |-> [i \in 1 .. KEY_BITS |->
         cached_or_empty(cache, KEY_BITS - i + 1,
             prefix_with_bit(key, KEY_BITS - i, Flip(key[KEY_BITS - i + 1])))]]

RECURSIVE pending_root(_, _, _, _)
pending_root(cache, depth, prefix, leaves) ==
    IF leaves = {} THEN cached_or_empty(cache, depth, prefix)
    ELSE IF depth = KEY_BITS THEN The(leaves).hash
    ELSE LET p == partition(leaves, depth) IN
         hash_internal(pending_root(cache, depth + 1, Append(prefix, 0), p.left),
                       pending_root(cache, depth + 1, Append(prefix, 1), p.right))

root_with_pending(cache, leaves) == pending_root(cache, 0, <<>>, leaves)

(* Depth by depth, the leaves on the side of the key and on the other one. *)
prove_with_pending(cache, key, leaves) ==
    LET under(depth) == {l \in leaves : mask_prefix(l.key, depth) = mask_prefix(key, depth)}
        beside(depth) == {l \in under(depth) : bit_at(l.key, depth) # bit_at(key, depth)}
        here == {l \in leaves : l.key = key}
    IN [key |-> key,
        leaf |-> IF here # {} THEN The(here).hash ELSE cached_or_empty(cache, KEY_BITS, key),
        siblings |-> [i \in 1 .. KEY_BITS |->
            LET depth == KEY_BITS - i IN
            pending_root(cache, depth + 1,
                prefix_with_bit(key, depth, Flip(key[depth + 1])), beside(depth))]]

verify_proof(root, proof) ==
    root = FoldLeft(
        LAMBDA current, i :
            IF bit_at(proof.key, KEY_BITS - i)
            THEN hash_internal(proof.siblings[i], current)
            ELSE hash_internal(current, proof.siblings[i]),
        proof.leaf, [i \in 1 .. KEY_BITS |-> i])

----------------------------------------------------------------------------
(* The path-compressed tree.                                               *)

empty_node == <<"05">>
leaf_node(key, hash) == <<"03", key, hash>>
internal_node(l, r) == <<"04", l, r>>

RECURSIVE compressed_root(_, _)
compressed_root(leaves, depth) ==
    IF leaves = {} THEN empty_node
    ELSE IF Cardinality(leaves) = 1 THEN leaf_node(The(leaves).key, The(leaves).hash)
    ELSE LET p == partition(leaves, depth) IN
         IF p.left = {} THEN compressed_root(p.right, depth + 1)
         ELSE IF p.right = {} THEN compressed_root(p.left, depth + 1)
         ELSE internal_node(compressed_root(p.left, depth + 1),
                            compressed_root(p.right, depth + 1))

first_diff_bit(a, b) == Min({d \in 0 .. KEY_BITS - 1 : a[d + 1] # b[d + 1]} \union {KEY_BITS})

EmptyNode == [kind |-> "empty", hash |-> empty_node]
LeafNode(key, value) ==
    [kind |-> "leaf", key |-> key, value |-> value, hash |-> leaf_node(key, value)]
branch(depth, rep, left, right) ==
    [kind |-> "internal", depth |-> depth, rep |-> rep, left |-> left, right |-> right,
     hash |-> internal_node(left.hash, right.hash)]

(* A new leaf beside a node, at the bit where it leaves the node's prefix. *)
Split(node, rep, d, key, value) ==
    IF bit_at(key, d) THEN branch(d, rep, node, LeafNode(key, value))
    ELSE branch(d, rep, LeafNode(key, value), node)

RECURSIVE insert(_, _, _)
insert(node, key, value) ==
    CASE node.kind = "empty" -> LeafNode(key, value)
      [] node.kind = "leaf" ->
            IF node.key = key THEN LeafNode(key, value)
            ELSE Split(node, node.key, first_diff_bit(node.key, key), key, value)
      [] node.kind = "internal" ->
            IF first_diff_bit(key, node.rep) < node.depth
            THEN Split(node, node.rep, first_diff_bit(key, node.rep), key, value)
            ELSE IF bit_at(key, node.depth)
            THEN branch(node.depth, node.rep, node.left, insert(node.right, key, value))
            ELSE branch(node.depth, node.rep, insert(node.left, key, value), node.right)

(* A pending leaf replaces the committed one of its key.                   *)
Overlaid(node, pending) ==
    pending \union (IF \E l \in pending : l.key = node.key THEN {}
                    ELSE {[key |-> node.key, hash |-> node.value]})

(* The first bit at which a pending leaf leaves the node's prefix.         *)
Divergence(node, pending) ==
    Min({node.depth} \union {first_diff_bit(l.key, node.rep) : l \in pending})

(* What a mutant does: it merges below the node whatever the prefix.       *)
RECURSIVE MergedBelow(_, _, _)
MergedBelow(node, pending, depth) ==
    IF pending = {} THEN node.hash
    ELSE IF node.kind # "internal"
    THEN compressed_root(IF node.kind = "empty" THEN pending ELSE Overlaid(node, pending), depth)
    ELSE LET p == partition(pending, node.depth) IN
         internal_node(MergedBelow(node.left, p.left, node.depth + 1),
                       MergedBelow(node.right, p.right, node.depth + 1))

RECURSIVE merged_hash(_, _, _)
merged_hash(node, pending, depth) ==
    IF pending = {} THEN node.hash
    ELSE IF node.kind = "empty" THEN compressed_root(pending, depth)
    ELSE IF node.kind = "leaf" THEN compressed_root(Overlaid(node, pending), depth)
    ELSE LET d == Divergence(node, pending)
             p == partition(pending, d)
             side == IF bit_at(node.rep, d) THEN "right" ELSE "left"
         IN IF d >= node.depth
            THEN internal_node(merged_hash(node.left, p.left, d + 1),
                               merged_hash(node.right, p.right, d + 1))
            ELSE IF side = "right"
            THEN internal_node(compressed_root(p.left, d + 1), merged_hash(node, p.right, d + 1))
            ELSE internal_node(merged_hash(node, p.left, d + 1), compressed_root(p.right, d + 1))

Terminal(leaf, key) ==
    IF leaf.key = key THEN [kind |-> "leaf", key |-> key, hash |-> leaf.hash]
    ELSE [kind |-> "other", key |-> leaf.key, hash |-> leaf.hash]

(* Descending into one side: the other one's hash is the next sibling.     *)
Step(proof, depth, sibling) ==
    [proof EXCEPT !.steps = Append(@, [depth |-> depth, sibling |-> sibling])]

RECURSIVE compute_proof(_, _, _)
compute_proof(leaves, depth, key) ==
    IF leaves = {} THEN [key |-> key, terminal |-> [kind |-> "empty"], steps |-> <<>>]
    ELSE IF Cardinality(leaves) = 1
    THEN [key |-> key, terminal |-> Terminal(The(leaves), key), steps |-> <<>>]
    ELSE LET p == partition(leaves, depth)
             same == IF bit_at(key, depth) THEN p.right ELSE p.left
             other == IF bit_at(key, depth) THEN p.left ELSE p.right
         IN IF p.left = {} \/ p.right = {} THEN compute_proof(leaves, depth + 1, key)
            ELSE Step(compute_proof(same, depth + 1, key), depth,
                      compressed_root(other, depth + 1))

RECURSIVE compressed_prove(_, _)
compressed_prove(node, key) ==
    CASE node.kind = "empty" ->
            [key |-> key, terminal |-> [kind |-> "empty"], steps |-> <<>>]
      [] node.kind = "leaf" ->
            [key |-> key, steps |-> <<>>,
             terminal |-> Terminal([key |-> node.key, hash |-> node.value], key)]
      [] node.kind = "internal" ->
            IF bit_at(key, node.depth)
            THEN Step(compressed_prove(node.right, key), node.depth, node.left.hash)
            ELSE Step(compressed_prove(node.left, key), node.depth, node.right.hash)

RECURSIVE merged_prove(_, _, _, _)
merged_prove(node, pending, depth, key) ==
    IF pending = {} THEN compressed_prove(node, key)
    ELSE IF node.kind = "empty" THEN compute_proof(pending, depth, key)
    ELSE IF node.kind = "leaf" THEN compute_proof(Overlaid(node, pending), depth, key)
    ELSE LET d == Divergence(node, pending)
             p == partition(pending, d)
             mine == IF bit_at(key, d) THEN p.right ELSE p.left
             theirs == IF bit_at(key, d) THEN p.left ELSE p.right
         IN IF d >= node.depth
            THEN LET same == IF bit_at(key, d) THEN node.right ELSE node.left
                     other == IF bit_at(key, d) THEN node.left ELSE node.right
                 IN Step(merged_prove(same, mine, d + 1, key), d, merged_hash(other, theirs, d + 1))
            ELSE IF bit_at(key, d) = bit_at(node.rep, d)
            THEN Step(merged_prove(node, mine, d + 1, key), d, compressed_root(theirs, d + 1))
            ELSE Step(compute_proof(mine, d + 1, key), d, merged_hash(node, theirs, d + 1))

compressed_verify(root, proof) ==
    /\ proof.terminal.kind = "other" => proof.terminal.key # proof.key
    /\ root = FoldLeft(
           LAMBDA current, step :
               IF bit_at(proof.key, step.depth) THEN internal_node(step.sibling, current)
               ELSE internal_node(current, step.sibling),
           IF proof.terminal.kind = "empty" THEN empty_node
           ELSE leaf_node(proof.terminal.key, proof.terminal.hash),
           proof.steps)

----------------------------------------------------------------------------
(* The store and the trees are written together.                           *)

TreeInit ==
    /\ accounts = <<>>
    /\ legacy = <<>>
    /\ compressed = EmptyNode

store_set(key, v) ==
    /\ accounts' = [k \in DOMAIN accounts \union {key} |-> IF k = key THEN v ELSE accounts[k]]
    /\ legacy' = note_set(legacy, key, v)
    /\ compressed' = insert(compressed, key, hash_leaf(v))

TreeNext == \E key \in Keys, v \in Values : store_set(key, v)

TreeSpec == TreeInit /\ [][TreeNext]_treeVars

----------------------------------------------------------------------------
(* Both incremental trees have the root of their definition over all the   *)
(* leaves, in whatever order the accounts were written and rewritten; and  *)
(* the root and the proof that a transaction is promised before it commits *)
(* are those of the state after it, for every set of accounts it writes.   *)
RootsAgree ==
    /\ cached_or_empty(legacy, 0, <<>>) = compute_root(Leaves(accounts), 0)
    /\ compressed.hash = compressed_root(Leaves(accounts), 0)
    /\ \A written \in {w \in SUBSET Keys : Cardinality(w) \in 1 .. Batches} :
       \A v \in Values :
         LET pending == {[key |-> k, hash |-> hash_leaf(v)] : k \in written}
             after == {l \in Leaves(accounts) : l.key \notin written} \union pending
         IN /\ root_with_pending(legacy, pending) = compute_root(after, 0)
            /\ merged_hash(compressed, pending, 0) = compressed_root(after, 0)

(* Every proof, of the committed state or of the state a transaction would *)
(* leave, verifies against that state's root and says of its key what the  *)
(* state says: the account, or that there is none.                         *)
ProofsVerify ==
    \A written \in {w \in SUBSET Keys : Cardinality(w) \in 0 .. Batches} :
      LET v == The(Values)
          pending == {[key |-> k, hash |-> hash_leaf(v)] : k \in written}
          after == {l \in Leaves(accounts) : l.key \notin written} \union pending
          root == compute_root(after, 0)
          croot == compressed_root(after, 0)
      IN \A key \in AllKeys :
           LET there == {l \in after : l.key = key}
               p == IF written = {} THEN prove(legacy, key)
                    ELSE prove_with_pending(legacy, key, pending)
               c == IF written = {} THEN compressed_prove(compressed, key)
                    ELSE merged_prove(compressed, pending, 0, key)
           IN /\ verify_proof(root, p)
              /\ p.leaf = IF there = {} THEN empty_hashes[0] ELSE The(there).hash
              /\ compressed_verify(croot, c)
              /\ (c.terminal.kind = "leaf") = (there # {})
              /\ there # {} => c.terminal.hash = The(there).hash

=============================================================================
