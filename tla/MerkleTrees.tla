---------------------------- MODULE MerkleTrees ----------------------------
(***************************************************************************)
(* The Merkle trees of the repository and the proofs taken from them.      *)
(*                                                                         *)
(* A complete_merkle_tree keeps, level by level, the hashes of the nodes   *)
(* that are not pristine, and repairs its upper levels after every leaf.   *)
(* A back_merkle_tree keeps one hash for every bit set in its leaf count.  *)
(* An epoch has two complete trees; a proof is taken when a leaf is pushed *)
(* and again, for every leaf, when the epoch is finished.                  *)
(*                                                                         *)
(* Both are compared with the tree itself: all the leaves, those not yet   *)
(* pushed being pristine, hashed in pairs up to the root.                  *)
(*                                                                         *)
(* A hash is what was hashed: <<v>> for data, a pair for a concatenation,  *)
(* so that different things have different hashes.  Sizes are logarithms,  *)
(* as in the code.                                                         *)
(***************************************************************************)
EXTENDS Integers, Sequences

CONSTANTS
    Log2Root, Log2Leaf, Log2Word,  \* sizes of the tree, of a leaf, of a word
    Values                         \* leaves are hashes of these

\* check_log2_sizes, and the constructor of a proof.
ASSUME MerkleAssumption ==
    /\ Log2Root \in Nat /\ Log2Leaf \in Nat /\ Log2Word \in Nat
    /\ Log2Root > 0 /\ Log2Word <= Log2Leaf /\ Log2Leaf <= Log2Root
    /\ Values \subseteq Nat

VARIABLES
    leaves,         \* the leaves pushed (a history)
    tree,           \* m_tree of the complete tree, by level
    leaf_count, context,    \* m_leaf_count and m_context of the back tree
    proofs,         \* the proof stored for every leaf
    finished        \* is the epoch finished?

vars == <<leaves, tree, leaf_count, context, proofs, finished>>

-----------------------------------------------------------------------------
Levels == Log2Leaf..Log2Root
Depth == Log2Root - Log2Leaf

\* address_type{1} << i.
Pow2[i \in 0..Log2Root] == IF i = 0 THEN 1 ELSE 2 * Pow2[i - 1]
MaxLeaves == Pow2[Depth]
Bit(a, i) == (a \div Pow2[i]) % 2 = 1

LeafHashes == {<<v>> : v \in Values}

\* get_concat_hash
Concat(left, right) == <<left, right>>

\* The hash of a pristine subtree of every size.
Pristine[s \in Log2Word..Log2Root] ==
    IF s = Log2Word THEN <<0>> ELSE Concat(Pristine[s - 1], Pristine[s - 1])

\* A merkle_tree_proof: the hashes of the siblings are found by their size.
Proof(a, s, hash, root, root_hash, siblings) ==
    [target_address |-> a, log2_target_size |-> s, target_hash |-> hash,
     log2_root_size |-> root, root_hash |-> root_hash, sibling_hashes |-> siblings]

-----------------------------------------------------------------------------
(* The complete tree. *)

\* Fault: the last entry of a level is taken to be final.
NextLevelKept(prev, next, s) ==
    LET safe == Len(prev) \div 2
    IN  [i \in 1..((Len(prev) + 1) \div 2) |->
            IF i <= Len(next) THEN next[i]
            ELSE IF i > safe THEN Concat(prev[Len(prev)], Pristine[s])
            ELSE Concat(prev[2 * i - 1], prev[2 * i])]

\* One level of bubble_up: the entries of next before its last are kept, the rest
\* is done again from prev, the last of an odd prev paired with a pristine hash.
\* (Entry i of the code is entry i + 1 here.)
NextLevel(prev, next, s) ==
    LET first == IF next = <<>> THEN 0 ELSE Len(next) - 1
        safe == Len(prev) \div 2
    IN  [i \in 1..((Len(prev) + 1) \div 2) |->
            IF i > safe THEN Concat(prev[Len(prev)], Pristine[s])
            ELSE IF i > first THEN Concat(prev[2 * i - 1], prev[2 * i])
            ELSE next[i]]

\* bubble_up: level after level, from the leaves to the root.
BubbleUp(t) ==
    LET up[s \in Levels] ==
            IF s = Log2Leaf THEN t[s] ELSE NextLevel(up[s - 1], t[s], s - 1)
    IN  up

\* The constructor from leaves: the levels above them are still empty.
FromLeaves(l) == BubbleUp([s \in Levels |-> IF s = Log2Leaf THEN l ELSE <<>>])

\* get_node_hash, for a node inside the tree.
NodeHash(t, a, s) ==
    LET i == a \div Pow2[s]
    IN  IF i < Len(t[s]) THEN t[s][i + 1] ELSE Pristine[s]

\* Where get_proof and get_node_hash do not throw.
IsNode(a, s) == s \in Levels /\ a % Pow2[s] = 0 /\ a \div Pow2[s] < Pow2[Log2Root - s]

Sibling(a, s) == IF Bit(a, s) THEN a - Pow2[s] ELSE a + Pow2[s]

\* Fault: every sibling is looked for on the right.
GetProofRight(t, a, s) ==
    Proof(a, s, NodeHash(t, a, s), Log2Root, NodeHash(t, 0, Log2Root),
          [l \in s..(Log2Root - 1) |-> NodeHash(t, a + Pow2[l], l)])

\* complete_merkle_tree::get_proof.
GetProof(t, a, s) ==
    Proof(a, s, NodeHash(t, a, s), Log2Root, NodeHash(t, 0, Log2Root),
          [l \in s..(Log2Root - 1) |-> NodeHash(t, Sibling(a, l), l)])

-----------------------------------------------------------------------------
(* Proofs. *)

\* The hash l levels up from a target hash, along the siblings of a proof.
Climb(p, hash, to) ==
    LET up[l \in p.log2_target_size..to] ==
            IF l = p.log2_target_size THEN hash
            ELSE IF Bit(p.target_address, l - 1)
            THEN Concat(p.sibling_hashes[l - 1], up[l - 1])
            ELSE Concat(up[l - 1], p.sibling_hashes[l - 1])
    IN  up[to]

\* merkle_tree_proof::bubble_up and ::verify.
ProofRoot(p, hash) == Climb(p, hash, p.log2_root_size)
Verify(p) == ProofRoot(p, p.target_hash) = p.root_hash

\* merkle_tree_proof::slice, for sizes it does not throw on.
Slice(p, root, target) ==
    Proof((p.target_address \div Pow2[target]) * Pow2[target],
          target, Climb(p, p.target_hash, target),
          root, Climb(p, p.target_hash, root),
          [l \in target..(root - 1) |-> p.sibling_hashes[l]])

\* Fault: the siblings are sent from the target up.
ToProtoReversed(p) ==
    [p EXCEPT !.sibling_hashes =
        [i \in 1..(p.log2_root_size - p.log2_target_size) |->
            p.sibling_hashes[p.log2_target_size + i - 1]]]

\* set_proto_merkle_tree_proof: the siblings become a list, from the root down.
ToProto(p) ==
    [p EXCEPT !.sibling_hashes =
        [i \in 1..(p.log2_root_size - p.log2_target_size) |->
            p.sibling_hashes[p.log2_root_size - i]]]

\* get_proto_merkle_tree_proof, for as many siblings as the sizes call for.
FromProto(q) ==
    [q EXCEPT !.sibling_hashes =
        [l \in q.log2_target_size..(q.log2_root_size - 1) |->
            q.sibling_hashes[q.log2_root_size - l]]]

-----------------------------------------------------------------------------
(* The back tree. *)

\* The lowest bit that is not set in the leaf count.
LowestClear(n) == CHOOSE i \in 0..Depth : ~Bit(n, i) /\ \A j \in 0..(i - 1) : Bit(n, j)

\* Fault: the new leaf goes to the left.
BackContextSwapped(hash) ==
    LET right[i \in 0..Depth] ==
            IF i = 0 THEN hash ELSE Concat(right[i - 1], context[i - 1])
        k == LowestClear(leaf_count)
    IN  [context EXCEPT ![k] = right[k]]

\* push_back: like adding one to the leaf count, every carry a concatenation.
BackContext(hash) ==
    LET right[i \in 0..Depth] ==
            IF i = 0 THEN hash ELSE Concat(context[i - 1], right[i - 1])
        k == LowestClear(leaf_count)
    IN  [context EXCEPT ![k] = right[k]]

\* back_merkle_tree::get_root_hash: grown from the first pristine leaf.
BackRoot ==
    LET root[i \in 0..Depth] ==
            IF i = 0 THEN Pristine[Log2Leaf]
            ELSE IF Bit(leaf_count, i - 1)
            THEN Concat(context[i - 1], root[i - 1])
            ELSE Concat(root[i - 1], Pristine[Log2Leaf + i - 1])
    IN  IF leaf_count < MaxLeaves THEN root[Depth] ELSE context[Depth]

\* Fault: the sibling of every node on the path is taken to be pristine.
NextLeafProofPristine ==
    Proof(leaf_count * Pow2[Log2Leaf], Log2Leaf, Pristine[Log2Leaf], Log2Root, BackRoot,
          [l \in Log2Leaf..(Log2Root - 1) |-> Pristine[l]])

\* get_next_leaf_proof, for a tree that is not full: its loop grows the root hash
\* the way get_root_hash does.
NextLeafProof ==
    Proof(leaf_count * Pow2[Log2Leaf], Log2Leaf, Pristine[Log2Leaf], Log2Root, BackRoot,
          [l \in Log2Leaf..(Log2Root - 1) |->
              IF Bit(leaf_count, l - Log2Leaf) THEN context[l - Log2Leaf]
                                               ELSE Pristine[l]])

-----------------------------------------------------------------------------
Init ==
    /\ leaves = <<>>
    /\ tree = [s \in Levels |-> <<>>]
    /\ leaf_count = 0 /\ context = [i \in 0..Depth |-> <<>>]
    /\ proofs = <<>> /\ finished = FALSE

\* complete_merkle_tree::push_back, which throws when the tree is full, and the
\* proof the manager takes of the new leaf.
PushBack(hash) ==
    /\ ~finished /\ Len(tree[Log2Leaf]) < MaxLeaves
    /\ leaves' = Append(leaves, hash)
    /\ tree' = BubbleUp([tree EXCEPT ![Log2Leaf] = Append(@, hash)])
    /\ proofs' = Append(proofs, GetProof(tree', Len(leaves) * Pow2[Log2Leaf], Log2Leaf))
    /\ UNCHANGED <<leaf_count, context, finished>>

\* back_merkle_tree::push_back of the same leaves.
BackPushBack ==
    /\ leaf_count < Len(leaves) /\ leaf_count < MaxLeaves
    /\ context' = BackContext(leaves[leaf_count + 1])
    /\ leaf_count' = leaf_count + 1
    /\ UNCHANGED <<leaves, tree, proofs, finished>>

\* Fault: the proofs are left as they are.
FinishEpochOnly ==
    /\ ~finished /\ finished' = TRUE
    /\ UNCHANGED <<leaves, tree, leaf_count, context, proofs>>

\* finish_epoch: all proofs are taken again.
FinishEpoch ==
    /\ ~finished /\ finished' = TRUE
    /\ proofs' = [i \in DOMAIN proofs |->
                    GetProof(tree, (i - 1) * Pow2[Log2Leaf], Log2Leaf)]
    /\ UNCHANGED <<leaves, tree, leaf_count, context>>

Next == (\E hash \in LeafHashes : PushBack(hash)) \/ BackPushBack \/ FinishEpoch

Spec == Init /\ [][Next]_vars

-----------------------------------------------------------------------------
(* The tree itself, and the properties. *)

\* Hash number i of size s in the tree with these leaves.
Reference(l) ==
    LET node[s \in Levels] ==
            IF s = Log2Leaf
            THEN [i \in 0..(MaxLeaves - 1) |->
                    IF i < Len(l) THEN l[i + 1] ELSE Pristine[Log2Leaf]]
            ELSE [i \in 0..(Pow2[Log2Root - s] - 1) |->
                    Concat(node[s - 1][2 * i], node[s - 1][2 * i + 1])]
    IN  [s \in Levels |-> node[s]]

\* The proof of a node, read off the tree, up to a given root.
ReferenceProof(ref, a, s, root) ==
    Proof(a, s, ref[s][a \div Pow2[s]], root, ref[root][a \div Pow2[root]],
          [l \in s..(root - 1) |-> ref[l][Sibling(a, l) \div Pow2[l]]])

Nodes == {n \in (0..(Pow2[Log2Root] - 1)) \X Levels : IsNode(n[1], n[2])}

\* The variables have the sizes the code relies on: a level has half the entries of
\* the one below, rounded up, and the context one entry for every level.
TypeOK ==
    /\ leaves \in Seq(LeafHashes) /\ Len(leaves) <= MaxLeaves
    /\ DOMAIN tree = Levels /\ tree[Log2Leaf] = leaves
    /\ \A s \in Levels \ {Log2Leaf} : Len(tree[s]) = (Len(tree[s - 1]) + 1) \div 2
    /\ leaf_count \in 0..Len(leaves) /\ DOMAIN context = 0..Depth
    /\ Len(proofs) = Len(leaves) /\ finished \in BOOLEAN

\* Repairing only the end of every level after every push leaves the tree that
\* hashing all leaves at once gives, with levels of the right sizes, and so does
\* building it from its leaves.
CompleteIsTree ==
    LET ref == Reference(leaves)
    IN  /\ TypeOK
        /\ \A s \in Levels, i \in 0..(MaxLeaves - 1) :
                i < Pow2[Log2Root - s] => NodeHash(tree, i * Pow2[s], s) = ref[s][i]
        /\ tree = FromLeaves(leaves)

\* Every proof the complete tree gives, of a leaf or an inner node, pushed or
\* pristine, verifies and has the hashes of the tree.  A slice of it is the proof, in
\* the subtree around the old target, of the node of the new size around it: what
\* the manager stores of every voucher.
ProofsOfTree ==
    LET ref == Reference(leaves)
    IN  \A n \in Nodes :
            LET p == GetProof(tree, n[1], n[2])
            IN  /\ Verify(p) /\ p = ReferenceProof(ref, n[1], n[2], Log2Root)
                /\ \A target \in n[2]..Log2Root, root \in 1..Log2Root :
                    root >= target =>
                        LET q == Slice(p, root, target)
                            a == (n[1] \div Pow2[target]) * Pow2[target]
                        IN  Verify(q) /\ q = ReferenceProof(ref, a, target, root)

\* A proof sent in a message and received is the same proof.
ProofsSurviveTransport ==
    \A n \in Nodes : LET p == GetProof(tree, n[1], n[2]) IN FromProto(ToProto(p)) = p

\* The back tree, which has forgotten its leaves, has the root of the tree.
BackIsTree == BackRoot = Reference(SubSeq(leaves, 1, leaf_count))[Log2Root][0]

\* The proof of the next leaf verifies, and any leaf put in the place of the
\* pristine one leads to the root the tree has once it is pushed.
NextLeafProofForesees ==
    leaf_count < MaxLeaves =>
        /\ Verify(NextLeafProof)
        /\ \A hash \in LeafHashes :
            ProofRoot(NextLeafProof, hash)
                = Reference(Append(SubSeq(leaves, 1, leaf_count), hash))[Log2Root][0]

\* Proofs stored while an epoch was active are proofs of a root that is gone: once
\* it is finished, all of them prove their leaf in the final tree (finish_epoch).
FinishedProofsCurrent ==
    finished => LET ref == Reference(leaves)
                IN  \A i \in DOMAIN proofs :
                        proofs[i] = ReferenceProof(ref, (i - 1) * Pow2[Log2Leaf], Log2Leaf,
                                                   Log2Root)
=============================================================================
