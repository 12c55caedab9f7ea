---------------------------- MODULE MerkleProofs ----------------------------
(***************************************************************************)
(* The Merkle trees and their proofs are right for trees of any size: the  *)
(* properties of MerkleTrees, for every choice of the sizes of root, leaf  *)
(* and word and every sequence of leaves.                                  *)
(*                                                                         *)
(* The trees are defined level by level.  Induction over the levels is     *)
(* done with sets: the levels at which a fact holds, which have the first  *)
(* and with each one the next, are all of them (IntervalInduction).        *)
(***************************************************************************)
EXTENDS MerkleTrees, SequenceTheorems, WellFoundedInduction, TLAPS

-----------------------------------------------------------------------------
(* Induction over an interval *)

\* A set of naturals that is not empty has a least element.
LEMMA LeastElement ==
    ASSUME NEW T \in SUBSET Nat, T # {}
    PROVE  \E m \in T : \A k \in T : m <= k
<1> DEFINE R == {r \in Nat \X Nat : r[1] < r[2]}
<1>1. IsWellFoundedOn(R, Nat)
  BY NatLessThanWellFounded DEF OpToRel
<1>2. PICK x \in T : \A y \in T : ~ (<<y, x>> \in R)
  BY <1>1, WFMin
<1>3. \A y \in T : y < x => <<y, x>> \in R
  OBVIOUS
<1>4. \A y \in T : ~(y < x)
  BY <1>2, <1>3
<1> QED
  BY <1>4

\* A set with the first number of an interval and, with each, the next, has all.
LEMMA IntervalInduction ==
    ASSUME NEW m \in Nat, NEW n \in Nat, NEW S, m \in S,
           \A k \in m..(n - 1) : k \in S => k + 1 \in S
    PROVE  \A k \in m..n : k \in S
<1> SUFFICES ASSUME \E k \in m..n : k \notin S PROVE FALSE
  OBVIOUS
<1> DEFINE T == {k \in m..n : k \notin S}
<1>1. T \in SUBSET Nat /\ T # {}
  OBVIOUS
<1>2. PICK k \in T : \A j \in T : k <= j
  BY <1>1, LeastElement
<1>3. k # m /\ k \in m..n /\ k \notin S
  OBVIOUS
<1>4. k - 1 \in m..(n - 1) /\ k - 1 \in m..n /\ k - 1 \notin T
  BY <1>2, <1>3
<1>5. k - 1 \in S
  BY <1>4
<1>6. (k - 1) + 1 \in S
  BY <1>4, <1>5
<1> QED
  BY <1>3, <1>6

-----------------------------------------------------------------------------
(* The recursive definitions are well defined *)

\* The powers of two that sizes and masks are made of.
LEMMA Pow2Def == Pow2 = [i \in 0..Log2Root |-> IF i = 0 THEN 1 ELSE 2 * Pow2[i - 1]]
<1> USE MerkleAssumption
<1> DEFINE Def(g, k) == [i \in 0..k |-> IF i = 0 THEN 1 ELSE 2 * g[i - 1]]
           S == {k \in 0..Log2Root : \E g : g = Def(g, k)}
<1>1. 0 \in S
  <2> DEFINE g == [i \in 0..0 |-> 1]
  <2>1. g = Def(g, 0)
    OBVIOUS
  <2> HIDE DEF g
  <2> QED
    BY <2>1
<1>2. ASSUME NEW k \in 0..(Log2Root - 1), k \in S PROVE k + 1 \in S
  <2>1. PICK g : g = Def(g, k)
    BY <1>2
  <2> DEFINE h == [i \in 0..(k + 1) |-> IF i = k + 1 THEN 2 * g[k] ELSE g[i]]
  <2>2. h = Def(h, k + 1)
    BY <2>1
  <2> HIDE DEF h
  <2> QED
    BY <2>2
<1>3. Log2Root \in S
  <2> HIDE DEF S
  <2>1. \A k \in 0..Log2Root : k \in S
    BY <1>1, <1>2, IntervalInduction
  <2> QED
    BY <2>1
<1>4. \E g : g = Def(g, Log2Root)
  BY <1>3
<1>5. Pow2 = CHOOSE g : g = Def(g, Log2Root)
  BY DEF Pow2
<1> QED
  BY <1>4, <1>5

\* The hashes of pristine subtrees.
LEMMA PristineDef ==
    Pristine = [s \in Log2Word..Log2Root |->
        IF s = Log2Word THEN <<0>> ELSE Concat(Pristine[s - 1], Pristine[s - 1])]
<1> USE MerkleAssumption
<1> DEFINE Twice(x) == Concat(x, x)
           Def(g, k) == [s \in Log2Word..k |->
               IF s = Log2Word THEN <<0>> ELSE Twice(g[s - 1])]
           S == {k \in Log2Word..Log2Root : \E g : g = Def(g, k)}
<1>0. \A g : Def(g, Log2Root) = [s \in Log2Word..Log2Root |->
          IF s = Log2Word THEN <<0>> ELSE Concat(g[s - 1], g[s - 1])]
  OBVIOUS
<1>5. Pristine = CHOOSE g : g = Def(g, Log2Root)
  BY DEF Pristine
<1> HIDE DEF Twice
<1>1. Log2Word \in S
  <2> DEFINE g == [s \in Log2Word..Log2Word |-> <<0>>]
  <2>1. g = Def(g, Log2Word)
    OBVIOUS
  <2> HIDE DEF g
  <2> QED
    BY <2>1
<1>2. ASSUME NEW k \in Log2Word..(Log2Root - 1), k \in S PROVE k + 1 \in S
  <2>1. PICK g : g = Def(g, k)
    BY <1>2
  <2> DEFINE h == [s \in Log2Word..(k + 1) |-> IF s = k + 1 THEN Twice(g[k]) ELSE g[s]]
  <2>2. h = Def(h, k + 1)
    BY <2>1
  <2> HIDE DEF h
  <2> QED
    BY <2>2
<1>3. Log2Root \in S
  <2> HIDE DEF S
  <2>1. \A k \in Log2Word..Log2Root : k \in S
    BY <1>1, <1>2, IntervalInduction
  <2> QED
    BY <2>1
<1>4. \E g : g = Def(g, Log2Root)
  BY <1>3
<1>6. Pristine = Def(Pristine, Log2Root)
  BY <1>4, <1>5
<1> QED
  BY <1>6, <1>0

\* bubble_up.
LEMMA BubbleUpDef ==
    ASSUME NEW t
    PROVE  BubbleUp(t) = [s \in Levels |->
               IF s = Log2Leaf THEN t[s]
               ELSE NextLevel(BubbleUp(t)[s - 1], t[s], s - 1)]
<1> USE MerkleAssumption
<1> DEFINE Def(g, k) == [s \in Log2Leaf..k |->
               IF s = Log2Leaf THEN t[s] ELSE NextLevel(g[s - 1], t[s], s - 1)]
           S == {k \in Log2Leaf..Log2Root : \E g : g = Def(g, k)}
<1>1. Log2Leaf \in S
  <2> DEFINE g == [s \in Log2Leaf..Log2Leaf |-> t[s]]
  <2>1. g = Def(g, Log2Leaf)
    OBVIOUS
  <2> HIDE DEF g
  <2> QED
    BY <2>1
<1>2. ASSUME NEW k \in Log2Leaf..(Log2Root - 1), k \in S PROVE k + 1 \in S
  <2>1. PICK g : g = Def(g, k)
    BY <1>2
  <2> DEFINE h == [s \in Log2Leaf..(k + 1) |->
               IF s = k + 1 THEN NextLevel(g[k], t[k + 1], k) ELSE g[s]]
  <2>2. h = Def(h, k + 1)
    BY <2>1
  <2> HIDE DEF h
  <2> QED
    BY <2>2
<1>3. Log2Root \in S
  <2> HIDE DEF S
  <2>1. \A k \in Log2Leaf..Log2Root : k \in S
    BY <1>1, <1>2, IntervalInduction
  <2> QED
    BY <2>1
<1>4. \E g : g = Def(g, Log2Root)
  BY <1>3
<1>5. BubbleUp(t) = CHOOSE g : g = Def(g, Log2Root)
  BY DEF BubbleUp, Levels
<1> QED
  BY <1>4, <1>5 DEF Levels

\* up has the hashes on the path from a target, along the siblings of a proof.
IsPath(up, p, hash, to) ==
    /\ up[p.log2_target_size] = hash
    /\ \A l \in (p.log2_target_size + 1)..to :
        up[l] = IF Bit(p.target_address, l - 1)
                THEN Concat(p.sibling_hashes[l - 1], up[l - 1])
                ELSE Concat(up[l - 1], p.sibling_hashes[l - 1])

\* merkle_tree_proof::bubble_up.
LEMMA ClimbDef ==
    ASSUME NEW p, NEW hash, NEW to \in Nat, p.log2_target_size \in 0..to
    PROVE  \E up : IsPath(up, p, hash, to) /\ Climb(p, hash, to) = up[to]
<1>a. p.log2_target_size \in Nat /\ p.log2_target_size <= to
  OBVIOUS
<1> DEFINE Step(x, s) == IF Bit(p.target_address, s - 1)
               THEN Concat(p.sibling_hashes[s - 1], x)
               ELSE Concat(x, p.sibling_hashes[s - 1])
           Def(g, k) == [s \in p.log2_target_size..k |->
                            IF s = p.log2_target_size THEN hash ELSE Step(g[s - 1], s)]
           S == {k \in p.log2_target_size..to : \E g : g = Def(g, k)}
<1>0. Climb(p, hash, to) = (CHOOSE g : g = Def(g, to))[to]
  BY DEF Climb
<1> HIDE DEF Step
<1>1. p.log2_target_size \in S
  <2> DEFINE g == [s \in p.log2_target_size..p.log2_target_size |-> hash]
  <2>1. g = Def(g, p.log2_target_size)
    OBVIOUS
  <2> HIDE DEF g
  <2>2. \E f : f = Def(f, p.log2_target_size)
    BY <2>1, Zenon
  <2>3. p.log2_target_size \in p.log2_target_size..to
    BY <1>a
  <2> QED
    BY <2>2, <2>3, Zenon
<1>2. ASSUME NEW k \in p.log2_target_size..(to - 1), k \in S PROVE k + 1 \in S
  <2>1. PICK g : g = Def(g, k)
    BY <1>2
  <2> DEFINE h == [s \in p.log2_target_size..(k + 1) |->
                      IF s = k + 1 THEN Step(g[k], k + 1) ELSE g[s]]
  <2>2. h = Def(h, k + 1)
    BY <2>1
  <2> HIDE DEF h
  <2> QED
    BY <2>2
<1>3. to \in S
  <2> HIDE DEF S
  <2>1. \A k \in p.log2_target_size..to : k \in S
    BY <1>1, <1>2, <1>a, IntervalInduction, Zenon
  <2> QED
    BY <2>1
<1>4. \E g : g = Def(g, to)
  BY <1>3
<1>5. PICK up : up = Def(up, to) /\ Climb(p, hash, to) = up[to]
  BY <1>0, <1>4
<1>6. up[p.log2_target_size] = hash
  BY <1>5
<1>7. \A l \in (p.log2_target_size + 1)..to : up[l] = Step(up[l - 1], l)
  BY <1>5
<1> QED
  BY <1>5, <1>6, <1>7 DEF Step, IsPath

\* The tree of all leaves.
LEMMA ReferenceDef ==
    ASSUME NEW leaf
    PROVE  /\ Reference(leaf)[Log2Leaf] =
                [i \in 0..(MaxLeaves - 1) |->
                    IF i < Len(leaf) THEN leaf[i + 1] ELSE Pristine[Log2Leaf]]
           /\ \A s \in (Log2Leaf + 1)..Log2Root :
                Reference(leaf)[s] =
                    [i \in 0..(Pow2[Log2Root - s] - 1) |->
                        Concat(Reference(leaf)[s - 1][2 * i],
                               Reference(leaf)[s - 1][2 * i + 1])]
<1> USE MerkleAssumption
<1> DEFINE Step(x, s) == [i \in 0..(Pow2[Log2Root - s] - 1) |-> Concat(x[2 * i], x[2 * i + 1])]
           First == [i \in 0..(MaxLeaves - 1) |->
                        IF i < Len(leaf) THEN leaf[i + 1] ELSE Pristine[Log2Leaf]]
           Def(g, k) == [s \in Log2Leaf..k |-> IF s = Log2Leaf THEN First ELSE Step(g[s - 1], s)]
           S == {k \in Log2Leaf..Log2Root : \E g : g = Def(g, k)}
<1>0. Reference(leaf) = [s \in Levels |-> (CHOOSE g : g = Def(g, Log2Root))[s]]
  BY DEF Reference, Levels
<1> HIDE DEF Step, First
<1>1. Log2Leaf \in S
  <2> DEFINE g == [s \in Log2Leaf..Log2Leaf |-> First]
  <2>1. g = Def(g, Log2Leaf)
    OBVIOUS
  <2> HIDE DEF g
  <2> QED
    BY <2>1
<1>2. ASSUME NEW k \in Log2Leaf..(Log2Root - 1), k \in S PROVE k + 1 \in S
  <2>1. PICK g : g = Def(g, k)
    BY <1>2
  <2> DEFINE h == [s \in Log2Leaf..(k + 1) |-> IF s = k + 1 THEN Step(g[k], k + 1) ELSE g[s]]
  <2>2. h = Def(h, k + 1)
    BY <2>1
  <2> HIDE DEF h
  <2> QED
    BY <2>2
<1>3. Log2Root \in S
  <2> HIDE DEF S
  <2>1. \A k \in Log2Leaf..Log2Root : k \in S
    BY <1>1, <1>2, IntervalInduction
  <2> QED
    BY <2>1
<1>4. \E g : g = Def(g, Log2Root)
  BY <1>3
<1>5. PICK g : g = Def(g, Log2Root) /\ Reference(leaf) = [s \in Levels |-> g[s]]
  BY <1>0, <1>4
<1>6. \A s \in Levels : Reference(leaf)[s] = g[s]
  BY <1>5
<1>b. g = Def(g, Log2Root)
  BY <1>5
<1>7. g[Log2Leaf] = First
  BY <1>b
<1>8. \A s \in (Log2Leaf + 1)..Log2Root : g[s] = Step(g[s - 1], s)
  BY <1>b
<1>9. \A s \in (Log2Leaf + 1)..Log2Root :
          Reference(leaf)[s] = Step(Reference(leaf)[s - 1], s)
  BY <1>6, <1>8 DEF Levels
<1>10. Reference(leaf)[Log2Leaf] = First
  BY <1>6, <1>7 DEF Levels
<1> QED
  BY <1>9, <1>10 DEF Step, First

\* back_merkle_tree::push_back: the carries of a new leaf.
LEMMA BackContextDef ==
    ASSUME NEW hash
    PROVE  \E right :
        /\ BackContext(hash) = [context EXCEPT ![LowestClear(leaf_count)] =
                                    right[LowestClear(leaf_count)]]
        /\ right[0] = hash
        /\ \A i \in 1..Depth : right[i] = Concat(context[i - 1], right[i - 1])
<1>a. Depth \in Nat
  BY MerkleAssumption DEF Depth
<1> USE <1>a
<1> DEFINE Step(x, s) == Concat(context[s - 1], x)
           Def(g, k) == [s \in 0..k |-> IF s = 0 THEN hash ELSE Step(g[s - 1], s)]
           S == {k \in 0..Depth : \E g : g = Def(g, k)}
<1>0. BackContext(hash) = [context EXCEPT ![LowestClear(leaf_count)] =
          (CHOOSE g : g = Def(g, Depth))[LowestClear(leaf_count)]]
  BY DEF BackContext
<1> HIDE DEF Step
<1>1. 0 \in S
  <2> DEFINE g == [s \in 0..0 |-> hash]
  <2>1. g = Def(g, 0)
    OBVIOUS
  <2> HIDE DEF g
  <2> QED
    BY <2>1
<1>2. ASSUME NEW k \in 0..(Depth - 1), k \in S PROVE k + 1 \in S
  <2>1. PICK g : g = Def(g, k)
    BY <1>2
  <2> DEFINE h == [s \in 0..(k + 1) |-> IF s = k + 1 THEN Step(g[k], k + 1) ELSE g[s]]
  <2>2. h = Def(h, k + 1)
    BY <2>1
  <2> HIDE DEF h
  <2> QED
    BY <2>2
<1>3. Depth \in S
  <2> HIDE DEF S
  <2>1. \A k \in 0..Depth : k \in S
    BY <1>1, <1>2, IntervalInduction
  <2> QED
    BY <2>1
<1>4. \E g : g = Def(g, Depth)
  BY <1>3
<1>5. PICK right : /\ right = Def(right, Depth)
                   /\ BackContext(hash) = [context EXCEPT ![LowestClear(leaf_count)] =
                                               right[LowestClear(leaf_count)]]
  BY <1>0, <1>4
<1>6. right[0] = hash
  BY <1>5
<1>7. \A i \in 1..Depth : right[i] = Step(right[i - 1], i)
  BY <1>5
<1> QED
  BY <1>5, <1>6, <1>7 DEF Step

\* back_merkle_tree::get_root_hash: the path above the first pristine leaf.
LEMMA BackRootDef ==
    ASSUME leaf_count < MaxLeaves
    PROVE  \E root :
        /\ BackRoot = root[Depth] /\ root[0] = Pristine[Log2Leaf]
        /\ \A i \in 1..Depth :
            root[i] = IF Bit(leaf_count, i - 1)
                      THEN Concat(context[i - 1], root[i - 1])
                      ELSE Concat(root[i - 1], Pristine[Log2Leaf + i - 1])
<1>a. Depth \in Nat
  BY MerkleAssumption DEF Depth
<1> USE <1>a
<1> DEFINE Step(x, s) == IF Bit(leaf_count, s - 1) THEN Concat(context[s - 1], x)
                         ELSE Concat(x, Pristine[Log2Leaf + s - 1])
           Def(g, k) == [s \in 0..k |-> IF s = 0 THEN Pristine[Log2Leaf] ELSE Step(g[s - 1], s)]
           S == {k \in 0..Depth : \E g : g = Def(g, k)}
<1>0. BackRoot = (CHOOSE g : g = Def(g, Depth))[Depth]
  BY DEF BackRoot
<1> HIDE DEF Step
<1>1. 0 \in S
  <2> DEFINE g == [s \in 0..0 |-> Pristine[Log2Leaf]]
  <2>1. g = Def(g, 0)
    OBVIOUS
  <2> HIDE DEF g
  <2> QED
    BY <2>1
<1>2. ASSUME NEW k \in 0..(Depth - 1), k \in S PROVE k + 1 \in S
  <2>1. PICK g : g = Def(g, k)
    BY <1>2
  <2> DEFINE h == [s \in 0..(k + 1) |-> IF s = k + 1 THEN Step(g[k], k + 1) ELSE g[s]]
  <2>2. h = Def(h, k + 1)
    BY <2>1
  <2> HIDE DEF h
  <2> QED
    BY <2>2
<1>3. Depth \in S
  <2> HIDE DEF S
  <2>1. \A k \in 0..Depth : k \in S
    BY <1>1, <1>2, IntervalInduction
  <2> QED
    BY <2>1
<1>4. \E g : g = Def(g, Depth)
  BY <1>3
<1>5. PICK root : root = Def(root, Depth) /\ BackRoot = root[Depth]
  BY <1>0, <1>4
<1>6. root[0] = Pristine[Log2Leaf]
  BY <1>5
<1>7. \A i \in 1..Depth : root[i] = Step(root[i - 1], i)
  BY <1>5
<1> QED
  BY <1>5, <1>6, <1>7 DEF Step

-----------------------------------------------------------------------------
(* Addresses *)

\* Powers of two are positive and double.
LEMMA Pow2Facts ==
    /\ Pow2[0] = 1
    /\ \A i \in 0..Log2Root : Pow2[i] \in Nat /\ Pow2[i] > 0
    /\ \A i \in 0..(Log2Root - 1) : Pow2[i + 1] = 2 * Pow2[i]
<1> USE MerkleAssumption
<1>1. Pow2[0] = 1
  BY Pow2Def
<1>2. \A i \in 0..(Log2Root - 1) : Pow2[i + 1] = 2 * Pow2[i]
  BY Pow2Def
<1> DEFINE S == {i \in 0..Log2Root : Pow2[i] \in Nat /\ Pow2[i] > 0}
<1>3. 0 \in S
  BY <1>1
<1>4. ASSUME NEW i \in 0..(Log2Root - 1), i \in S PROVE i + 1 \in S
  BY <1>2, <1>4
<1>5. \A i \in 0..Log2Root : i \in S
  <2> HIDE DEF S
  <2> QED
    BY <1>3, <1>4, IntervalInduction
<1> QED
  BY <1>1, <1>2, <1>5

\* Quotient and remainder determine each other.
LEMMA Quotient ==
    ASSUME NEW a \in Nat, NEW d \in Nat, d > 0
    PROVE  /\ a \div d \in Nat /\ a % d \in Nat /\ a % d < d
           /\ a = d * (a \div d) + (a % d)
  OBVIOUS

\* d times q and a remainder below d, divided by d, is q.
LEMMA QuotientUnique ==
    ASSUME NEW d \in Nat, d > 0, NEW q \in Nat, NEW r \in Nat, r < d
    PROVE  (d * q + r) \div d = q
<1> DEFINE a == d * q + r
           p == a \div d
           t == a % d
<1>1. a \in Nat
  OBVIOUS
<1>2. p \in Nat /\ t \in Nat /\ t < d /\ a = d * p + t
  BY <1>1, Quotient
<1> HIDE DEF p, t
<1>3. CASE p < q
  <2>1. d * (p + 1) <= d * q
    BY <1>2, <1>3
  <2> QED
    BY <2>1, <1>2
<1>4. CASE q < p
  <2>1. d * (q + 1) <= d * p
    BY <1>2, <1>4
  <2> QED
    BY <2>1, <1>2
<1>5. p = q
  BY <1>2, <1>3, <1>4
<1> QED
  BY <1>5 DEF p

\* Dividing by two is what goes from one level to the next.
LEMMA QuotientHalf ==
    ASSUME NEW a \in Nat, NEW i \in 0..(Log2Root - 1)
    PROVE  a \div Pow2[i + 1] = (a \div Pow2[i]) \div 2
<1> DEFINE d == Pow2[i]
           q == a \div d
           r == a % d
           h == q \div 2
           b == q % 2
<1>1. d \in Nat /\ d > 0 /\ Pow2[i + 1] = 2 * d
  BY Pow2Facts, MerkleAssumption
<1> HIDE DEF d
<1>2. q \in Nat /\ r \in Nat /\ r < d /\ a = d * q + r
  BY <1>1, Quotient
<1> HIDE DEF q, r
<1>3. h \in Nat /\ b \in {0, 1} /\ q = 2 * h + b
  BY <1>2
<1> HIDE DEF h, b
<1>4. d * b + r \in Nat /\ d * b + r < 2 * d
  <2>1. CASE b = 0
    BY <2>1, <1>1, <1>2
  <2>2. CASE b = 1
    BY <2>2, <1>1, <1>2
  <2> QED
    BY <2>1, <2>2, <1>3
<1>5. a = (2 * d) * h + (d * b + r)
  <2>1. CASE b = 0
    BY <2>1, <1>1, <1>2, <1>3
  <2>2. CASE b = 1
    <3>1. d * q = d * (2 * h) + d
      BY <2>2, <1>1, <1>2, <1>3
    <3> QED
      BY <3>1, <2>2, <1>1, <1>2, <1>3
  <2> QED
    BY <2>1, <2>2, <1>3
<1>6. 2 * d \in Nat /\ 2 * d > 0
  BY <1>1
<1> DEFINE e == 2 * d
           f == d * b + r
<1>7. e \in Nat /\ e > 0 /\ f \in Nat /\ f < e /\ a = e * h + f /\ Pow2[i + 1] = e
  BY <1>1, <1>4, <1>5, <1>6
<1> HIDE DEF e, f
<1>8. a \div e = h
  BY <1>7, <1>3, QuotientUnique
<1> QED
  BY <1>7, <1>8 DEF h, q, d

\* A quotient by a power of two is a number.
LEMMA QuotientNat ==
    ASSUME NEW a \in Nat, NEW i \in 0..Log2Root
    PROVE  a \div Pow2[i] \in Nat
  BY Pow2Facts, Quotient

\* A multiple divided.
LEMMA QuotientMultiple ==
    ASSUME NEW j \in Nat, NEW d \in Nat, d > 0
    PROVE  (j * d) \div d = j
<1>1. (d * j + 0) \div d = j
  BY QuotientUnique
<1>2. j * d = d * j + 0
  OBVIOUS
<1> QED
  BY <1>1, <1>2

\* What is less than a power of two is nothing once divided by it.
LEMMA QuotientZero ==
    ASSUME NEW a \in Nat, NEW d \in Nat, a < d
    PROVE  a \div d = 0
<1>1. (d * 0 + a) \div d = 0
  BY QuotientUnique
<1>2. d * 0 + a = a
  OBVIOUS
<1> QED
  BY <1>1, <1>2

\* The sibling of a node is the other node of its pair.
LEMMA SiblingIndex ==
    ASSUME NEW a \in Nat, NEW l \in 0..Log2Root
    PROVE  /\ a \div Pow2[l] \in Nat
           /\ Sibling(a, l) \div Pow2[l] =
                IF Bit(a, l) THEN (a \div Pow2[l]) - 1 ELSE (a \div Pow2[l]) + 1
           /\ Bit(a, l) => a \div Pow2[l] >= 1
<1> DEFINE d == Pow2[l]
           q == a \div d
           r == a % d
<1>1. d \in Nat /\ d > 0
  BY Pow2Facts, MerkleAssumption
<1>0. /\ Bit(a, l) <=> q % 2 = 1
      /\ Sibling(a, l) = IF Bit(a, l) THEN a - d ELSE a + d
  BY DEF Bit, Sibling
<1> HIDE DEF d
<1>2. q \in Nat /\ r \in Nat /\ r < d /\ a = d * q + r
  BY <1>1, Quotient
<1> HIDE DEF q, r
<1>3. a + d = d * (q + 1) + r
  BY <1>1, <1>2
<1>4. (a + d) \div d = q + 1
  <2>1. q + 1 \in Nat
    BY <1>2
  <2>2. (d * (q + 1) + r) \div d = q + 1
    BY <2>1, <1>1, <1>2, QuotientUnique
  <2> QED
    BY <2>2, <1>3
<1>5. ASSUME Bit(a, l) PROVE q >= 1 /\ (a - d) \div d = q - 1
  <2>1. q >= 1 /\ q - 1 \in Nat
    BY <1>0, <1>2, <1>5
  <2>2. a - d = d * (q - 1) + r
    BY <1>1, <1>2
  <2>3. (d * (q - 1) + r) \div d = q - 1
    BY <2>1, <1>1, <1>2, QuotientUnique
  <2> QED
    BY <2>1, <2>2, <2>3
<1>6. /\ q \in Nat
      /\ Sibling(a, l) \div d = IF Bit(a, l) THEN q - 1 ELSE q + 1
      /\ Bit(a, l) => q >= 1
  BY <1>0, <1>2, <1>4, <1>5
<1> QED
  BY <1>6 DEF q, d

\* Addresses in the same node are in the same nodes above it.
LEMMA SameAbove ==
    ASSUME NEW a \in Nat, NEW b \in Nat, NEW s \in 0..Log2Root,
           a \div Pow2[s] = b \div Pow2[s]
    PROVE  \A l \in s..Log2Root : a \div Pow2[l] = b \div Pow2[l]
<1> USE MerkleAssumption
<1> DEFINE S == {l \in s..Log2Root : a \div Pow2[l] = b \div Pow2[l]}
<1>1. s \in S
  OBVIOUS
<1>2. ASSUME NEW l \in s..(Log2Root - 1), l \in S PROVE l + 1 \in S
  BY <1>2, QuotientHalf
<1>3. \A l \in s..Log2Root : l \in S
  <2> HIDE DEF S
  <2> QED
    BY <1>1, <1>2, IntervalInduction
<1> QED
  BY <1>3

\* slice clears the bits of the target address below the new target.
LEMMA SlicedAddress ==
    ASSUME NEW a \in Nat, NEW t \in 0..Log2Root
    PROVE  /\ (a \div Pow2[t]) * Pow2[t] \in Nat
           /\ \A l \in t..Log2Root :
                ((a \div Pow2[t]) * Pow2[t]) \div Pow2[l] = a \div Pow2[l]
<1> DEFINE b == (a \div Pow2[t]) * Pow2[t]
<1>1. Pow2[t] \in Nat /\ Pow2[t] > 0
  BY Pow2Facts
<1>2. a \div Pow2[t] \in Nat
  BY <1>1, Quotient
<1>3. b \in Nat /\ b \div Pow2[t] = a \div Pow2[t]
  BY <1>1, <1>2, QuotientMultiple
<1> HIDE DEF b
<1>4. \A l \in t..Log2Root : b \div Pow2[l] = a \div Pow2[l]
  BY <1>3, SameAbove
<1> QED
  BY <1>3, <1>4 DEF b

\* The address of leaf j, divided.
LEMMA LeafAddress ==
    ASSUME NEW j \in Nat
    PROVE  /\ j * Pow2[Log2Leaf] \in Nat
           /\ \A i \in 0..Depth :
                (j * Pow2[Log2Leaf]) \div Pow2[Log2Leaf + i] = j \div Pow2[i]
<1> USE MerkleAssumption DEF Depth
<1> DEFINE a == j * Pow2[Log2Leaf]
           S == {i \in 0..Depth : a \div Pow2[Log2Leaf + i] = j \div Pow2[i]}
<1>1. a \in Nat
  BY Pow2Facts
<1>2. 0 \in S
  <2>1. a \div Pow2[Log2Leaf] = j
    BY Pow2Facts, QuotientMultiple
  <2>2. j \div Pow2[0] = j
    BY Pow2Facts
  <2> QED
    BY <2>1, <2>2
<1> HIDE DEF a
<1>3. ASSUME NEW i \in 0..(Depth - 1), i \in S PROVE i + 1 \in S
  <2>1. a \div Pow2[(Log2Leaf + i) + 1] = (a \div Pow2[Log2Leaf + i]) \div 2
    BY <1>1, QuotientHalf
  <2>2. j \div Pow2[i + 1] = (j \div Pow2[i]) \div 2
    BY QuotientHalf
  <2>3. (Log2Leaf + i) + 1 = Log2Leaf + (i + 1) /\ i + 1 \in 0..Depth
    OBVIOUS
  <2> QED
    BY <2>1, <2>2, <2>3, <1>3
<1>4. \A i \in 0..Depth : i \in S
  <2> HIDE DEF S
  <2> QED
    BY <1>2, <1>3, IntervalInduction
<1> QED
  BY <1>1, <1>4 DEF a

\* Inside(a, s): address a is in the tree, as seen from the nodes of size s.
Inside(a, s) == a \div Pow2[s] \in 0..(Pow2[Log2Root - s] - 1)

\* The nodes above a node of the tree are in the tree, up to its root.
LEMMA InsideAbove ==
    ASSUME NEW a \in Nat, NEW s \in 0..Log2Root, Inside(a, s)
    PROVE  (\A l \in s..Log2Root : Inside(a, l)) /\ a \div Pow2[Log2Root] = 0
<1> USE MerkleAssumption
<1> DEFINE S == {l \in s..Log2Root : Inside(a, l)}
<1>1. s \in S
  OBVIOUS
<1>2. ASSUME NEW l \in s..(Log2Root - 1), l \in S PROVE l + 1 \in S
  <2> DEFINE q == a \div Pow2[l]
             w == Pow2[Log2Root - (l + 1)]
  <2>1. a \div Pow2[l + 1] = q \div 2
    BY QuotientHalf
  <2>2. Pow2[Log2Root - l] = 2 * w /\ w \in Nat
    BY Pow2Facts, Log2Root - l = (Log2Root - (l + 1)) + 1
  <2>3. q \in 0..(Pow2[Log2Root - l] - 1)
    BY <1>2 DEF Inside
  <2> HIDE DEF q, w
  <2>4. q \div 2 \in 0..(w - 1)
    BY <2>2, <2>3
  <2>5. Inside(a, l + 1)
    BY <2>1, <2>4 DEF Inside, w
  <2> QED
    BY <2>5
<1>3. \A l \in s..Log2Root : l \in S
  <2> HIDE DEF S
  <2> QED
    BY <1>1, <1>2, IntervalInduction
<1>4. a \div Pow2[Log2Root] \in 0..(Pow2[Log2Root - Log2Root] - 1)
  BY <1>3 DEF Inside
<1>5. Log2Root - Log2Root = 0
  OBVIOUS
<1>6. Pow2[Log2Root - Log2Root] = 1
  BY <1>5, Pow2Facts
<1> QED
  BY <1>3, <1>4, <1>6

\* A node, its sibling and their parent.
LEMMA Family ==
    ASSUME NEW a \in Nat, NEW l \in 0..(Log2Root - 1), Inside(a, l)
    PROVE  LET h == a \div Pow2[l + 1]
               q == a \div Pow2[l]
               z == Sibling(a, l) \div Pow2[l]
           IN  /\ h \in 0..(Pow2[Log2Root - (l + 1)] - 1)
               /\ Pow2[Log2Root - l] = 2 * Pow2[Log2Root - (l + 1)]
               /\ Bit(a, l) => q = 2 * h + 1 /\ z = 2 * h
               /\ ~Bit(a, l) => q = 2 * h /\ z = 2 * h + 1
               /\ Inside(Sibling(a, l), l)
<1> USE MerkleAssumption
<1> DEFINE h == a \div Pow2[l + 1]
           q == a \div Pow2[l]
           z == Sibling(a, l) \div Pow2[l]
           w == Pow2[Log2Root - (l + 1)]
<1>1. h = q \div 2
  BY QuotientHalf
<1>2. /\ q \in Nat
      /\ Bit(a, l) => z = q - 1
      /\ ~Bit(a, l) => z = q + 1
  BY SiblingIndex
<1>7. Bit(a, l) <=> q % 2 = 1
  BY DEF Bit
<1>3. Pow2[Log2Root - l] = 2 * w /\ w \in Nat
  BY Pow2Facts, Log2Root - l = (Log2Root - (l + 1)) + 1
<1>4. q \in 0..(2 * w - 1)
  BY <1>3 DEF Inside
<1>5. Inside(Sibling(a, l), l) <=> z \in 0..(2 * w - 1)
  BY <1>3 DEF Inside
<1> HIDE DEF h, q, z, w
<1>6. /\ h \in 0..(w - 1)
      /\ Bit(a, l) => q = 2 * h + 1 /\ z = 2 * h
      /\ ~Bit(a, l) => q = 2 * h /\ z = 2 * h + 1
      /\ z \in 0..(2 * w - 1)
  BY <1>1, <1>2, <1>3, <1>4, <1>7
<1> QED
  BY <1>3, <1>5, <1>6 DEF h, q, z, w

-----------------------------------------------------------------------------
(* Proofs of the tree *)

\* A node of the tree is the hash of the two below it.
LEMMA ReferencePair ==
    ASSUME NEW leaf, NEW s \in Log2Leaf..(Log2Root - 1),
           NEW i \in 0..(Pow2[Log2Root - (s + 1)] - 1)
    PROVE  Reference(leaf)[s + 1][i] =
               Concat(Reference(leaf)[s][2 * i], Reference(leaf)[s][2 * i + 1])
<1>1. s + 1 \in (Log2Leaf + 1)..Log2Root /\ (s + 1) - 1 = s
  BY MerkleAssumption
<1>2. Reference(leaf)[s + 1] =
          [j \in 0..(Pow2[Log2Root - (s + 1)] - 1) |->
              Concat(Reference(leaf)[(s + 1) - 1][2 * j],
                     Reference(leaf)[(s + 1) - 1][2 * j + 1])]
  BY <1>1, ReferenceDef
<1> QED
  BY <1>1, <1>2

\* Along the siblings of a node of the tree one climbs to the nodes above it.
LEMMA ClimbReference ==
    ASSUME NEW leaf, NEW a \in Nat, NEW s \in Levels, NEW root \in s..Log2Root,
           Inside(a, s), NEW to \in s..root, NEW p,
           p = ReferenceProof(Reference(leaf), a, s, root)
    PROVE  Climb(p, p.target_hash, to) = Reference(leaf)[to][a \div Pow2[to]]
<1> USE MerkleAssumption DEF Levels
<1> DEFINE ref == Reference(leaf)
           sib == [l \in s..(root - 1) |-> ref[l][Sibling(a, l) \div Pow2[l]]]
<1>1. /\ p.target_address = a /\ p.log2_target_size = s
      /\ p.target_hash = ref[s][a \div Pow2[s]] /\ p.sibling_hashes = sib
  BY DEF ReferenceProof, Proof
<1> HIDE DEF ref
<1>2. PICK up : IsPath(up, p, p.target_hash, to) /\ Climb(p, p.target_hash, to) = up[to]
  <2>1. p.log2_target_size \in 0..to /\ to \in Nat
    BY <1>1
  <2> QED
    BY <2>1, ClimbDef
<1>7. /\ up[s] = p.target_hash
      /\ \A l \in (s + 1)..to :
            up[l] = IF Bit(a, l - 1) THEN Concat(p.sibling_hashes[l - 1], up[l - 1])
                                     ELSE Concat(up[l - 1], p.sibling_hashes[l - 1])
  BY <1>1, <1>2, Zenon DEF IsPath
<1> DEFINE S == {l \in s..to : up[l] = ref[l][a \div Pow2[l]]}
<1>3. s \in S
  BY <1>1, <1>7
<1>4. ASSUME NEW l \in s..(to - 1), l \in S PROVE l + 1 \in S
  <2> DEFINE h == a \div Pow2[l + 1]
             q == a \div Pow2[l]
             z == Sibling(a, l) \div Pow2[l]
  <2>1. l \in 0..(Log2Root - 1) /\ l + 1 \in (s + 1)..to /\ (l + 1) - 1 = l
        /\ l \in s..(root - 1) /\ l \in Log2Leaf..(Log2Root - 1)
    OBVIOUS
  <2>2. Inside(a, l)
    BY InsideAbove, <2>1
  <2>3. /\ h \in 0..(Pow2[Log2Root - (l + 1)] - 1)
        /\ Bit(a, l) => q = 2 * h + 1 /\ z = 2 * h
        /\ ~Bit(a, l) => q = 2 * h /\ z = 2 * h + 1
    BY <2>1, <2>2, Family
  <2>4. p.sibling_hashes[l] = ref[l][z]
    BY <1>1, <2>1
  <2>5. up[l] = ref[l][q]
    BY <1>4
  <2>6. up[l + 1] = IF Bit(a, l) THEN Concat(ref[l][z], ref[l][q])
                                 ELSE Concat(ref[l][q], ref[l][z])
    BY <1>7, <2>1, <2>4, <2>5
  <2> HIDE DEF h, q, z
  <2>7. up[l + 1] = Concat(ref[l][2 * h], ref[l][2 * h + 1])
    BY <2>3, <2>6
  <2>8. ref[l + 1][h] = Concat(ref[l][2 * h], ref[l][2 * h + 1])
    BY <2>1, <2>3, ReferencePair DEF ref
  <2>9. up[l + 1] = ref[l + 1][a \div Pow2[l + 1]]
    BY <2>7, <2>8 DEF h
  <2> QED
    BY <2>1, <2>9
<1>5. \A l \in s..to : l \in S
  <2> HIDE DEF S
  <2> QED
    BY <1>3, <1>4, IntervalInduction
<1>6. up[to] = ref[to][a \div Pow2[to]]
  BY <1>5
<1> QED
  BY <1>2, <1>6 DEF ref

\* A proof read off the tree verifies.
LEMMA VerifyReference ==
    ASSUME NEW leaf, NEW a \in Nat, NEW s \in Levels, NEW root \in s..Log2Root,
           Inside(a, s)
    PROVE  Verify(ReferenceProof(Reference(leaf), a, s, root))
<1> DEFINE p == ReferenceProof(Reference(leaf), a, s, root)
<1>1. /\ p.log2_root_size = root /\ root \in s..root
      /\ p.root_hash = Reference(leaf)[root][a \div Pow2[root]]
  BY MerkleAssumption DEF ReferenceProof, Proof, Levels
<1> HIDE DEF p
<1>2. Climb(p, p.target_hash, root) = p.root_hash
  BY <1>1, ClimbReference DEF p
<1> QED
  BY <1>1, <1>2 DEF Verify, ProofRoot, p

\* A slice of a proof read off the tree is the proof read off the tree.
LEMMA SliceReference ==
    ASSUME NEW leaf, NEW a \in Nat, NEW s \in Levels, Inside(a, s),
           NEW target \in s..Log2Root, NEW root \in target..Log2Root
    PROVE  Slice(ReferenceProof(Reference(leaf), a, s, Log2Root), root, target)
             = ReferenceProof(Reference(leaf), (a \div Pow2[target]) * Pow2[target],
                              target, root)
<1> USE MerkleAssumption DEF Levels
<1> DEFINE ref == Reference(leaf)
           p == ReferenceProof(ref, a, s, Log2Root)
           b == (a \div Pow2[target]) * Pow2[target]
<1>1. /\ p.target_address = a
      /\ p.sibling_hashes =
            [l \in s..(Log2Root - 1) |-> ref[l][Sibling(a, l) \div Pow2[l]]]
  BY DEF ReferenceProof, Proof
<1>2. /\ Climb(p, p.target_hash, target) = ref[target][a \div Pow2[target]]
      /\ Climb(p, p.target_hash, root) = ref[root][a \div Pow2[root]]
  BY ClimbReference
<1>3. b \in Nat /\ \A l \in target..Log2Root : b \div Pow2[l] = a \div Pow2[l]
  BY SlicedAddress
<1> HIDE DEF ref, p, b
<1>4. ASSUME NEW l \in target..(root - 1)
      PROVE  p.sibling_hashes[l] = ref[l][Sibling(b, l) \div Pow2[l]]
  <2>1. l \in s..(Log2Root - 1) /\ l \in 0..Log2Root /\ l \in target..Log2Root
    OBVIOUS
  <2>2. Sibling(a, l) \div Pow2[l] =
            IF Bit(a, l) THEN (a \div Pow2[l]) - 1 ELSE (a \div Pow2[l]) + 1
    BY <2>1, SiblingIndex
  <2>3. Sibling(b, l) \div Pow2[l] =
            IF Bit(b, l) THEN (b \div Pow2[l]) - 1 ELSE (b \div Pow2[l]) + 1
    BY <2>1, <1>3, SiblingIndex
  <2>4. b \div Pow2[l] = a \div Pow2[l] /\ (Bit(a, l) <=> Bit(b, l))
    BY <2>1, <1>3 DEF Bit
  <2>5. Sibling(b, l) \div Pow2[l] = Sibling(a, l) \div Pow2[l]
    BY <2>2, <2>3, <2>4
  <2> QED
    BY <1>1, <2>1, <2>5
<1>5. [l \in target..(root - 1) |-> p.sibling_hashes[l]] =
          [l \in target..(root - 1) |-> ref[l][Sibling(b, l) \div Pow2[l]]]
  BY <1>4
<1>6. b \div Pow2[target] = a \div Pow2[target] /\ b \div Pow2[root] = a \div Pow2[root]
  BY <1>3
<1>7. Slice(p, root, target) =
          Proof(b, target, ref[target][a \div Pow2[target]],
                root, ref[root][a \div Pow2[root]],
                [l \in target..(root - 1) |-> p.sibling_hashes[l]])
  BY <1>1, <1>2 DEF Slice, b
<1>8. Slice(p, root, target) = ReferenceProof(ref, b, target, root)
  BY <1>5, <1>6, <1>7 DEF ReferenceProof
<1> QED
  BY <1>8 DEF p, ref, b

\* What is sent in a message is received: the siblings are listed from the root down
\* and found by their size again.
LEMMA TransportOf ==
    ASSUME NEW a, NEW s \in Nat, NEW hash, NEW root \in Nat, NEW root_hash,
           NEW f, NEW sib, sib = [l \in s..(root - 1) |-> f[l]],
           NEW p, p = Proof(a, s, hash, root, root_hash, sib)
    PROVE  FromProto(ToProto(p)) = p
<1> DEFINE list == [i \in 1..(root - s) |-> sib[root - i]]
           q == Proof(a, s, hash, root, root_hash, list)
           back == [l \in s..(root - 1) |-> list[root - l]]
<1>0. \A x, y :
        LET u == Proof(a, s, hash, root, root_hash, x)
        IN  /\ u.log2_target_size = s /\ u.log2_root_size = root /\ u.sibling_hashes = x
            /\ [u EXCEPT !.sibling_hashes = y] = Proof(a, s, hash, root, root_hash, y)
  BY DEF Proof
<1>1. back = sib
  <2>1. \A l \in s..(root - 1) : root - l \in 1..(root - s) /\ root - (root - l) = l
    OBVIOUS
  <2>2. \A l \in s..(root - 1) : sib[l] = f[l]
    BY Zenon
  <2>3. \A l \in s..(root - 1) : list[root - l] = f[l]
    BY <2>1, <2>2, Zenon
  <2> HIDE DEF list
  <2> QED
    BY <2>3, Zenon
<1>2. ToProto(p) = q
  <2>1. /\ p.log2_target_size = s /\ p.log2_root_size = root /\ p.sibling_hashes = sib
        /\ \A y : [p EXCEPT !.sibling_hashes = y] = Proof(a, s, hash, root, root_hash, y)
    BY <1>0, Zenon
  <2> QED
    BY <2>1, Zenon DEF ToProto
<1> HIDE DEF list
<1>3. FromProto(q) = p
  BY <1>0, <1>1 DEF FromProto
<1> QED
  BY <1>2, <1>3

-----------------------------------------------------------------------------
(* The back tree *)

\* From one level of the tree to the next, counted from the leaves.
LEMMA NextLevelUp ==
    ASSUME NEW i \in 0..(Depth - 1)
    PROVE  /\ Log2Leaf + i \in Log2Leaf..(Log2Root - 1) /\ i \in 0..(Log2Root - 1)
           /\ Log2Leaf + (i + 1) = (Log2Leaf + i) + 1 /\ i + 1 \in 0..Depth
           /\ Pow2[Log2Root - (Log2Leaf + i)]
                = 2 * Pow2[Log2Root - (Log2Leaf + (i + 1))]
           /\ Pow2[Log2Root - (Log2Leaf + (i + 1))] \in Nat
<1> USE MerkleAssumption DEF Depth
<1>1. Log2Root - (Log2Leaf + i) = (Log2Root - (Log2Leaf + (i + 1))) + 1
  OBVIOUS
<1>2. Log2Root - (Log2Leaf + (i + 1)) \in 0..(Log2Root - 1)
  OBVIOUS
<1> QED
  BY <1>1, <1>2, Pow2Facts

\* The leaves of the tree.
LEMMA ReferenceLeaf ==
    ASSUME NEW leaf, NEW i \in 0..(Pow2[Log2Root - Log2Leaf] - 1)
    PROVE  Reference(leaf)[Log2Leaf][i] =
               IF i < Len(leaf) THEN leaf[i + 1] ELSE Pristine[Log2Leaf]
<1>1. Reference(leaf)[Log2Leaf] =
          [k \in 0..(MaxLeaves - 1) |->
              IF k < Len(leaf) THEN leaf[k + 1] ELSE Pristine[Log2Leaf]]
  BY ReferenceDef
<1> QED
  BY <1>1 DEF MaxLeaves, Depth

\* The hash of a pristine subtree is that of two pristine halves.
LEMMA PristinePair ==
    ASSUME NEW s \in Log2Leaf..(Log2Root - 1)
    PROVE  Pristine[s + 1] = Concat(Pristine[s], Pristine[s])
<1>1. s + 1 \in Log2Word..Log2Root /\ s + 1 # Log2Word /\ (s + 1) - 1 = s
  BY MerkleAssumption
<1> QED
  BY <1>1, PristineDef, Zenon

\* Nodes whose leaves are all among the first n depend on these only.
LEMMA ReferenceAgrees ==
    ASSUME NEW n \in Nat, NEW leaf, NEW other, Len(leaf) \in Nat, Len(other) \in Nat,
           n <= Len(leaf), n <= Len(other), \A i \in 1..n : leaf[i] = other[i]
    PROVE  \A i \in 0..Depth : \A j \in 0..(Pow2[Log2Root - (Log2Leaf + i)] - 1) :
               j < n \div Pow2[i] =>
                   Reference(leaf)[Log2Leaf + i][j] = Reference(other)[Log2Leaf + i][j]
<1> DEFINE P(i) == \A j \in 0..(Pow2[Log2Root - (Log2Leaf + i)] - 1) :
               j < n \div Pow2[i] =>
                   Reference(leaf)[Log2Leaf + i][j] = Reference(other)[Log2Leaf + i][j]
           S == {i \in 0..Depth : P(i)}
<1>a. Depth \in Nat /\ Depth <= Log2Root
  BY MerkleAssumption DEF Depth
<1>1. P(0)
  <2>1. Log2Leaf + 0 = Log2Leaf /\ n \div Pow2[0] = n
    BY Pow2Facts, MerkleAssumption
  <2>2. ASSUME NEW j \in 0..(Pow2[Log2Root - Log2Leaf] - 1), j < n
        PROVE  Reference(leaf)[Log2Leaf][j] = Reference(other)[Log2Leaf][j]
    <3>1. j < Len(leaf) /\ j < Len(other) /\ j + 1 \in 1..n
      BY <2>2
    <3> QED
      BY <3>1, ReferenceLeaf
  <2> QED
    BY <2>1, <2>2
<1>2. ASSUME NEW i \in 0..(Depth - 1), P(i) PROVE P(i + 1)
  <2> DEFINE w == Pow2[Log2Root - (Log2Leaf + (i + 1))]
             q == n \div Pow2[i]
  <2> SUFFICES ASSUME NEW j \in 0..(w - 1), j < n \div Pow2[i + 1]
               PROVE  Reference(leaf)[Log2Leaf + (i + 1)][j]
                        = Reference(other)[Log2Leaf + (i + 1)][j]
    OBVIOUS
  <2>1. Pow2[Log2Root - (Log2Leaf + i)] = 2 * w /\ w \in Nat
    BY NextLevelUp
  <2>a. i \in 0..(Log2Root - 1) /\ i \in 0..Log2Root
    BY NextLevelUp, MerkleAssumption
  <2>2. n \div Pow2[i + 1] = q \div 2 /\ q \in Nat
    BY <2>a, QuotientHalf, QuotientNat
  <2> HIDE DEF w, q
  <2>3. /\ 2 * j \in 0..(2 * w - 1) /\ 2 * j < q
        /\ 2 * j + 1 \in 0..(2 * w - 1) /\ 2 * j + 1 < q
    BY <2>1, <2>2
  <2>4. /\ Reference(leaf)[Log2Leaf + i][2 * j] = Reference(other)[Log2Leaf + i][2 * j]
        /\ Reference(leaf)[Log2Leaf + i][2 * j + 1]
             = Reference(other)[Log2Leaf + i][2 * j + 1]
    BY <1>2, <2>1, <2>3 DEF q
  <2> QED
    BY <2>4, NextLevelUp, ReferencePair DEF w
<1>3. 0 \in S
  BY <1>1, <1>a
<1>4. ASSUME NEW i \in 0..(Depth - 1), i \in S PROVE i + 1 \in S
  <2>1. P(i) /\ i + 1 \in 0..Depth
    BY <1>4, <1>a
  <2> HIDE DEF P
  <2> QED
    BY <2>1, <1>2
<1>5. \A i \in 0..Depth : i \in S
  <2> HIDE DEF S
  <2> QED
    BY <1>3, <1>4, <1>a, IntervalInduction
<1>6. \A i \in 0..Depth : P(i)
  BY <1>5
<1> QED
  BY <1>6

\* Nodes to the right of leaf number n are pristine, unless there are more leaves.
LEMMA ReferenceBeyond ==
    ASSUME NEW n \in Nat, NEW leaf, Len(leaf) \in Nat, Len(leaf) <= n + 1
    PROVE  \A i \in 0..Depth : \A j \in 0..(Pow2[Log2Root - (Log2Leaf + i)] - 1) :
               j > n \div Pow2[i] =>
                   Reference(leaf)[Log2Leaf + i][j] = Pristine[Log2Leaf + i]
<1> DEFINE P(i) == \A j \in 0..(Pow2[Log2Root - (Log2Leaf + i)] - 1) :
               j > n \div Pow2[i] =>
                   Reference(leaf)[Log2Leaf + i][j] = Pristine[Log2Leaf + i]
           S == {i \in 0..Depth : P(i)}
<1>a. Depth \in Nat /\ Depth <= Log2Root
  BY MerkleAssumption DEF Depth
<1>1. P(0)
  <2>1. Log2Leaf + 0 = Log2Leaf /\ n \div Pow2[0] = n
    BY Pow2Facts, MerkleAssumption
  <2>2. ASSUME NEW j \in 0..(Pow2[Log2Root - Log2Leaf] - 1), j > n
        PROVE  Reference(leaf)[Log2Leaf][j] = Pristine[Log2Leaf]
    <3>1. ~(j < Len(leaf))
      BY <2>2
    <3> QED
      BY <3>1, ReferenceLeaf
  <2> QED
    BY <2>1, <2>2
<1>2. ASSUME NEW i \in 0..(Depth - 1), P(i) PROVE P(i + 1)
  <2> DEFINE w == Pow2[Log2Root - (Log2Leaf + (i + 1))]
             q == n \div Pow2[i]
  <2> SUFFICES ASSUME NEW j \in 0..(w - 1), j > n \div Pow2[i + 1]
               PROVE  Reference(leaf)[Log2Leaf + (i + 1)][j]
                        = Pristine[Log2Leaf + (i + 1)]
    OBVIOUS
  <2>1. Pow2[Log2Root - (Log2Leaf + i)] = 2 * w /\ w \in Nat
    BY NextLevelUp
  <2>a. i \in 0..(Log2Root - 1) /\ i \in 0..Log2Root
    BY NextLevelUp, MerkleAssumption
  <2>2. n \div Pow2[i + 1] = q \div 2 /\ q \in Nat
    BY <2>a, QuotientHalf, QuotientNat
  <2> HIDE DEF w, q
  <2>3. /\ 2 * j \in 0..(2 * w - 1) /\ 2 * j > q
        /\ 2 * j + 1 \in 0..(2 * w - 1) /\ 2 * j + 1 > q
    BY <2>1, <2>2
  <2>4. /\ Reference(leaf)[Log2Leaf + i][2 * j] = Pristine[Log2Leaf + i]
        /\ Reference(leaf)[Log2Leaf + i][2 * j + 1] = Pristine[Log2Leaf + i]
    BY <1>2, <2>1, <2>3 DEF q
  <2> QED
    BY <2>4, NextLevelUp, ReferencePair, PristinePair DEF w
<1>3. 0 \in S
  BY <1>1, <1>a
<1>4. ASSUME NEW i \in 0..(Depth - 1), i \in S PROVE i + 1 \in S
  <2>1. P(i) /\ i + 1 \in 0..Depth
    BY <1>4, <1>a
  <2> HIDE DEF P
  <2> QED
    BY <2>1, <1>2
<1>5. \A i \in 0..Depth : i \in S
  <2> HIDE DEF S
  <2> QED
    BY <1>3, <1>4, <1>a, IntervalInduction
<1>6. \A i \in 0..Depth : P(i)
  BY <1>5
<1> QED
  BY <1>6

\* The nodes above leaf number n are in the tree.
LEMMA LeafInside ==
    ASSUME NEW n \in Nat, n < MaxLeaves
    PROVE  /\ Inside(n * Pow2[Log2Leaf], Log2Leaf)
           /\ \A i \in 0..Depth :
                /\ n \div Pow2[i] \in 0..(Pow2[Log2Root - (Log2Leaf + i)] - 1)
                /\ Inside(n * Pow2[Log2Leaf], Log2Leaf + i)
<1> USE MerkleAssumption DEF Depth
<1> DEFINE a == n * Pow2[Log2Leaf]
<1>1. a \in Nat /\ \A i \in 0..Depth : a \div Pow2[Log2Leaf + i] = n \div Pow2[i]
  BY LeafAddress
<1>2. a \div Pow2[Log2Leaf] = n
  BY Pow2Facts, QuotientMultiple
<1> HIDE DEF a
<1>3. Inside(a, Log2Leaf)
  <2>1. Pow2[Log2Root - Log2Leaf] \in Nat /\ n < Pow2[Log2Root - Log2Leaf]
    BY Pow2Facts DEF MaxLeaves
  <2>2. n \in 0..(Pow2[Log2Root - Log2Leaf] - 1)
    BY <2>1
  <2> QED
    BY <2>2, <1>2 DEF Inside
<1>4. \A l \in Log2Leaf..Log2Root : Inside(a, l)
  BY <1>1, <1>3, InsideAbove
<1>5. ASSUME NEW i \in 0..Depth
      PROVE  /\ n \div Pow2[i] \in 0..(Pow2[Log2Root - (Log2Leaf + i)] - 1)
             /\ Inside(a, Log2Leaf + i)
  <2>1. Log2Leaf + i \in Log2Leaf..Log2Root
    OBVIOUS
  <2> QED
    BY <2>1, <1>1, <1>4 DEF Inside
<1> QED
  BY <1>3, <1>5 DEF a

\* One step up the path above leaf number n, which is the last one or the next.
LEMMA PathAbove ==
    ASSUME NEW n \in Nat, n < MaxLeaves, NEW leaf, Len(leaf) \in Nat,
           Len(leaf) <= n + 1, NEW i \in 0..(Depth - 1)
    PROVE  LET ref == Reference(leaf)
               q == n \div Pow2[i]
               up == ref[Log2Leaf + (i + 1)][n \div Pow2[i + 1]]
           IN  /\ Bit(n, i) => up = Concat(ref[Log2Leaf + i][q - 1], ref[Log2Leaf + i][q])
               /\ ~Bit(n, i) => up = Concat(ref[Log2Leaf + i][q], Pristine[Log2Leaf + i])
<1> DEFINE ref == Reference(leaf)
           q == n \div Pow2[i]
           h == n \div Pow2[i + 1]
           w == Pow2[Log2Root - (Log2Leaf + (i + 1))]
<1>1. /\ i \in 0..(Log2Root - 1) /\ i \in 0..Log2Root /\ i \in 0..Depth /\ i + 1 \in 0..Depth
      /\ Log2Leaf + i \in Log2Leaf..(Log2Root - 1)
      /\ Log2Leaf + (i + 1) = (Log2Leaf + i) + 1
      /\ Pow2[Log2Root - (Log2Leaf + i)] = 2 * w /\ w \in Nat
  BY NextLevelUp, MerkleAssumption DEF Depth
<1>2. h \in 0..(w - 1) /\ q \in 0..(2 * w - 1)
  BY <1>1, LeafInside
<1>3. h = q \div 2
  BY <1>1, QuotientHalf
<1>4. Bit(n, i) <=> q % 2 = 1
  BY DEF Bit
<1>5. ref[Log2Leaf + (i + 1)][h]
        = Concat(ref[Log2Leaf + i][2 * h], ref[Log2Leaf + i][2 * h + 1])
  BY <1>1, <1>2, ReferencePair
<1>6. \A j \in 0..(2 * w - 1) : j > q => ref[Log2Leaf + i][j] = Pristine[Log2Leaf + i]
  <2>1. \A j \in 0..(Pow2[Log2Root - (Log2Leaf + i)] - 1) :
            j > n \div Pow2[i] => ref[Log2Leaf + i][j] = Pristine[Log2Leaf + i]
    BY <1>1, ReferenceBeyond
  <2> HIDE DEF ref, w
  <2> QED
    BY <1>1, <2>1
<1> HIDE DEF ref, q, h, w
<1>7. CASE Bit(n, i)
  <2>1. 2 * h = q - 1 /\ 2 * h + 1 = q
    BY <1>2, <1>3, <1>4, <1>7
  <2> QED
    BY <2>1, <1>5, <1>7 DEF ref, q, h
<1>8. CASE ~Bit(n, i)
  <2>1. 2 * h = q /\ 2 * h + 1 > q /\ 2 * h + 1 \in 0..(2 * w - 1)
    BY <1>1, <1>2, <1>3, <1>4, <1>8
  <2>2. ref[Log2Leaf + i][2 * h + 1] = Pristine[Log2Leaf + i]
    BY <2>1, <1>6
  <2> QED
    BY <2>1, <2>2, <1>5, <1>8 DEF ref, q, h
<1> QED
  BY <1>7, <1>8

\* ctx has, for every bit set in n, the node of its size left of the path to leaf n.
LeftOfPath(ctx, n, leaf) ==
    \A i \in 0..Depth : Bit(n, i) =>
        ctx[i] = Reference(leaf)[Log2Leaf + i][(n \div Pow2[i]) - 1]

\* Growing a hash with what is left of the path, and pristine hashes right of it,
\* leads to the root.
LEMMA PathToRoot ==
    ASSUME NEW n \in Nat, n < MaxLeaves, NEW leaf, Len(leaf) \in Nat,
           Len(leaf) <= n + 1, NEW ctx, LeftOfPath(ctx, n, leaf), NEW up,
           up[0] = Reference(leaf)[Log2Leaf][n],
           \A i \in 0..(Depth - 1) :
               up[i + 1] = IF Bit(n, i) THEN Concat(ctx[i], up[i])
                                        ELSE Concat(up[i], Pristine[Log2Leaf + i])
    PROVE  up[Depth] = Reference(leaf)[Log2Root][0]
<1> DEFINE ref == Reference(leaf)
           S == {i \in 0..Depth : up[i] = ref[Log2Leaf + i][n \div Pow2[i]]}
<1>a. Depth \in Nat /\ Log2Leaf + Depth = Log2Root
  BY MerkleAssumption DEF Depth
<1>1. 0 \in S
  BY <1>a, Pow2Facts, MerkleAssumption
<1>2. ASSUME NEW i \in 0..(Depth - 1), i \in S PROVE i + 1 \in S
  <2> DEFINE q == n \div Pow2[i]
             top == ref[Log2Leaf + (i + 1)][n \div Pow2[i + 1]]
  <2>1. /\ Bit(n, i) => top = Concat(ref[Log2Leaf + i][q - 1], ref[Log2Leaf + i][q])
        /\ ~Bit(n, i) => top = Concat(ref[Log2Leaf + i][q], Pristine[Log2Leaf + i])
    BY PathAbove
  <2>2. Bit(n, i) => ctx[i] = ref[Log2Leaf + i][q - 1]
    BY <1>a DEF LeftOfPath
  <2>3. up[i] = ref[Log2Leaf + i][q]
    BY <1>2
  <2>4. up[i + 1] = IF Bit(n, i) THEN Concat(ctx[i], up[i])
                                 ELSE Concat(up[i], Pristine[Log2Leaf + i])
    OBVIOUS
  <2> HIDE DEF ref, q, top
  <2>5. up[i + 1] = top
    BY <2>1, <2>2, <2>3, <2>4
  <2>6. i + 1 \in 0..Depth
    BY <1>a
  <2> QED
    BY <2>5, <2>6 DEF top
<1>3. \A i \in 0..Depth : i \in S
  <2> HIDE DEF S
  <2> QED
    BY <1>1, <1>2, <1>a, IntervalInduction
<1>4. up[Depth] = ref[Log2Root][n \div Pow2[Depth]]
  BY <1>3, <1>a
<1>5. n \div Pow2[Depth] = 0
  <2>1. Pow2[Depth] \in Nat
    BY Pow2Facts, <1>a, MerkleAssumption DEF Depth
  <2> QED
    BY <2>1, QuotientZero DEF MaxLeaves
<1> QED
  BY <1>4, <1>5

\* What is left of the path does not depend on leaf n.
LEMMA LeftAgrees ==
    ASSUME NEW n \in Nat, n < MaxLeaves, NEW leaf, NEW other, Len(leaf) \in Nat,
           Len(other) \in Nat, n <= Len(leaf), n <= Len(other),
           \A i \in 1..n : leaf[i] = other[i],
           NEW ctx, LeftOfPath(ctx, n, leaf)
    PROVE  LeftOfPath(ctx, n, other)
<1> SUFFICES ASSUME NEW i \in 0..Depth, Bit(n, i)
             PROVE  ctx[i] = Reference(other)[Log2Leaf + i][(n \div Pow2[i]) - 1]
  BY DEF LeftOfPath
<1> DEFINE q == n \div Pow2[i]
           w == Pow2[Log2Root - (Log2Leaf + i)]
<1>1. q \in 0..(w - 1)
  BY LeafInside
<1>2. q % 2 = 1
  BY DEF Bit
<1>3. \A j \in 0..(w - 1) : j < q =>
          Reference(leaf)[Log2Leaf + i][j] = Reference(other)[Log2Leaf + i][j]
  BY ReferenceAgrees
<1>4. ctx[i] = Reference(leaf)[Log2Leaf + i][q - 1]
  BY DEF LeftOfPath
<1>5. w \in Nat
  BY Pow2Facts, MerkleAssumption DEF Depth
<1> HIDE DEF q, w
<1>6. q - 1 \in 0..(w - 1) /\ q - 1 < q
  BY <1>1, <1>2, <1>5
<1> QED
  BY <1>3, <1>4, <1>6 DEF q

\* In a tree that is not full there is a bit to carry to.
LEMMA LowestClearIs ==
    ASSUME NEW n \in Nat, n < MaxLeaves
    PROVE  /\ LowestClear(n) \in 0..Depth /\ ~Bit(n, LowestClear(n))
           /\ \A j \in 0..(LowestClear(n) - 1) : Bit(n, j)
<1> DEFINE T == {i \in 0..Depth : ~Bit(n, i)}
<1>a. Depth \in Nat /\ Pow2[Depth] \in Nat
  BY Pow2Facts, MerkleAssumption DEF Depth
<1>1. Depth \in T
  <2>1. n \div Pow2[Depth] = 0
    BY <1>a, QuotientZero DEF MaxLeaves
  <2> QED
    BY <2>1, <1>a DEF Bit
<1>2. T \in SUBSET Nat /\ T # {}
  BY <1>1, <1>a
<1>3. PICK k \in T : \A j \in T : k <= j
  BY <1>2, LeastElement
<1>4. k \in 0..Depth /\ ~Bit(n, k)
  OBVIOUS
<1>5. \A j \in 0..(k - 1) : j \in 0..Depth /\ ~(k <= j)
  BY <1>4, <1>a
<1>6. \A j \in 0..(k - 1) : Bit(n, j)
  BY <1>3, <1>5
<1>7. \E i \in 0..Depth : ~Bit(n, i) /\ \A j \in 0..(i - 1) : Bit(n, j)
  BY <1>4, <1>6
<1> QED
  BY <1>7 DEF LowestClear

\* Adding one carries up to the lowest bit that is clear, and no further.
LEMMA Carry ==
    ASSUME NEW n \in Nat, NEW k \in 0..Depth, ~Bit(n, k), \A j \in 0..(k - 1) : Bit(n, j)
    PROVE  /\ \A i \in 0..k : (n + 1) \div Pow2[i] = (n \div Pow2[i]) + 1
           /\ \A i \in (k + 1)..Depth : (n + 1) \div Pow2[i] = n \div Pow2[i]
<1>a. Depth \in Nat /\ Depth <= Log2Root /\ k \in Nat /\ n + 1 \in Nat
  BY MerkleAssumption DEF Depth
<1>b. ASSUME NEW i \in 0..(Depth - 1)
      PROVE  /\ n \div Pow2[i] \in Nat
             /\ n \div Pow2[i + 1] = (n \div Pow2[i]) \div 2
             /\ (n + 1) \div Pow2[i + 1] = ((n + 1) \div Pow2[i]) \div 2
  <2>1. i \in 0..Log2Root /\ i \in 0..(Log2Root - 1)
    BY <1>a, MerkleAssumption
  <2> QED
    BY <2>1, <1>a, QuotientHalf, QuotientNat
<1> DEFINE S == {i \in 0..k : (n + 1) \div Pow2[i] = (n \div Pow2[i]) + 1}
<1>1. 0 \in S
  BY <1>a, Pow2Facts
<1>2. ASSUME NEW i \in 0..(k - 1), i \in S PROVE i + 1 \in S
  <2> DEFINE q == n \div Pow2[i]
  <2>1. q % 2 = 1
    BY DEF Bit
  <2>2. /\ i \in 0..(Depth - 1) /\ i + 1 \in 0..k
    BY <1>a
  <2>3. /\ q \in Nat /\ n \div Pow2[i + 1] = q \div 2
        /\ (n + 1) \div Pow2[i + 1] = ((n + 1) \div Pow2[i]) \div 2
        /\ (n + 1) \div Pow2[i] = q + 1
    BY <1>b, <1>2, <2>2
  <2> HIDE DEF q
  <2>4. (q + 1) \div 2 = (q \div 2) + 1
    BY <2>1, <2>3
  <2> QED
    BY <2>2, <2>3, <2>4
<1>3. \A i \in 0..k : i \in S
  <2> HIDE DEF S
  <2> QED
    BY <1>1, <1>2, <1>a, IntervalInduction
<1> DEFINE U == {i \in (k + 1)..Depth : (n + 1) \div Pow2[i] = n \div Pow2[i]}
<1>4. ASSUME k < Depth PROVE k + 1 \in U
  <2> DEFINE q == n \div Pow2[k]
  <2>1. ~(q % 2 = 1)
    BY DEF Bit
  <2>2. k \in 0..(Depth - 1) /\ k + 1 \in (k + 1)..Depth /\ k \in 0..k
    BY <1>4, <1>a
  <2>3. /\ q \in Nat /\ n \div Pow2[k + 1] = q \div 2
        /\ (n + 1) \div Pow2[k + 1] = ((n + 1) \div Pow2[k]) \div 2
        /\ (n + 1) \div Pow2[k] = q + 1
    BY <1>b, <1>3, <2>2
  <2> HIDE DEF q
  <2>4. (q + 1) \div 2 = q \div 2
    BY <2>1, <2>3
  <2> QED
    BY <2>2, <2>3, <2>4
<1>5. ASSUME NEW i \in (k + 1)..(Depth - 1), i \in U PROVE i + 1 \in U
  <2>1. i \in 0..(Depth - 1) /\ i + 1 \in (k + 1)..Depth
    BY <1>a
  <2> QED
    BY <2>1, <1>b, <1>5
<1>6. \A i \in (k + 1)..Depth : i \in U
  <2>1. CASE k < Depth
    <3> HIDE DEF U
    <3>1. k + 1 \in Nat
      BY <1>a
    <3> QED
      BY <2>1, <3>1, <1>4, <1>5, <1>a, IntervalInduction
  <2>2. CASE ~(k < Depth)
    BY <2>2, <1>a
  <2> QED
    BY <2>1, <2>2
<1> QED
  BY <1>3, <1>6

\* push_back keeps what the context is for.
LEMMA ContextStep ==
    ASSUME NEW n \in Nat, n < MaxLeaves, NEW leaf, NEW other,
           Len(leaf) = n, Len(other) = n + 1, \A i \in 1..n : leaf[i] = other[i],
           NEW ctx, DOMAIN ctx = 0..Depth, LeftOfPath(ctx, n, leaf),
           NEW right, right[0] = other[n + 1],
           \A i \in 1..Depth : right[i] = Concat(ctx[i - 1], right[i - 1])
    PROVE  LeftOfPath([ctx EXCEPT ![LowestClear(n)] = right[LowestClear(n)]], n + 1, other)
<1> DEFINE k == LowestClear(n)
           ref == Reference(other)
           new == [ctx EXCEPT ![k] = right[k]]
<1>1. k \in 0..Depth /\ ~Bit(n, k) /\ \A j \in 0..(k - 1) : Bit(n, j)
  BY LowestClearIs
<1>a. Depth \in Nat /\ Depth <= Log2Root /\ Len(leaf) \in Nat /\ Len(other) \in Nat
      /\ Len(other) <= n + 1 /\ n <= Len(leaf) /\ n <= Len(other)
  BY MerkleAssumption DEF Depth
<1>2. LeftOfPath(ctx, n, other)
  BY <1>a, LeftAgrees
<1> HIDE DEF k, ref
<1>3. /\ \A i \in 0..k : (n + 1) \div Pow2[i] = (n \div Pow2[i]) + 1
      /\ \A i \in (k + 1)..Depth : (n + 1) \div Pow2[i] = n \div Pow2[i]
  BY <1>1, Carry
<1> DEFINE S == {i \in 0..k : right[i] = ref[Log2Leaf + i][n \div Pow2[i]]}
<1>4. 0 \in S
  <2>1. n \in 0..(Pow2[Log2Root - Log2Leaf] - 1)
    <3>1. Pow2[Depth] \in Nat /\ Depth = Log2Root - Log2Leaf
      BY Pow2Facts, <1>a DEF Depth
    <3> QED
      BY <3>1 DEF MaxLeaves
  <2>2. ref[Log2Leaf][n] = other[n + 1]
    BY <2>1, <1>a, ReferenceLeaf DEF ref
  <2>3. n \div Pow2[0] = n /\ Log2Leaf + 0 = Log2Leaf /\ 0 \in 0..k
    BY Pow2Facts, MerkleAssumption, <1>1
  <2> QED
    BY <2>2, <2>3
<1>5. ASSUME NEW i \in 0..(k - 1), i \in S PROVE i + 1 \in S
  <2> DEFINE q == n \div Pow2[i]
             top == ref[Log2Leaf + (i + 1)][n \div Pow2[i + 1]]
  <2>1. i \in 0..(Depth - 1) /\ i \in 0..Depth /\ i + 1 \in 0..k /\ i + 1 \in 1..Depth
        /\ (i + 1) - 1 = i
    BY <1>1, <1>a
  <2>2. Bit(n, i)
    BY <1>1
  <2>3. top = Concat(ref[Log2Leaf + i][q - 1], ref[Log2Leaf + i][q])
    BY <2>1, <2>2, <1>a, PathAbove DEF ref
  <2>4. ctx[i] = ref[Log2Leaf + i][q - 1]
    BY <1>2, <2>1, <2>2 DEF LeftOfPath, ref
  <2>5. right[i] = ref[Log2Leaf + i][q]
    BY <1>5
  <2>6. right[i + 1] = Concat(ctx[i], right[i])
    BY <2>1
  <2> HIDE DEF q
  <2> QED
    BY <2>1, <2>3, <2>4, <2>5, <2>6
<1>6. \A i \in 0..k : i \in S
  <2> HIDE DEF S
  <2>1. k \in Nat
    BY <1>1
  <2> QED
    BY <2>1, <1>4, <1>5, IntervalInduction
<1>7. ASSUME NEW i \in 0..Depth, Bit(n + 1, i)
      PROVE  new[i] = ref[Log2Leaf + i][((n + 1) \div Pow2[i]) - 1]
  <2> DEFINE q == n \div Pow2[i]
  <2>0. q \in Nat
    <3>1. i \in 0..Log2Root
      BY <1>a, MerkleAssumption
    <3> QED
      BY <3>1, QuotientNat
  <2>1. CASE i < k
    <3>1. i \in 0..k /\ i \in 0..(k - 1)
      BY <2>1, <1>1
    <3>2. (n + 1) \div Pow2[i] = q + 1 /\ q % 2 = 1
      BY <3>1, <1>1, <1>3 DEF Bit
    <3>3. (q + 1) % 2 = 1
      BY <3>2, <1>7 DEF Bit
    <3> HIDE DEF q
    <3> QED
      BY <2>0, <3>2, <3>3
  <2>2. CASE i = k
    <3>1. (n + 1) \div Pow2[i] = q + 1 /\ right[i] = ref[Log2Leaf + i][q]
      BY <2>2, <1>1, <1>3, <1>6
    <3>2. new[i] = right[i]
      BY <2>2
    <3>3. (q + 1) - 1 = q
      BY <2>0
    <3> QED
      BY <3>1, <3>2, <3>3
  <2>3. CASE i > k
    <3>1. i \in (k + 1)..Depth
      BY <2>3, <1>1
    <3>2. (n + 1) \div Pow2[i] = q
      BY <3>1, <1>3
    <3>3. Bit(n, i)
      BY <3>2, <1>7 DEF Bit
    <3>4. ctx[i] = ref[Log2Leaf + i][q - 1]
      BY <3>3, <1>2 DEF LeftOfPath, ref
    <3>5. new[i] = ctx[i]
      BY <2>3, <1>1
    <3> QED
      BY <3>2, <3>4, <3>5
  <2> QED
    BY <2>1, <2>2, <2>3, <1>1
<1> QED
  BY <1>7 DEF LeftOfPath, k, ref

\* The leaves a back tree has been given.
Given == SubSeq(leaves, 1, leaf_count)

\* The context of the back tree is what is left of the path to its next leaf.
ContextHolds ==
    /\ leaves \in Seq(LeafHashes) /\ Len(leaves) <= MaxLeaves
    /\ leaf_count \in 0..Len(leaves) /\ DOMAIN context = 0..Depth
    /\ LeftOfPath(context, leaf_count, Given)

\* The first leaves are leaves.
LEMMA GivenLeaves ==
    ASSUME NEW l \in Seq(LeafHashes), NEW n \in 0..Len(l)
    PROVE  /\ SubSeq(l, 1, n) \in Seq(LeafHashes) /\ Len(SubSeq(l, 1, n)) = n
           /\ \A i \in 1..n : SubSeq(l, 1, n)[i] = l[i]
<1>1. \A i \in 1..n : l[i] \in LeafHashes
  OBVIOUS
<1>2. n \in Int /\ 1 \in Int
  OBVIOUS
<1> QED
  BY <1>1, <1>2, SubSeqProperties

\* The root of the back tree is that of the tree.
LEMMA BackRootIs ==
    ASSUME ContextHolds
    PROVE  BackRoot = Reference(Given)[Log2Root][0]
<1> DEFINE n == leaf_count
<1>a. /\ n \in Nat /\ n <= MaxLeaves /\ Len(Given) = n
      /\ Depth \in Nat /\ Pow2[Depth] \in Nat /\ Pow2[Depth] > 0
      /\ Log2Leaf + Depth = Log2Root /\ MaxLeaves = Pow2[Depth]
  BY GivenLeaves, Pow2Facts, MerkleAssumption DEF ContextHolds, Depth, MaxLeaves, Given
<1>1. CASE n < MaxLeaves
  <2>1. PICK root :
            /\ BackRoot = root[Depth] /\ root[0] = Pristine[Log2Leaf]
            /\ \A i \in 1..Depth :
                root[i] = IF Bit(leaf_count, i - 1)
                          THEN Concat(context[i - 1], root[i - 1])
                          ELSE Concat(root[i - 1], Pristine[Log2Leaf + i - 1])
    BY <1>1, BackRootDef
  <2>2. ASSUME NEW i \in 0..(Depth - 1)
        PROVE  root[i + 1] = IF Bit(n, i) THEN Concat(context[i], root[i])
                                          ELSE Concat(root[i], Pristine[Log2Leaf + i])
    <3>1. i + 1 \in 1..Depth /\ (i + 1) - 1 = i /\ Log2Leaf + (i + 1) - 1 = Log2Leaf + i
      BY <1>a, MerkleAssumption
    <3> QED
      BY <2>1, <3>1
  <2>3. root[0] = Reference(Given)[Log2Leaf][n]
    <3>1. n \in 0..(Pow2[Log2Root - Log2Leaf] - 1) /\ ~(n < Len(Given))
      BY <1>a, <1>1 DEF Depth
    <3> QED
      BY <3>1, <2>1, ReferenceLeaf
  <2>4. LeftOfPath(context, n, Given) /\ Len(Given) \in Nat /\ Len(Given) <= n + 1
    BY <1>a DEF ContextHolds
  <2> HIDE DEF n
  <2>5. root[Depth] = Reference(Given)[Log2Root][0]
    BY <1>1, <1>a, <2>2, <2>3, <2>4, PathToRoot
  <2> QED
    BY <2>1, <2>5
<1>2. CASE n = MaxLeaves
  <2>1. n \div Pow2[Depth] = 1
    <3>1. (1 * Pow2[Depth]) \div Pow2[Depth] = 1
      BY <1>a, QuotientMultiple
    <3> QED
      BY <3>1, <1>2, <1>a
  <2>2. Bit(n, Depth)
    BY <2>1 DEF Bit
  <2>3. context[Depth] = Reference(Given)[Log2Leaf + Depth][(n \div Pow2[Depth]) - 1]
    BY <2>2, <1>a DEF ContextHolds, LeftOfPath
  <2>4. BackRoot = context[Depth]
    BY <1>2, <1>a DEF BackRoot
  <2> QED
    BY <2>1, <2>3, <2>4, <1>a
<1> QED
  BY <1>a, <1>1, <1>2

\* The proof of the next leaf leads to the root of the tree in which it is pushed, or
\* still pristine.
LEMMA NextLeafRoot ==
    ASSUME ContextHolds, leaf_count < MaxLeaves, NEW leaf, Len(leaf) \in Nat,
           leaf_count <= Len(leaf), Len(leaf) <= leaf_count + 1,
           \A i \in 1..leaf_count : Given[i] = leaf[i]
    PROVE  ProofRoot(NextLeafProof, Reference(leaf)[Log2Leaf][leaf_count])
             = Reference(leaf)[Log2Root][0]
<1> DEFINE n == leaf_count
           p == NextLeafProof
           hash == Reference(leaf)[Log2Leaf][n]
           sib == [l \in Log2Leaf..(Log2Root - 1) |->
                      IF Bit(n, l - Log2Leaf) THEN context[l - Log2Leaf] ELSE Pristine[l]]
<1>a. /\ n \in Nat /\ Len(Given) = n /\ n <= Len(Given)
      /\ Depth \in Nat /\ Log2Leaf + Depth = Log2Root
      /\ Log2Leaf \in Nat /\ Log2Root \in Nat
  BY GivenLeaves, MerkleAssumption DEF ContextHolds, Depth, Given
<1>1. LeftOfPath(context, n, leaf)
  BY <1>a, LeftAgrees DEF ContextHolds
<1>2. /\ p.target_address = n * Pow2[Log2Leaf] /\ p.log2_target_size = Log2Leaf
      /\ p.log2_root_size = Log2Root /\ p.sibling_hashes = sib
  BY DEF NextLeafProof, Proof
<1> HIDE DEF p, hash
<1>3. PICK up : IsPath(up, p, hash, Log2Root) /\ Climb(p, hash, Log2Root) = up[Log2Root]
  <2>1. p.log2_target_size \in 0..Log2Root /\ Log2Root \in Nat
    BY <1>2, MerkleAssumption
  <2> QED
    BY <2>1, ClimbDef
<1>4. /\ up[Log2Leaf] = hash
      /\ \A l \in (Log2Leaf + 1)..Log2Root :
            up[l] = IF Bit(n * Pow2[Log2Leaf], l - 1)
                    THEN Concat(sib[l - 1], up[l - 1]) ELSE Concat(up[l - 1], sib[l - 1])
  <2> HIDE DEF sib
  <2> QED
    BY <1>2, <1>3, Zenon DEF IsPath
<1> DEFINE path == [i \in 0..Depth |-> up[Log2Leaf + i]]
<1>5. ASSUME NEW i \in 0..(Depth - 1)
      PROVE  path[i + 1] = IF Bit(n, i) THEN Concat(context[i], path[i])
                                        ELSE Concat(path[i], Pristine[Log2Leaf + i])
  <2> DEFINE l == Log2Leaf + i
  <2>1. /\ l \in Log2Leaf..(Log2Root - 1) /\ l + 1 \in (Log2Leaf + 1)..Log2Root
        /\ (l + 1) - 1 = l /\ l - Log2Leaf = i /\ Log2Leaf + (i + 1) = l + 1
        /\ i \in 0..Depth /\ i + 1 \in 0..Depth
    BY <1>a
  <2>2. Bit(n * Pow2[Log2Leaf], l) <=> Bit(n, i)
    BY <1>a, <2>1, LeafAddress DEF Bit
  <2>3. sib[l] = IF Bit(n, i) THEN context[i] ELSE Pristine[l]
    BY <2>1
  <2>4. up[l + 1] = IF Bit(n * Pow2[Log2Leaf], l)
                    THEN Concat(sib[l], up[l]) ELSE Concat(up[l], sib[l])
    BY <1>4, <2>1
  <2>5. path[i] = up[l] /\ path[i + 1] = up[l + 1]
    BY <2>1
  <2> HIDE DEF l, sib, path
  <2>6. path[i + 1] = IF Bit(n, i) THEN Concat(context[i], path[i])
                                   ELSE Concat(path[i], Pristine[l])
    BY <2>2, <2>3, <2>4, <2>5
  <2> QED
    BY <2>6 DEF l
<1>6. path[0] = hash /\ path[Depth] = up[Log2Root]
  <2>1. path[0] = up[Log2Leaf + 0] /\ path[Depth] = up[Log2Leaf + Depth]
    BY <1>a
  <2>2. Log2Leaf + 0 = Log2Leaf
    BY <1>a
  <2> QED
    BY <2>1, <2>2, <1>4, <1>a
<1> HIDE DEF path
<1>7. path[Depth] = Reference(leaf)[Log2Root][0]
  BY <1>1, <1>5, <1>6, <1>a, PathToRoot DEF hash
<1> QED
  BY <1>2, <1>3, <1>6, <1>7 DEF ProofRoot, p, hash

-----------------------------------------------------------------------------
(* The complete tree *)

\* A function on 1..m is a sequence of m entries.
LEMMA LengthOf ==
    ASSUME NEW f, NEW m \in Nat, f = [i \in 1..m |-> f[i]]
    PROVE  Len(f) = m /\ f \in Seq({f[i] : i \in 1..m})
<1> DEFINE S == {f[i] : i \in 1..m}
<1>1. f \in [1..m -> S]
  OBVIOUS
<1>2. f \in Seq(S)
  BY <1>1, SeqDef
<1>3. DOMAIN f = 1..Len(f) /\ Len(f) \in Nat
  BY <1>2, LenProperties
<1>4. 1..m = 1..Len(f)
  BY <1>1, <1>3
<1>5. Len(f) = m
  BY <1>3, <1>4
<1> QED
  BY <1>2, <1>5

\* The length of a level.
LEMMA LevelLength ==
    ASSUME NEW prev, Len(prev) \in Nat, NEW next, NEW s
    PROVE  /\ Len(NextLevel(prev, next, s)) = (Len(prev) + 1) \div 2
           /\ (Len(prev) + 1) \div 2 \in Nat
<1> DEFINE f == NextLevel(prev, next, s)
           m == (Len(prev) + 1) \div 2
<1>1. m \in Nat
  OBVIOUS
<1>2. DOMAIN f = 1..m /\ f = [i \in DOMAIN f |-> f[i]]
  BY DEF NextLevel
<1> HIDE DEF f, m
<1>3. f = [i \in 1..m |-> f[i]]
  BY <1>2
<1> QED
  BY <1>1, <1>3, LengthOf DEF f, m

\* A list of a finite length.
Sized(list) == Len(list) \in Nat

\* A list that has changed at its end only: its last entry, or one entry more.
EndsAnew(new, old) ==
    /\ Sized(new) /\ Sized(old) /\ Len(new) \in {Len(old), Len(old) + 1}
    /\ \A i \in 1..(Len(old) - 1) : new[i] = old[i]

\* Repairing the end of a level gives what doing all of it again gives, as long as
\* the level below has changed at its end only; and then so has this one.
LEMMA LevelRepair ==
    ASSUME NEW prev, NEW old, NEW s, EndsAnew(prev, old),
           NEW next, next = NextLevel(old, <<>>, s)
    PROVE  /\ NextLevel(prev, next, s) = NextLevel(prev, <<>>, s)
           /\ EndsAnew(NextLevel(prev, next, s), next)
<1> DEFINE new == NextLevel(prev, next, s)
           N == Len(prev)
           o == Len(old)
           M == (N + 1) \div 2
           first == IF next = <<>> THEN 0 ELSE Len(next) - 1
<1>0. /\ Len(prev) \in Nat /\ Len(old) \in Nat /\ Len(prev) \in {Len(old), Len(old) + 1}
      /\ \A i \in 1..(Len(old) - 1) : prev[i] = old[i]
  BY Zenon DEF EndsAnew, Sized
<1>1. /\ Len(new) = M /\ Len(next) = (o + 1) \div 2 /\ M \in Nat /\ Len(next) \in Nat
  BY <1>0, LevelLength
<1>2. Len(new) \in Nat /\ Len(new) \in {Len(next), Len(next) + 1}
  BY <1>0, <1>1
<1>3. ASSUME NEW i \in 1..(Len(next) - 1)
      PROVE  /\ 2 * i \in 1..(o - 1) /\ 2 * i - 1 \in 1..(o - 1)
             /\ i <= N \div 2 /\ i <= o \div 2 /\ i \in 1..M /\ i \in 1..((o + 1) \div 2)
             /\ ~(i > first) /\ i > 0
  <2>1. next # <<>>
    <3> SUFFICES ASSUME next = <<>> PROVE FALSE
      OBVIOUS
    <3>1. Len(next) = 0
      BY EmptySeq
    <3> QED
      BY <3>1
  <2> QED
    BY <1>0, <1>1, <2>1
<1>4. ASSUME NEW i \in 1..(Len(next) - 1)
      PROVE  next[i] = Concat(prev[2 * i - 1], prev[2 * i])
  <2>1. next[i] = Concat(old[2 * i - 1], old[2 * i])
    BY <1>3 DEF NextLevel
  <2> QED
    BY <1>0, <1>3, <2>1
<1>5. \A i \in 1..M : NextLevel(prev, <<>>, s)[i] =
          IF i > N \div 2 THEN Concat(prev[N], Pristine[s])
          ELSE Concat(prev[2 * i - 1], prev[2 * i])
  BY DEF NextLevel
<1>6. \A i \in 1..M : new[i] =
          IF i > N \div 2 THEN Concat(prev[N], Pristine[s])
          ELSE IF i > first THEN Concat(prev[2 * i - 1], prev[2 * i])
          ELSE next[i]
  BY DEF NextLevel
<1>7. /\ new = [i \in 1..M |-> new[i]]
      /\ NextLevel(prev, <<>>, s) = [i \in 1..M |-> NextLevel(prev, <<>>, s)[i]]
  BY DEF NextLevel
<1> HIDE DEF new, M
<1>8. \A i \in 1..(Len(next) - 1) : new[i] = next[i]
  BY <1>3, <1>6
<1>9. ASSUME NEW i \in 1..M PROVE new[i] = NextLevel(prev, <<>>, s)[i]
  <2>1. CASE i > N \div 2 \/ i > first
    BY <2>1, <1>5, <1>6
  <2>2. CASE ~(i > N \div 2) /\ ~(i > first)
    <3>1. i \in 1..(Len(next) - 1)
      BY <2>2, <1>0, <1>1
    <3> QED
      BY <2>2, <3>1, <1>4, <1>5, <1>6
  <2> QED
    BY <2>1, <2>2
<1>10. new = NextLevel(prev, <<>>, s)
  BY <1>7, <1>9
<1>11. EndsAnew(new, next)
  BY <1>1, <1>2, <1>8, Zenon DEF EndsAnew, Sized
<1> QED
  BY <1>10, <1>11, Zenon DEF new

\* The leaves pushed fit in the tree.
LeavesOK == leaves \in Seq(LeafHashes) /\ Len(leaves) <= MaxLeaves

\* t has a list of hashes for every level.
Shape(t) == DOMAIN t = Levels /\ t = [s \in Levels |-> t[s]]

\* Every level of t is what all of the level below gives.
LevelsFull(t) ==
    \A s \in Log2Leaf..(Log2Root - 1) : t[s + 1] = NextLevel(t[s], <<>>, s)

\* The complete tree, whatever pushes it is the result of.
TreeHolds == LeavesOK /\ Shape(tree) /\ tree[Log2Leaf] = leaves /\ LevelsFull(tree)

\* Every level of a full tree has half the entries of the one below, rounded up.
LEMMA FullLengths ==
    ASSUME NEW t, LevelsFull(t), Sized(t[Log2Leaf])
    PROVE  /\ \A s \in Levels : Sized(t[s])
           /\ \A s \in Log2Leaf..(Log2Root - 1) : Len(t[s + 1]) = (Len(t[s]) + 1) \div 2
<1> USE MerkleAssumption DEF Levels
<1> DEFINE S == {s \in Levels : Sized(t[s])}
<1>1. Log2Leaf \in S
  OBVIOUS
<1>2. ASSUME NEW s \in Log2Leaf..(Log2Root - 1), Sized(t[s])
      PROVE  Len(t[s + 1]) = (Len(t[s]) + 1) \div 2 /\ Sized(t[s + 1])
  <2>1. t[s + 1] = NextLevel(t[s], <<>>, s)
    BY Zenon DEF LevelsFull
  <2>2. Len(NextLevel(t[s], <<>>, s)) = (Len(t[s]) + 1) \div 2
        /\ (Len(t[s]) + 1) \div 2 \in Nat
    BY <1>2, LevelLength DEF Sized
  <2> QED
    BY <2>1, <2>2 DEF Sized
<1>3. ASSUME NEW s \in Log2Leaf..(Log2Root - 1), s \in S PROVE s + 1 \in S
  <2>1. Sized(t[s])
    BY <1>3, Zenon
  <2>2. s + 1 \in Levels
    OBVIOUS
  <2> QED
    BY <1>2, <2>1, <2>2, Zenon
<1>4. \A s \in Log2Leaf..Log2Root : s \in S
  <2> HIDE DEF S
  <2> QED
    BY <1>1, <1>3, IntervalInduction
<1>5. \A s \in Levels : Sized(t[s])
  BY <1>4, Zenon
<1>6. \A s \in Log2Leaf..(Log2Root - 1) : s \in Levels
  OBVIOUS
<1>7. \A s \in Log2Leaf..(Log2Root - 1) : Len(t[s + 1]) = (Len(t[s]) + 1) \div 2
  BY <1>2, <1>5, <1>6, Zenon
<1> QED
  BY <1>5, <1>7, Zenon

\* So have the levels of the complete tree.
LEMMA TreeLengths ==
    ASSUME TreeHolds
    PROVE  /\ \A s \in Levels : Sized(tree[s])
           /\ \A s \in Log2Leaf..(Log2Root - 1) :
                Len(tree[s + 1]) = (Len(tree[s]) + 1) \div 2
<1>1. Len(leaves) \in Nat
  BY DEF TreeHolds, LeavesOK
<1> QED
  BY <1>1, FullLengths DEF TreeHolds, Sized

\* push_back of the complete tree keeps this.
LEMMA BubbleUpRepairs ==
    ASSUME TreeHolds, NEW hash,
           NEW new, new = BubbleUp([tree EXCEPT ![Log2Leaf] = Append(@, hash)])
    PROVE  Shape(new) /\ new[Log2Leaf] = Append(leaves, hash) /\ LevelsFull(new)
<1> USE MerkleAssumption DEF Levels
<1> DEFINE t == [tree EXCEPT ![Log2Leaf] = Append(@, hash)]
<1>1. new = [s \in Levels |-> IF s = Log2Leaf THEN t[s] ELSE NextLevel(new[s - 1], t[s], s - 1)]
  BY BubbleUpDef
<1>2. /\ t[Log2Leaf] = Append(leaves, hash)
      /\ \A s \in (Log2Leaf + 1)..Log2Root : t[s] = tree[s]
  <2>0. Log2Leaf \in Levels
    OBVIOUS
  <2>1. DOMAIN tree = Levels /\ tree[Log2Leaf] = leaves /\ Log2Leaf \in Levels
    BY <2>0, Zenon DEF TreeHolds, Shape
  <2>2. \A s \in (Log2Leaf + 1)..Log2Root : s \in Levels /\ s # Log2Leaf
    OBVIOUS
  <2> QED
    BY <2>1, <2>2, Zenon
<1> HIDE DEF t
<1>3. new[Log2Leaf] = Append(leaves, hash)
  <2>1. Log2Leaf \in Levels
    OBVIOUS
  <2> QED
    BY <2>1, <1>1, <1>2, Zenon
<1>4. ASSUME NEW s \in Log2Leaf..(Log2Root - 1)
      PROVE  new[s + 1] = NextLevel(new[s], tree[s + 1], s)
  <2>1. s + 1 \in Levels /\ s + 1 # Log2Leaf /\ (s + 1) - 1 = s
        /\ s + 1 \in (Log2Leaf + 1)..Log2Root
    OBVIOUS
  <2>2. new[s + 1] = NextLevel(new[(s + 1) - 1], t[s + 1], (s + 1) - 1)
    BY <1>1, <2>1, Zenon
  <2> QED
    BY <1>2, <2>1, <2>2
<1> DEFINE P(s) == EndsAnew(new[s], tree[s])
           S == {s \in Levels : P(s)}
<1>5. Log2Leaf \in S
  <2>1. leaves \in Seq(LeafHashes) /\ tree[Log2Leaf] = leaves
    BY DEF TreeHolds, LeavesOK
  <2>2. leaves \in Seq(LeafHashes \cup {hash}) /\ hash \in LeafHashes \cup {hash}
    BY <2>1
  <2>3. /\ Len(Append(leaves, hash)) = Len(leaves) + 1 /\ Len(leaves) \in Nat
        /\ \A i \in 1..Len(leaves) : Append(leaves, hash)[i] = leaves[i]
    BY <2>2, AppendProperties
  <2>4. EndsAnew(Append(leaves, hash), leaves)
    BY <2>3 DEF EndsAnew, Sized
  <2>5. P(Log2Leaf)
    BY <2>1, <2>4, <1>3, Zenon
  <2>6. Log2Leaf \in Levels
    OBVIOUS
  <2> QED
    BY <2>5, <2>6, Zenon
<1>6. ASSUME NEW s \in Log2Leaf..(Log2Root - 1), P(s)
      PROVE  P(s + 1) /\ new[s + 1] = NextLevel(new[s], <<>>, s)
  <2>1. tree[s + 1] = NextLevel(tree[s], <<>>, s)
    BY Zenon DEF TreeHolds, LevelsFull
  <2>2. /\ NextLevel(new[s], tree[s + 1], s) = NextLevel(new[s], <<>>, s)
        /\ EndsAnew(NextLevel(new[s], tree[s + 1], s), tree[s + 1])
    BY <1>6, <2>1, LevelRepair, Zenon
  <2> QED
    BY <2>2, <1>4, Zenon
<1> HIDE DEF P
<1>7. ASSUME NEW s \in Log2Leaf..(Log2Root - 1), s \in S PROVE s + 1 \in S
  <2>1. P(s) /\ s + 1 \in Levels
    BY <1>7
  <2> QED
    BY <2>1, <1>6
<1>8. \A s \in Log2Leaf..Log2Root : s \in S
  <2> HIDE DEF S
  <2> QED
    BY <1>5, <1>7, IntervalInduction
<1>9. \A s \in Log2Leaf..(Log2Root - 1) : P(s)
  BY <1>8
<1>10. Shape(new)
  BY <1>1, Zenon DEF Shape
<1>11. LevelsFull(new)
  BY <1>6, <1>9, Zenon DEF LevelsFull
<1> QED
  BY <1>3, <1>10, <1>11

\* The hashes kept in the tree, and pristine ones where none is kept, are those of the
\* tree of all leaves.
LEMMA TreeNodes ==
    ASSUME TreeHolds
    PROVE  \A s \in Levels : \A i \in 0..(Pow2[Log2Root - s] - 1) :
               (IF i < Len(tree[s]) THEN tree[s][i + 1] ELSE Pristine[s])
                 = Reference(leaves)[s][i]
<1> USE MerkleAssumption DEF Levels
<1> DEFINE ref == Reference(leaves)
           Node(s, i) == IF i < Len(tree[s]) THEN tree[s][i + 1] ELSE Pristine[s]
           P(s) == \A i \in 0..(Pow2[Log2Root - s] - 1) : Node(s, i) = ref[s][i]
           S == {s \in Levels : P(s)}
<1>1. P(Log2Leaf)
  <2>1. \A i \in 0..(Pow2[Log2Root - Log2Leaf] - 1) :
            ref[Log2Leaf][i] = IF i < Len(leaves) THEN leaves[i + 1] ELSE Pristine[Log2Leaf]
    BY ReferenceLeaf
  <2>2. tree[Log2Leaf] = leaves
    BY DEF TreeHolds
  <2> QED
    BY <2>1, <2>2
<1>2. ASSUME NEW s \in Log2Leaf..(Log2Root - 1), P(s) PROVE P(s + 1)
  <2> DEFINE w == Pow2[Log2Root - (s + 1)]
             prev == tree[s]
             N == Len(prev)
  <2> SUFFICES ASSUME NEW i \in 0..(w - 1) PROVE Node(s + 1, i) = ref[s + 1][i]
    OBVIOUS
  <2>1. Pow2[Log2Root - s] = 2 * w /\ w \in Nat
    BY Pow2Facts, Log2Root - s = (Log2Root - (s + 1)) + 1
  <2>2. ref[s + 1][i] = Concat(ref[s][2 * i], ref[s][2 * i + 1])
    BY ReferencePair
  <2>3. Pristine[s + 1] = Concat(Pristine[s], Pristine[s])
    BY PristinePair
  <2>4. N \in Nat /\ Len(tree[s + 1]) = (N + 1) \div 2
    <3>1. s \in Levels
      OBVIOUS
    <3> QED
      BY <3>1, TreeLengths, Zenon DEF Sized
  <2>5. tree[s + 1] = NextLevel(prev, <<>>, s)
    BY Zenon DEF TreeHolds, LevelsFull
  <2>6. \A k \in 1..((N + 1) \div 2) : tree[s + 1][k] =
            IF k > N \div 2 THEN Concat(prev[N], Pristine[s])
            ELSE Concat(prev[2 * k - 1], prev[2 * k])
    <3> HIDE DEF prev
    <3>1. \A k \in 1..((N + 1) \div 2) : NextLevel(prev, <<>>, s)[k] =
              IF k > N \div 2 THEN Concat(prev[N], Pristine[s])
              ELSE Concat(prev[2 * k - 1], prev[2 * k])
      BY DEF NextLevel
    <3> QED
      BY <3>1, <2>5, Zenon
  <2> HIDE DEF w
  <2>7. 2 * i \in 0..(2 * w - 1) /\ 2 * i + 1 \in 0..(2 * w - 1)
    BY <2>1
  <2>8. ref[s][2 * i] = Node(s, 2 * i) /\ ref[s][2 * i + 1] = Node(s, 2 * i + 1)
    BY <1>2, <2>1, <2>7
  <2> HIDE DEF ref, prev
  <2>9. /\ Node(s, 2 * i) = IF 2 * i < N THEN prev[2 * i + 1] ELSE Pristine[s]
        /\ Node(s, 2 * i + 1) = IF 2 * i + 1 < N THEN prev[(2 * i + 1) + 1] ELSE Pristine[s]
        /\ Node(s + 1, i) = IF i < (N + 1) \div 2 THEN tree[s + 1][i + 1] ELSE Pristine[s + 1]
    BY <2>4 DEF prev
  <2> HIDE DEF Node, N
  <2>10. CASE 2 * i >= N
    <3>1. ~(i < (N + 1) \div 2) /\ ~(2 * i < N) /\ ~(2 * i + 1 < N)
      BY <2>10, <2>4
    <3> QED
      BY <3>1, <2>2, <2>3, <2>8, <2>9
  <2>11. CASE 2 * i + 1 = N
    <3>1. /\ i < (N + 1) \div 2 /\ i + 1 \in 1..((N + 1) \div 2) /\ i + 1 > N \div 2
          /\ 2 * i < N /\ ~(2 * i + 1 < N)
      BY <2>11, <2>4
    <3>2. tree[s + 1][i + 1] = Concat(prev[2 * i + 1], Pristine[s])
      BY <3>1, <2>6, <2>11
    <3> QED
      BY <3>1, <3>2, <2>2, <2>8, <2>9
  <2>12. CASE 2 * i + 1 < N
    <3>1. /\ i < (N + 1) \div 2 /\ i + 1 \in 1..((N + 1) \div 2) /\ ~(i + 1 > N \div 2)
          /\ 2 * i < N /\ 2 * (i + 1) - 1 = 2 * i + 1 /\ 2 * (i + 1) = (2 * i + 1) + 1
      BY <2>12, <2>4
    <3>2. tree[s + 1][i + 1] = Concat(prev[2 * i + 1], prev[(2 * i + 1) + 1])
      BY <3>1, <2>6
    <3> QED
      BY <3>1, <3>2, <2>2, <2>8, <2>9, <2>12
  <2> QED
    BY <2>4, <2>10, <2>11, <2>12
<1>3. Log2Leaf \in S
  BY <1>1
<1>4. ASSUME NEW s \in Log2Leaf..(Log2Root - 1), s \in S PROVE s + 1 \in S
  <2>1. P(s) /\ s + 1 \in Levels
    BY <1>4
  <2> HIDE DEF P
  <2> QED
    BY <2>1, <1>2
<1>5. \A s \in Log2Leaf..Log2Root : s \in S
  <2> HIDE DEF S
  <2> QED
    BY <1>3, <1>4, IntervalInduction
<1>6. \A s \in Levels : P(s)
  BY <1>5
<1> QED
  BY <1>6

\* get_node_hash gives the node of the tree.
LEMMA NodeIs ==
    ASSUME TreeHolds, NEW s \in Levels, NEW a, Inside(a, s)
    PROVE  NodeHash(tree, a, s) = Reference(leaves)[s][a \div Pow2[s]]
<1>1. a \div Pow2[s] \in 0..(Pow2[Log2Root - s] - 1)
  BY Zenon DEF Inside
<1> QED
  BY <1>1, TreeNodes, Zenon DEF NodeHash

\* get_proof gives the proof read off the tree.
LEMMA GetProofIs ==
    ASSUME TreeHolds, NEW a \in Nat, NEW s \in Levels, Inside(a, s)
    PROVE  GetProof(tree, a, s) = ReferenceProof(Reference(leaves), a, s, Log2Root)
<1> USE MerkleAssumption
<1>1. /\ s \in 0..Log2Root /\ Log2Root \in Levels
      /\ \A l \in s..(Log2Root - 1) : l \in Levels /\ l \in 0..(Log2Root - 1) /\ l \in s..Log2Root
  BY DEF Levels
<1>2. (\A l \in s..Log2Root : Inside(a, l)) /\ a \div Pow2[Log2Root] = 0
  BY <1>1, InsideAbove
<1>3. NodeHash(tree, 0, Log2Root) = Reference(leaves)[Log2Root][a \div Pow2[Log2Root]]
  <2>1. Pow2[Log2Root] \in Nat /\ Pow2[Log2Root] > 0 /\ Pow2[Log2Root - Log2Root] = 1
    BY Pow2Facts
  <2>2. 0 \div Pow2[Log2Root] = 0
    BY <2>1, QuotientZero
  <2>3. 0 \in 0..(Pow2[Log2Root - Log2Root] - 1)
    BY <2>1
  <2>4. Inside(0, Log2Root)
    BY <2>2, <2>3, Zenon DEF Inside
  <2> QED
    BY <1>1, <1>2, <2>2, <2>4, NodeIs, Zenon
<1>4. \A l \in s..(Log2Root - 1) :
          NodeHash(tree, Sibling(a, l), l) = Reference(leaves)[l][Sibling(a, l) \div Pow2[l]]
  <2> SUFFICES ASSUME NEW l \in s..(Log2Root - 1)
               PROVE  NodeHash(tree, Sibling(a, l), l)
                        = Reference(leaves)[l][Sibling(a, l) \div Pow2[l]]
    OBVIOUS
  <2>1. Inside(a, l) /\ l \in 0..(Log2Root - 1) /\ l \in Levels
    BY <1>1, <1>2, Zenon
  <2>2. Inside(Sibling(a, l), l)
    BY <2>1, Family, Zenon
  <2> QED
    BY <2>1, <2>2, NodeIs, Zenon
<1>5. NodeHash(tree, a, s) = Reference(leaves)[s][a \div Pow2[s]]
  BY NodeIs, Zenon
<1>6. [l \in s..(Log2Root - 1) |-> NodeHash(tree, Sibling(a, l), l)]
        = [l \in s..(Log2Root - 1) |-> Reference(leaves)[l][Sibling(a, l) \div Pow2[l]]]
  BY <1>4, Zenon
<1> QED
  BY <1>3, <1>5, <1>6, Zenon DEF GetProof, ReferenceProof

\* The tree built from its leaves is the tree they were pushed to.
LEMMA FromLeavesIs ==
    ASSUME TreeHolds
    PROVE  FromLeaves(leaves) = tree
<1> USE MerkleAssumption DEF Levels
<1> DEFINE t == [s \in Levels |-> IF s = Log2Leaf THEN leaves ELSE <<>>]
           u == BubbleUp(t)
           S == {s \in Levels : u[s] = tree[s]}
<1>1. u = [s \in Levels |-> IF s = Log2Leaf THEN t[s] ELSE NextLevel(u[s - 1], t[s], s - 1)]
  BY BubbleUpDef, Zenon
<1>2. /\ t[Log2Leaf] = leaves
      /\ \A s \in (Log2Leaf + 1)..Log2Root : t[s] = <<>>
  <2>1. /\ Log2Leaf \in Levels
        /\ \A s \in (Log2Leaf + 1)..Log2Root : s \in Levels /\ s # Log2Leaf
    OBVIOUS
  <2> QED
    BY <2>1, Zenon
<1> HIDE DEF t, u
<1>3. Log2Leaf \in S
  <2>1. Log2Leaf \in Levels
    OBVIOUS
  <2>2. u[Log2Leaf] = leaves
    BY <1>1, <1>2, <2>1, Zenon
  <2> QED
    BY <2>1, <2>2, Zenon DEF TreeHolds
<1>4. ASSUME NEW s \in Log2Leaf..(Log2Root - 1), s \in S PROVE s + 1 \in S
  <2>1. s + 1 \in Levels /\ s + 1 # Log2Leaf /\ (s + 1) - 1 = s
        /\ s + 1 \in (Log2Leaf + 1)..Log2Root
    OBVIOUS
  <2>2. u[s + 1] = NextLevel(u[(s + 1) - 1], t[s + 1], (s + 1) - 1)
    BY <1>1, <2>1, Zenon
  <2>3. u[s + 1] = NextLevel(u[s], <<>>, s)
    BY <1>2, <2>1, <2>2, Zenon
  <2>4. tree[s + 1] = NextLevel(tree[s], <<>>, s)
    BY Zenon DEF TreeHolds, LevelsFull
  <2> QED
    BY <1>4, <2>1, <2>3, <2>4, Zenon
<1>5. \A s \in Log2Leaf..Log2Root : s \in S
  <2> HIDE DEF S
  <2> QED
    BY <1>3, <1>4, IntervalInduction
<1>6. \A s \in Levels : u[s] = tree[s]
  BY <1>5, Zenon
<1>7. u = [s \in Levels |-> u[s]]
  BY <1>1, Zenon
<1>8. tree = [s \in Levels |-> tree[s]]
  BY Zenon DEF TreeHolds, Shape
<1>9. u = tree
  BY <1>6, <1>7, <1>8, Zenon
<1> QED
  BY <1>9 DEF FromLeaves, u, t

-----------------------------------------------------------------------------
(* The invariant *)

\* There is a proof stored for every leaf.
ProofsHold == proofs = [i \in 1..Len(leaves) |-> proofs[i]]

\* The two trees and the stored proofs, after any pushes.
MerkleInv ==
    /\ TreeHolds /\ ContextHolds /\ ProofsHold
    /\ finished \in BOOLEAN /\ FinishedProofsCurrent

\* Everything is empty at first.
LEMMA InitMerkle == Init => MerkleInv
<1> SUFFICES ASSUME Init PROVE MerkleInv
  OBVIOUS
<1> USE MerkleAssumption
<1>1. leaves = <<>> /\ proofs = <<>> /\ leaf_count = 0 /\ finished = FALSE
      /\ tree = [s \in Levels |-> <<>>] /\ context = [i \in 0..Depth |-> <<>>]
  BY DEF Init
<1>2. leaves \in Seq(LeafHashes) /\ Len(leaves) = 0
  BY <1>1
<1>3. MaxLeaves \in Nat /\ MaxLeaves > 0
  BY Pow2Facts, Depth \in 0..Log2Root DEF MaxLeaves, Depth
<1>4. LeavesOK
  BY <1>2, <1>3 DEF LeavesOK
<1>5. Shape(tree) /\ Log2Leaf \in Levels /\ tree[Log2Leaf] = leaves
  <2>1. Log2Leaf \in Levels
    BY DEF Levels
  <2> QED
    BY <1>1, <2>1, Zenon DEF Shape
<1>6. LevelsFull(tree)
  <2> SUFFICES ASSUME NEW s \in Log2Leaf..(Log2Root - 1)
               PROVE  tree[s + 1] = NextLevel(tree[s], <<>>, s)
    BY Zenon DEF LevelsFull
  <2>1. s \in Levels /\ s + 1 \in Levels
    BY DEF Levels
  <2>2. tree[s] = <<>> /\ tree[s + 1] = <<>>
    BY <1>1, <2>1, Zenon
  <2>3. NextLevel(<<>>, <<>>, s) = <<>>
    <3> DEFINE f == NextLevel(<<>>, <<>>, s)
    <3>1. Len(<<>>) = 0
      BY EmptySeq
    <3>2. Len(f) = (0 + 1) \div 2
      BY <3>1, LevelLength
    <3>3. f = [i \in 1..((0 + 1) \div 2) |-> f[i]]
      BY <3>1 DEF NextLevel
    <3>4. (0 + 1) \div 2 = 0
      OBVIOUS
    <3> HIDE DEF f
    <3>5. f \in Seq({f[i] : i \in 1..0}) /\ Len(f) = 0
      BY <3>3, <3>4, LengthOf
    <3>6. f = <<>>
      BY <3>5, EmptySeq
    <3> QED
      BY <3>6 DEF f
  <2> QED
    BY <2>2, <2>3, Zenon
<1>7. LeftOfPath(context, leaf_count, Given)
  <2> SUFFICES ASSUME NEW i \in 0..Depth PROVE ~Bit(0, i)
    BY <1>1, Zenon DEF LeftOfPath
  <2>1. i \in 0..Log2Root
    BY DEF Depth
  <2>2. Pow2[i] \in Nat /\ Pow2[i] > 0
    BY <2>1, Pow2Facts
  <2>3. 0 \div Pow2[i] = 0
    BY <2>2, QuotientZero
  <2> QED
    BY <2>3 DEF Bit
<1>8. ContextHolds
  <2>1. leaf_count \in 0..Len(leaves) /\ Len(leaves) <= MaxLeaves
    BY <1>1, <1>2, <1>3
  <2>2. DOMAIN context = 0..Depth
    BY <1>1, Zenon
  <2> QED
    BY <1>2, <1>7, <2>1, <2>2, Zenon DEF ContextHolds
<1>9. ProofsHold
  BY <1>1 DEF ProofsHold
<1>10. FinishedProofsCurrent /\ finished \in BOOLEAN
  BY <1>1 DEF FinishedProofsCurrent
<1> QED
  BY <1>4, <1>5, <1>6, <1>8, <1>9, <1>10, Zenon DEF MerkleInv, TreeHolds

\* The leaves a tree has not yet been given do not matter to its context.
LEMMA PushKeepsContext ==
    ASSUME ContextHolds, NEW hash \in LeafHashes, Len(leaves) < MaxLeaves,
           leaves' = Append(leaves, hash), UNCHANGED <<leaf_count, context>>
    PROVE  ContextHolds'
<1> USE MerkleAssumption
<1>1. /\ leaves \in Seq(LeafHashes) /\ leaf_count \in 0..Len(leaves) /\ Len(leaves) \in Nat
      /\ DOMAIN context = 0..Depth /\ LeftOfPath(context, leaf_count, Given)
  BY DEF ContextHolds
<1>2. /\ leaves' \in Seq(LeafHashes) /\ Len(leaves') = Len(leaves) + 1
      /\ \A i \in 1..Len(leaves) : leaves'[i] = leaves[i]
  BY <1>1, AppendProperties
<1>3. MaxLeaves \in Nat
  BY Pow2Facts, Depth \in 0..Log2Root DEF MaxLeaves, Depth
<1>4. Len(leaves') <= MaxLeaves /\ leaf_count \in 0..Len(leaves')
  BY <1>1, <1>2, <1>3
<1>5. SubSeq(leaves', 1, leaf_count) = SubSeq(leaves, 1, leaf_count)
  <2> DEFINE l == SubSeq(leaves, 1, leaf_count)
             m == SubSeq(leaves', 1, leaf_count)
  <2>1. /\ l \in Seq(LeafHashes) /\ Len(l) = leaf_count
        /\ \A i \in 1..leaf_count : l[i] = leaves[i]
    BY <1>1, GivenLeaves
  <2>2. /\ m \in Seq(LeafHashes) /\ Len(m) = leaf_count
        /\ \A i \in 1..leaf_count : m[i] = leaves'[i]
    BY <1>2, <1>4, GivenLeaves
  <2> HIDE DEF l, m
  <2>3. \A i \in 1..leaf_count : l[i] = m[i]
    BY <1>1, <1>2, <2>1, <2>2
  <2>4. l = m
    BY <2>1, <2>2, <2>3, SeqEqual
  <2> QED
    BY <2>4 DEF l, m
<1>6. Given' = Given
  BY <1>5 DEF Given
<1>7. LeftOfPath(context', leaf_count', Given') = LeftOfPath(context, leaf_count, Given)
  BY <1>6
<1> QED
  BY <1>1, <1>2, <1>4, <1>7 DEF ContextHolds

\* push_back of the complete tree, and the proof taken of the new leaf.
LEMMA PushStep ==
    ASSUME MerkleInv, NEW hash \in LeafHashes, PushBack(hash)
    PROVE  MerkleInv'
<1> USE MerkleAssumption
<1>1. /\ TreeHolds /\ ContextHolds /\ ProofsHold /\ finished = FALSE /\ finished' = FALSE
      /\ leaves \in Seq(LeafHashes) /\ Len(leaves) \in Nat /\ tree[Log2Leaf] = leaves
  BY DEF MerkleInv, PushBack, TreeHolds, LeavesOK
<1>2. /\ Len(leaves) < MaxLeaves /\ leaves' = Append(leaves, hash)
      /\ tree' = BubbleUp([tree EXCEPT ![Log2Leaf] = Append(@, hash)])
      /\ UNCHANGED <<leaf_count, context>>
  BY <1>1, Zenon DEF PushBack
<1>3. /\ leaves' \in Seq(LeafHashes) /\ Len(leaves') = Len(leaves) + 1
  BY <1>1, <1>2, AppendProperties
<1>4. LeavesOK'
  <2>1. MaxLeaves \in Nat
    BY Pow2Facts, Depth \in 0..Log2Root DEF MaxLeaves, Depth
  <2> QED
    BY <1>1, <1>2, <1>3, <2>1 DEF LeavesOK
<1>5. Shape(tree') /\ tree'[Log2Leaf] = leaves' /\ LevelsFull(tree')
  BY <1>1, <1>2, BubbleUpRepairs, Zenon
<1>6. TreeHolds'
  BY <1>4, <1>5 DEF TreeHolds, Shape, LevelsFull
<1>7. ContextHolds'
  BY <1>1, <1>2, PushKeepsContext
<1>8. ProofsHold'
  <2> DEFINE p == GetProof(tree', Len(leaves) * Pow2[Log2Leaf], Log2Leaf)
             T == {proofs[i] : i \in 1..Len(leaves)} \cup {p}
  <2>1. proofs' = Append(proofs, p)
    BY DEF PushBack
  <2>2. proofs = [i \in 1..Len(leaves) |-> proofs[i]]
    BY <1>1 DEF ProofsHold
  <2>3. Len(proofs) = Len(leaves) /\ proofs \in Seq({proofs[i] : i \in 1..Len(leaves)})
    BY <1>1, <2>2, LengthOf
  <2> HIDE DEF p
  <2>4. proofs \in Seq(T) /\ p \in T
    BY <2>3
  <2> HIDE DEF T
  <2>5. proofs' \in Seq(T) /\ Len(proofs') = Len(leaves')
    BY <1>3, <2>1, <2>3, <2>4, AppendProperties
  <2>6. proofs' = [i \in 1..Len(proofs') |-> proofs'[i]]
    BY <2>5
  <2> QED
    BY <2>5, <2>6, Zenon DEF ProofsHold
<1>9. FinishedProofsCurrent' /\ finished' \in BOOLEAN
  BY <1>1 DEF FinishedProofsCurrent
<1> QED
  BY <1>6, <1>7, <1>8, <1>9, Zenon DEF MerkleInv

\* push_back of the back tree.
LEMMA BackStep ==
    ASSUME MerkleInv, BackPushBack
    PROVE  MerkleInv'
<1> USE MerkleAssumption
<1> DEFINE n == leaf_count
           hash == leaves[leaf_count + 1]
           leaf == SubSeq(leaves, 1, n)
           other == SubSeq(leaves, 1, n + 1)
<1>1. /\ leaves \in Seq(LeafHashes) /\ n \in 0..Len(leaves) /\ Len(leaves) \in Nat
      /\ Len(leaves) <= MaxLeaves
      /\ DOMAIN context = 0..Depth /\ LeftOfPath(context, n, leaf)
  BY DEF MerkleInv, ContextHolds, Given
<1>2. /\ n < Len(leaves) /\ n < MaxLeaves /\ leaf_count' = n + 1
      /\ context' = BackContext(hash) /\ UNCHANGED <<leaves, tree, proofs, finished>>
  BY Zenon DEF BackPushBack
<1>3. n \in Nat /\ n + 1 \in 0..Len(leaves)
  BY <1>1, <1>2
<1>4. /\ Len(leaf) = n /\ Len(other) = n + 1 /\ other[n + 1] = hash
      /\ \A i \in 1..n : leaf[i] = other[i]
  <2>1. Len(leaf) = n /\ \A i \in 1..n : leaf[i] = leaves[i]
    BY <1>1, GivenLeaves
  <2>2. Len(other) = n + 1 /\ \A i \in 1..(n + 1) : other[i] = leaves[i]
    BY <1>1, <1>3, GivenLeaves
  <2> HIDE DEF leaf, other
  <2> QED
    BY <1>3, <2>1, <2>2
<1>5. PICK right : /\ context' = [context EXCEPT ![LowestClear(n)] = right[LowestClear(n)]]
                   /\ right[0] = hash
                   /\ \A i \in 1..Depth : right[i] = Concat(context[i - 1], right[i - 1])
  <2>1. \E r : /\ BackContext(hash) = [context EXCEPT ![LowestClear(n)] = r[LowestClear(n)]]
               /\ r[0] = hash
               /\ \A i \in 1..Depth : r[i] = Concat(context[i - 1], r[i - 1])
    BY BackContextDef, Zenon
  <2> QED
    BY <1>2, <2>1, Zenon
<1> HIDE DEF n, hash, leaf, other
<1>6. LeftOfPath([context EXCEPT ![LowestClear(n)] = right[LowestClear(n)]], n + 1, other)
  <2>1. right[0] = other[n + 1]
    BY <1>4, <1>5, Zenon
  <2> QED
    BY <1>1, <1>2, <1>3, <1>4, <1>5, <2>1, ContextStep, Zenon
<1>7. LeftOfPath(context', leaf_count', Given')
  <2>1. Given' = other
    BY <1>2 DEF Given, other
  <2>2. context' = [context EXCEPT ![LowestClear(n)] = right[LowestClear(n)]]
    BY <1>5, Zenon
  <2> QED
    BY <1>2, <1>6, <2>1, <2>2, Zenon
<1>8. DOMAIN context' = 0..Depth
  BY <1>1, <1>5, Zenon
<1>9. ContextHolds'
  <2>1. leaves' \in Seq(LeafHashes) /\ Len(leaves') <= MaxLeaves /\ leaf_count' \in 0..Len(leaves')
    BY <1>1, <1>2, <1>3
  <2> QED
    BY <2>1, <1>7, <1>8 DEF ContextHolds, LeftOfPath
<1>10. TreeHolds'
  BY <1>2 DEF MerkleInv, TreeHolds, LeavesOK, Shape, LevelsFull
<1>11. ProofsHold' /\ finished' \in BOOLEAN /\ FinishedProofsCurrent'
  BY <1>2 DEF MerkleInv, ProofsHold, FinishedProofsCurrent
<1> QED
  BY <1>9, <1>10, <1>11, Zenon DEF MerkleInv

\* finish_epoch takes every proof again, from the tree as it now is.
LEMMA FinishStep ==
    ASSUME MerkleInv, FinishEpoch
    PROVE  MerkleInv'
<1> USE MerkleAssumption
<1> DEFINE New(i) == GetProof(tree, (i - 1) * Pow2[Log2Leaf], Log2Leaf)
           Ref(i) == ReferenceProof(Reference(leaves), (i - 1) * Pow2[Log2Leaf], Log2Leaf,
                                    Log2Root)
<1>1. TreeHolds /\ ContextHolds /\ ProofsHold /\ Len(leaves) \in Nat /\ Len(leaves) <= MaxLeaves
  BY DEF MerkleInv, TreeHolds, LeavesOK
<1>2. /\ proofs' = [i \in DOMAIN proofs |-> New(i)] /\ finished' = TRUE
      /\ UNCHANGED <<leaves, tree, leaf_count, context>>
  BY Zenon DEF FinishEpoch
<1>3. DOMAIN proofs = 1..Len(leaves)
  BY <1>1, Zenon DEF ProofsHold
<1>4. ASSUME NEW i \in 1..Len(leaves) PROVE New(i) = Ref(i)
  <2>1. i - 1 \in Nat /\ i - 1 < MaxLeaves /\ Log2Leaf \in Levels /\ Log2Leaf \in 0..Log2Root
    <3>1. MaxLeaves \in Nat
      BY Pow2Facts, Depth \in 0..Log2Root DEF MaxLeaves, Depth
    <3> QED
      BY <1>1, <3>1 DEF Levels
  <2>2. Inside((i - 1) * Pow2[Log2Leaf], Log2Leaf)
    BY <2>1, LeafInside, Zenon
  <2>3. Pow2[Log2Leaf] \in Nat
    BY <2>1, Pow2Facts
  <2>4. (i - 1) * Pow2[Log2Leaf] \in Nat
    BY <2>1, <2>3
  <2> QED
    BY <1>1, <2>1, <2>2, <2>4, GetProofIs, Zenon
<1> HIDE DEF New
<1>5. proofs' = [i \in 1..Len(leaves) |-> New(i)]
  BY <1>2, <1>3, Zenon
<1>6. DOMAIN proofs' = 1..Len(leaves) /\ \A i \in 1..Len(leaves) : proofs'[i] = Ref(i)
  BY <1>4, <1>5, Zenon
<1>7. ProofsHold'
  <2>1. proofs' = [i \in 1..Len(leaves) |-> proofs'[i]]
    BY <1>5, Zenon
  <2> QED
    BY <1>2, <2>1 DEF ProofsHold
<1>8. FinishedProofsCurrent'
  BY <1>2, <1>6, Zenon DEF FinishedProofsCurrent
<1>9. TreeHolds'
  BY <1>1, <1>2 DEF TreeHolds, LeavesOK, Shape, LevelsFull
<1>10. ContextHolds'
  BY <1>1, <1>2 DEF ContextHolds, Given, LeftOfPath
<1> QED
  BY <1>2, <1>7, <1>8, <1>9, <1>10, Zenon DEF MerkleInv

\* The trees and the proofs are in order in every state.
THEOREM MerkleInvariance == Spec => []MerkleInv
<1>1. MerkleInv /\ [Next]_vars => MerkleInv'
  <2> SUFFICES ASSUME MerkleInv, [Next]_vars PROVE MerkleInv'
    OBVIOUS
  <2>1. CASE \E hash \in LeafHashes : PushBack(hash)
    BY <2>1, PushStep, Zenon
  <2>2. CASE BackPushBack
    BY <2>2, BackStep, Zenon
  <2>3. CASE FinishEpoch
    BY <2>3, FinishStep, Zenon
  <2>4. CASE UNCHANGED vars
    BY <2>4 DEF vars, MerkleInv, TreeHolds, LeavesOK, Shape, LevelsFull, ContextHolds,
                Given, LeftOfPath, ProofsHold, FinishedProofsCurrent
  <2> QED
    BY <2>1, <2>2, <2>3, <2>4, Zenon DEF Next
<1> QED
  BY <1>1, InitMerkle, PTL DEF Spec

-----------------------------------------------------------------------------
(* The properties *)

\* Every address get_proof takes is that of a node inside the tree.
LEMMA NodesInside ==
    ASSUME NEW n \in Nodes
    PROVE  n[1] \in Nat /\ n[2] \in Levels /\ n[2] \in 0..Log2Root /\ Inside(n[1], n[2])
<1> USE MerkleAssumption
<1>1. n[1] \in 0..(Pow2[Log2Root] - 1) /\ n[2] \in Levels /\ IsNode(n[1], n[2])
  BY DEF Nodes
<1>2. n[1] \in Nat /\ n[2] \in 0..Log2Root /\ Log2Root - n[2] \in 0..Log2Root
  BY <1>1 DEF Levels
<1>3. n[1] \div Pow2[n[2]] \in Nat /\ Pow2[Log2Root - n[2]] \in Nat
  BY <1>2, QuotientNat, Pow2Facts
<1>4. n[1] \div Pow2[n[2]] < Pow2[Log2Root - n[2]]
  BY <1>1, Zenon DEF IsNode
<1>5. n[1] \div Pow2[n[2]] \in 0..(Pow2[Log2Root - n[2]] - 1)
  BY <1>3, <1>4
<1> QED
  BY <1>1, <1>2, <1>5, Zenon DEF Inside

\* Pushing leaves one by one, complete_merkle_tree repairing only the end of every
\* level, leaves the tree of all leaves: for every size of tree and leaf.
THEOREM CompleteStaysTree == Spec => []CompleteIsTree
<1>1. MerkleInv => CompleteIsTree
  <2> SUFFICES ASSUME MerkleInv PROVE CompleteIsTree
    OBVIOUS
  <2> USE MerkleAssumption
  <2>1. TreeHolds /\ ContextHolds /\ ProofsHold /\ finished \in BOOLEAN
    BY Zenon DEF MerkleInv
  <2>2. TypeOK
    <3>1. leaves \in Seq(LeafHashes) /\ Len(leaves) \in Nat /\ Len(leaves) <= MaxLeaves
      BY <2>1 DEF ContextHolds
    <3>2. DOMAIN tree = Levels /\ tree[Log2Leaf] = leaves
      BY <2>1, Zenon DEF TreeHolds, Shape
    <3>3. \A s \in Levels \ {Log2Leaf} : Len(tree[s]) = (Len(tree[s - 1]) + 1) \div 2
      <4> SUFFICES ASSUME NEW s \in Levels \ {Log2Leaf}
                   PROVE  Len(tree[s]) = (Len(tree[s - 1]) + 1) \div 2
        OBVIOUS
      <4>1. s - 1 \in Log2Leaf..(Log2Root - 1) /\ (s - 1) + 1 = s
        BY DEF Levels
      <4>2. Len(tree[(s - 1) + 1]) = (Len(tree[s - 1]) + 1) \div 2
        BY <2>1, <4>1, TreeLengths, Zenon
      <4> QED
        BY <4>1, <4>2, Zenon
    <3>4. leaf_count \in 0..Len(leaves) /\ DOMAIN context = 0..Depth
      BY <2>1, Zenon DEF ContextHolds
    <3>5. Len(proofs) = Len(leaves)
      BY <2>1, <3>1, LengthOf DEF ProofsHold
    <3> QED
      BY <2>1, <3>1, <3>2, <3>3, <3>4, <3>5, Zenon DEF TypeOK
  <2>3. ASSUME NEW s \in Levels, NEW i \in 0..(MaxLeaves - 1), i < Pow2[Log2Root - s]
        PROVE  NodeHash(tree, i * Pow2[s], s) = Reference(leaves)[s][i]
    <3>1. i \in Nat /\ s \in 0..Log2Root /\ Log2Root - s \in 0..Log2Root
      BY DEF Levels
    <3>2. Pow2[s] \in Nat /\ Pow2[s] > 0 /\ Pow2[Log2Root - s] \in Nat
      BY <3>1, Pow2Facts
    <3>3. (i * Pow2[s]) \div Pow2[s] = i
      BY <3>1, <3>2, QuotientMultiple
    <3>4. i \in 0..(Pow2[Log2Root - s] - 1)
      BY <2>3, <3>1, <3>2
    <3>5. Inside(i * Pow2[s], s)
      BY <3>3, <3>4, Zenon DEF Inside
    <3>6. NodeHash(tree, i * Pow2[s], s) = Reference(leaves)[s][(i * Pow2[s]) \div Pow2[s]]
      BY <2>1, <3>5, NodeIs, Zenon
    <3> QED
      BY <3>3, <3>6, Zenon
  <2>4. tree = FromLeaves(leaves)
    BY <2>1, FromLeavesIs, Zenon
  <2> QED
    BY <2>2, <2>3, <2>4, Zenon DEF CompleteIsTree
<1> QED
  BY <1>1, MerkleInvariance, PTL

\* Every proof get_proof gives, and every slice of it, verifies and has the hashes
\* of the tree.
THEOREM ProofsStayOfTree == Spec => []ProofsOfTree
<1>1. MerkleInv => ProofsOfTree
  <2> SUFFICES ASSUME MerkleInv PROVE ProofsOfTree
    OBVIOUS
  <2> USE MerkleAssumption
  <2> DEFINE ref == Reference(leaves)
  <2>1. TreeHolds
    BY Zenon DEF MerkleInv
  <2>2. ASSUME NEW n \in Nodes
        PROVE  /\ GetProof(tree, n[1], n[2]) = ReferenceProof(ref, n[1], n[2], Log2Root)
               /\ Verify(ReferenceProof(ref, n[1], n[2], Log2Root))
    <3>1. n[1] \in Nat /\ n[2] \in Levels /\ n[2] \in 0..Log2Root /\ Inside(n[1], n[2])
      BY NodesInside
    <3>2. Log2Root \in n[2]..Log2Root
      BY <3>1
    <3> QED
      BY <2>1, <3>1, <3>2, GetProofIs, VerifyReference, Zenon
  <2>3. ASSUME NEW n \in Nodes, NEW target \in n[2]..Log2Root, NEW root \in 1..Log2Root,
               root >= target
        PROVE  LET a == (n[1] \div Pow2[target]) * Pow2[target]
               IN  /\ Slice(ReferenceProof(ref, n[1], n[2], Log2Root), root, target)
                        = ReferenceProof(ref, a, target, root)
                   /\ Verify(ReferenceProof(ref, a, target, root))
    <3> DEFINE a == (n[1] \div Pow2[target]) * Pow2[target]
    <3>1. n[1] \in Nat /\ n[2] \in Levels /\ n[2] \in 0..Log2Root /\ Inside(n[1], n[2])
      BY NodesInside
    <3>2. target \in Levels /\ target \in 0..Log2Root /\ root \in target..Log2Root
          /\ target \in target..Log2Root
      BY <2>3, <3>1 DEF Levels
    <3>3. Slice(ReferenceProof(ref, n[1], n[2], Log2Root), root, target)
            = ReferenceProof(ref, a, target, root)
      BY <3>1, <3>2, SliceReference, Zenon
    <3>4. a \in Nat /\ a \div Pow2[target] = n[1] \div Pow2[target]
      BY <3>1, <3>2, SlicedAddress, Zenon
    <3>5. Inside(n[1], target)
      BY <3>1, InsideAbove, Zenon
    <3>6. Inside(a, target)
      BY <3>4, <3>5, Zenon DEF Inside
    <3> HIDE DEF a
    <3>7. Verify(ReferenceProof(ref, a, target, root))
      BY <3>2, <3>4, <3>6, VerifyReference, Zenon
    <3> QED
      BY <3>3, <3>7, Zenon DEF a
  <2> HIDE DEF ref
  <2> QED
    BY <2>2, <2>3, Zenon DEF ProofsOfTree, ref
<1> QED
  BY <1>1, MerkleInvariance, PTL

\* set_proto_merkle_tree_proof and get_proto_merkle_tree_proof undo each other on
\* every proof of the tree.
THEOREM ProofsStaySent == Spec => []ProofsSurviveTransport
<1>1. ProofsSurviveTransport
  <2> SUFFICES ASSUME NEW n \in Nodes
               PROVE  FromProto(ToProto(GetProof(tree, n[1], n[2])))
                        = GetProof(tree, n[1], n[2])
    BY Zenon DEF ProofsSurviveTransport
  <2> DEFINE f == [l \in n[2]..(Log2Root - 1) |-> NodeHash(tree, Sibling(n[1], l), l)]
  <2>1. n[2] \in Nat /\ Log2Root \in Nat
    BY NodesInside, MerkleAssumption
  <2>2. f = [l \in n[2]..(Log2Root - 1) |-> f[l]]
    BY Zenon
  <2>3. GetProof(tree, n[1], n[2]) =
            Proof(n[1], n[2], NodeHash(tree, n[1], n[2]), Log2Root,
                  NodeHash(tree, 0, Log2Root), f)
    BY Zenon DEF GetProof
  <2> HIDE DEF f
  <2> QED
    BY <2>1, <2>2, <2>3, TransportOf, Zenon
<1> QED
  BY <1>1, PTL

\* back_merkle_tree has the root of the tree of the leaves it was given, though it
\* keeps one hash for every bit of their number only.
THEOREM BackStaysTree == Spec => []BackIsTree
<1>1. MerkleInv => BackIsTree
  BY BackRootIs, Zenon DEF MerkleInv, BackIsTree, Given
<1> QED
  BY <1>1, MerkleInvariance, PTL

\* get_next_leaf_proof foresees the root of the tree with any next leaf.
THEOREM NextLeafStaysForeseen == Spec => []NextLeafProofForesees
<1>1. MerkleInv => NextLeafProofForesees
  <2> SUFFICES ASSUME MerkleInv, leaf_count < MaxLeaves
               PROVE  /\ Verify(NextLeafProof)
                      /\ \A hash \in LeafHashes :
                            ProofRoot(NextLeafProof, hash)
                              = Reference(Append(Given, hash))[Log2Root][0]
    BY Zenon DEF NextLeafProofForesees, Given
  <2> USE MerkleAssumption
  <2>1. ContextHolds
    BY Zenon DEF MerkleInv
  <2>2. /\ leaf_count \in Nat /\ Given \in Seq(LeafHashes) /\ Len(Given) = leaf_count
        /\ leaf_count \in 0..(Pow2[Log2Root - Log2Leaf] - 1)
    <3>1. leaves \in Seq(LeafHashes) /\ leaf_count \in 0..Len(leaves) /\ leaf_count \in Nat
      BY <2>1 DEF ContextHolds
    <3>2. Pow2[Log2Root - Log2Leaf] = MaxLeaves /\ MaxLeaves \in Nat
      BY Pow2Facts, Depth \in 0..Log2Root DEF MaxLeaves, Depth
    <3>3. leaf_count \in 0..(Pow2[Log2Root - Log2Leaf] - 1)
      BY <3>1, <3>2
    <3> QED
      BY <3>1, <3>3, GivenLeaves, Zenon DEF Given
  <2>3. Reference(Given)[Log2Leaf][leaf_count] = Pristine[Log2Leaf]
    <3>1. ~(leaf_count < Len(Given))
      BY <2>2
    <3> QED
      BY <2>2, <3>1, ReferenceLeaf, Zenon
  <2>4. ProofRoot(NextLeafProof, Reference(Given)[Log2Leaf][leaf_count])
          = Reference(Given)[Log2Root][0]
    <3>1. leaf_count <= Len(Given) /\ Len(Given) <= leaf_count + 1 /\ Len(Given) \in Nat
      BY <2>2
    <3>2. \A i \in 1..leaf_count : Given[i] = Given[i]
      OBVIOUS
    <3> QED
      BY <2>1, <3>1, <3>2, NextLeafRoot, Zenon
  <2>5. Verify(NextLeafProof)
    <3>1. BackRoot = Reference(Given)[Log2Root][0]
      BY <2>1, BackRootIs
    <3>2. NextLeafProof.target_hash = Pristine[Log2Leaf] /\ NextLeafProof.root_hash = BackRoot
      BY DEF NextLeafProof, Proof
    <3> QED
      BY <2>3, <2>4, <3>1, <3>2, Zenon DEF Verify
  <2>6. ASSUME NEW hash \in LeafHashes
        PROVE  ProofRoot(NextLeafProof, hash) = Reference(Append(Given, hash))[Log2Root][0]
    <3> DEFINE leaf == Append(Given, hash)
    <3>1. /\ Len(leaf) = leaf_count + 1 /\ leaf[leaf_count + 1] = hash
          /\ \A i \in 1..leaf_count : leaf[i] = Given[i]
      BY <2>2, AppendProperties
    <3> HIDE DEF leaf
    <3>2. /\ leaf_count <= Len(leaf) /\ Len(leaf) <= leaf_count + 1 /\ Len(leaf) \in Nat
          /\ leaf_count < Len(leaf)
      BY <2>2, <3>1
    <3>3. Reference(leaf)[Log2Leaf][leaf_count] = hash
      BY <2>2, <3>1, <3>2, ReferenceLeaf, Zenon
    <3>4. \A i \in 1..leaf_count : Given[i] = leaf[i]
      BY <3>1, Zenon
    <3>5. ProofRoot(NextLeafProof, Reference(leaf)[Log2Leaf][leaf_count])
            = Reference(leaf)[Log2Root][0]
      BY <2>1, <3>2, <3>4, NextLeafRoot, Zenon
    <3> QED
      BY <3>3, <3>5, Zenon DEF leaf
  <2> QED
    BY <2>5, <2>6, Zenon
<1> QED
  BY <1>1, MerkleInvariance, PTL

\* Once an epoch is finished, every stored proof proves its leaf in the final tree.
THEOREM FinishedStaysCurrent == Spec => []FinishedProofsCurrent
<1>1. MerkleInv => FinishedProofsCurrent
  BY Zenon DEF MerkleInv
<1> QED
  BY <1>1, MerkleInvariance, PTL
=============================================================================
