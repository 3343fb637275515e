----------------------------- MODULE DeskProofs -----------------------------
(***************************************************************************)
(* Proofs about AttestationRegistry and AttestationDesk, for any           *)
(* operators, keys, evidence and directories, snapshots of any size, and   *)
(* every bound.                                                            *)
(***************************************************************************)
EXTENDS AttestationDesk, FiniteSetTheorems, SequenceTheorems, WellFoundedInduction, TLAPS

-----------------------------------------------------------------------------
(* Numbers, sequences and the loops of the Merkle tree *)

\* A set that has zero and the successor of each natural in it has all of them.
LEMMA Counting ==
  ASSUME NEW G, 0 \in G, \A n \in Nat : n \in G => n + 1 \in G
  PROVE  \A n \in Nat : n \in G
<1> DEFINE R == {ss \in Nat \X Nat : ss[1] < ss[2]}
           T == {n \in Nat : n \notin G}
<1>1. IsWellFoundedOn(R, Nat)
  BY NatLessThanWellFounded DEF OpToRel
<1>2. T = {}
  <2>1. SUFFICES ASSUME T # {} PROVE FALSE
    OBVIOUS
  <2>2. PICK m \in T : \A e \in T : ~ (<<e, m>> \in R)
    <3>1. T \in SUBSET Nat
      OBVIOUS
    <3> HIDE DEF R, T
    <3> QED
      BY <1>1, <2>1, <3>1, WFMin
  <2>3. m \in Nat /\ m # 0 /\ m \notin G
    BY <2>2
  <2>4. m - 1 \in Nat /\ m - 1 < m /\ (m - 1) + 1 = m
    BY <2>3
  <2>5. m - 1 \notin T
    BY <2>2, <2>3, <2>4
  <2> QED
    BY <2>3, <2>4, <2>5
<1> QED
  BY <1>2

\* A sequence of n elements, whatever they are.
Numbered(n, f) == f = [i \in 1..n |-> f[i]]

LEMMA Listing ==
  ASSUME NEW n \in Nat, NEW f, Numbered(n, f)
  PROVE  f \in Seq({f[i] : i \in 1..n}) /\ Len(f) = n /\ DOMAIN f = 1..n
<1>1. f \in [1..n -> {f[i] : i \in 1..n}]
  BY DEF Numbered
<1> QED
  BY <1>1

\* The loop over widths (verify_inclusion_proof).
LEMMA WidthsLoop ==
  ASSUME NEW size \in Nat
  PROVE  Widths(size) = [k \in 0..size |-> IF k = 0 THEN size ELSE (Widths(size)[k - 1] + 1) \div 2]
<1> DEFINE Loop(W, n) == W = [k \in 0..n |-> IF k = 0 THEN size ELSE (W[k - 1] + 1) \div 2]
           G == {n \in Nat : \E W : Loop(W, n)}
<1>1. 0 \in G
  <2>1. Loop([k \in 0..0 |-> size], 0)
    OBVIOUS
  <2> QED
    BY <2>1
<1>2. ASSUME NEW n \in Nat, n \in G  PROVE n + 1 \in G
  <2>1. PICK V : Loop(V, n)
    BY <1>2
  <2> DEFINE W == [k \in 0..(n + 1) |-> IF k = n + 1 THEN (V[n] + 1) \div 2 ELSE V[k]]
  <2>2. ASSUME NEW k \in 0..(n + 1)
        PROVE  W[k] = IF k = 0 THEN size ELSE (W[k - 1] + 1) \div 2
    <3>1. CASE k = n + 1
      BY <3>1
    <3>2. CASE k # n + 1
      <4>1. k \in 0..n /\ (k # 0 => k - 1 \in 0..n)
        BY <3>2
      <4>2. V[k] = IF k = 0 THEN size ELSE (V[k - 1] + 1) \div 2
        BY <2>1, <4>1
      <4>3. W[k] = V[k] /\ (k # 0 => W[k - 1] = V[k - 1])
        BY <4>1
      <4> QED
        BY <4>2, <4>3
    <3> QED
      BY <3>1, <3>2
  <2>3. Loop(W, n + 1)
    BY <2>2
  <2> HIDE DEF W, Loop
  <2> QED
    BY <2>3
<1>3. size \in G
  <2> HIDE DEF G
  <2> QED
    BY <1>1, <1>2, Counting
<1> QED
  BY <1>3 DEF Widths

\* The loop over positions (index //= 2 in both functions).
LEMMA PathLoop ==
  ASSUME NEW index, NEW size \in Nat
  PROVE  Path(index, size) = [k \in 0..size |->
           IF k = 0 THEN index ELSE Path(index, size)[k - 1] \div 2]
<1> DEFINE Loop(W, n) == W = [k \in 0..n |-> IF k = 0 THEN index ELSE W[k - 1] \div 2]
           G == {n \in Nat : \E W : Loop(W, n)}
<1>1. 0 \in G
  <2>1. Loop([k \in 0..0 |-> index], 0)
    OBVIOUS
  <2> QED
    BY <2>1
<1>2. ASSUME NEW n \in Nat, n \in G  PROVE n + 1 \in G
  <2>1. PICK V : Loop(V, n)
    BY <1>2
  <2> DEFINE W == [k \in 0..(n + 1) |-> IF k = n + 1 THEN V[n] \div 2 ELSE V[k]]
  <2>2. ASSUME NEW k \in 0..(n + 1)
        PROVE  W[k] = IF k = 0 THEN index ELSE W[k - 1] \div 2
    <3>1. CASE k = n + 1
      BY <3>1
    <3>2. CASE k # n + 1
      <4>1. k \in 0..n /\ (k # 0 => k - 1 \in 0..n)
        BY <3>2
      <4>2. V[k] = IF k = 0 THEN index ELSE V[k - 1] \div 2
        BY <2>1, <4>1
      <4>3. W[k] = V[k] /\ (k # 0 => W[k - 1] = V[k - 1])
        BY <4>1
      <4> QED
        BY <4>2, <4>3
    <3> QED
      BY <3>1, <3>2
  <2>3. Loop(W, n + 1)
    BY <2>2
  <2> HIDE DEF W, Loop
  <2> QED
    BY <2>3
<1>3. size \in G
  <2> HIDE DEF G
  <2> QED
    BY <1>1, <1>2, Counting
<1> QED
  BY <1>3 DEF Path

\* One turn of the loops over levels and over siblings.
Raised(level) == IF Len(level) > 1 THEN Above(level) ELSE level
Climbed(proof, k, hash) ==
  IF Path(proof.index, proof.size)[k - 1] % 2 = 0 THEN _parent_hash(hash, proof.siblings[k])
  ELSE _parent_hash(proof.siblings[k], hash)

\* The loop over levels (_root_from_entries, build_inclusion_proof).
LEMMA LevelsLoop ==
  ASSUME NEW entries, Len(entries) \in Nat
  PROVE  Levels(entries) = [k \in 0..Len(entries) |->
           IF k = 0 THEN Leaves(entries) ELSE Raised(Levels(entries)[k - 1])]
<1> DEFINE Loop(W, n) == W = [k \in 0..n |-> IF k = 0 THEN Leaves(entries) ELSE Raised(W[k - 1])]
           G == {n \in Nat : \E W : Loop(W, n)}
<1>1. 0 \in G
  <2>1. Loop([k \in 0..0 |-> Leaves(entries)], 0)
    OBVIOUS
  <2> QED
    BY <2>1
<1>2. ASSUME NEW n \in Nat, n \in G  PROVE n + 1 \in G
  <2>1. PICK V : Loop(V, n)
    BY <1>2
  <2> DEFINE W == [k \in 0..(n + 1) |-> IF k = n + 1 THEN Raised(V[n]) ELSE V[k]]
  <2>2. ASSUME NEW k \in 0..(n + 1)
        PROVE  W[k] = IF k = 0 THEN Leaves(entries) ELSE Raised(W[k - 1])
    <3>1. CASE k = n + 1
      BY <3>1
    <3>2. CASE k # n + 1
      <4>1. k \in 0..n /\ (k # 0 => k - 1 \in 0..n)
        BY <3>2
      <4>2. V[k] = IF k = 0 THEN Leaves(entries) ELSE Raised(V[k - 1])
        BY <2>1, <4>1
      <4>3. W[k] = V[k] /\ (k # 0 => W[k - 1] = V[k - 1])
        BY <4>1
      <4> QED
        BY <4>2, <4>3
    <3> QED
      BY <3>1, <3>2
  <2>3. Loop(W, n + 1)
    BY <2>2
  <2> HIDE DEF W, Loop
  <2> QED
    BY <2>3
<1>3. Len(entries) \in G
  <2> HIDE DEF G
  <2> QED
    BY <1>1, <1>2, Counting
<1> QED
  BY <1>3 DEF Levels, Raised

\* The loop over siblings (verify_inclusion_proof).
LEMMA ClimbLoop ==
  ASSUME NEW proof, Len(proof.siblings) \in Nat
  PROVE  Climb(proof) = [k \in 0..Len(proof.siblings) |->
           IF k = 0 THEN _leaf_hash(proof.index, proof.entry) ELSE Climbed(proof, k, Climb(proof)[k - 1])]
<1> DEFINE Loop(W, n) == W = [k \in 0..n |-> IF k = 0 THEN _leaf_hash(proof.index, proof.entry)
                                             ELSE Climbed(proof, k, W[k - 1])]
           G == {n \in Nat : \E W : Loop(W, n)}
<1>1. 0 \in G
  <2>1. Loop([k \in 0..0 |-> _leaf_hash(proof.index, proof.entry)], 0)
    OBVIOUS
  <2> QED
    BY <2>1
<1>2. ASSUME NEW n \in Nat, n \in G  PROVE n + 1 \in G
  <2>1. PICK V : Loop(V, n)
    BY <1>2
  <2> DEFINE W == [k \in 0..(n + 1) |-> IF k = n + 1 THEN Climbed(proof, n + 1, V[n]) ELSE V[k]]
  <2>2. ASSUME NEW k \in 0..(n + 1)
        PROVE  W[k] = IF k = 0 THEN _leaf_hash(proof.index, proof.entry) ELSE Climbed(proof, k, W[k - 1])
    <3>1. CASE k = n + 1
      BY <3>1
    <3>2. CASE k # n + 1
      <4>1. k \in 0..n /\ (k # 0 => k - 1 \in 0..n)
        BY <3>2
      <4>2. V[k] = IF k = 0 THEN _leaf_hash(proof.index, proof.entry) ELSE Climbed(proof, k, V[k - 1])
        BY <2>1, <4>1
      <4>3. W[k] = V[k] /\ (k # 0 => W[k - 1] = V[k - 1])
        BY <4>1
      <4> QED
        BY <4>2, <4>3
    <3> QED
      BY <3>1, <3>2
  <2>3. Loop(W, n + 1)
    BY <2>2
  <2> HIDE DEF W, Loop
  <2> QED
    BY <2>3
<1>3. Len(proof.siblings) \in G
  <2> HIDE DEF G
  <2> QED
    BY <1>1, <1>2, Counting
<1> QED
  BY <1>3 DEF Climb, Climbed

-----------------------------------------------------------------------------
(* The Merkle tree *)

\* A level is half of the one below it, and at least one node wide; after as many levels as there
\* are leaves nothing but the root is left.
LEMMA WidthsShrink ==
  ASSUME NEW size \in Nat \ {0}
  PROVE  /\ Widths(size)[0] = size
         /\ \A k \in 0..size : Widths(size)[k] \in Nat \ {0}
         /\ \A k \in 1..size : Widths(size)[k] = (Widths(size)[k - 1] + 1) \div 2
         /\ Widths(size)[size] = 1
<1> DEFINE W == Widths(size)
           G == {n \in Nat : n <= size =>
                   W[n] \in Nat \ {0} /\ (W[n] = 1 \/ W[n] <= size - n)}
<1>1. W = [k \in 0..size |-> IF k = 0 THEN size ELSE (W[k - 1] + 1) \div 2]
  BY WidthsLoop
<1>2. W[0] = size /\ \A k \in 1..size : W[k] = (W[k - 1] + 1) \div 2
  <2> HIDE DEF W
  <2>1. W[0] = size
    BY <1>1
  <2>2. ASSUME NEW k \in 1..size PROVE W[k] = (W[k - 1] + 1) \div 2
    <3>1. k \in 0..size /\ k # 0
      OBVIOUS
    <3> QED
      BY <1>1, <3>1
  <2> QED
    BY <2>1, <2>2
<1> HIDE DEF W
<1>3. 0 \in G
  BY <1>2
<1>4. ASSUME NEW n \in Nat, n \in G PROVE n + 1 \in G
  <2>1. SUFFICES ASSUME n + 1 <= size
                 PROVE  W[n + 1] \in Nat \ {0} /\ (W[n + 1] = 1 \/ W[n + 1] <= size - (n + 1))
    OBVIOUS
  <2>2. W[n] \in Nat \ {0} /\ (W[n] = 1 \/ W[n] <= size - n)
    BY <1>4, <2>1
  <2>3. n + 1 \in 1..size /\ (n + 1) - 1 = n
    BY <2>1
  <2>4. W[n + 1] = (W[n] + 1) \div 2
    BY <1>2, <2>3
  <2> HIDE DEF G
  <2> QED
    BY <2>2, <2>4
<1>5. \A n \in Nat : n \in G
  <2> HIDE DEF G
  <2> QED
    BY <1>3, <1>4, Counting
<1>6. \A k \in 0..size : W[k] \in Nat \ {0} /\ (W[k] = 1 \/ W[k] <= size - k)
  BY <1>5
<1>7. W[size] = 1
  BY <1>6
<1> QED
  BY <1>2, <1>6, <1>7 DEF W

\* Height is where the loops end.
LEMMA HeightIs ==
  ASSUME NEW size \in Nat \ {0}
  PROVE  /\ Height(size) \in 0..size
         /\ Widths(size)[Height(size)] = 1
         /\ \A j \in 0..(Height(size) - 1) : Widths(size)[j] > 1
<1> DEFINE W == Widths(size)
           G == {n \in Nat : n <= size => \/ \A j \in 0..n : W[j] > 1
                                          \/ \E k \in 0..n : W[k] = 1 /\ \A j \in 0..(k - 1) : W[j] > 1}
<1>1. \A k \in 0..size : W[k] \in Nat \ {0}
  BY WidthsShrink
<1>2. W[size] = 1
  BY WidthsShrink
<1> HIDE DEF W
<1>3. 0 \in G
  <2>1. 0 \in 0..size
    OBVIOUS
  <2>2. W[0] = 1 \/ W[0] > 1
    BY <1>1, <2>1
  <2>3. CASE W[0] = 1
    <3>1. 0 \in 0..0 /\ \A j \in 0..(0 - 1) : W[j] > 1
      OBVIOUS
    <3> QED
      BY <2>3, <3>1
  <2>4. CASE W[0] > 1
    BY <2>4
  <2> QED
    BY <2>2, <2>3, <2>4
<1>4. ASSUME NEW n \in Nat, n \in G PROVE n + 1 \in G
  <2>1. SUFFICES ASSUME n + 1 <= size
                 PROVE  \/ \A j \in 0..(n + 1) : W[j] > 1
                        \/ \E k \in 0..(n + 1) : W[k] = 1 /\ \A j \in 0..(k - 1) : W[j] > 1
    OBVIOUS
  <2>2. CASE \E k \in 0..n : W[k] = 1 /\ \A j \in 0..(k - 1) : W[j] > 1
    BY <2>2
  <2>3. CASE \A j \in 0..n : W[j] > 1
    <3>1. W[n + 1] = 1 \/ W[n + 1] > 1
      BY <1>1, <2>1
    <3>2. CASE W[n + 1] = 1
      <4>1. (n + 1) - 1 = n /\ n + 1 \in 0..(n + 1)
        OBVIOUS
      <4> QED
        BY <2>3, <3>2, <4>1
    <3>3. CASE W[n + 1] > 1
      BY <2>3, <3>3
    <3> QED
      BY <3>1, <3>2, <3>3
  <2>4. n <= size
    BY <2>1
  <2> QED
    BY <1>4, <2>2, <2>3, <2>4
<1>5. size \in G
  <2> HIDE DEF G
  <2> QED
    BY <1>3, <1>4, Counting
<1>6. \E k \in 0..size : W[k] = 1 /\ \A j \in 0..(k - 1) : W[j] > 1
  BY <1>2, <1>5
<1> QED
  BY <1>6 DEF Height, W

LEMMA PaddedIs ==
  ASSUME NEW n \in Nat \ {0}, NEW f, Numbered(n, f)
  PROVE  /\ \A j \in 1..n : Padded(f)[j] = f[j]
         /\ n % 2 = 1 => Padded(f)[n + 1] = f[n]
<1> DEFINE S == {f[i] : i \in 1..n}
<1>1. f \in Seq(S) /\ Len(f) = n
  BY Listing
<1>2. f[n] \in S
  OBVIOUS
<1>3. CASE n % 2 = 1
  <2>1. Padded(f) = Append(f, f[n])
    BY <1>1, <1>3 DEF Padded, Last
  <2> HIDE DEF S
  <2> QED
    BY <1>1, <1>2, <2>1
<1>4. CASE n % 2 # 1
  BY <1>1, <1>4 DEF Padded
<1> QED
  BY <1>3, <1>4

\* A level is as wide as verify_inclusion_proof reckons, and its nodes are the hashes of pairs.
LEMMA LevelsAre ==
  ASSUME NEW n \in Nat \ {0}, NEW entries, Numbered(n, entries)
  PROVE  LET L == Levels(entries) W == Widths(n) IN
         /\ L[0] = Leaves(entries)
         /\ \A k \in 0..n : Len(L[k]) = W[k] /\ Numbered(W[k], L[k])
         /\ \A k \in 1..n : L[k] = IF W[k - 1] > 1 THEN Above(L[k - 1]) ELSE L[k - 1]
<1> DEFINE L == Levels(entries)
           W == Widths(n)
           G == {k \in Nat : k <= n => Len(L[k]) = W[k] /\ Numbered(W[k], L[k])}
<1>1. Len(entries) = n /\ DOMAIN entries = 1..n
  BY Listing
<1>2. W[0] = n /\ \A k \in 0..n : W[k] \in Nat \ {0}
  BY WidthsShrink
<1>3. \A k \in 1..n : W[k] = (W[k - 1] + 1) \div 2
  BY WidthsShrink
<1>4. L = [k \in 0..n |-> IF k = 0 THEN Leaves(entries) ELSE Raised(L[k - 1])]
  BY <1>1, LevelsLoop
<1> HIDE DEF L, W
<1>5. L[0] = Leaves(entries)
  BY <1>4
<1>6. ASSUME NEW k \in 1..n PROVE L[k] = Raised(L[k - 1])
  <2>1. k \in 0..n /\ k # 0
    OBVIOUS
  <2> QED
    BY <1>4, <2>1
<1>7. 0 \in G
  <2>1. L[0] = [i \in 1..n |-> _leaf_hash(i - 1, entries[i])]
    BY <1>1, <1>5 DEF Leaves
  <2>2. Numbered(n, L[0])
    BY <2>1 DEF Numbered
  <2>3. Len(L[0]) = n
    BY <2>2, Listing
  <2> QED
    BY <1>2, <2>2, <2>3
<1>8. ASSUME NEW k \in Nat, k \in G PROVE k + 1 \in G
  <2>1. SUFFICES ASSUME k + 1 <= n
                 PROVE  Len(L[k + 1]) = W[k + 1] /\ Numbered(W[k + 1], L[k + 1])
    OBVIOUS
  <2>2. Len(L[k]) = W[k] /\ Numbered(W[k], L[k])
    BY <1>8, <2>1
  <2>3. k + 1 \in 1..n /\ (k + 1) - 1 = k /\ k \in 0..n /\ k + 1 \in 0..n
    BY <2>1
  <2>4. L[k + 1] = Raised(L[k]) /\ W[k + 1] = (W[k] + 1) \div 2 /\ W[k] \in Nat \ {0}
    BY <1>2, <1>3, <1>6, <2>3
  <2> HIDE DEF G
  <2>5. CASE W[k] > 1
    <3>1. L[k + 1] = Above(L[k])
      BY <2>2, <2>4, <2>5 DEF Raised
    <3>2. L[k + 1] = [i \in 1..W[k + 1] |-> _parent_hash(Padded(L[k])[2 * i - 1], Padded(L[k])[2 * i])]
      BY <2>2, <2>4, <3>1 DEF Above
    <3>3. Numbered(W[k + 1], L[k + 1])
      BY <3>2 DEF Numbered
    <3>4. W[k + 1] \in Nat
      BY <1>2, <2>3
    <3> QED
      BY <3>3, <3>4, Listing
  <2>6. CASE W[k] = 1
    <3>1. L[k + 1] = L[k]
      BY <2>2, <2>4, <2>6 DEF Raised
    <3>2. W[k + 1] = W[k]
      BY <2>4, <2>6
    <3> QED
      BY <2>2, <3>1, <3>2
  <2> QED
    BY <2>4, <2>5, <2>6
<1>9. \A k \in Nat : k \in G
  <2> HIDE DEF G
  <2> QED
    BY <1>7, <1>8, Counting
<1>10. \A k \in 0..n : Len(L[k]) = W[k] /\ Numbered(W[k], L[k])
  BY <1>9
<1>11. ASSUME NEW k \in 1..n
       PROVE  L[k] = IF W[k - 1] > 1 THEN Above(L[k - 1]) ELSE L[k - 1]
  <2>1. k - 1 \in 0..n
    OBVIOUS
  <2> QED
    BY <1>6, <1>10, <2>1 DEF Raised
<1> QED
  BY <1>5, <1>10, <1>11 DEF L, W

LEMMA SiblingIs ==
  ASSUME NEW w \in Nat \ {0}, NEW p \in 0..(w - 1)
  PROVE  /\ Sibling(p, w) \in 0..(w - 1)
         /\ p % 2 = 0 /\ p + 1 < w => Sibling(p, w) = p + 1
         /\ p % 2 = 0 /\ p + 1 >= w => Sibling(p, w) = p /\ w = p + 1 /\ w % 2 = 1
         /\ p % 2 # 0 => p > 0 /\ Sibling(p, w) = p - 1
<1>1. CASE p % 2 = 0 /\ p + 1 < w
  BY <1>1 DEF Sibling
<1>2. CASE p % 2 = 0 /\ p + 1 >= w
  BY <1>2 DEF Sibling
<1>3. CASE p % 2 # 0
  <2>1. p % 2 = 1 /\ p > 0
    BY <1>3
  <2> QED
    BY <2>1 DEF Sibling
<1> QED
  BY <1>1, <1>2, <1>3

\* A node above the leaves is the hash of its children.
HashedUp(n, entries, k, p) ==
  LET L == Levels(entries) w == Widths(n)[k - 1] s == Sibling(p, w) IN
  /\ p % 2 = 0 => L[k][p \div 2 + 1] = _parent_hash(L[k - 1][p + 1], L[k - 1][s + 1])
  /\ p % 2 # 0 => L[k][p \div 2 + 1] = _parent_hash(L[k - 1][s + 1], L[k - 1][p + 1])
  /\ p % 2 = 0 /\ p + 1 >= w => s = p

\* A node is hashed with its sibling into the node half its position up; the last node of an
\* odd level is its own sibling.
LEMMA NodesAreHashed ==
  ASSUME NEW n \in Nat \ {0}, NEW entries, Numbered(n, entries),
         NEW k \in 1..n, Widths(n)[k - 1] > 1, NEW p \in 0..(Widths(n)[k - 1] - 1)
  PROVE  HashedUp(n, entries, k, p)
<1> DEFINE L == Levels(entries)
           w == Widths(n)[k - 1]
           s == Sibling(p, w)
           i == p \div 2 + 1
<1>0. k - 1 \in 0..n /\ k \in 0..n
  OBVIOUS
<1>1. w \in Nat \ {0} /\ Widths(n)[k] = (w + 1) \div 2 /\ w > 1 /\ p \in 0..(w - 1)
  BY <1>0, WidthsShrink
<1>2. L[k] = Above(L[k - 1]) /\ Numbered(w, L[k - 1]) /\ Len(L[k - 1]) = w
  BY <1>0, LevelsAre
<1>3. Widths(n)[k] = (w + 1) \div 2
  BY <1>1
<1> HIDE DEF L, w
<1>4. \A j \in 1..w : Padded(L[k - 1])[j] = L[k - 1][j]
  <2>1. PICK level : level = L[k - 1]
    OBVIOUS
  <2>2. Numbered(w, level) /\ w \in Nat \ {0}
    BY <1>1, <1>2, <2>1
  <2>3. \A j \in 1..w : Padded(level)[j] = level[j]
    BY <2>2, PaddedIs
  <2> QED
    BY <2>1, <2>3
<1>5. w % 2 = 1 => Padded(L[k - 1])[w + 1] = L[k - 1][w]
  BY <1>1, <1>2, PaddedIs
<1>6. i \in 1..((w + 1) \div 2)
  BY <1>1
<1>7. L[k][i] = _parent_hash(Padded(L[k - 1])[2 * i - 1], Padded(L[k - 1])[2 * i])
  <2> HIDE DEF i
  <2> QED
    BY <1>2, <1>6 DEF Above
<1>8. p \div 2 \in 0..(Widths(n)[k] - 1)
  BY <1>1, <1>3
<1>9. s \in 0..(w - 1) /\ (p % 2 = 0 /\ p + 1 >= w => s = p)
  BY <1>1, SiblingIs
<1>10. CASE p % 2 = 0
  <2>1. 2 * i - 1 = p + 1 /\ p + 1 \in 1..w
    BY <1>1, <1>10
  <2>2. Padded(L[k - 1])[2 * i] = L[k - 1][s + 1]
    <3>1. 2 * i = p + 2
      BY <1>1, <1>10
    <3>2. CASE p + 1 < w
      <4>1. s + 1 = p + 2 /\ p + 2 \in 1..w
        BY <1>1, <1>10, <3>2, SiblingIs
      <4> HIDE DEF s, i
      <4> QED
        BY <1>4, <3>1, <4>1
    <3>3. CASE p + 1 >= w
      <4>1. s + 1 = w /\ p + 2 = w + 1 /\ w % 2 = 1
        BY <1>1, <1>10, <3>3, SiblingIs
      <4> HIDE DEF s, i
      <4> QED
        BY <1>5, <3>1, <4>1
    <3> QED
      BY <1>1, <3>2, <3>3
  <2> HIDE DEF s, i
  <2>3. L[k][i] = _parent_hash(L[k - 1][p + 1], L[k - 1][s + 1])
    BY <1>4, <1>7, <2>1, <2>2
  <2> QED
    BY <1>9, <1>10, <2>3 DEF L, w, s, i, HashedUp
<1>11. CASE p % 2 # 0
  <2>1. 2 * i = p + 1 /\ 2 * i - 1 = p /\ p \in 1..w /\ p + 1 \in 1..w /\ s + 1 = p
    <3>1. p > 0 /\ s = p - 1
      BY <1>1, <1>11, SiblingIs
    <3>2. 2 * (p \div 2) = p - 1
      BY <1>1, <1>11
    <3>3. p \div 2 \in Int
      BY <1>1
    <3>4. 2 * i = p + 1 /\ 2 * i - 1 = p
      BY <1>1, <3>2, <3>3
    <3>5. p \in 1..w /\ p + 1 \in 1..w
      BY <1>1, <3>1
    <3> HIDE DEF s, i
    <3>6. s + 1 = p
      BY <1>1, <3>1
    <3> QED
      BY <3>4, <3>5, <3>6
  <2> HIDE DEF s, i
  <2>2. L[k][i] = _parent_hash(L[k - 1][s + 1], L[k - 1][p + 1])
    BY <1>4, <1>7, <2>1
  <2> QED
    BY <1>9, <1>11, <2>2 DEF L, w, s, i, HashedUp
<1> QED
  BY <1>10, <1>11

\* From the height on there is one node, the root.
LEMMA RootIs ==
  ASSUME NEW n \in Nat \ {0}, NEW entries, Numbered(n, entries)
  PROVE  _root_from_entries(entries) = Levels(entries)[Height(n)][1]
<1> DEFINE L == Levels(entries)
           W == Widths(n)
           h == Height(n)
           G == {j \in Nat : h + j <= n => W[h + j] = 1 /\ L[h + j] = L[h]}
<1>1. Len(entries) = n /\ entries # <<>>
  BY Listing
<1>2. h \in 0..n /\ W[h] = 1
  BY HeightIs
<1>3. \A k \in 1..n : W[k] = (W[k - 1] + 1) \div 2
  BY WidthsShrink
<1>4. \A k \in 1..n : L[k] = IF W[k - 1] > 1 THEN Above(L[k - 1]) ELSE L[k - 1]
  BY LevelsAre
<1> HIDE DEF L, W, h
<1>5. 0 \in G
  BY <1>2
<1>6. ASSUME NEW j \in Nat, j \in G PROVE j + 1 \in G
  <2>1. SUFFICES ASSUME h + (j + 1) <= n
                 PROVE  W[h + (j + 1)] = 1 /\ L[h + (j + 1)] = L[h]
    OBVIOUS
  <2>2. h + (j + 1) \in 1..n /\ (h + (j + 1)) - 1 = h + j
    BY <1>2, <2>1
  <2>3. W[h + j] = 1 /\ L[h + j] = L[h]
    BY <1>2, <1>6, <2>1
  <2> HIDE DEF G
  <2>4. W[h + (j + 1)] = 1
    BY <1>3, <2>2, <2>3
  <2>5. L[h + (j + 1)] = L[h + j]
    BY <1>4, <2>2, <2>3
  <2> QED
    BY <2>3, <2>4, <2>5
<1>7. n - h \in G
  <2>1. n - h \in Nat
    BY <1>2
  <2> HIDE DEF G
  <2> QED
    BY <1>5, <1>6, <2>1, Counting
<1>8. L[n] = L[h]
  BY <1>2, <1>7
<1> QED
  BY <1>1, <1>8 DEF _root_from_entries, L, h

\* The path from a leaf stays within the levels.
LEMMA PathStays ==
  ASSUME NEW n \in Nat \ {0}, NEW index \in 0..(n - 1)
  PROVE  /\ Path(index, n)[0] = index
         /\ \A k \in 1..n : Path(index, n)[k] = Path(index, n)[k - 1] \div 2
         /\ \A k \in 0..n : Path(index, n)[k] \in 0..(Widths(n)[k] - 1)
<1> DEFINE P == Path(index, n)
           W == Widths(n)
           G == {k \in Nat : k <= n => P[k] \in 0..(W[k] - 1)}
<1>1. P = [k \in 0..n |-> IF k = 0 THEN index ELSE P[k - 1] \div 2]
  BY PathLoop
<1>2. W[0] = n /\ \A k \in 0..n : W[k] \in Nat \ {0}
  BY WidthsShrink
<1>3. \A k \in 1..n : W[k] = (W[k - 1] + 1) \div 2
  BY WidthsShrink
<1> HIDE DEF P, W
<1>4. P[0] = index
  BY <1>1
<1>5. ASSUME NEW k \in 1..n PROVE P[k] = P[k - 1] \div 2
  <2>1. k \in 0..n /\ k # 0
    OBVIOUS
  <2> QED
    BY <1>1, <2>1
<1>6. 0 \in G
  BY <1>2, <1>4
<1>7. ASSUME NEW k \in Nat, k \in G PROVE k + 1 \in G
  <2>1. SUFFICES ASSUME k + 1 <= n PROVE P[k + 1] \in 0..(W[k + 1] - 1)
    OBVIOUS
  <2>2. P[k] \in 0..(W[k] - 1) /\ W[k] \in Nat \ {0}
    BY <1>2, <1>7, <2>1
  <2>3. k + 1 \in 1..n /\ (k + 1) - 1 = k
    BY <2>1
  <2>4. P[k + 1] = P[k] \div 2 /\ W[k + 1] = (W[k] + 1) \div 2
    BY <1>3, <1>5, <2>3
  <2> HIDE DEF G
  <2> QED
    BY <2>2, <2>4
<1>8. \A k \in Nat : k \in G
  <2> HIDE DEF G
  <2> QED
    BY <1>6, <1>7, Counting
<1>9. \A k \in 0..n : P[k] \in 0..(W[k] - 1)
  BY <1>8
<1> QED
  BY <1>4, <1>5, <1>9 DEF P, W

\* What a proof is about: a leaf of the tree of some entries, with as many siblings as there
\* are levels.
OfTree(proof, n, entries) ==
  /\ n \in Nat \ {0} /\ Numbered(n, entries)
  /\ proof.size = n /\ proof.index \in 0..(n - 1)
  /\ Len(proof.siblings) = Height(n)

\* The hash after k siblings is the node of the tree on the path k levels up.
OnPath(proof, entries, k) ==
  Climb(proof)[k] = Levels(entries)[k][Path(proof.index, proof.size)[k] + 1]

\* One turn of the loop, on the tree and on the proof.
LEMMA OneLevelUp ==
  ASSUME NEW proof, NEW n, NEW entries, OfTree(proof, n, entries), NEW k \in 1..Height(n)
  PROVE  LET L == Levels(entries) C == Climb(proof) p == Path(proof.index, n)[k - 1]
             w == Widths(n)[k - 1] s == Sibling(p, w) up == L[k][Path(proof.index, n)[k] + 1] IN
         /\ p % 2 = 0 => /\ C[k] = _parent_hash(C[k - 1], proof.siblings[k])
                         /\ up = _parent_hash(L[k - 1][p + 1], L[k - 1][s + 1])
         /\ p % 2 # 0 => /\ C[k] = _parent_hash(proof.siblings[k], C[k - 1])
                         /\ up = _parent_hash(L[k - 1][s + 1], L[k - 1][p + 1])
         /\ p % 2 = 0 /\ p + 1 >= w => s = p
<1> DEFINE P == Path(proof.index, n)
           p == P[k - 1]
           w == Widths(n)[k - 1]
<1>1. n \in Nat \ {0} /\ Numbered(n, entries) /\ proof.index \in 0..(n - 1)
      /\ proof.size = n /\ Len(proof.siblings) = Height(n)
  BY DEF OfTree
<1>2. Height(n) \in 0..n /\ \A j \in 0..(Height(n) - 1) : Widths(n)[j] > 1
  BY <1>1, HeightIs
<1>3. k \in 1..n /\ k - 1 \in 0..n /\ k - 1 \in 0..(Height(n) - 1) /\ k \in 0..Height(n) /\ k # 0
      /\ Height(n) \in Nat
  BY <1>1, <1>2
<1>4. p \in 0..(w - 1) /\ w > 1 /\ P[k] = p \div 2
  BY <1>1, <1>2, <1>3, PathStays
<1>5. Climb(proof)[k] = Climbed(proof, k, Climb(proof)[k - 1])
  <2>1. Len(proof.siblings) \in Nat /\ k \in 0..Len(proof.siblings)
    BY <1>1, <1>3
  <2>2. PICK C : C = Climb(proof)
    OBVIOUS
  <2>3. C = [j \in 0..Len(proof.siblings) |->
               IF j = 0 THEN _leaf_hash(proof.index, proof.entry) ELSE Climbed(proof, j, C[j - 1])]
    BY <2>1, <2>2, ClimbLoop
  <2>4. C[k] = Climbed(proof, k, C[k - 1])
    BY <1>3, <2>1, <2>3
  <2> QED
    BY <2>2, <2>4
<1>6. Climbed(proof, k, Climb(proof)[k - 1]) =
        IF p % 2 = 0 THEN _parent_hash(Climb(proof)[k - 1], proof.siblings[k])
        ELSE _parent_hash(proof.siblings[k], Climb(proof)[k - 1])
  BY <1>1 DEF Climbed
<1>7. /\ p % 2 = 0 => Levels(entries)[k][p \div 2 + 1] =
           _parent_hash(Levels(entries)[k - 1][p + 1], Levels(entries)[k - 1][Sibling(p, w) + 1])
      /\ p % 2 # 0 => Levels(entries)[k][p \div 2 + 1] =
           _parent_hash(Levels(entries)[k - 1][Sibling(p, w) + 1], Levels(entries)[k - 1][p + 1])
      /\ p % 2 = 0 /\ p + 1 >= w => Sibling(p, w) = p
  <2>1. ASSUME NEW i \in 1..n, Widths(n)[i - 1] > 1, NEW q \in 0..(Widths(n)[i - 1] - 1)
        PROVE  HashedUp(n, entries, i, q)
    BY <1>1, <2>1, NodesAreHashed
  <2>2. Widths(n)[k - 1] > 1 /\ P[k - 1] \in 0..(Widths(n)[k - 1] - 1) /\ k \in 1..n
    BY <1>3, <1>4
  <2>3. PICK q : q = P[k - 1]
    OBVIOUS
  <2>4. HashedUp(n, entries, k, q)
    BY <2>1, <2>2, <2>3
  <2> QED
    BY <2>3, <2>4, Zenon DEF HashedUp
<1> QED
  BY <1>4, <1>5, <1>6, <1>7

LEMMA ClimbBegins ==
  ASSUME NEW proof, NEW n, NEW entries, OfTree(proof, n, entries)
  PROVE  /\ Climb(proof)[0] = _leaf_hash(proof.index, proof.entry)
         /\ Levels(entries)[0][Path(proof.index, n)[0] + 1] =
              _leaf_hash(proof.index, entries[proof.index + 1])
         /\ Path(proof.index, n)[Height(n)] = 0
         /\ Height(n) \in Nat
<1>1. n \in Nat \ {0} /\ Numbered(n, entries) /\ proof.index \in 0..(n - 1)
      /\ proof.size = n /\ Len(proof.siblings) = Height(n)
  BY DEF OfTree
<1>2. Height(n) \in 0..n /\ Widths(n)[Height(n)] = 1
  BY <1>1, HeightIs
<1>3. Path(proof.index, n)[Height(n)] = 0 /\ Path(proof.index, n)[0] = proof.index
  BY <1>1, <1>2, PathStays
<1>4. Levels(entries)[0] = Leaves(entries) /\ DOMAIN entries = 1..n
  BY <1>1, LevelsAre, Listing
<1>5. Leaves(entries)[proof.index + 1] = _leaf_hash(proof.index, entries[proof.index + 1])
  <2>1. proof.index + 1 \in 1..n /\ (proof.index + 1) - 1 = proof.index
    BY <1>1
  <2>2. PICK i : i = proof.index + 1
    OBVIOUS
  <2>3. Leaves(entries)[i] = _leaf_hash(i - 1, entries[i])
    BY <1>4, <2>1, <2>2 DEF Leaves
  <2> QED
    BY <2>1, <2>2, <2>3
<1>6. Climb(proof)[0] = _leaf_hash(proof.index, proof.entry)
  <2>1. Len(proof.siblings) \in Nat
    BY <1>1, <1>2
  <2>2. PICK C : C = Climb(proof)
    OBVIOUS
  <2>3. C = [j \in 0..Len(proof.siblings) |->
               IF j = 0 THEN _leaf_hash(proof.index, proof.entry) ELSE Climbed(proof, j, C[j - 1])]
    BY <2>1, <2>2, ClimbLoop
  <2> QED
    BY <2>1, <2>2, <2>3
<1> QED
  BY <1>2, <1>3, <1>4, <1>5, <1>6

\* Two nodes are the same only if they have the same children.
LEMMA HashesTell ==
  ASSUME NEW a, NEW b, NEW c, NEW d, _parent_hash(a, b) = _parent_hash(c, d)
  PROVE  a = c /\ b = d
BY DEF _parent_hash

LEMMA LeavesTell ==
  ASSUME NEW i, NEW a, NEW b, _leaf_hash(i, a) = _leaf_hash(i, b)
  PROVE  a = b
BY DEF _leaf_hash

\* The siblings build_inclusion_proof collects.
Built(proof, n, entries) ==
  proof.siblings = [k \in 1..Height(n) |->
    Levels(entries)[k - 1][Sibling(Path(proof.index, n)[k - 1], Widths(n)[k - 1]) + 1]]

\* What build_inclusion_proof makes climbs along the path of its leaf, and
\* verify_inclusion_proof accepts it.
THEOREM BuiltIsAccepted ==
  ASSUME NEW proof, NEW n, NEW entries, OfTree(proof, n, entries),
         proof.root = _root_from_entries(entries), proof.entry = entries[proof.index + 1],
         Built(proof, n, entries)
  PROVE  verify_inclusion_proof(proof, proof.root, <<n>>)
<1> DEFINE h == Height(n)
           G == {k \in Nat : k <= h => OnPath(proof, entries, k)}
<1>1. n \in Nat \ {0} /\ Numbered(n, entries) /\ proof.index \in 0..(n - 1)
      /\ proof.size = n /\ Len(proof.siblings) = h
  BY DEF OfTree
<1>2. h \in Nat
  BY ClimbBegins
<1>3. 0 \in G
  BY <1>1, ClimbBegins DEF OnPath
<1>4. ASSUME NEW k \in Nat, k \in G PROVE k + 1 \in G
  <2>1. SUFFICES ASSUME k + 1 <= h PROVE OnPath(proof, entries, k + 1)
    OBVIOUS
  <2>2. OnPath(proof, entries, k)
    BY <1>2, <1>4, <2>1
  <2>3. k + 1 \in 1..h /\ (k + 1) - 1 = k
    BY <1>2, <2>1
  <2>4. PICK j \in 1..h : j = k + 1 /\ j - 1 = k
    BY <2>3
  <2> DEFINE p == Path(proof.index, n)[j - 1]
             s == Sibling(p, Widths(n)[j - 1])
  <2>5. proof.siblings[j] = Levels(entries)[j - 1][s + 1]
    BY DEF Built
  <2>6. Climb(proof)[j - 1] = Levels(entries)[j - 1][p + 1]
    BY <1>1, <2>2, <2>4 DEF OnPath
  <2>7. Climb(proof)[j] = Levels(entries)[j][Path(proof.index, n)[j] + 1]
    <3>1. CASE p % 2 = 0
      <4>1. /\ Climb(proof)[j] = _parent_hash(Climb(proof)[j - 1], proof.siblings[j])
            /\ Levels(entries)[j][Path(proof.index, n)[j] + 1] =
                 _parent_hash(Levels(entries)[j - 1][p + 1], Levels(entries)[j - 1][s + 1])
        BY <3>1, OneLevelUp
      <4> HIDE DEF p, s
      <4> QED
        BY <2>5, <2>6, <4>1
    <3>2. CASE p % 2 # 0
      <4>1. /\ Climb(proof)[j] = _parent_hash(proof.siblings[j], Climb(proof)[j - 1])
            /\ Levels(entries)[j][Path(proof.index, n)[j] + 1] =
                 _parent_hash(Levels(entries)[j - 1][s + 1], Levels(entries)[j - 1][p + 1])
        BY <3>2, OneLevelUp
      <4> HIDE DEF p, s
      <4> QED
        BY <2>5, <2>6, <4>1
    <3> QED
      BY <3>1, <3>2
  <2> QED
    BY <1>1, <2>4, <2>7 DEF OnPath
<1>5. \A k \in 0..h : OnPath(proof, entries, k)
  <2>1. \A k \in Nat : k \in G
    <3> HIDE DEF G
    <3> QED
      BY <1>3, <1>4, Counting
  <2> QED
    BY <1>2, <2>1
<1>6. Climb(proof)[h] = proof.root
  <2>1. h \in 0..h
    BY <1>2
  <2>2. Climb(proof)[h] = Levels(entries)[h][Path(proof.index, n)[h] + 1]
    BY <1>1, <1>5, <2>1 DEF OnPath
  <2>3. Path(proof.index, n)[h] + 1 = 1
    BY ClimbBegins
  <2>4. proof.root = Levels(entries)[h][1]
    BY <1>1, RootIs
  <2> HIDE DEF h
  <2> QED
    BY <2>2, <2>3, <2>4
<1>7. ASSUME NEW k \in 1..h, Path(proof.index, n)[k - 1] % 2 = 0,
             Path(proof.index, n)[k - 1] + 1 >= Widths(n)[k - 1]
      PROVE  proof.siblings[k] = Climb(proof)[k - 1]
  <2> DEFINE p == Path(proof.index, n)[k - 1]
  <2>1. Sibling(p, Widths(n)[k - 1]) = p
    BY <1>7, OneLevelUp
  <2>2. k - 1 \in 0..h
    BY <1>2
  <2>3. Climb(proof)[k - 1] = Levels(entries)[k - 1][p + 1]
    BY <1>1, <1>5, <2>2 DEF OnPath
  <2> QED
    BY <2>1, <2>3 DEF Built
<1>8. DOMAIN proof.siblings = 1..h
  BY DEF Built
<1>9. SizeAccepted(proof, <<n>>)
  BY <1>1 DEF SizeAccepted
<1> HIDE DEF h
<1> QED
  BY <1>1, <1>6, <1>7, <1>8, <1>9, Zenon DEF verify_inclusion_proof, h

\* Whatever siblings it names, a proof that is accepted against the root of some entries is of
\* the entry at its index.
THEOREM AcceptedIsListed ==
  ASSUME NEW proof, NEW n \in Nat, NEW entries, Numbered(n, entries),
         verify_inclusion_proof(proof, _root_from_entries(entries), <<n>>)
  PROVE  proof.size = n /\ proof.index \in 0..(n - 1) /\ proof.entry = entries[proof.index + 1]
<1> DEFINE h == Height(n)
           G == {j \in Nat : j <= h => OnPath(proof, entries, h - j)}
<1>1. proof.size = n /\ n >= 1
  <2>1. SizeAccepted(proof, <<n>>)
    BY Zenon DEF verify_inclusion_proof
  <2> QED
    BY <2>1 DEF SizeAccepted, None
<1>2. proof.index \in 0..(n - 1) /\ Len(proof.siblings) = h
  BY <1>1, Zenon DEF verify_inclusion_proof
<1>3. OfTree(proof, n, entries)
  BY <1>1, <1>2 DEF OfTree
<1>4. Climb(proof)[h] = _root_from_entries(entries)
  <2>1. Climb(proof)[Len(proof.siblings)] = _root_from_entries(entries)
    BY Zenon DEF verify_inclusion_proof
  <2> QED
    BY <1>2, <2>1
<1>5. h \in Nat /\ Path(proof.index, n)[h] = 0
  BY <1>3, ClimbBegins
<1>6. 0 \in G
  <2>1. _root_from_entries(entries) = Levels(entries)[h][1]
    BY <1>1, RootIs
  <2>2. h - 0 = h
    BY <1>5
  <2> HIDE DEF h
  <2> QED
    BY <1>1, <1>4, <1>5, <2>1, <2>2 DEF OnPath
<1>7. ASSUME NEW j \in Nat, j \in G PROVE j + 1 \in G
  <2>1. SUFFICES ASSUME j + 1 <= h PROVE OnPath(proof, entries, h - (j + 1))
    OBVIOUS
  <2>2. OnPath(proof, entries, h - j)
    BY <1>5, <1>7, <2>1
  <2>3. PICK k \in 1..h : k = h - j /\ k - 1 = h - (j + 1)
    BY <1>5, <2>1
  <2> DEFINE p == Path(proof.index, n)[k - 1]
             s == Sibling(p, Widths(n)[k - 1])
  <2>4. Climb(proof)[k] = Levels(entries)[k][Path(proof.index, n)[k] + 1]
    BY <1>1, <2>2, <2>3 DEF OnPath
  <2>5. Climb(proof)[k - 1] = Levels(entries)[k - 1][p + 1]
    <3>1. CASE p % 2 = 0
      <4>1. _parent_hash(Climb(proof)[k - 1], proof.siblings[k]) =
              _parent_hash(Levels(entries)[k - 1][p + 1], Levels(entries)[k - 1][s + 1])
        BY <1>3, <2>4, <3>1, OneLevelUp
      <4> QED
        BY <4>1, HashesTell
    <3>2. CASE p % 2 # 0
      <4>1. _parent_hash(proof.siblings[k], Climb(proof)[k - 1]) =
              _parent_hash(Levels(entries)[k - 1][s + 1], Levels(entries)[k - 1][p + 1])
        BY <1>3, <2>4, <3>2, OneLevelUp
      <4> QED
        BY <4>1, HashesTell
    <3> QED
      BY <3>1, <3>2
  <2> QED
    BY <1>1, <2>3, <2>5 DEF OnPath
<1>8. OnPath(proof, entries, 0)
  <2>1. h \in G
    <3> HIDE DEF G, h
    <3> QED
      BY <1>5, <1>6, <1>7, Counting
  <2>2. h - h = 0 /\ h <= h
    BY <1>5
  <2> HIDE DEF h
  <2> QED
    BY <2>1, <2>2
<1>9. _leaf_hash(proof.index, proof.entry) = _leaf_hash(proof.index, entries[proof.index + 1])
  BY <1>1, <1>3, <1>8, ClimbBegins DEF OnPath
<1> QED
  BY <1>1, <1>2, <1>9, LeavesTell

-----------------------------------------------------------------------------
(* The invariant *)

\* What is signed is the digest of what it says, and what the service signs of a snapshot too.
Attested(a) ==
  \E case, artifacts, at, key : at \in Nat /\ a = sign_attestation(case, artifacts, at, key)
Sealed(c) == \E reg, at, key : c = sign_registry_checkpoint(reg, at, key)

\* An attestation that may be listed: signed, under a trusted key, its artifacts found intact.
Listable(a, S, T, I) ==
  a \in S /\ a.body.key \in T /\ (a.body.artifacts # {} => a \in I)

\* A sound snapshot.
Listed(reg, S, T, I) ==
  LET n == Len(reg.entries) IN
  /\ n \in Nat /\ Numbered(n, reg.entries)
  /\ \A i \in 1..n : Listable(reg.entries[i], S, T, I)
  /\ \A i, j \in 1..n : reg.entries[i].id = reg.entries[j].id => i = j
  /\ reg.root = _root_from_entries(reg.entries)
  /\ reg.previous # None =>
       /\ IsStrictPrefix(reg.previous[1].entries, reg.entries)
       /\ reg.previous[1].root = _root_from_entries(reg.previous[1].entries)

LEMMA ListedGrows ==
  ASSUME NEW reg, NEW S, NEW T, NEW I, NEW S2, NEW T2, NEW I2, Listed(reg, S, T, I),
         S \subseteq S2, T \subseteq T2, I \subseteq I2
  PROVE  Listed(reg, S2, T2, I2)
BY DEF Listed, Listable

\* As many different ids as entries: no id twice.
LEMMA UniqueTells ==
  ASSUME NEW n \in Nat, NEW entries, Numbered(n, entries), Unique(entries)
  PROVE  \A i, j \in 1..n : entries[i].id = entries[j].id => i = j
<1> DEFINE S == 1..n
           T == Ids(entries)
           f == [i \in 1..n |-> entries[i].id]
<1>1. DOMAIN entries = 1..n /\ Len(entries) = n
  BY Listing
<1>2. f \in Surjection(S, T)
  BY <1>1 DEF Surjection, Ids
<1>3. IsFiniteSet(S) /\ Cardinality(S) = n
  BY FS_Interval
<1>4. Cardinality(T) = Cardinality(S)
  BY <1>1, <1>3 DEF Unique
<1>5. f \in Injection(S, T)
  <2> HIDE DEF f, S, T
  <2> QED
    BY <1>2, <1>3, <1>4, FS_Surjection
<1>6. \A i, j \in S : f[i] = f[j] => i = j
  <2> HIDE DEF f, S, T
  <2> QED
    BY <1>5 DEF Injection, IsInjective
<1> QED
  BY <1>6

LEMMA AppendIs ==
  ASSUME NEW n \in Nat, NEW entries, Numbered(n, entries), NEW a
  PROVE  /\ Len(Append(entries, a)) = n + 1
         /\ Numbered(n + 1, Append(entries, a))
         /\ \A i \in 1..n : Append(entries, a)[i] = entries[i]
         /\ Append(entries, a)[n + 1] = a
         /\ IsStrictPrefix(entries, Append(entries, a))
<1> DEFINE S == {entries[i] : i \in 1..n} \cup {a}
           s == Append(entries, a)
<1>1. entries \in Seq(S) /\ Len(entries) = n /\ a \in S
  <2>1. Len(entries) = n /\ DOMAIN entries = 1..n
    BY Listing
  <2>2. entries \in [1..n -> S]
    BY DEF Numbered
  <2> HIDE DEF S
  <2>3. entries \in Seq(S)
    BY <2>2
  <2> QED
    BY <2>1, <2>3 DEF S
<1>2. /\ s \in Seq(S) /\ Len(s) = n + 1
      /\ \A i \in 1..n : s[i] = entries[i]
      /\ s[n + 1] = a
  <2> HIDE DEF S
  <2> QED
    BY <1>1, AppendProperties
<1>3. Numbered(n + 1, s)
  <2> HIDE DEF s, S
  <2> QED
    BY <1>2 DEF Numbered
<1>4. IsStrictPrefix(entries, s)
  <2> HIDE DEF s, S
  <2>1. SubSeq(entries, 1, n) = SubSeq(s, 1, n)
    BY <1>1, <1>2
  <2> QED
    BY <1>1, <1>2, <2>1 DEF IsStrictPrefix, IsPrefix
<1> QED
  BY <1>2, <1>3, <1>4

\* What Register and registry add publish is sound when what they extend is.
LEMMA AppendedIsListed ==
  ASSUME NEW att, NEW base, NEW S, NEW T, NEW I, Listable(att, S, T, I),
         base # None => LET r == files[base[1]]["registry.json"] IN
                        r # None => Listed(r[1], S, T, I),
         Appended(att, base) # None
  PROVE  Listed(Appended(att, base)[1], S, T, I)
<1> DEFINE previous == IF base = None THEN None ELSE files[base[1]]["registry.json"]
           entries == IF previous = None THEN <<>> ELSE previous[1].entries
           n == Len(entries)
           reg == build_registry(Append(entries, att), previous)
<1>1. /\ Appended(att, base) = <<reg>>
      /\ Unique(reg.entries)
      /\ previous # None => verify_registry_chain(reg, previous[1])
  BY Zenon DEF Appended
<1>2. n \in Nat /\ Numbered(n, entries) /\ \A i \in 1..n : Listable(entries[i], S, T, I)
  <2>1. CASE previous = None
    <3>1. entries = <<>> /\ n = 0 /\ 1..n = {}
      BY <2>1
    <3>2. Numbered(0, <<>>)
      BY DEF Numbered
    <3> QED
      BY <3>1, <3>2
  <2>2. CASE previous # None
    <3>1. Listed(previous[1], S, T, I) /\ entries = previous[1].entries
      BY <2>2, Zenon
    <3> HIDE DEF previous, entries
    <3> QED
      BY <3>1 DEF Listed
  <2> QED
    BY <2>1, <2>2
<1>3. reg.entries = Append(entries, att) /\ reg.previous = previous
      /\ reg.root = _root_from_entries(reg.entries)
  BY DEF build_registry
<1> DEFINE all == Append(entries, att)
<1>4. /\ Len(all) = n + 1 /\ Numbered(n + 1, all)
      /\ \A i \in 1..n : all[i] = entries[i]
      /\ all[n + 1] = att /\ IsStrictPrefix(entries, all)
  <2> HIDE DEF entries
  <2> QED
    BY <1>2, AppendIs
<1>5. previous # None =>
        /\ IsStrictPrefix(previous[1].entries, all)
        /\ previous[1].root = _root_from_entries(previous[1].entries)
  BY <1>1, <1>4, Zenon DEF verify_registry_chain, verify_registry
<1> HIDE DEF previous, entries, reg
<1>6. \A i \in 1..(n + 1) : Listable(all[i], S, T, I)
  BY <1>2, <1>4
<1>7. \A i, j \in 1..(n + 1) : all[i].id = all[j].id => i = j
  <2>1. n + 1 \in Nat /\ Numbered(n + 1, all) /\ Unique(all)
    BY <1>1, <1>2, <1>3, <1>4
  <2> HIDE DEF all, n
  <2> QED
    BY <2>1, UniqueTells
<1>8. Listed(reg, S, T, I)
  <2>1. PICK e : e = reg.entries /\ e = all
    BY <1>3
  <2>2. Len(reg.entries) = n + 1
    BY <1>3, <1>4
  <2> HIDE DEF all, n
  <2> QED
    BY <1>2, <1>3, <1>4, <1>5, <1>6, <1>7, <2>1, <2>2 DEF Listed
<1> QED
  BY <1>1, <1>8

\* The proof build_inclusion_proof makes for any entry of a sound snapshot is accepted.
LEMMA ProofsAreAccepted ==
  ASSUME NEW reg, NEW S, NEW T, NEW I, Listed(reg, S, T, I), NEW id \in Ids(reg.entries)
  PROVE  verify_inclusion_proof(build_inclusion_proof(reg, id), reg.root, <<Len(reg.entries)>>)
<1> DEFINE entries == reg.entries
           n == Len(entries)
           m == CHOOSE k \in DOMAIN entries : entries[k].id = id
           proof == build_inclusion_proof(reg, id)
<1>1. n \in Nat /\ Numbered(n, entries) /\ reg.root = _root_from_entries(entries)
  BY DEF Listed
<1>2. DOMAIN entries = 1..n
  BY <1>1, Listing
<1>3. m \in 1..n
  BY <1>2 DEF Ids
<1>4. n \in Nat \ {0} /\ m - 1 \in 0..(n - 1) /\ (m - 1) + 1 = m
  BY <1>1, <1>3
<1>5. /\ proof.size = n /\ proof.index = m - 1 /\ proof.entry = entries[(m - 1) + 1]
      /\ proof.root = reg.root
  BY DEF build_inclusion_proof
<1>6. Built(proof, n, entries)
  BY DEF build_inclusion_proof, Built
<1> HIDE DEF proof, m, entries, n
<1>7. Height(n) \in Nat
  BY <1>4, HeightIs
<1>8. Len(proof.siblings) = Height(n)
  BY <1>6, <1>7 DEF Built
<1>9. OfTree(proof, n, entries)
  BY <1>1, <1>4, <1>5, <1>8 DEF OfTree
<1>10. verify_inclusion_proof(proof, proof.root, <<n>>)
  BY <1>1, <1>5, <1>6, <1>9, BuiltIsAccepted
<1> QED
  BY <1>5, <1>10 DEF proof, n, entries

-----------------------------------------------------------------------------
(* Attestations and what a reader makes of them *)

LEMMA SignedIs ==
  ASSUME NEW case, NEW artifacts, NEW at \in Nat, NEW key
  PROVE  Attested(sign_attestation(case, artifacts, at, key))
BY DEF Attested

\* verify calls VALID only what is signed by a trusted key, for that case and that artifact.
LEMMA ValidTells ==
  ASSUME NEW att, NEW keys, NEW case, NEW root,
         verify_attestation(att, keys, case, root) = "VALID"
  PROVE  /\ att.id = att.body /\ att.body.key \in keys /\ att.sig = <<att.body.key, att.id>>
         /\ case # None => case = <<att.body.case>>
         /\ root = None => att.body.artifacts = {}
         /\ root # None => att.body.artifacts \in {{}, {root[1]}}
<1>1. att.id = att.body
  BY DEF verify_attestation
<1>2. att.body.key \in keys
  BY <1>1 DEF verify_attestation
<1>3. att.sig = <<att.body.key, att.id>>
  BY <1>1, <1>2 DEF verify_attestation
<1>4. case # None => case = <<att.body.case>>
  BY <1>1, <1>2, <1>3 DEF verify_attestation
<1>5. ArtifactStatus(att, root) = "VALID"
  BY <1>1, <1>2, <1>3, <1>4 DEF verify_attestation
<1>6. root = None => att.body.artifacts = {}
  BY <1>5 DEF ArtifactStatus
<1>7. root # None => att.body.artifacts \in {{}, {root[1]}}
  BY <1>5 DEF ArtifactStatus
<1> QED
  BY <1>1, <1>2, <1>3, <1>4, <1>6, <1>7

\* No altered copy of a signed attestation is VALID.
LEMMA CopiesAreTold ==
  ASSUME NEW a, Attested(a), NEW att \in CopiesOf(a), NEW keys, NEW case, NEW root,
         verify_attestation(att, keys, case, root) = "VALID"
  PROVE  att = a
<1>0. PICK c, artifacts, at, key : at \in Nat /\ a = sign_attestation(c, artifacts, at, key)
  BY DEF Attested
<1> DEFINE body == [case |-> c, artifacts |-> artifacts, issued |-> at, key |-> key]
<1>1. a.body = body /\ a.id = body /\ a.sig = <<key, body>> /\ DOMAIN a = {"body", "id", "sig"}
      /\ a = [body |-> body, id |-> body, sig |-> <<key, body>>]
  BY <1>0 DEF sign_attestation
<1>4. att.id = att.body /\ att.sig = <<att.body.key, att.id>>
  BY ValidTells
<1> HIDE DEF body
<1>5. att = a \/ \E b : att = [a EXCEPT !.body = b] \/ att = [a EXCEPT !.body = b, !.id = b]
  BY DEF CopiesOf
<1>6. ASSUME NEW b, att = [a EXCEPT !.body = b] PROVE att = a
  <2>1. att.body = b /\ att.id = body
    BY <1>1, <1>6
  <2>2. b = body
    BY <1>4, <2>1
  <2> QED
    BY <1>1, <1>6, <2>2
<1>7. ASSUME NEW b, att = [a EXCEPT !.body = b, !.id = b] PROVE att = a
  <2>1. att.id = b /\ att.sig = <<key, body>>
    BY <1>1, <1>7
  <2>2. b = body
    BY <1>4, <2>1
  <2> QED
    BY <1>1, <1>7, <2>2
<1> QED
  BY <1>5, <1>6, <1>7

Sealing(c, key, m, r, at, i) == c = [registry |-> r, issued |-> at, key |-> key, id |-> i, sig |-> m]

\* No altered copy of a signed checkpoint is accepted.
LEMMA CheckpointCopiesAreTold ==
  ASSUME NEW c0, Sealed(c0), NEW cp \in CopiesOfCheckpoint(c0), NEW keys, NEW reg,
         verify_signed_checkpoint(cp, keys, reg)
  PROVE  cp = c0 /\ cp.key \in keys
<1>1. PICK r, at, key : c0 = sign_registry_checkpoint(r, at, key)
  BY DEF Sealed
<1> DEFINE unsigned == [registry |-> r, issued |-> at, key |-> key]
<1>2. c0 = [registry |-> r, issued |-> at, key |-> key, id |-> unsigned, sig |-> <<key, unsigned>>]
  BY <1>1 DEF sign_registry_checkpoint
<1>3. /\ cp.id = [registry |-> cp.registry, issued |-> cp.issued, key |-> cp.key]
      /\ cp.sig = <<cp.key, cp.id>> /\ cp.key \in keys
  BY DEF verify_signed_checkpoint, _checkpoint_unsigned
<1> PICK m : m = <<key, unsigned>>
  OBVIOUS
<1> DEFINE Like(c) == \E r2, at2, i2 : Sealing(c, key, m, r2, at2, i2)
<1> HIDE DEF unsigned
<1>20. c0 = [registry |-> r, issued |-> at, key |-> key, id |-> unsigned, sig |-> m]
  BY <1>2
<1>4. Like(cp)
  <2>1. Sealing(c0, key, m, r, at, unsigned)
    BY <1>20 DEF Sealing
  <2>2. ASSUME NEW x, NEW c, c = [c0 EXCEPT !.issued = x] PROVE Sealing(c, key, m, r, x, unsigned)
    BY <1>20, <2>2 DEF Sealing
  <2>3. ASSUME NEW x, NEW c, c = [c0 EXCEPT !.registry = x] PROVE Sealing(c, key, m, x, at, unsigned)
    BY <1>20, <2>3 DEF Sealing
  <2>4. ASSUME NEW c, Like(c), NEW y, NEW c2, c2 = [c EXCEPT !.id = y] PROVE Like(c2)
    <3>1. PICK r2, at2, i2 : Sealing(c, key, m, r2, at2, i2)
      BY <2>4
    <3>2. Sealing(c2, key, m, r2, at2, y)
      BY <2>4, <3>1 DEF Sealing
    <3> QED
      BY <3>2
  <2>6. \/ cp = c0
        \/ \E x : cp = [c0 EXCEPT !.issued = x] \/ cp = [c0 EXCEPT !.registry = x]
        \/ \E x, y, c : /\ c = [c0 EXCEPT !.issued = x] \/ c = [c0 EXCEPT !.registry = x]
                        /\ cp = [c EXCEPT !.id = y]
    <3> DEFINE regs == {files[d]["registry.json"][1] : d \in {e \in Dirs : files[e]["registry.json"] # None}}
               others == {[c0 EXCEPT !.issued = @ + 100]} \cup {[c0 EXCEPT !.registry = x] : x \in regs}
    <3>1. cp \in {c0} \cup others \cup {[c EXCEPT !.id = _checkpoint_unsigned(c)] : c \in others}
      BY DEF CopiesOfCheckpoint
    <3>2. \A c \in others : \E x : c = [c0 EXCEPT !.issued = x] \/ c = [c0 EXCEPT !.registry = x]
      OBVIOUS
    <3> HIDE DEF others
    <3>3. CASE cp \in {c0} \cup others
      BY <3>2, <3>3
    <3>4. CASE \E c \in others : cp = [c EXCEPT !.id = _checkpoint_unsigned(c)]
      <4>1. PICK c \in others : cp = [c EXCEPT !.id = _checkpoint_unsigned(c)]
        BY <3>4
      <4>2. PICK x : c = [c0 EXCEPT !.issued = x] \/ c = [c0 EXCEPT !.registry = x]
        BY <3>2
      <4>3. PICK y : cp = [c EXCEPT !.id = y]
        BY <4>1
      <4> QED
        BY <4>2, <4>3
    <3> QED
      BY <3>1, <3>3, <3>4
  <2>7. ASSUME NEW x, NEW c, c = [c0 EXCEPT !.issued = x] \/ c = [c0 EXCEPT !.registry = x]
        PROVE  Like(c)
    BY <2>2, <2>3, <2>7
  <2>8. Like(c0)
    BY <2>1
  <2> HIDE DEF Like
  <2>9. CASE \E x : cp = [c0 EXCEPT !.issued = x] \/ cp = [c0 EXCEPT !.registry = x]
    BY <2>7, <2>9
  <2>10. CASE \E x, y, c : /\ c = [c0 EXCEPT !.issued = x] \/ c = [c0 EXCEPT !.registry = x]
                           /\ cp = [c EXCEPT !.id = y]
    <3>1. PICK x, y, c : /\ c = [c0 EXCEPT !.issued = x] \/ c = [c0 EXCEPT !.registry = x]
                         /\ cp = [c EXCEPT !.id = y]
      BY <2>10
    <3>2. Like(c)
      BY <2>7, <3>1
    <3> QED
      BY <2>4, <3>1, <3>2
  <2> QED
    BY <2>6, <2>8, <2>9, <2>10
<1>5. PICK r2, at2, i2 : cp = [registry |-> r2, issued |-> at2, key |-> key, id |-> i2, sig |-> m]
  BY <1>4 DEF Sealing
<1>6. cp.sig = m /\ cp.key = key /\ cp.registry = r2 /\ cp.issued = at2 /\ cp.id = i2
  BY <1>5
<1>7. unsigned = i2 /\ i2 = [registry |-> r2, issued |-> at2, key |-> key]
  BY <1>3, <1>6
<1>8. r2 = r /\ at2 = at
  BY <1>7 DEF unsigned
<1>10. cp = c0
  BY <1>5, <1>7, <1>8, <1>20
<1> QED
  BY <1>3, <1>10

-----------------------------------------------------------------------------
(* The directories and the runs that write into them *)

Fields == {"pc", "dir", "base", "read", "keys", "att", "reg", "cp", "proof", "written", "undone"}
Shaped(w) == DOMAIN w = Fields
Summary == "workflow-summary.json"

\* What a run has read, made and written at each stage.
Writing == {"write", "sync", "undo"}
Progress(w, S, C, T, I) ==
  /\ Shaped(w) /\ w.pc \in Stages
  /\ w.pc # "idle" => w.dir \in Dirs /\ w.keys \subseteq T
  /\ w.pc \in {"sign", "verify", "register"} /\ w.base # None => w.base[1] \in Dirs
  /\ w.pc \notin {"idle", "sign"} => w.att \in S
  /\ w.pc \notin {"idle", "sign", "verify"} => w.att.body.key \in T /\ w.att \in I
  /\ w.pc \in {"checkpoint", "write", "sync", "undo"} => Listed(w.reg, S, T, I)
  /\ w.pc \in Writing =>
       /\ w.cp \in C /\ w.cp.registry = w.reg
       /\ w.proof = build_inclusion_proof(w.reg, w.att.id)
  /\ w.written \in 0..4 /\ w.undone \in 0..w.written
  /\ w.pc \notin Writing => w.written = 0
  /\ w.pc \in {"write", "sync"} => w.undone = 0

\* The i-th file is one the run has created and not taken back.
Owned(w, i) == w.undone < i /\ (i <= w.written \/ (w.pc = "sync" /\ i = w.written + 1))

Shape(fs) == \E E : fs \in [Dirs -> [FileName -> E]]
Entries == \A d \in Dirs, f \in FileName : files[d][f] = None \/ \E x : files[d][f] = <<x>>

\* A run's files are its own and hold what it wrote.
Holding ==
  \A o \in Operators, i \in 1..5 : Owned(op[o], i) =>
    op[o].dir \in Dirs /\ files[op[o].dir][OutputFiles[i]] = <<Payload(op[o], OutputFiles[i])>>
Apart ==
  \A o, q \in Operators, i \in 1..5 :
    Owned(op[o], i) /\ Owned(op[q], i) /\ op[o].dir = op[q].dir => o = q

\* Beside a summary, the four files it is of; and no run owns any of them but the one that
\* is syncing that summary.
FinishedDir(fs, s) ==
  /\ fs["attestation.json"] # None /\ fs["attestation.json"][1].id = s.id
  /\ fs["registry.json"] = <<s.registry>>
  /\ fs["checkpoint.json"] = <<s.checkpoint>>
  /\ fs["inclusion-proof.json"] = <<build_inclusion_proof(s.registry, s.id)>>
SyncsSummary(w) == w.pc = "sync" /\ w.written = 4
Finished ==
  \A d \in Dirs \ stranded : files[d][Summary] # None =>
    /\ FinishedDir(files[d], files[d][Summary][1])
    /\ \A o \in Operators, i \in 1..5 : Owned(op[o], i) /\ op[o].dir = d => SyncsSummary(op[o])

Disk == DOMAIN op = Operators /\ Shape(files) /\ Entries /\ Holding /\ Apart /\ Finished

LEMMA Names ==
  /\ FileName = {"attestation.json", "registry.json", "checkpoint.json",
                 "inclusion-proof.json", Summary}
  /\ OutputFiles[1] = "attestation.json" /\ OutputFiles[2] = "registry.json"
  /\ OutputFiles[3] = "checkpoint.json" /\ OutputFiles[4] = "inclusion-proof.json"
  /\ OutputFiles[5] = Summary /\ Len(OutputFiles) = 5
<1>1. DOMAIN OutputFiles = 1..5 /\ 1..5 = {1, 2, 3, 4, 5}
  BY DEF OutputFiles
<1>2. /\ OutputFiles[1] = "attestation.json" /\ OutputFiles[2] = "registry.json"
      /\ OutputFiles[3] = "checkpoint.json" /\ OutputFiles[4] = "inclusion-proof.json"
      /\ OutputFiles[5] = Summary /\ Len(OutputFiles) = 5
  BY DEF OutputFiles, Summary
<1>3. FileName = {OutputFiles[i] : i \in {1, 2, 3, 4, 5}}
  BY <1>1 DEF FileName, ToSet
<1> QED
  BY <1>2, <1>3

LEMMA Numbering ==
  /\ \A i \in 1..5 : OutputFiles[i] \in FileName
  /\ \A i \in 1..4 : OutputFiles[i] # Summary
  /\ \A i, j \in 1..5 : OutputFiles[i] = OutputFiles[j] => i = j
  /\ OutputFiles[5] = Summary
  /\ \A f \in FileName : f # Summary => \E i \in 1..4 : f = OutputFiles[i]
<1>1. 1..5 = {1, 2, 3, 4, 5} /\ 1..4 = {1, 2, 3, 4}
  OBVIOUS
<1> QED
  BY <1>1, Names DEF Summary

LEMMA ProgressGrows ==
  ASSUME NEW w, NEW S, NEW C, NEW T, NEW I, NEW S2, NEW C2, NEW T2, NEW I2,
         Progress(w, S, C, T, I), S \subseteq S2, C \subseteq C2, T \subseteq T2, I \subseteq I2
  PROVE  Progress(w, S2, C2, T2, I2)
<1>1. w.pc \in {"checkpoint", "write", "sync", "undo"} => Listed(w.reg, S2, T2, I2)
  BY ListedGrows, Zenon DEF Progress
<1> QED
  BY <1>1 DEF Progress

LEMMA IdleProgress ==
  ASSUME NEW S, NEW C, NEW T, NEW I
  PROVE  Progress(Idle, S, C, T, I) /\ \A i \in 1..5 : ~Owned(Idle, i)
<1>1. Shaped(Idle)
  BY DEF Shaped, Fields, Idle
<1>2. Idle.pc = "idle" /\ Idle.written = 0 /\ Idle.undone = 0
  BY DEF Idle
<1> HIDE DEF Idle
<1> QED
  BY <1>1, <1>2 DEF Progress, Owned, Stages, Writing

\* A file that holds something is there.
LEMMA HeldIsThere == \A x : <<x>> # None
BY DEF None

\* One file put in place or taken away.
Put(fs, fs2, d, f, e) == fs2 = [fs EXCEPT ![d][f] = e]

Placed(fs, fs2, d, f, e) ==
  /\ Shape(fs2) /\ fs2[d][f] = e
  /\ \A d2 \in Dirs : d2 # d => fs2[d2] = fs[d2]
  /\ \A f2 \in FileName : f2 # f => fs2[d][f2] = fs[d][f2]

LEMMA OneFile ==
  ASSUME NEW fs, NEW fs2, NEW d \in Dirs, NEW f \in FileName, NEW e,
         Shape(fs), Put(fs, fs2, d, f, e)
  PROVE  Placed(fs, fs2, d, f, e)
<1> PICK E : fs \in [Dirs -> [FileName -> E]]
  BY DEF Shape
<1> DEFINE E2 == E \cup {e}
<1>1. fs2 \in [Dirs -> [FileName -> E2]]
  BY DEF Put
<1>2. Shape(fs2)
  BY <1>1 DEF Shape
<1>3. fs2[d][f] = e /\ (\A d2 \in Dirs : d2 # d => fs2[d2] = fs[d2])
  BY DEF Put
<1>4. \A f2 \in FileName : f2 # f => fs2[d][f2] = fs[d][f2]
  BY DEF Put
<1> QED
  BY <1>2, <1>3, <1>4 DEF Placed

\* A run moves on without touching a file: what it owns stays or is given up, and a summary
\* it was syncing and leaves behind is stranded.
LEMMA DiskMoves ==
  ASSUME Disk, files' = files, stranded \subseteq stranded',
         NEW o \in Operators, NEW w, op' = [op EXCEPT ![o] = w],
         \A i \in 1..5 : Owned(w, i) =>
            /\ Owned(op[o], i) /\ w.dir = op[o].dir
            /\ Payload(w, OutputFiles[i]) = Payload(op[o], OutputFiles[i])
            /\ SyncsSummary(op[o]) => op[o].dir \in stranded'
  PROVE  Disk'
<1>1. DOMAIN op' = Operators /\ op'[o] = w /\ \A q \in Operators : q # o => op'[q] = op[q]
  BY DEF Disk
<1>2. \A q \in Operators, i \in 1..5 : Owned(op'[q], i) =>
        /\ Owned(op[q], i) /\ op'[q].dir = op[q].dir
        /\ Payload(op'[q], OutputFiles[i]) = Payload(op[q], OutputFiles[i])
        /\ SyncsSummary(op[q]) => op'[q] = op[q] \/ op[q].dir \in stranded'
  <2>1. ASSUME NEW q \in Operators, q # o PROVE op'[q] = op[q]
    BY <1>1, <2>1
  <2> QED
    BY <1>1, <2>1
<1>3. Shape(files') /\ Entries'
  BY DEF Disk, Shape, Entries
<1>4. Holding'
  <2>1. SUFFICES ASSUME NEW q \in Operators, NEW i \in 1..5, Owned(op'[q], i)
                 PROVE  op'[q].dir \in Dirs
                        /\ files[op'[q].dir][OutputFiles[i]] = <<Payload(op'[q], OutputFiles[i])>>
    BY DEF Holding
  <2>2. Owned(op[q], i) /\ op'[q].dir = op[q].dir
        /\ Payload(op'[q], OutputFiles[i]) = Payload(op[q], OutputFiles[i])
    BY <1>2, <2>1
  <2>3. op[q].dir \in Dirs /\ files[op[q].dir][OutputFiles[i]] = <<Payload(op[q], OutputFiles[i])>>
    BY <2>2 DEF Disk, Holding
  <2> QED
    BY <2>2, <2>3
<1>5. Apart'
  BY <1>2 DEF Disk, Apart
<1>6. Finished'
  <2>1. SUFFICES ASSUME NEW d \in Dirs \ stranded', files[d][Summary] # None
                 PROVE  /\ FinishedDir(files[d], files[d][Summary][1])
                        /\ \A q \in Operators, i \in 1..5 :
                             Owned(op'[q], i) /\ op'[q].dir = d => SyncsSummary(op'[q])
    BY DEF Finished
  <2>2. d \in Dirs \ stranded
    OBVIOUS
  <2>3. /\ FinishedDir(files[d], files[d][Summary][1])
        /\ \A q \in Operators, i \in 1..5 : Owned(op[q], i) /\ op[q].dir = d => SyncsSummary(op[q])
    BY <2>1, <2>2 DEF Disk, Finished
  <2>4. SUFFICES ASSUME NEW q \in Operators, NEW i \in 1..5, Owned(op'[q], i), op'[q].dir = d
                 PROVE  SyncsSummary(op'[q])
    BY <2>3
  <2>5. Owned(op[q], i) /\ op[q].dir = d
    BY <1>2, <2>4
  <2>6. SyncsSummary(op[q])
    BY <2>3, <2>5
  <2>7. op'[q] = op[q]
    BY <1>2, <2>4, <2>5, <2>6
  <2> QED
    BY <2>6, <2>7
<1> QED
  BY <1>1, <1>3, <1>4, <1>5, <1>6 DEF Disk

LEMMA DiskStays ==
  ASSUME Disk, files' = files, op' = op, stranded' = stranded
  PROVE  Disk'
BY DEF Disk, Shape, Entries, Holding, Apart, Finished

\* A command puts a file where there was none.
LEMMA DiskGrows ==
  ASSUME Disk, op' = op, stranded' = stranded,
         NEW d \in Dirs, NEW f \in FileName \ {Summary}, NEW x,
         Create(d, f, x)
  PROVE  Disk'
<1>1. files[d][f] = None /\ files' = [files EXCEPT ![d][f] = <<x>>]
  BY DEF Create, CanCreate
<1> PICK e : e = <<x>>
  OBVIOUS
<1>2. Placed(files, files', d, f, e)
  <2>1. Shape(files) /\ f \in FileName /\ Put(files, files', d, f, e)
    BY <1>1 DEF Disk, Put
  <2> QED
    BY <2>1, OneFile
<1>3. Entries'
  BY <1>2 DEF Disk, Entries, Placed
<1>4. Holding'
  <2>1. SUFFICES ASSUME NEW o \in Operators, NEW i \in 1..5, Owned(op[o], i)
                 PROVE  op[o].dir \in Dirs /\ files'[op[o].dir][OutputFiles[i]] = <<Payload(op[o], OutputFiles[i])>>
    BY DEF Holding
  <2>2. op[o].dir \in Dirs /\ files[op[o].dir][OutputFiles[i]] = <<Payload(op[o], OutputFiles[i])>>
    BY <2>1 DEF Disk, Holding
  <2>3. op[o].dir # d \/ OutputFiles[i] # f
    BY <1>1, <2>2, HeldIsThere
  <2>4. OutputFiles[i] \in FileName
    BY Numbering
  <2> QED
    BY <1>2, <2>2, <2>3, <2>4 DEF Placed
<1>5. Finished'
  <2>1. SUFFICES ASSUME NEW d2 \in Dirs \ stranded, files'[d2][Summary] # None
                 PROVE  /\ FinishedDir(files'[d2], files'[d2][Summary][1])
                        /\ \A o \in Operators, i \in 1..5 :
                             Owned(op[o], i) /\ op[o].dir = d2 => SyncsSummary(op[o])
    BY DEF Finished
  <2>2. Summary \in FileName
    BY Names
  <2>3. files[d2][Summary] # None /\ files'[d2][Summary] = files[d2][Summary]
    BY <1>2, <2>1, <2>2 DEF Placed
  <2>4. FinishedDir(files[d2], files[d2][Summary][1])
    BY <2>3 DEF Disk, Finished
  <2>5. d2 # d
    <3>1. files[d2][f] # None
      BY <2>4, Names, HeldIsThere DEF FinishedDir
    <3> QED
      BY <1>1, <3>1
  <2>6. files'[d2] = files[d2]
    BY <1>2, <2>5 DEF Placed
  <2> QED
    BY <2>3, <2>4, <2>6 DEF Disk, Finished
<1>6. Apart' /\ DOMAIN op' = Operators
  BY DEF Disk, Apart
<1> QED
  BY <1>2, <1>3, <1>4, <1>5, <1>6 DEF Disk, Placed

LEMMA PayloadIs ==
  ASSUME NEW w
  PROVE  /\ Payload(w, "attestation.json") = w.att
         /\ Payload(w, "registry.json") = w.reg
         /\ Payload(w, "checkpoint.json") = w.cp
         /\ Payload(w, "inclusion-proof.json") = w.proof
         /\ Payload(w, Summary) = [id |-> w.att.id, checkpoint |-> w.cp, registry |-> w.reg]
BY DEF Payload, Summary

\* A run that writes on, or takes back what it wrote.
SameOutputs(w, v) ==
  v.dir = w.dir /\ v.att = w.att /\ v.reg = w.reg /\ v.cp = w.cp /\ v.proof = w.proof

LEMMA SamePayload ==
  ASSUME NEW w, NEW v, SameOutputs(w, v), NEW i \in 1..5
  PROVE  Payload(v, OutputFiles[i]) = Payload(w, OutputFiles[i]) /\ v.dir = w.dir
<1>1. i \in {1, 2, 3, 4, 5}
  OBVIOUS
<1> QED
  BY <1>1, Names, PayloadIs DEF SameOutputs

LEMMA WritesOn ==
  ASSUME NEW w, NEW v, NEW S, NEW C, NEW T, NEW I, Progress(w, S, C, T, I), w.pc \in Writing,
         Shaped(v), SameOutputs(w, v), v.keys = w.keys, v.pc \in Writing,
         v.written \in 0..4, v.undone \in 0..v.written, v.pc \in {"write", "sync"} => v.undone = 0
  PROVE  Progress(v, S, C, T, I)
<1>1. v.dir = w.dir /\ v.att = w.att /\ v.reg = w.reg /\ v.cp = w.cp /\ v.proof = w.proof
  BY DEF SameOutputs
<1>2. /\ w.dir \in Dirs /\ w.keys \subseteq T /\ w.att \in S /\ w.att.body.key \in T /\ w.att \in I
      /\ Listed(w.reg, S, T, I) /\ w.cp \in C /\ w.cp.registry = w.reg
      /\ w.proof = build_inclusion_proof(w.reg, w.att.id)
  BY DEF Progress, Writing
<1>3. /\ v.dir \in Dirs /\ v.keys \subseteq T /\ v.att \in S /\ v.att.body.key \in T /\ v.att \in I
      /\ Listed(v.reg, S, T, I) /\ v.cp \in C /\ v.cp.registry = v.reg
      /\ v.proof = build_inclusion_proof(v.reg, v.att.id)
  BY <1>1, <1>2
<1>4. v.pc \in Stages /\ v.pc \notin {"idle", "sign", "verify", "register", "checkpoint"}
  BY DEF Writing, Stages
<1> QED
  BY <1>3, <1>4 DEF Progress

\* The next file is created (CreateNewJson).
LEMMA DiskWrites ==
  ASSUME Disk, stranded' = stranded,
         NEW o \in Operators, NEW S, NEW C, NEW T, NEW I, Progress(op[o], S, C, T, I),
         op[o].pc = "write", CanCreate(op[o].dir, OutputFiles[op[o].written + 1]),
         files' = [files EXCEPT ![op[o].dir][OutputFiles[op[o].written + 1]] =
                     <<Payload(op[o], OutputFiles[op[o].written + 1])>>],
         NEW v, op' = [op EXCEPT ![o] = v], SameOutputs(op[o], v), v.pc = "sync",
         v.written = op[o].written, v.undone = op[o].undone
  PROVE  Disk'
<1> PICK w, k : w = op[o] /\ k = op[o].written + 1
  OBVIOUS
<1> PICK f : f = OutputFiles[k]
  OBVIOUS
<1> PICK e : e = <<Payload(w, f)>>
  OBVIOUS
<1>1. k \in 1..5 /\ w.undone = 0 /\ w.written = k - 1 /\ w.dir \in Dirs /\ f \in FileName
      /\ w.proof = build_inclusion_proof(w.reg, w.att.id) /\ w.pc = "write"
  BY Numbering DEF Progress, Writing
<1>2. files[w.dir][f] = None
  BY DEF CanCreate
<1>3. Placed(files, files', w.dir, f, e)
  <2>1. Shape(files) /\ Put(files, files', w.dir, f, e)
    BY DEF Disk, Put
  <2> QED
    BY <1>1, <2>1, OneFile
<1>4. DOMAIN op' = Operators /\ op'[o] = v /\ \A q \in Operators : q # o => op'[q] = op[q]
  BY DEF Disk
<1>5. \A i \in 1..5 :
        /\ v.dir = w.dir /\ Payload(v, OutputFiles[i]) = Payload(w, OutputFiles[i])
        /\ Owned(v, i) => i = k \/ Owned(w, i)
  <2>1. \A i \in 1..5 : v.dir = w.dir /\ Payload(v, OutputFiles[i]) = Payload(w, OutputFiles[i])
    BY SamePayload
  <2>2. v.pc = "sync" /\ v.written = w.written /\ v.undone = w.undone /\ k = w.written + 1
    OBVIOUS
  <2> QED
    BY <2>1, <2>2 DEF Owned
<1>6. \A i \in 1..5 : Owned(w, i) <=> i < k
  BY <1>1 DEF Owned
<1>7. \A q \in Operators, i \in 1..5 : Owned(op[q], i) =>
        /\ op[q].dir \in Dirs
        /\ files[op[q].dir][OutputFiles[i]] = <<Payload(op[q], OutputFiles[i])>>
        /\ op[q].dir # w.dir \/ OutputFiles[i] # f
  <2>1. SUFFICES ASSUME NEW q \in Operators, NEW i \in 1..5, Owned(op[q], i)
                 PROVE  /\ op[q].dir \in Dirs
                        /\ files[op[q].dir][OutputFiles[i]] = <<Payload(op[q], OutputFiles[i])>>
                        /\ op[q].dir # w.dir \/ OutputFiles[i] # f
    OBVIOUS
  <2>2. /\ op[q].dir \in Dirs
        /\ files[op[q].dir][OutputFiles[i]] = <<Payload(op[q], OutputFiles[i])>>
    BY <2>1 DEF Disk, Holding
  <2>3. files[op[q].dir][OutputFiles[i]] # None
    BY <2>2, HeldIsThere
  <2> QED
    BY <1>2, <2>2, <2>3
<1>8. Entries'
  <2>1. SUFFICES ASSUME NEW d2 \in Dirs, NEW f2 \in FileName
                 PROVE  files'[d2][f2] = None \/ \E x : files'[d2][f2] = <<x>>
    BY DEF Entries
  <2>2. CASE d2 = w.dir /\ f2 = f
    BY <1>3, <2>2 DEF Placed
  <2>3. CASE ~(d2 = w.dir /\ f2 = f)
    BY <1>3, <2>3 DEF Disk, Entries, Placed
  <2> QED
    BY <2>2, <2>3
<1>9. Holding'
  <2>1. SUFFICES ASSUME NEW q \in Operators, NEW i \in 1..5, Owned(op'[q], i)
                 PROVE  op'[q].dir \in Dirs
                        /\ files'[op'[q].dir][OutputFiles[i]] = <<Payload(op'[q], OutputFiles[i])>>
    BY DEF Holding
  <2>2. OutputFiles[i] \in FileName
    BY Numbering
  <2>3. CASE q = o
    <3>1. op'[q].dir = w.dir /\ Payload(op'[q], OutputFiles[i]) = Payload(w, OutputFiles[i])
          /\ (i = k \/ Owned(w, i))
      BY <1>4, <1>5, <2>1, <2>3
    <3>2. CASE i = k
      BY <1>1, <1>3, <3>1, <3>2 DEF Placed
    <3>3. CASE i # k
      <4>1. Owned(w, i)
        BY <3>1, <3>3
      <4>2. files[w.dir][OutputFiles[i]] = <<Payload(w, OutputFiles[i])>> /\ OutputFiles[i] # f
        BY <1>7, <4>1
      <4>3. files'[w.dir][OutputFiles[i]] = files[w.dir][OutputFiles[i]]
        BY <1>3, <2>2, <4>2 DEF Placed
      <4> QED
        BY <1>1, <3>1, <4>2, <4>3
    <3> QED
      BY <3>2, <3>3
  <2>4. CASE q # o
    <3>1. op'[q] = op[q] /\ Owned(op[q], i)
      BY <1>4, <2>1, <2>4
    <3>2. /\ op[q].dir \in Dirs
          /\ files[op[q].dir][OutputFiles[i]] = <<Payload(op[q], OutputFiles[i])>>
          /\ op[q].dir # w.dir \/ OutputFiles[i] # f
      BY <1>7, <3>1
    <3>3. files'[op[q].dir][OutputFiles[i]] = files[op[q].dir][OutputFiles[i]]
      BY <1>3, <2>2, <3>2 DEF Placed
    <3> QED
      BY <3>1, <3>2, <3>3
  <2> QED
    BY <2>3, <2>4
<1>10. Apart'
  <2>1. SUFFICES ASSUME NEW q \in Operators, NEW i \in 1..5, q # o, Owned(op[q], i),
                        Owned(v, i), op[q].dir = v.dir
                 PROVE  FALSE
    BY <1>4 DEF Disk, Apart
  <2>2. v.dir = w.dir /\ (i = k \/ Owned(w, i))
    BY <1>5, <2>1
  <2>3. OutputFiles[i] # f
    BY <1>7, <2>1, <2>2
  <2>4. Owned(w, i)
    BY <2>2, <2>3
  <2> QED
    BY <2>1, <2>2, <2>4 DEF Disk, Apart
<1>11. Finished'
  <2>1. SUFFICES ASSUME NEW d \in Dirs \ stranded, files'[d][Summary] # None
                 PROVE  /\ FinishedDir(files'[d], files'[d][Summary][1])
                        /\ \A q \in Operators, i \in 1..5 :
                             Owned(op'[q], i) /\ op'[q].dir = d => SyncsSummary(op'[q])
    BY DEF Finished
  <2>2. CASE d # w.dir
    <3>1. files'[d] = files[d]
      BY <1>3, <2>2 DEF Placed
    <3>2. /\ FinishedDir(files[d], files[d][Summary][1])
          /\ \A q \in Operators, i \in 1..5 : Owned(op[q], i) /\ op[q].dir = d => SyncsSummary(op[q])
      BY <2>1, <3>1 DEF Disk, Finished
    <3>3. ASSUME NEW q \in Operators, NEW i \in 1..5, Owned(op'[q], i), op'[q].dir = d
          PROVE  SyncsSummary(op'[q])
      <4>1. q # o
        BY <1>4, <1>5, <2>2, <3>3
      <4> QED
        BY <1>4, <3>2, <3>3, <4>1
    <3> QED
      BY <3>1, <3>2, <3>3
  <2>3. CASE d = w.dir /\ k # 5
    <3>1. f # Summary /\ Summary \in FileName
      BY <1>1, <2>3, Names, Numbering
    <3>2. files[d][Summary] # None
      BY <1>3, <2>1, <2>3, <3>1 DEF Placed
    <3>3. FinishedDir(files[d], files[d][Summary][1])
      BY <2>1, <3>2 DEF Disk, Finished
    <3>4. files[d][f] # None
      BY <1>1, <3>1, <3>3, Names, HeldIsThere DEF FinishedDir
    <3> QED
      BY <1>2, <2>3, <3>4
  <2>4. CASE d = w.dir /\ k = 5
    <3>1. f = Summary
      BY <2>4, Names
    <3>2. \A i \in 1..4 : Owned(w, i)
      BY <1>6, <2>4
    <3>3. \A i \in 1..4 : files'[d][OutputFiles[i]] = <<Payload(w, OutputFiles[i])>>
      <4>1. \A i \in 1..4 : i \in 1..5 /\ files[d][OutputFiles[i]] = <<Payload(w, OutputFiles[i])>>
        <5>1. ASSUME NEW i \in 1..4 PROVE i \in 1..5 /\ Owned(op[o], i)
          BY <3>2
        <5>2. ASSUME NEW i \in 1..4
              PROVE  files[op[o].dir][OutputFiles[i]] = <<Payload(op[o], OutputFiles[i])>>
          BY <1>7, <5>1
        <5> QED
          BY <2>4, <5>1, <5>2
      <4>2. \A i \in 1..4 : OutputFiles[i] \in FileName /\ OutputFiles[i] # f
        BY <3>1, Numbering
      <4> QED
        BY <1>3, <2>4, <4>1, <4>2 DEF Placed
    <3>4. /\ files'[d]["attestation.json"] = <<w.att>>
          /\ files'[d]["registry.json"] = <<w.reg>>
          /\ files'[d]["checkpoint.json"] = <<w.cp>>
          /\ files'[d]["inclusion-proof.json"] = <<w.proof>>
      <4>1. 1 \in 1..4 /\ 2 \in 1..4 /\ 3 \in 1..4 /\ 4 \in 1..4
        OBVIOUS
      <4>2. files'[d]["attestation.json"] = <<w.att>>
        <5>1. files'[d][OutputFiles[1]] = <<Payload(w, OutputFiles[1])>>
          BY <3>3, <4>1
        <5>2. OutputFiles[1] = "attestation.json" /\ Payload(w, "attestation.json") = w.att
          BY Names, PayloadIs
        <5> QED
          BY <5>1, <5>2
      <4>3. files'[d]["registry.json"] = <<w.reg>>
        <5>1. files'[d][OutputFiles[2]] = <<Payload(w, OutputFiles[2])>>
          BY <3>3, <4>1
        <5>2. OutputFiles[2] = "registry.json" /\ Payload(w, "registry.json") = w.reg
          BY Names, PayloadIs
        <5> QED
          BY <5>1, <5>2
      <4>4. files'[d]["checkpoint.json"] = <<w.cp>>
        <5>1. files'[d][OutputFiles[3]] = <<Payload(w, OutputFiles[3])>>
          BY <3>3, <4>1
        <5>2. OutputFiles[3] = "checkpoint.json" /\ Payload(w, "checkpoint.json") = w.cp
          BY Names, PayloadIs
        <5> QED
          BY <5>1, <5>2
      <4>5. files'[d]["inclusion-proof.json"] = <<w.proof>>
        <5>1. files'[d][OutputFiles[4]] = <<Payload(w, OutputFiles[4])>>
          BY <3>3, <4>1
        <5>2. OutputFiles[4] = "inclusion-proof.json" /\ Payload(w, "inclusion-proof.json") = w.proof
          BY Names, PayloadIs
        <5> QED
          BY <5>1, <5>2
      <4> QED
        BY <4>2, <4>3, <4>4, <4>5
    <3>5. files'[d][Summary] = <<[id |-> w.att.id, checkpoint |-> w.cp, registry |-> w.reg]>>
      BY <1>3, <2>4, <3>1, PayloadIs DEF Placed
    <3>6. PICK s : s = files'[d][Summary][1] /\ s.id = w.att.id /\ s.checkpoint = w.cp
                   /\ s.registry = w.reg
      BY <3>5
    <3>7. FinishedDir(files'[d], s)
      <4>1. files'[d]["attestation.json"] # None /\ files'[d]["attestation.json"][1] = w.att
        BY <3>4, HeldIsThere
      <4> QED
        <5>1. PICK fs : fs = files'[d]
          OBVIOUS
        <5>2. fs["attestation.json"] # None /\ fs["attestation.json"][1].id = s.id
          BY <3>6, <4>1, <5>1
        <5>3. fs["registry.json"] = <<s.registry>> /\ fs["checkpoint.json"] = <<s.checkpoint>>
          BY <3>4, <3>6, <5>1
        <5>4. fs["inclusion-proof.json"] = <<build_inclusion_proof(s.registry, s.id)>>
          BY <1>1, <3>4, <3>6, <5>1
        <5>5. FinishedDir(fs, s)
          BY <5>2, <5>3, <5>4 DEF FinishedDir
        <5> QED
          BY <5>1, <5>5
    <3>8. ASSUME NEW q \in Operators, NEW i \in 1..5, Owned(op'[q], i), op'[q].dir = d
          PROVE  SyncsSummary(op'[q])
      <4>1. CASE q = o
        <5>0. 5 - 1 = 4
          OBVIOUS
        <5>1. v.written = 4 /\ v.pc = "sync"
          BY <1>1, <2>4, <5>0, Zenon
        <5> QED
          BY <1>4, <4>1, <5>1 DEF SyncsSummary
      <4>2. CASE q # o
        <5>1. Owned(op[q], i) /\ op[q].dir = w.dir
          BY <1>4, <2>4, <3>8, <4>2
        <5>2. OutputFiles[i] # f
          BY <1>7, <5>1
        <5>3. i \in 1..4
          BY <2>4, <5>2
        <5> QED
          BY <3>2, <4>2, <5>1, <5>3 DEF Disk, Apart
      <4> QED
        BY <4>1, <4>2
    <3> QED
      BY <3>6, <3>7, <3>8
  <2> QED
    BY <1>1, <2>2, <2>3, <2>4
<1> QED
  BY <1>3, <1>4, <1>8, <1>9, <1>10, <1>11 DEF Disk, Placed

\* A file of the run's own is taken back (SyncNewJson, Unlink).
LEMMA DiskUnlinks ==
  ASSUME Disk, stranded' = stranded,
         NEW o \in Operators, NEW k \in 1..5, Owned(op[o], k),
         SyncsSummary(op[o]) => k = 5,
         files' = [files EXCEPT ![op[o].dir][OutputFiles[k]] = None],
         NEW v, op' = [op EXCEPT ![o] = v], SameOutputs(op[o], v),
         \A i \in 1..5 : Owned(v, i) => Owned(op[o], i) /\ i # k
  PROVE  Disk'
<1> PICK w : w = op[o]
  OBVIOUS
<1> PICK f : f = OutputFiles[k]
  OBVIOUS
<1>2. Owned(w, k)
  OBVIOUS
<1>3. w.dir \in Dirs
  BY <1>2 DEF Disk, Holding
<1>4. f \in FileName
  BY Numbering
<1>5. Placed(files, files', w.dir, f, None)
  <2>1. Shape(files) /\ Put(files, files', w.dir, f, None)
    BY DEF Disk, Put
  <2> QED
    BY <1>3, <1>4, <2>1, OneFile
<1>6. DOMAIN op' = Operators /\ op'[o] = v /\ \A q \in Operators : q # o => op'[q] = op[q]
  BY DEF Disk
<1>9. \A q \in Operators, i \in 1..5 : Owned(op'[q], i) =>
        /\ Owned(op[q], i) /\ op'[q].dir = op[q].dir
        /\ Payload(op'[q], OutputFiles[i]) = Payload(op[q], OutputFiles[i])
        /\ op[q].dir # w.dir \/ i # k
  <2>1. SUFFICES ASSUME NEW q \in Operators, NEW i \in 1..5, Owned(op'[q], i)
                 PROVE  /\ Owned(op[q], i) /\ op'[q].dir = op[q].dir
                        /\ Payload(op'[q], OutputFiles[i]) = Payload(op[q], OutputFiles[i])
                        /\ op[q].dir # w.dir \/ i # k
    OBVIOUS
  <2>2. CASE q = o
    <3>1. Owned(w, i) /\ i # k
      BY <1>6, <2>1, <2>2
    <3>2. Payload(v, OutputFiles[i]) = Payload(w, OutputFiles[i]) /\ v.dir = w.dir
      BY SamePayload
    <3> QED
      BY <1>6, <2>2, <3>1, <3>2
  <2>3. CASE q # o
    <3>1. op'[q] = op[q]
      BY <1>6, <2>3
    <3>2. op[q].dir # w.dir \/ i # k
      BY <1>2, <2>1, <2>3, <3>1 DEF Disk, Apart
    <3> QED
      BY <2>1, <3>1, <3>2
  <2> QED
    BY <2>2, <2>3
<1>10. Entries'
  <2>1. SUFFICES ASSUME NEW d2 \in Dirs, NEW f2 \in FileName
                 PROVE  files'[d2][f2] = None \/ \E x : files'[d2][f2] = <<x>>
    BY DEF Entries
  <2>2. CASE d2 = w.dir /\ f2 = f
    BY <1>5, <2>2 DEF Placed
  <2>3. CASE ~(d2 = w.dir /\ f2 = f)
    BY <1>5, <2>3 DEF Disk, Entries, Placed
  <2> QED
    BY <2>2, <2>3
<1>11. Holding'
  <2>1. SUFFICES ASSUME NEW q \in Operators, NEW i \in 1..5, Owned(op'[q], i)
                 PROVE  op'[q].dir \in Dirs
                        /\ files'[op'[q].dir][OutputFiles[i]] = <<Payload(op'[q], OutputFiles[i])>>
    BY DEF Holding
  <2>2. /\ Owned(op[q], i) /\ op'[q].dir = op[q].dir
        /\ Payload(op'[q], OutputFiles[i]) = Payload(op[q], OutputFiles[i])
        /\ op[q].dir # w.dir \/ i # k
    BY <1>9, <2>1
  <2>3. op[q].dir \in Dirs /\ files[op[q].dir][OutputFiles[i]] = <<Payload(op[q], OutputFiles[i])>>
    BY <2>2 DEF Disk, Holding
  <2>4. OutputFiles[i] \in FileName /\ (i # k => OutputFiles[i] # f)
    BY Numbering
  <2>5. files'[op[q].dir][OutputFiles[i]] = files[op[q].dir][OutputFiles[i]]
    BY <1>5, <2>2, <2>3, <2>4 DEF Placed
  <2> QED
    BY <2>2, <2>3, <2>5
<1>12. Apart'
  BY <1>9 DEF Disk, Apart
<1>13. Finished'
  <2>1. SUFFICES ASSUME NEW d \in Dirs \ stranded, files'[d][Summary] # None
                 PROVE  /\ FinishedDir(files'[d], files'[d][Summary][1])
                        /\ \A q \in Operators, i \in 1..5 :
                             Owned(op'[q], i) /\ op'[q].dir = d => SyncsSummary(op'[q])
    BY DEF Finished
  <2>2. Summary \in FileName /\ (k = 5 => f = Summary)
    BY Names
  <2>3. files[d][Summary] # None /\ (d = w.dir => k # 5)
    BY <1>3, <1>4, <1>5, <2>1, <2>2 DEF Placed
  <2>4. /\ FinishedDir(files[d], files[d][Summary][1])
        /\ \A q \in Operators, i \in 1..5 : Owned(op[q], i) /\ op[q].dir = d => SyncsSummary(op[q])
    BY <2>1, <2>3 DEF Disk, Finished
  <2>5. d # w.dir
    BY <1>2, <2>3, <2>4
  <2>6. files'[d] = files[d]
    BY <1>5, <2>5 DEF Placed
  <2>7. ASSUME NEW q \in Operators, NEW i \in 1..5, Owned(op'[q], i), op'[q].dir = d
        PROVE  SyncsSummary(op'[q])
    <3>1. Owned(op[q], i) /\ op[q].dir = d
      BY <1>9, <2>7
    <3>2. op'[q] = op[q]
      BY <1>6, <2>5, <3>1
    <3> QED
      BY <2>4, <3>1, <3>2
  <2> QED
    BY <2>4, <2>6, <2>7
<1> QED
  BY <1>5, <1>6, <1>10, <1>11, <1>12, <1>13 DEF Disk, Placed

-----------------------------------------------------------------------------
(* What was signed and what is published *)

World ==
  /\ evidence \in Evidence \cup {"absent"} /\ signer \in Keys
  /\ trusted \subseteq onceTrusted /\ onceTrusted \subseteq Keys /\ events \in 0..MaxEvents
  /\ stranded \subseteq Dirs

Ledger ==
  /\ IsFiniteSet(signed) /\ IsFiniteSet(checkpointed) /\ issued \in Nat
  /\ Cardinality(signed) + Cardinality(checkpointed) <= issued
  /\ \A a \in signed : Attested(a)
  /\ \A c \in checkpointed : Sealed(c)

Works == \A o \in Operators : Progress(op[o], signed, checkpointed, onceTrusted, intact)

\* What may stand in a file of that name.
Publishable(f, x, S, C, T, I) ==
  /\ f = "attestation.json" => x \in S
  /\ f = "registry.json" => Listed(x, S, T, I)
  /\ f = "checkpoint.json" => x \in C /\ Listed(x.registry, S, T, I)
Published ==
  \A d \in Dirs, f \in FileName : files[d][f] # None =>
    Publishable(f, files[d][f][1], signed, checkpointed, onceTrusted, intact)

DeskInv == World /\ Ledger /\ Works /\ Disk /\ Published /\ AcceptedIsSigned

\* Nothing signed, trusted or found intact is ever forgotten.
Grows ==
  /\ signed \subseteq signed' /\ checkpointed \subseteq checkpointed'
  /\ onceTrusted \subseteq onceTrusted' /\ intact \subseteq intact' /\ stranded \subseteq stranded'

LEMMA LedgerStays ==
  ASSUME Ledger, signed' = signed, checkpointed' = checkpointed, issued' = issued
  PROVE  Ledger'
BY DEF Ledger

LEMMA LedgerSigns ==
  ASSUME Ledger, NEW att, Attested(att), SignAttestation(att)
  PROVE  Ledger' /\ att \in signed' /\ signed \subseteq signed' /\ checkpointed' = checkpointed
<1>1. /\ issued' = issued + 1 /\ signed' = signed \cup {att} /\ checkpointed' = checkpointed
      /\ IsFiniteSet(signed) /\ IsFiniteSet(checkpointed) /\ issued \in Nat
      /\ Cardinality(signed) + Cardinality(checkpointed) <= issued
  BY DEF SignAttestation, Ledger
<1>2. /\ IsFiniteSet(signed') /\ Cardinality(signed) \in Nat /\ Cardinality(checkpointed) \in Nat
      /\ Cardinality(signed') = Cardinality(signed) \/ Cardinality(signed') = Cardinality(signed) + 1
  BY <1>1, FS_AddElement, FS_CardinalityType
<1>3. Cardinality(signed') + Cardinality(checkpointed') <= issued'
  BY <1>1, <1>2
<1>4. \A a \in signed' : Attested(a)
  BY <1>1 DEF Ledger
<1> QED
  BY <1>1, <1>2, <1>3, <1>4 DEF Ledger

LEMMA LedgerCheckpoints ==
  ASSUME Ledger, NEW reg, SignCheckpoint(reg)
  PROVE  /\ Ledger' /\ LastCheckpoint \in checkpointed'
         /\ checkpointed \subseteq checkpointed' /\ signed' = signed
<1> PICK cp : cp = sign_registry_checkpoint(reg, issued + 1, signer)
  OBVIOUS
<1>1. /\ issued' = issued + 1 /\ checkpointed' = checkpointed \cup {cp} /\ signed' = signed
      /\ IsFiniteSet(signed) /\ IsFiniteSet(checkpointed) /\ issued \in Nat
      /\ Cardinality(signed) + Cardinality(checkpointed) <= issued
  BY DEF SignCheckpoint, Ledger
<1>2. /\ IsFiniteSet(checkpointed') /\ Cardinality(signed) \in Nat /\ Cardinality(checkpointed) \in Nat
      /\ \/ Cardinality(checkpointed') = Cardinality(checkpointed)
         \/ Cardinality(checkpointed') = Cardinality(checkpointed) + 1
  BY <1>1, FS_AddElement, FS_CardinalityType
<1>3. Cardinality(signed') + Cardinality(checkpointed') <= issued'
  BY <1>1, <1>2
<1>4. \A a \in signed' : Attested(a)
  BY <1>1 DEF Ledger
<1>5. LastCheckpoint \in checkpointed'
  <2>1. cp \in checkpointed' /\ cp.issued = issued'
    BY <1>1 DEF sign_registry_checkpoint
  <2> QED
    BY <2>1 DEF LastCheckpoint
<1>6. \A c \in checkpointed' : Sealed(c)
  <2>1. Sealed(cp)
    BY DEF Sealed
  <2> QED
    BY <1>1, <2>1 DEF Ledger
<1> QED
  BY <1>1, <1>2, <1>3, <1>4, <1>5, <1>6 DEF Ledger

LEMMA WorksStay ==
  ASSUME Works, Grows, op' = op
  PROVE  Works'
BY ProgressGrows DEF Works, Grows

LEMMA WorksMove ==
  ASSUME Works, Grows, DOMAIN op = Operators, NEW o \in Operators, NEW v, op' = [op EXCEPT ![o] = v],
         Progress(v, signed', checkpointed', onceTrusted', intact')
  PROVE  Works'
<1>1. op'[o] = v /\ \A q \in Operators : q # o => op'[q] = op[q]
  OBVIOUS
<1>2. \A q \in Operators : Progress(op[q], signed', checkpointed', onceTrusted', intact')
  BY ProgressGrows DEF Works, Grows
<1> QED
  BY <1>1, <1>2 DEF Works

LEMMA PublishableGrows ==
  ASSUME Grows, NEW f, NEW x, Publishable(f, x, signed, checkpointed, onceTrusted, intact)
  PROVE  Publishable(f, x, signed', checkpointed', onceTrusted', intact')
<1>1. \A reg : Listed(reg, signed, onceTrusted, intact) => Listed(reg, signed', onceTrusted', intact')
  BY ListedGrows DEF Grows
<1> QED
  BY <1>1 DEF Publishable, Grows

LEMMA PublishedStays ==
  ASSUME Published, Grows, files' = files
  PROVE  Published'
BY PublishableGrows DEF Published

\* A file more, or one taken away.
LEMMA PublishedPut ==
  ASSUME Published, Grows, NEW d \in Dirs, NEW f \in FileName, NEW e,
         Placed(files, files', d, f, e),
         e # None => Publishable(f, e[1], signed', checkpointed', onceTrusted', intact')
  PROVE  Published'
<1>1. SUFFICES ASSUME NEW d2 \in Dirs, NEW f2 \in FileName, files'[d2][f2] # None
               PROVE  Publishable(f2, files'[d2][f2][1], signed', checkpointed', onceTrusted', intact')
  BY DEF Published
<1>2. CASE d2 = d /\ f2 = f
  BY <1>1, <1>2 DEF Placed
<1>3. CASE ~(d2 = d /\ f2 = f)
  <2>1. files'[d2][f2] = files[d2][f2]
    BY <1>3 DEF Placed
  <2>2. Publishable(f2, files[d2][f2][1], signed, checkpointed, onceTrusted, intact)
    BY <1>1, <2>1 DEF Published
  <2> QED
    BY <2>1, <2>2, PublishableGrows
<1> QED
  BY <1>2, <1>3

LEMMA ListedFile ==
  ASSUME Published, NEW d \in Dirs, files[d]["registry.json"] # None
  PROVE  Listed(files[d]["registry.json"][1], signed, onceTrusted, intact)
<1>1. "registry.json" \in FileName
  BY Names
<1> QED
  BY <1>1 DEF Published, Publishable

LEMMA AcceptedStays ==
  ASSUME AcceptedIsSigned, Grows, probe' = probe
  PROVE  AcceptedIsSigned'
BY DEF AcceptedIsSigned, Grows

\* A run that ends keeps what the others hold.
LEMMA FailKeeps ==
  ASSUME Works, Disk, Grows, files' = files, NEW o \in Operators, Fail(o)
  PROVE  Works' /\ Disk'
<1>1. op' = [op EXCEPT ![o] = Idle]
  BY DEF Fail, Goto
<1>2. Disk'
  BY <1>1, DiskMoves, IdleProgress DEF Grows
<1>3. Works'
  BY <1>1, WorksMove, IdleProgress DEF Disk
<1> QED
  BY <1>2, <1>3

LEMMA EventCounts ==
  ASSUME World, Event
  PROVE  events' \in 0..MaxEvents
BY DeskAssumption DEF World, Event, DeskAssumption

-----------------------------------------------------------------------------
(* The workflow, statement by statement *)

LEMMA BeginKeeps ==
  ASSUME DeskInv, NEW o \in Operators, Begin(o)
  PROVE  DeskInv'
<1> PICK d \in Dirs, base \in {None} \cup {<<b>> : b \in Dirs} :
      Goto(o, [Idle EXCEPT !.pc = "sign", !.dir = d, !.base = base, !.read = evidence, !.keys = trusted])
  BY DEF Begin
<1> PICK v : v = [Idle EXCEPT !.pc = "sign", !.dir = d, !.base = base, !.read = evidence, !.keys = trusted]
  OBVIOUS
<1>1. /\ op' = [op EXCEPT ![o] = v] /\ files' = files /\ op[o].pc = "idle"
      /\ probe' = probe /\ Grows
  BY DEF Goto, Begin, Grows
<1>2. Shaped(v) /\ v.pc = "sign" /\ v.dir = d /\ v.keys = trusted /\ v.written = 0 /\ v.undone = 0
      /\ v.base = base
  BY DEF Idle, Shaped, Fields
<1>20. base # None => base[1] \in Dirs
  OBVIOUS
<1>3. Progress(v, signed', checkpointed', onceTrusted', intact')
  BY <1>1, <1>2, <1>20 DEF Begin, Progress, Stages, Writing, DeskInv, World
<1>4. Works'
  BY <1>1, <1>3, WorksMove DEF DeskInv, Disk
<1>5. Disk'
  <2>1. \A i \in 1..5 : ~Owned(v, i)
    BY <1>2 DEF Owned
  <2> QED
    BY <1>1, <2>1, DiskMoves DEF DeskInv, Grows
<1>6. World' /\ Ledger'
  <2>1. Event /\ UNCHANGED <<evidence, signer, trusted, onceTrusted, signed, checkpointed, issued, stranded>>
    BY DEF Begin
  <2> QED
    BY <2>1, EventCounts, LedgerStays DEF DeskInv, World
<1> QED
  BY <1>1, <1>4, <1>5, <1>6, PublishedStays, AcceptedStays DEF DeskInv

LEMMA RequestAttestationKeeps ==
  ASSUME DeskInv, NEW o \in Operators, RequestAttestation(o)
  PROVE  DeskInv'
<1> PICK w, att : w = op[o] /\ att = Signature(CaseOf[op[o].read], {op[o].read}, issued + 1)
  OBVIOUS
<1>1. /\ w.pc = "sign" /\ SignAttestation(att) /\ files' = files /\ probe' = probe
      /\ onceTrusted' = onceTrusted /\ intact' = intact /\ stranded' = stranded
      /\ Goto(o, [w EXCEPT !.pc = "verify", !.att = att]) \/ Fail(o)
  BY DEF RequestAttestation
<1>2. Attested(att)
  BY SignedIs DEF Signature, DeskInv, Ledger
<1>3. Ledger' /\ att \in signed' /\ Grows
  BY <1>1, <1>2, LedgerSigns DEF DeskInv, Grows
<1>4. World'
  BY DEF DeskInv, World, RequestAttestation
<1>5. Works' /\ Disk'
  <2>1. CASE Fail(o)
    BY <1>1, <1>3, <2>1, FailKeeps DEF DeskInv
  <2>2. CASE Goto(o, [w EXCEPT !.pc = "verify", !.att = att])
    <3> PICK v : v = [w EXCEPT !.pc = "verify", !.att = att]
      OBVIOUS
    <3>1. op' = [op EXCEPT ![o] = v]
      BY <2>2 DEF Goto
    <3>2. Progress(w, signed, checkpointed, onceTrusted, intact)
      BY DEF DeskInv, Works
    <3>3. DOMAIN w = Fields
      BY <3>2 DEF Progress, Shaped
    <3>4. /\ DOMAIN v = Fields /\ v.pc = "verify" /\ v.att = att /\ v.dir = w.dir /\ v.keys = w.keys
          /\ v.base = w.base
          /\ v.written = w.written /\ v.undone = w.undone
      BY <3>3 DEF Fields
    <3>5. Progress(v, signed', checkpointed', onceTrusted', intact')
      BY <1>1, <1>3, <3>2, <3>4 DEF Progress, Stages, Shaped, Writing
    <3>6. \A i \in 1..5 : ~Owned(v, i)
      BY <1>1, <3>2, <3>4 DEF Progress, Owned, Writing
    <3>7. Disk'
      BY <1>1, <3>1, <3>6, DiskMoves DEF DeskInv, Grows
    <3> QED
      BY <1>3, <3>1, <3>5, <3>7, WorksMove DEF DeskInv, Disk
  <2> QED
    BY <1>1, <2>1, <2>2
<1> QED
  BY <1>1, <1>3, <1>4, <1>5, PublishedStays, AcceptedStays DEF DeskInv

LEMMA VerifyAttestationKeeps ==
  ASSUME DeskInv, NEW o \in Operators, VerifyAttestation(o)
  PROVE  DeskInv'
<1> PICK w : w = op[o]
  OBVIOUS
<1>1. /\ w.pc = "verify" /\ files' = files /\ probe' = probe /\ Grows
      /\ signed' = signed /\ checkpointed' = checkpointed /\ onceTrusted' = onceTrusted
  BY DEF VerifyAttestation, Grows
<1>2. \/ /\ verify_attestation(w.att, w.keys, <<CaseOf[w.read]>>, <<evidence>>) = "VALID"
         /\ Goto(o, [w EXCEPT !.pc = "register"]) /\ intact' = intact \cup {w.att}
      \/ Fail(o)
  BY DEF VerifyAttestation
<1>3. World' /\ Ledger'
  BY LedgerStays DEF VerifyAttestation, DeskInv, World
<1>4. Works' /\ Disk'
  <2>1. CASE Fail(o)
    BY <1>1, <2>1, FailKeeps DEF DeskInv
  <2>2. CASE /\ verify_attestation(w.att, w.keys, <<CaseOf[w.read]>>, <<evidence>>) = "VALID"
             /\ Goto(o, [w EXCEPT !.pc = "register"]) /\ intact' = intact \cup {w.att}
    <3> PICK v : v = [w EXCEPT !.pc = "register"]
      OBVIOUS
    <3>1. op' = [op EXCEPT ![o] = v]
      BY <2>2 DEF Goto
    <3>2. Progress(w, signed, checkpointed, onceTrusted, intact)
      BY DEF DeskInv, Works
    <3>3. DOMAIN w = Fields
      BY <3>2 DEF Progress, Shaped
    <3>4. /\ DOMAIN v = Fields /\ v.pc = "register" /\ v.att = w.att /\ v.dir = w.dir /\ v.base = w.base
          /\ v.keys = w.keys /\ v.written = w.written /\ v.undone = w.undone
      BY <3>3 DEF Fields
    <3>5. w.att.body.key \in w.keys
      BY <2>2, ValidTells
    <3>6. Progress(v, signed', checkpointed', onceTrusted', intact')
      BY <1>1, <2>2, <3>2, <3>4, <3>5 DEF Progress, Stages, Shaped, Writing
    <3>7. \A i \in 1..5 : ~Owned(v, i)
      BY <1>1, <3>2, <3>4 DEF Progress, Owned, Writing
    <3>8. Disk'
      BY <1>1, <3>1, <3>7, DiskMoves DEF DeskInv, Grows
    <3> QED
      BY <1>1, <3>1, <3>6, <3>8, WorksMove DEF DeskInv, Disk
  <2> QED
    BY <1>2, <2>1, <2>2
<1> QED
  BY <1>1, <1>3, <1>4, PublishedStays, AcceptedStays DEF DeskInv

LEMMA RegisterKeeps ==
  ASSUME DeskInv, NEW o \in Operators, Register(o)
  PROVE  DeskInv'
<1> PICK w, r : w = op[o] /\ r = Appended(w.att, w.base)
  OBVIOUS
<1>1. /\ w.pc = "register" /\ files' = files /\ probe' = probe /\ Grows
      /\ UNCHANGED <<signed, checkpointed, onceTrusted, intact, stranded>>
  BY DEF Register, Grows
<1>2. Fail(o) \/ (r # None /\ Goto(o, [w EXCEPT !.pc = "checkpoint", !.reg = r[1]]))
  BY DEF Register
<1>3. World' /\ Ledger'
  BY LedgerStays DEF Register, DeskInv, World
<1>4. Works' /\ Disk'
  <2>1. CASE Fail(o)
    BY <1>1, <2>1, FailKeeps DEF DeskInv
  <2>2. CASE r # None /\ Goto(o, [w EXCEPT !.pc = "checkpoint", !.reg = r[1]])
    <3> PICK v : v = [w EXCEPT !.pc = "checkpoint", !.reg = r[1]]
      OBVIOUS
    <3>1. op' = [op EXCEPT ![o] = v]
      BY <2>2 DEF Goto
    <3>2. Progress(w, signed, checkpointed, onceTrusted, intact)
      BY DEF DeskInv, Works
    <3>3. DOMAIN w = Fields
      BY <3>2 DEF Progress, Shaped
    <3>4. /\ DOMAIN v = Fields /\ v.pc = "checkpoint" /\ v.att = w.att /\ v.dir = w.dir
          /\ v.keys = w.keys /\ v.written = w.written /\ v.undone = w.undone /\ v.reg = r[1]
      BY <3>3 DEF Fields
    <3>5. Listed(v.reg, signed, onceTrusted, intact)
      <4>1. Listable(w.att, signed, onceTrusted, intact)
        BY <1>1, <3>2 DEF Progress, Listable
      <4>2. CASE w.base = None
        BY <2>2, <3>4, <4>1, <4>2, AppendedIsListed
      <4>3. CASE w.base # None /\ files[w.base[1]]["registry.json"] = None
        BY <2>2, <3>4, <4>1, <4>3, AppendedIsListed
      <4>4. CASE w.base # None /\ files[w.base[1]]["registry.json"] # None
        <5>1. w.base[1] \in Dirs
          BY <1>1, <3>2, <4>4 DEF Progress
        <5>2. Listed(files[w.base[1]]["registry.json"][1], signed, onceTrusted, intact)
          BY <4>4, <5>1, ListedFile DEF DeskInv
        <5> QED
          BY <2>2, <3>4, <4>1, <4>4, <5>2, AppendedIsListed
      <4> QED
        BY <4>2, <4>3, <4>4
    <3>6. Progress(v, signed', checkpointed', onceTrusted', intact')
      BY <1>1, <3>2, <3>4, <3>5 DEF Progress, Stages, Shaped, Writing
    <3>7. \A i \in 1..5 : ~Owned(v, i)
      BY <1>1, <3>2, <3>4 DEF Progress, Owned, Writing
    <3>8. Disk'
      BY <1>1, <3>1, <3>7, DiskMoves DEF DeskInv, Grows
    <3> QED
      BY <1>1, <3>1, <3>6, <3>8, WorksMove DEF DeskInv, Disk
  <2> QED
    BY <1>2, <2>1, <2>2
<1> QED
  BY <1>1, <1>3, <1>4, PublishedStays, AcceptedStays DEF DeskInv

\* A checkpoint that is verified against a snapshot is of that snapshot.
LEMMA CheckpointTells ==
  ASSUME NEW cp, NEW keys, NEW reg, verify_signed_checkpoint(cp, keys, <<reg>>)
  PROVE  cp.registry = reg
BY HeldIsThere DEF verify_signed_checkpoint

LEMMA RequestCheckpointKeeps ==
  ASSUME DeskInv, NEW o \in Operators, RequestCheckpoint(o)
  PROVE  DeskInv'
<1> PICK w, proof, lc : /\ w = op[o] /\ proof = build_inclusion_proof(w.reg, w.att.id)
                        /\ lc = LastCheckpoint
  OBVIOUS
<1>1. /\ w.pc = "checkpoint" /\ SignCheckpoint(w.reg) /\ files' = files /\ probe' = probe
      /\ UNCHANGED <<onceTrusted, intact, stranded>>
  BY DEF RequestCheckpoint
<1>2. \/ Fail(o)
      \/ /\ verify_signed_checkpoint(lc, w.keys, <<w.reg>>)
         /\ Goto(o, [w EXCEPT !.pc = "write", !.cp = lc, !.proof = proof])
  BY DEF RequestCheckpoint
<1>3. Ledger' /\ lc \in checkpointed' /\ Grows /\ signed' = signed
  BY <1>1, LedgerCheckpoints DEF DeskInv, Grows
<1>4. World'
  BY DEF RequestCheckpoint, DeskInv, World
<1>5. Works' /\ Disk'
  <2>1. CASE Fail(o)
    BY <1>1, <1>3, <2>1, FailKeeps DEF DeskInv
  <2>2. CASE /\ verify_signed_checkpoint(lc, w.keys, <<w.reg>>)
             /\ Goto(o, [w EXCEPT !.pc = "write", !.cp = lc, !.proof = proof])
    <3> PICK v : v = [w EXCEPT !.pc = "write", !.cp = lc, !.proof = proof]
      OBVIOUS
    <3>1. op' = [op EXCEPT ![o] = v] /\ lc.registry = w.reg
      BY <2>2, CheckpointTells DEF Goto
    <3>2. Progress(w, signed, checkpointed, onceTrusted, intact)
      BY DEF DeskInv, Works
    <3>3. DOMAIN w = Fields
      BY <3>2 DEF Progress, Shaped
    <3>4. /\ DOMAIN v = Fields /\ v.pc = "write" /\ v.att = w.att /\ v.dir = w.dir
          /\ v.keys = w.keys /\ v.written = w.written /\ v.undone = w.undone /\ v.reg = w.reg
          /\ v.cp = lc /\ v.proof = proof
      BY <3>3 DEF Fields
    <3>5. w.written = 0 /\ w.undone = 0
      BY <1>1, <3>2 DEF Progress, Writing
    <3>6. Progress(v, signed', checkpointed', onceTrusted', intact')
      BY <1>1, <1>3, <3>1, <3>2, <3>4, <3>5 DEF Progress, Stages, Shaped, Writing
    <3>7. \A i \in 1..5 : ~Owned(v, i)
      BY <3>4, <3>5 DEF Owned
    <3>8. Disk'
      BY <1>1, <3>1, <3>7, DiskMoves DEF DeskInv, Grows
    <3> QED
      BY <1>3, <3>1, <3>6, <3>8, WorksMove DEF DeskInv, Disk
  <2> QED
    BY <1>2, <2>1, <2>2
<1> QED
  BY <1>1, <1>3, <1>4, <1>5, PublishedStays, AcceptedStays DEF DeskInv

\* What a run that writes may put in the file at hand.
LEMMA WritesPublishable ==
  ASSUME NEW w, NEW S, NEW C, NEW T, NEW I, Progress(w, S, C, T, I), w.pc \in Writing, NEW f
  PROVE  Publishable(f, Payload(w, f), S, C, T, I)
<1>1. /\ f = "attestation.json" => Payload(w, f) = w.att
      /\ f = "registry.json" => Payload(w, f) = w.reg
      /\ f = "checkpoint.json" => Payload(w, f) = w.cp
  BY PayloadIs
<1>2. w.att \in S /\ Listed(w.reg, S, T, I) /\ w.cp \in C /\ w.cp.registry = w.reg
  BY DEF Progress, Writing
<1> QED
  BY <1>1, <1>2 DEF Publishable

LEMMA CreateNewJsonKeeps ==
  ASSUME DeskInv, NEW o \in Operators, CreateNewJson(o)
  PROVE  DeskInv'
<1> PICK w, f : w = op[o] /\ f = OutputFiles[w.written + 1]
  OBVIOUS
<1>1. /\ w.pc = "write" /\ probe' = probe /\ Grows
      /\ UNCHANGED <<evidence, signer, trusted, issued, signed, checkpointed, onceTrusted, intact, stranded, events>>
  BY DEF CreateNewJson, Grows
<1>2. \/ /\ CanCreate(w.dir, f) /\ files' = [files EXCEPT ![w.dir][f] = <<Payload(w, f)>>]
         /\ Goto(o, [w EXCEPT !.pc = "sync"])
      \/ Goto(o, [w EXCEPT !.pc = "undo"]) /\ UNCHANGED files
  BY DEF CreateNewJson
<1>3. World' /\ Ledger'
  BY <1>1, LedgerStays DEF DeskInv, World
<1>4. Progress(w, signed, checkpointed, onceTrusted, intact) /\ w.pc \in Writing
  BY <1>1 DEF DeskInv, Works, Writing
<1>5. DOMAIN w = Fields /\ w.dir \in Dirs /\ w.written \in 0..4 /\ w.undone \in 0..w.written /\ w.undone = 0
  BY <1>1, <1>4 DEF Progress, Shaped
<1>6. w.written + 1 \in 1..5 /\ f \in FileName
  BY <1>5, Numbering
<1>7. ASSUME NEW stage \in {"sync", "undo"}, NEW v, v = [w EXCEPT !.pc = stage],
             op' = [op EXCEPT ![o] = v]
      PROVE  /\ SameOutputs(w, v) /\ v.pc = stage /\ v.written = w.written /\ v.undone = w.undone
             /\ Works'
  <2>1. /\ DOMAIN v = Fields /\ v.pc = stage /\ SameOutputs(w, v) /\ v.keys = w.keys
        /\ v.written = w.written /\ v.undone = w.undone
    BY <1>5, <1>7 DEF Fields, SameOutputs
  <2>2. Progress(v, signed, checkpointed, onceTrusted, intact)
    BY <1>4, <1>5, <2>1, WritesOn DEF Shaped, Writing
  <2>3. Works'
    BY <1>1, <1>7, <2>2, WorksMove DEF DeskInv, Disk
  <2> QED
    BY <2>1, <2>3
<1>8. Works' /\ Disk' /\ Published'
  <2>1. CASE Goto(o, [w EXCEPT !.pc = "undo"]) /\ UNCHANGED files
    <3>0. PICK v : v = [w EXCEPT !.pc = "undo"]
      OBVIOUS
    <3>1. op' = [op EXCEPT ![o] = v] /\ files' = files
      BY <2>1, <3>0 DEF Goto
    <3>2. /\ SameOutputs(w, v) /\ v.pc = "undo" /\ v.written = w.written /\ v.undone = w.undone
          /\ Works'
      BY <1>7, <3>0, <3>1
    <3>3. \A i \in 1..5 : Payload(v, OutputFiles[i]) = Payload(w, OutputFiles[i]) /\ v.dir = w.dir
      BY <3>2, SamePayload
    <3>4. \A i \in 1..5 : Owned(v, i) => Owned(w, i) /\ ~SyncsSummary(w)
      BY <1>1, <3>2 DEF Owned, SyncsSummary
    <3>5. Disk'
      BY <1>1, <3>1, <3>3, <3>4, DiskMoves DEF DeskInv, Grows
    <3> QED
      BY <1>1, <3>1, <3>2, <3>5, PublishedStays DEF DeskInv
  <2>2. CASE /\ CanCreate(w.dir, f) /\ files' = [files EXCEPT ![w.dir][f] = <<Payload(w, f)>>]
             /\ Goto(o, [w EXCEPT !.pc = "sync"])
    <3>0. PICK v : v = [w EXCEPT !.pc = "sync"]
      OBVIOUS
    <3>1. op' = [op EXCEPT ![o] = v]
      BY <2>2, <3>0 DEF Goto
    <3>2. /\ SameOutputs(w, v) /\ v.pc = "sync" /\ v.written = w.written /\ v.undone = w.undone
          /\ Works'
      BY <1>7, <3>0, <3>1
    <3>3. Disk'
      BY <1>1, <1>4, <2>2, <3>1, <3>2, DiskWrites DEF DeskInv
    <3>4. Published'
      <4> PICK e : e = <<Payload(w, f)>>
        OBVIOUS
      <4>1. Placed(files, files', w.dir, f, e)
        <5>1. Shape(files) /\ Put(files, files', w.dir, f, e)
          BY <2>2 DEF DeskInv, Disk, Put
        <5> QED
          BY <1>5, <1>6, <5>1, OneFile
      <4>2. e # None => Publishable(f, e[1], signed', checkpointed', onceTrusted', intact')
        BY <1>1, <1>4, WritesPublishable
      <4> QED
        BY <1>1, <1>5, <1>6, <4>1, <4>2, PublishedPut DEF DeskInv
    <3> QED
      BY <3>2, <3>3, <3>4
  <2> QED
    BY <1>2, <2>1, <2>2
<1> QED
  BY <1>1, <1>3, <1>8, AcceptedStays DEF DeskInv

LEMMA SyncNewJsonKeeps ==
  ASSUME DeskInv, NEW o \in Operators, SyncNewJson(o)
  PROVE  DeskInv'
<1> PICK w, k, f : w = op[o] /\ k = w.written + 1 /\ f = OutputFiles[k]
  OBVIOUS
<1>1. /\ w.pc = "sync" /\ probe' = probe
      /\ UNCHANGED <<evidence, signer, trusted, issued, signed, checkpointed, onceTrusted, intact, events>>
  BY DEF SyncNewJson
<1>2. \/ /\ IF k = Len(OutputFiles) THEN Fail(o) ELSE Goto(o, [w EXCEPT !.pc = "write", !.written = k])
         /\ UNCHANGED <<files, stranded>>
      \/ /\ files' = [files EXCEPT ![w.dir][f] = None]
         /\ Goto(o, [w EXCEPT !.pc = "undo"]) /\ UNCHANGED stranded
      \/ /\ Goto(o, [w EXCEPT !.pc = "undo"]) /\ UNCHANGED files
         /\ stranded' = IF f = Summary THEN stranded \cup {w.dir} ELSE stranded
  BY DEF SyncNewJson, Summary
<1>3. Progress(w, signed, checkpointed, onceTrusted, intact) /\ w.pc \in Writing
  BY <1>1 DEF DeskInv, Works, Writing
<1>4. DOMAIN w = Fields /\ w.dir \in Dirs /\ w.written \in 0..4 /\ w.undone \in 0..w.written /\ w.undone = 0
  BY <1>1, <1>3 DEF Progress, Shaped
<1>5. k \in 1..5 /\ f \in FileName /\ (k = 5 <=> w.written = 4) /\ (k = 5 => f = Summary)
  BY <1>4, Numbering
<1>6. Grows /\ stranded' \subseteq Dirs
  BY <1>1, <1>2, <1>4 DEF Grows, DeskInv, World
<1>7. World' /\ Ledger'
  BY <1>1, <1>6, LedgerStays DEF DeskInv, World
<1>8. \A i \in 1..5 : Owned(w, i) <=> i <= k
  BY <1>1, <1>4, <1>5 DEF Owned
<1>9. ASSUME NEW v, v = [w EXCEPT !.pc = "undo"], op' = [op EXCEPT ![o] = v]
      PROVE  /\ SameOutputs(w, v) /\ Works'
             /\ \A i \in 1..5 : Owned(v, i) => i # k /\ Owned(w, i)
  <2>1. /\ DOMAIN v = Fields /\ v.pc = "undo" /\ SameOutputs(w, v) /\ v.keys = w.keys
        /\ v.written = w.written /\ v.undone = w.undone
    BY <1>4, <1>9 DEF Fields, SameOutputs
  <2>2. Progress(v, signed, checkpointed, onceTrusted, intact)
    BY <1>3, <1>4, <2>1, WritesOn DEF Shaped, Writing
  <2>3. Works'
    BY <1>1, <1>6, <1>9, <2>2, WorksMove DEF DeskInv, Disk
  <2>4. \A i \in 1..5 : Owned(v, i) => i # k /\ Owned(w, i)
    BY <1>4, <1>5, <1>8, <2>1 DEF Owned
  <2> QED
    BY <2>1, <2>3, <2>4
<1>10. Works' /\ Disk' /\ Published'
  <2>1. CASE k = Len(OutputFiles) /\ Fail(o) /\ UNCHANGED files
    BY <1>6, <2>1, FailKeeps, PublishedStays DEF DeskInv
  <2>2. CASE k # Len(OutputFiles) /\ Goto(o, [w EXCEPT !.pc = "write", !.written = k]) /\ UNCHANGED files
    <3>0. PICK v : v = [w EXCEPT !.pc = "write", !.written = k]
      OBVIOUS
    <3>1. op' = [op EXCEPT ![o] = v] /\ files' = files /\ k # 5
      BY <2>2, <3>0, Names DEF Goto
    <3>2. /\ DOMAIN v = Fields /\ v.pc = "write" /\ SameOutputs(w, v) /\ v.keys = w.keys
          /\ v.written = k /\ v.undone = 0
      BY <1>4, <3>0 DEF Fields, SameOutputs
    <3>3. v.written \in 0..4 /\ v.undone \in 0..v.written
      BY <1>5, <3>1, <3>2
    <3>4. Progress(v, signed, checkpointed, onceTrusted, intact)
      BY <1>3, <3>2, <3>3, WritesOn DEF Shaped, Writing
    <3>5. \A i \in 1..5 : Payload(v, OutputFiles[i]) = Payload(w, OutputFiles[i]) /\ v.dir = w.dir
      BY <3>2, SamePayload
    <3>6. (\A i \in 1..5 : Owned(v, i) => Owned(w, i)) /\ ~SyncsSummary(w)
      BY <1>5, <1>8, <3>1, <3>2 DEF Owned, SyncsSummary
    <3>7. Disk'
      BY <1>6, <3>1, <3>5, <3>6, DiskMoves DEF DeskInv, Grows
    <3>8. Works'
      BY <1>1, <1>6, <3>1, <3>4, WorksMove DEF DeskInv, Disk
    <3> QED
      BY <1>6, <3>1, <3>7, <3>8, PublishedStays DEF DeskInv
  <2>3. CASE /\ files' = [files EXCEPT ![w.dir][f] = None]
             /\ Goto(o, [w EXCEPT !.pc = "undo"]) /\ UNCHANGED stranded
    <3>0. PICK v : v = [w EXCEPT !.pc = "undo"]
      OBVIOUS
    <3>1. op' = [op EXCEPT ![o] = v]
      BY <2>3, <3>0 DEF Goto
    <3>2. SameOutputs(w, v) /\ Works' /\ \A i \in 1..5 : Owned(v, i) => i # k /\ Owned(w, i)
      BY <1>9, <3>0, <3>1
    <3>3. Owned(w, k) /\ (SyncsSummary(w) => k = 5)
      BY <1>5, <1>8 DEF SyncsSummary
    <3>4. Disk'
      BY <1>5, <2>3, <3>1, <3>2, <3>3, DiskUnlinks DEF DeskInv
    <3>5. Placed(files, files', w.dir, f, None)
      <4>1. Shape(files) /\ Put(files, files', w.dir, f, None)
        BY <2>3 DEF DeskInv, Disk, Put
      <4> QED
        BY <1>4, <1>5, <4>1, OneFile
    <3>6. Published'
      BY <1>4, <1>5, <1>6, <3>5, PublishedPut DEF DeskInv
    <3> QED
      BY <3>2, <3>4, <3>6
  <2>4. CASE /\ Goto(o, [w EXCEPT !.pc = "undo"]) /\ UNCHANGED files
             /\ stranded' = IF f = Summary THEN stranded \cup {w.dir} ELSE stranded
    <3>0. PICK v : v = [w EXCEPT !.pc = "undo"]
      OBVIOUS
    <3>1. op' = [op EXCEPT ![o] = v] /\ files' = files
      BY <2>4, <3>0 DEF Goto
    <3>2. SameOutputs(w, v) /\ Works' /\ \A i \in 1..5 : Owned(v, i) => Owned(w, i)
      BY <1>9, <3>0, <3>1
    <3>3. \A i \in 1..5 : Payload(v, OutputFiles[i]) = Payload(w, OutputFiles[i]) /\ v.dir = w.dir
      BY <3>2, SamePayload
    <3>4. SyncsSummary(w) => w.dir \in stranded'
      BY <1>5, <2>4 DEF SyncsSummary
    <3>5. Disk'
      BY <1>6, <3>1, <3>2, <3>3, <3>4, DiskMoves DEF DeskInv, Grows
    <3> QED
      BY <1>6, <3>1, <3>2, <3>5, PublishedStays DEF DeskInv
  <2> QED
    BY <1>2, <2>1, <2>2, <2>3, <2>4
<1> QED
  BY <1>1, <1>6, <1>7, <1>10, AcceptedStays DEF DeskInv

LEMMA UnlinkKeeps ==
  ASSUME DeskInv, NEW o \in Operators, Unlink(o)
  PROVE  DeskInv'
<1> PICK w, k, f : w = op[o] /\ k = w.undone + 1 /\ f = OutputFiles[k]
  OBVIOUS
<1>1. /\ w.pc = "undo" /\ probe' = probe /\ Grows
      /\ UNCHANGED <<evidence, signer, trusted, issued, signed, checkpointed, onceTrusted, intact, stranded, events>>
  BY DEF Unlink, Grows
<1>2. \/ Fail(o) /\ UNCHANGED files
      \/ /\ w.undone # w.written
         /\ files' = [files EXCEPT ![w.dir][f] = None] \/ UNCHANGED files
         /\ Goto(o, [w EXCEPT !.undone = k])
  BY DEF Unlink, Written
<1>3. World' /\ Ledger'
  BY <1>1, LedgerStays DEF DeskInv, World
<1>4. Progress(w, signed, checkpointed, onceTrusted, intact) /\ w.pc \in Writing
  BY <1>1 DEF DeskInv, Works, Writing
<1>5. DOMAIN w = Fields /\ w.dir \in Dirs /\ w.written \in 0..4 /\ w.undone \in 0..w.written
  BY <1>1, <1>4 DEF Progress, Shaped
<1>6. Works' /\ Disk' /\ Published'
  <2>1. CASE Fail(o) /\ UNCHANGED files
    BY <1>1, <2>1, FailKeeps, PublishedStays DEF DeskInv
  <2>2. CASE /\ w.undone # w.written
             /\ files' = [files EXCEPT ![w.dir][f] = None] \/ UNCHANGED files
             /\ Goto(o, [w EXCEPT !.undone = k])
    <3>0. PICK v : v = [w EXCEPT !.undone = k]
      OBVIOUS
    <3>1. op' = [op EXCEPT ![o] = v]
      BY <2>2, <3>0 DEF Goto
    <3>2. /\ DOMAIN v = Fields /\ SameOutputs(w, v) /\ v.pc = "undo" /\ v.keys = w.keys
          /\ v.written = w.written /\ v.undone = k
      BY <1>1, <1>5, <3>0 DEF Fields, SameOutputs
    <3>3. k \in 1..w.written /\ k \in 1..5
      BY <1>5, <2>2
    <3>4. Progress(v, signed, checkpointed, onceTrusted, intact)
      <4>1. v.undone \in 0..v.written /\ v.written \in 0..4
        BY <1>5, <3>2, <3>3
      <4> QED
        BY <1>4, <3>2, <4>1, WritesOn DEF Shaped, Writing
    <3>5. Works'
      BY <1>1, <3>1, <3>4, WorksMove DEF DeskInv, Disk
    <3>6. /\ Owned(w, k) /\ ~SyncsSummary(w)
          /\ \A i \in 1..5 : Owned(v, i) => Owned(w, i) /\ i # k
      BY <1>1, <1>5, <3>2, <3>3 DEF Owned, SyncsSummary
    <3>7. f \in FileName
      BY <3>3, Numbering
    <3>8. CASE UNCHANGED files
      <4>1. \A i \in 1..5 : Payload(v, OutputFiles[i]) = Payload(w, OutputFiles[i]) /\ v.dir = w.dir
        BY <3>2, SamePayload
      <4>2. Disk'
        BY <1>1, <3>1, <3>6, <3>8, <4>1, DiskMoves DEF DeskInv, Grows
      <4> QED
        BY <1>1, <3>5, <3>8, <4>2, PublishedStays DEF DeskInv
    <3>9. CASE files' = [files EXCEPT ![w.dir][f] = None]
      <4>1. Disk'
        BY <1>1, <3>1, <3>2, <3>3, <3>6, <3>9, DiskUnlinks DEF DeskInv
      <4>2. Placed(files, files', w.dir, f, None)
        <5>1. Shape(files) /\ Put(files, files', w.dir, f, None)
          BY <3>9 DEF DeskInv, Disk, Put
        <5> QED
          BY <1>5, <3>7, <5>1, OneFile
      <4>3. Published'
        BY <1>1, <1>5, <3>7, <4>2, PublishedPut DEF DeskInv
      <4> QED
        BY <3>5, <4>1, <4>3
    <3> QED
      BY <2>2, <3>8, <3>9
  <2> QED
    BY <1>2, <2>1, <2>2
<1> QED
  BY <1>1, <1>3, <1>6, AcceptedStays DEF DeskInv

LEMMA KilledKeeps ==
  ASSUME DeskInv, NEW o \in Operators, Killed(o)
  PROVE  DeskInv'
<1>1. /\ Fail(o) /\ files' = files /\ probe' = probe /\ Grows
      /\ UNCHANGED <<evidence, signer, trusted, issued, signed, checkpointed, onceTrusted, intact, stranded, events>>
  BY DEF Killed, Grows
<1>2. World' /\ Ledger'
  BY <1>1, LedgerStays DEF DeskInv, World
<1>3. Works' /\ Disk'
  BY <1>1, FailKeeps DEF DeskInv
<1> QED
  BY <1>1, <1>2, <1>3, PublishedStays, AcceptedStays DEF DeskInv

-----------------------------------------------------------------------------
(* The commands *)

\* A command that signs or not, and creates one file or none.
LEMMA CommandKeeps ==
  ASSUME DeskInv, Event, Grows, Ledger', NEW d \in Dirs, NEW f \in FileName \ {Summary}, NEW x,
         UNCHANGED <<evidence, signer, trusted, op, onceTrusted, intact, stranded, probe>>,
         \/ UNCHANGED files
         \/ Create(d, f, x) /\ Publishable(f, x, signed', checkpointed', onceTrusted', intact')
  PROVE  DeskInv'
<1>1. World'
  BY EventCounts DEF DeskInv, World
<1>2. Works' /\ AcceptedIsSigned'
  BY WorksStay, AcceptedStays DEF DeskInv
<1>3. CASE UNCHANGED files
  BY <1>1, <1>2, <1>3, DiskStays, PublishedStays DEF DeskInv
<1>4. CASE Create(d, f, x) /\ Publishable(f, x, signed', checkpointed', onceTrusted', intact')
  <2>1. Disk'
    BY <1>4, DiskGrows DEF DeskInv
  <2>2. Published'
    <3> PICK e : e = <<x>>
      OBVIOUS
    <3>1. Placed(files, files', d, f, e)
      <4>1. Shape(files) /\ f \in FileName /\ Put(files, files', d, f, e)
        BY <1>4 DEF DeskInv, Disk, Put, Create
      <4> QED
        BY <4>1, OneFile
    <3>2. e # None => Publishable(f, e[1], signed', checkpointed', onceTrusted', intact')
      BY <1>4
    <3> QED
      BY <3>1, <3>2, PublishedPut DEF DeskInv
  <2> QED
    BY <1>1, <1>2, <2>1, <2>2 DEF DeskInv
<1> QED
  BY <1>3, <1>4

LEMMA CommandFiles ==
  /\ "attestation.json" \in FileName \ {Summary} /\ "registry.json" \in FileName \ {Summary}
  /\ "checkpoint.json" \in FileName \ {Summary} /\ "inclusion-proof.json" \in FileName \ {Summary}
BY Names DEF Summary

LEMMA RequestAttestationCommandKeeps ==
  ASSUME DeskInv, NEW d \in Dirs, _request_attestation(d)
  PROVE  DeskInv'
<1>1. PICK e \in Evidence, listed \in BOOLEAN, at \in {0, issued + 1} :
        LET att == Signature(CaseOf[e], IF listed THEN {e} ELSE {}, at) IN
        SignAttestation(att) /\ (UNCHANGED files \/ Create(d, "attestation.json", att))
  BY DEF _request_attestation
<1>2. PICK att : att = Signature(CaseOf[e], IF listed THEN {e} ELSE {}, at)
  OBVIOUS
<1>3. Event /\ UNCHANGED <<evidence, signer, trusted, op, onceTrusted, intact, stranded, probe>>
  BY DEF _request_attestation
<1>4. SignAttestation(att) /\ (UNCHANGED files \/ Create(d, "attestation.json", att))
  BY <1>1, <1>2
<1>5. Attested(att)
  <2>1. at \in Nat
    BY DEF DeskInv, Ledger
  <2> QED
    BY <1>2, <2>1, SignedIs DEF Signature
<1>6. Ledger' /\ att \in signed' /\ Grows
  BY <1>3, <1>4, <1>5, LedgerSigns DEF DeskInv, Grows
<1>7. Publishable("attestation.json", att, signed', checkpointed', onceTrusted', intact')
  BY <1>6 DEF Publishable
<1> QED
  BY <1>3, <1>4, <1>6, <1>7, CommandFiles, CommandKeeps

LEMMA CreateLocalKeeps ==
  ASSUME DeskInv, NEW d \in Dirs, _create_local_attestation(d)
  PROVE  DeskInv'
<1>1. PICK e \in Evidence, listed \in BOOLEAN, k \in Keys :
        LET att == sign_attestation(CaseOf[e], IF listed THEN {e} ELSE {}, 0, k) IN
        SignAttestation(att) /\ Create(d, "attestation.json", att)
  BY DEF _create_local_attestation
<1>2. PICK att : att = sign_attestation(CaseOf[e], IF listed THEN {e} ELSE {}, 0, k)
  OBVIOUS
<1>3. Event /\ UNCHANGED <<evidence, signer, trusted, op, onceTrusted, intact, stranded, probe>>
  BY DEF _create_local_attestation
<1>4. SignAttestation(att) /\ Create(d, "attestation.json", att)
  BY <1>1, <1>2
<1>5. Attested(att)
  BY <1>2, SignedIs
<1>6. Ledger' /\ att \in signed' /\ Grows
  BY <1>3, <1>4, <1>5, LedgerSigns DEF DeskInv, Grows
<1>7. Publishable("attestation.json", att, signed', checkpointed', onceTrusted', intact')
  BY <1>6 DEF Publishable
<1> QED
  BY <1>3, <1>4, <1>6, <1>7, CommandFiles, CommandKeeps

LEMMA AddKeeps ==
  ASSUME DeskInv, NEW d \in Dirs, _add(d)
  PROVE  DeskInv'
<1>1. PICK s \in Dirs, base \in {None} \cup {<<b>> : b \in Dirs} :
        LET att == files[s]["attestation.json"]
            reg == IF att = None THEN None ELSE Appended(att[1], base)
        IN /\ att # None /\ verify_attestation(att[1], trusted, None, None) = "VALID"
           /\ reg # None
           /\ Create(d, "registry.json", reg[1])
  BY DEF _add
<1>2. PICK a, r : a = files[s]["attestation.json"][1] /\ r = Appended(a, base)
  OBVIOUS
<1>3. /\ files[s]["attestation.json"] # None /\ verify_attestation(a, trusted, None, None) = "VALID"
      /\ r # None /\ Create(d, "registry.json", r[1])
  BY <1>1, <1>2
<1>4. /\ Event
      /\ UNCHANGED <<evidence, signer, trusted, op, issued, signed, checkpointed, onceTrusted, intact, stranded, probe>>
  BY DEF _add
<1>5. Ledger' /\ Grows
  BY <1>4, LedgerStays DEF DeskInv, Grows
<1>6. Listable(a, signed, onceTrusted, intact)
  <2>1. a \in signed
    BY <1>2, <1>3, CommandFiles DEF DeskInv, Published, Publishable
  <2>2. a.body.key \in trusted /\ a.body.artifacts = {}
    BY <1>3, ValidTells
  <2> QED
    BY <2>1, <2>2 DEF Listable, DeskInv, World
<1>7. Listed(r[1], signed, onceTrusted, intact)
  <2>1. CASE base = None
    BY <1>2, <1>3, <1>6, <2>1, AppendedIsListed
  <2>2. CASE base # None /\ files[base[1]]["registry.json"] = None
    BY <1>2, <1>3, <1>6, <2>2, AppendedIsListed
  <2>3. CASE base # None /\ files[base[1]]["registry.json"] # None
    <3>1. base[1] \in Dirs
      BY <2>3
    <3>2. Listed(files[base[1]]["registry.json"][1], signed, onceTrusted, intact)
      BY <2>3, <3>1, ListedFile DEF DeskInv
    <3> QED
      BY <1>2, <1>3, <1>6, <2>3, <3>2, AppendedIsListed
  <2> QED
    BY <2>1, <2>2, <2>3
<1>8. Publishable("registry.json", r[1], signed', checkpointed', onceTrusted', intact')
  BY <1>4, <1>7 DEF Publishable
<1> QED
  BY <1>3, <1>4, <1>5, <1>8, CommandFiles, CommandKeeps

LEMMA CheckpointKeeps ==
  ASSUME DeskInv, NEW d \in Dirs, _checkpoint(d)
  PROVE  DeskInv'
<1> PICK r, cp : r = files[d]["registry.json"] /\ cp = LastCheckpoint
  OBVIOUS
<1>1. /\ Event /\ r # None /\ SignCheckpoint(r[1])
      /\ \/ UNCHANGED files
         \/ verify_signed_checkpoint(cp, trusted, r) /\ Create(d, "checkpoint.json", cp)
      /\ UNCHANGED <<evidence, signer, trusted, op, onceTrusted, intact, stranded, probe>>
  BY DEF _checkpoint
<1>2. Ledger' /\ cp \in checkpointed' /\ Grows /\ signed' = signed
  BY <1>1, LedgerCheckpoints DEF DeskInv, Grows
<1>3. Listed(r[1], signed, onceTrusted, intact)
  BY <1>1, ListedFile DEF DeskInv
<1>4. CASE UNCHANGED files
  BY <1>1, <1>2, <1>4, CommandFiles, CommandKeeps
<1>5. CASE verify_signed_checkpoint(cp, trusted, r) /\ Create(d, "checkpoint.json", cp)
  <2>1. cp.registry = r[1]
    BY <1>1, <1>5 DEF verify_signed_checkpoint
  <2>2. Publishable("checkpoint.json", cp, signed', checkpointed', onceTrusted', intact')
    BY <1>1, <1>2, <1>3, <2>1 DEF Publishable
  <2> QED
    BY <1>1, <1>2, <1>5, <2>2, CommandFiles, CommandKeeps
<1> QED
  BY <1>1, <1>4, <1>5

LEMMA ProofKeeps ==
  ASSUME DeskInv, NEW d \in Dirs, _proof(d)
  PROVE  DeskInv'
<1> PICK r : r = files[d]["registry.json"]
  OBVIOUS
<1>1. PICK id \in Ids(r[1].entries) :
        Create(d, "inclusion-proof.json", build_inclusion_proof(r[1], id))
  BY DEF _proof
<1>2. PICK x : x = build_inclusion_proof(r[1], id)
  OBVIOUS
<1>3. /\ Event
      /\ UNCHANGED <<evidence, signer, trusted, op, issued, signed, checkpointed, onceTrusted, intact, stranded, probe>>
  BY DEF _proof
<1>4. Ledger' /\ Grows
  BY <1>3, LedgerStays DEF DeskInv, Grows
<1>5. Publishable("inclusion-proof.json", x, signed', checkpointed', onceTrusted', intact')
  BY DEF Publishable
<1> QED
  BY <1>1, <1>2, <1>3, <1>4, <1>5, CommandFiles, CommandKeeps

-----------------------------------------------------------------------------
(* The reader and the surroundings *)

\* Nothing but the last answer, or the world around the desk, changes.
LEMMA OutsideKeeps ==
  ASSUME DeskInv, World', AcceptedIsSigned', Grows,
         UNCHANGED <<files, op, issued, signed, checkpointed, stranded>>
  PROVE  DeskInv'
BY LedgerStays, WorksStay, DiskStays, PublishedStays DEF DeskInv

\* What registry verify-proof accepts is listed where the proof says.
LEMMA AcceptedProof ==
  ASSUME NEW proof, NEW cp, NEW att, NEW S, NEW T, NEW I, Listed(cp.registry, S, T, I),
         verify_inclusion_proof(proof, cp.registry.root, <<Len(cp.registry.entries)>>),
         proof.entry = att
  PROVE  proof.size = Len(cp.registry.entries) /\ cp.registry.entries[proof.index + 1] = att
<1> PICK entries, n : entries = cp.registry.entries /\ n = Len(cp.registry.entries)
  OBVIOUS
<1>1. n \in Nat /\ Numbered(n, entries) /\ cp.registry.root = _root_from_entries(entries)
  BY DEF Listed
<1>2. verify_inclusion_proof(proof, _root_from_entries(entries), <<n>>)
  BY <1>1
<1>3. proof.size = n /\ proof.entry = entries[proof.index + 1]
  BY <1>1, <1>2, AcceptedIsListed
<1> QED
  BY <1>3

LEMMA ReadProofKeeps ==
  ASSUME DeskInv, NEW d \in Dirs, ReadProof(d)
  PROVE  DeskInv'
<1>1. PICK s \in Dirs, p \in Dirs :
        /\ files[s]["attestation.json"] # None
        /\ \E r \in Readings(files[s]["attestation.json"][1], files[p]["inclusion-proof.json"][1],
                             files[d]["checkpoint.json"][1]) :
             /\ _verify_proof(r[2], r[1], r[3], None)
             /\ probe' = <<[kind |-> "proof", att |-> r[1], proof |-> r[2], cp |-> r[3]]>>
  BY DEF ReadProof
<1> PICK a0, p0, c0 : /\ a0 = files[s]["attestation.json"][1]
                      /\ p0 = files[p]["inclusion-proof.json"][1]
                      /\ c0 = files[d]["checkpoint.json"][1]
  OBVIOUS
<1>2. PICK r \in Readings(a0, p0, c0) :
        /\ _verify_proof(r[2], r[1], r[3], None)
        /\ probe' = <<[kind |-> "proof", att |-> r[1], proof |-> r[2], cp |-> r[3]]>>
  BY <1>1
<1> PICK att, proof, cp : att = r[1] /\ proof = r[2] /\ cp = r[3]
  OBVIOUS
<1>3. /\ files[d]["checkpoint.json"] # None
      /\ UNCHANGED <<evidence, signer, trusted, files, op, issued, signed, checkpointed, onceTrusted,
                     intact, stranded, events>>
  BY DEF ReadProof
<1>4. c0 \in checkpointed /\ Listed(c0.registry, signed, onceTrusted, intact) /\ Sealed(c0)
  BY <1>3, CommandFiles DEF DeskInv, Published, Publishable, Ledger
<1>5. a0 \in signed /\ Attested(a0)
  BY <1>1, CommandFiles DEF DeskInv, Published, Publishable, Ledger
<1>6. /\ verify_attestation(att, trusted, None, None) = "VALID"
      /\ verify_signed_checkpoint(cp, trusted, None)
      /\ verify_inclusion_proof(proof, cp.registry.root, <<Len(cp.registry.entries)>>)
      /\ proof.entry = att
  BY <1>2 DEF _verify_proof
<1>7. att \in CopiesOf(a0) /\ cp \in CopiesOfCheckpoint(c0)
  <2>1. a0 \in CopiesOf(a0) /\ c0 \in CopiesOfCheckpoint(c0)
    BY DEF CopiesOf, CopiesOfCheckpoint
  <2>2. \/ \E a \in CopiesOf(a0) : r = <<a, p0, c0>>
        \/ \E x \in CopiesOfProof(p0) : r = <<a0, x, c0>>
        \/ \E c \in CopiesOfCheckpoint(c0) : r = <<a0, p0, c>>
    BY DEF Readings
  <2> QED
    BY <2>1, <2>2
<1>8. att \in signed /\ att.body.key \in onceTrusted
  <2>1. att = a0
    BY <1>5, <1>6, <1>7, CopiesAreTold
  <2>2. att.body.key \in trusted
    BY <1>6, ValidTells
  <2> QED
    BY <1>5, <2>1, <2>2 DEF DeskInv, World
<1>9. cp = c0 /\ cp.key \in onceTrusted
  <2>1. cp = c0 /\ cp.key \in trusted
    BY <1>4, <1>6, <1>7, CheckpointCopiesAreTold
  <2> QED
    BY <2>1 DEF DeskInv, World
<1>10. proof.size = Len(cp.registry.entries) /\ cp.registry.entries[proof.index + 1] = att
  <2>1. Listed(cp.registry, signed, onceTrusted, intact)
    BY <1>4, <1>9
  <2> QED
    BY <1>6, <2>1, AcceptedProof
<1>11. AcceptedIsSigned'
  <2>1. PICK q : probe' = <<q>> /\ q.kind = "proof" /\ q.att = att /\ q.proof = proof /\ q.cp = cp
    BY <1>2
  <2>2. signed' = signed /\ checkpointed' = checkpointed /\ onceTrusted' = onceTrusted
    BY <1>3
  <2> QED
    BY <1>4, <1>8, <1>9, <1>10, <2>1, <2>2 DEF AcceptedIsSigned
<1>12. World' /\ Grows
  BY <1>3 DEF DeskInv, World, Grows
<1> QED
  BY <1>3, <1>11, <1>12, OutsideKeeps

LEMMA VerifyKeeps ==
  ASSUME DeskInv, NEW d \in Dirs, _verify(d)
  PROVE  DeskInv'
<1> PICK a0 : a0 = files[d]["attestation.json"][1]
  OBVIOUS
<1> DEFINE CaseAt(level, c) == IF level = 3 THEN <<c>> ELSE None
           RootAt(level) == IF level = 3 THEN <<evidence>> ELSE None
           Status(att, level, c) ==
             IF level = 1 \/ _tier1(att) # "STRUCTURE_VALID" THEN _tier1(att)
             ELSE verify_attestation(att, trusted, CaseAt(level, c), RootAt(level))
<1>1. PICK att \in CopiesOf(a0), level \in 1..3, c \in Cases :
        /\ Status(att, level, c) = "VALID"
        /\ probe' = <<[kind |-> "verify", att |-> att, level |-> level, case |-> CaseAt(level, c),
                       root |-> RootAt(level)]>>
  BY DEF _verify
<1>2. /\ files[d]["attestation.json"] # None
      /\ UNCHANGED <<evidence, signer, trusted, files, op, issued, signed, checkpointed, onceTrusted,
                     intact, stranded, events>>
  BY DEF _verify
<1>3. a0 \in signed /\ Attested(a0)
  BY <1>2, CommandFiles DEF DeskInv, Published, Publishable, Ledger
<1>4. PICK case, root : case = CaseAt(level, c) /\ root = RootAt(level)
  OBVIOUS
<1>5. verify_attestation(att, trusted, case, root) = "VALID"
  <2>1. _tier1(att) # "VALID"
    BY DEF _tier1
  <2> QED
    BY <1>1, <1>4, <2>1
<1>6. level = 3 => case # None /\ root # None
  BY <1>4, HeldIsThere
<1>7. /\ att \in signed /\ att.body.key \in onceTrusted
      /\ level = 3 => case = <<att.body.case>> /\ att.body.artifacts \in {{}, {root[1]}}
  <2>1. att = a0
    BY <1>3, <1>5, CopiesAreTold
  <2>2. att.body.key \in trusted /\ (case # None => case = <<att.body.case>>)
        /\ (root # None => att.body.artifacts \in {{}, {root[1]}})
    BY <1>5, ValidTells
  <2> QED
    BY <1>3, <1>6, <2>1, <2>2 DEF DeskInv, World
<1>8. AcceptedIsSigned'
  <2> HIDE DEF Status, CaseAt, RootAt
  <2>1. PICK q : /\ probe' = <<q>> /\ q.kind = "verify" /\ q.att = att /\ q.level = level
                 /\ q.case = case /\ q.root = root
    BY <1>1, <1>4
  <2>2. signed' = signed /\ onceTrusted' = onceTrusted
    BY <1>2
  <2> QED
    BY <1>7, <2>1, <2>2 DEF AcceptedIsSigned
<1>9. World' /\ Grows
  BY <1>2 DEF DeskInv, World, Grows
<1> QED
  BY <1>2, <1>8, <1>9, OutsideKeeps

LEMMA SurroundingsKeep ==
  ASSUME DeskInv, Surroundings
  PROVE  DeskInv'
<1>1. CASE RewriteEvidence
  <2>1. World' /\ Grows /\ probe' = probe /\ UNCHANGED <<files, op, issued, signed, checkpointed, stranded>>
    BY <1>1, EventCounts DEF RewriteEvidence, DeskInv, World, Grows
  <2> QED
    BY <2>1, AcceptedStays, OutsideKeeps DEF DeskInv
<1>2. CASE RestartSigner
  <2>1. World' /\ Grows /\ probe' = probe /\ UNCHANGED <<files, op, issued, signed, checkpointed, stranded>>
    BY <1>2, EventCounts DEF RestartSigner, DeskInv, World, Grows
  <2> QED
    BY <2>1, AcceptedStays, OutsideKeeps DEF DeskInv
<1>3. CASE ReplaceTrustedKeys
  <2>1. World' /\ Grows /\ probe' = probe /\ UNCHANGED <<files, op, issued, signed, checkpointed, stranded>>
    BY <1>3, EventCounts DEF ReplaceTrustedKeys, DeskInv, World, Grows
  <2> QED
    BY <2>1, AcceptedStays, OutsideKeeps DEF DeskInv
<1> QED
  BY <1>1, <1>2, <1>3 DEF Surroundings

LEMMA DeskStep ==
  ASSUME DeskInv, [Next]_vars
  PROVE  DeskInv'
<1>1. ASSUME NEW o \in Operators, WorkflowStep(o) PROVE DeskInv'
  BY <1>1, BeginKeeps, RequestAttestationKeeps, VerifyAttestationKeeps, RegisterKeeps,
     RequestCheckpointKeeps, CreateNewJsonKeeps, SyncNewJsonKeeps, UnlinkKeeps,
     KilledKeeps DEF WorkflowStep
<1>2. ASSUME NEW d \in Dirs, CommandStep(d) PROVE DeskInv'
  BY <1>2, RequestAttestationCommandKeeps, CreateLocalKeeps, AddKeeps, CheckpointKeeps, ProofKeeps
     DEF CommandStep
<1>3. ASSUME NEW d \in Dirs, ReaderStep(d) PROVE DeskInv'
  BY <1>3, ReadProofKeeps, VerifyKeeps DEF ReaderStep
<1>4. CASE UNCHANGED vars
  <2>1. World' /\ Grows /\ probe' = probe /\ UNCHANGED <<files, op, issued, signed, checkpointed, stranded>>
    BY <1>4 DEF vars, DeskInv, World, Grows
  <2> QED
    BY <2>1, AcceptedStays, OutsideKeeps DEF DeskInv
<1> QED
  BY <1>1, <1>2, <1>3, <1>4, SurroundingsKeep DEF Next

-----------------------------------------------------------------------------
(* The snapshot an archive begins with *)

LEMMA EarlierAre ==
  ASSUME NEW i \in Nat
  PROVE  LET a == EarlierAttestation(i) IN
         /\ Attested(a) /\ a.id = a.body /\ a.body.issued = i
         /\ a.body.artifacts = {} /\ a.body.key = CHOOSE k \in Keys : TRUE
<1> PICK case, key : /\ case = CHOOSE c \in {CaseOf[e] : e \in Evidence} : TRUE
                     /\ key = CHOOSE k \in Keys : TRUE
  OBVIOUS
<1>1. EarlierAttestation(i) = sign_attestation(case, {}, i, key)
  BY DEF EarlierAttestation
<1>2. Attested(EarlierAttestation(i))
  BY <1>1, SignedIs
<1> QED
  BY <1>1, <1>2 DEF sign_attestation

LEMMA EarlierListed ==
  ASSUME NEW n \in Nat, NEW atts, atts = [i \in 1..n |-> EarlierAttestation(i)],
         NEW I, NEW T, (CHOOSE k \in Keys : TRUE) \in T
  PROVE  /\ Listed(build_registry(atts, None), ToSet(atts), T, I)
         /\ IsFiniteSet(ToSet(atts)) /\ Cardinality(ToSet(atts)) \in Nat
         /\ Cardinality(ToSet(atts)) <= n
         /\ \A a \in ToSet(atts) : Attested(a)
         /\ \A i \in 1..n : atts[i] \in ToSet(atts)
<1>1. Numbered(n, atts)
  BY DEF Numbered
<1>2. Len(atts) = n /\ DOMAIN atts = 1..n
  BY <1>1, Listing
<1>3. \A i \in 1..n : /\ Attested(atts[i]) /\ atts[i].id = atts[i].body /\ atts[i].body.issued = i
                      /\ atts[i].body.artifacts = {} /\ atts[i].body.key \in T
  <2>1. \A i \in 1..n : i \in Nat /\ atts[i] = EarlierAttestation(i)
    OBVIOUS
  <2> QED
    BY <2>1, EarlierAre
<1>4. /\ \A i \in 1..n : atts[i] \in ToSet(atts)
      /\ \A a \in ToSet(atts) : \E i \in 1..n : a = atts[i]
  BY <1>2 DEF ToSet
<1>5. IsFiniteSet(ToSet(atts)) /\ Cardinality(ToSet(atts)) <= n /\ Cardinality(ToSet(atts)) \in Nat
  <2>1. IsFiniteSet(1..n) /\ Cardinality(1..n) = n
    BY FS_Interval
  <2>2. atts \in Surjection(1..n, ToSet(atts))
    BY <1>4 DEF Surjection
  <2> QED
    BY <2>1, <2>2, FS_Surjection, FS_CardinalityType
<1>6. Listed(build_registry(atts, None), ToSet(atts), T, I)
  <2>1. PICK reg : reg = build_registry(atts, None)
    OBVIOUS
  <2>2. reg.entries = atts /\ reg.previous = None /\ reg.root = _root_from_entries(atts)
    BY <2>1 DEF build_registry
  <2>3. \A i \in 1..n : Listable(atts[i], ToSet(atts), T, I)
    BY <1>3, <1>4 DEF Listable
  <2>4. \A i, j \in 1..n : atts[i].id = atts[j].id => i = j
    BY <1>3
  <2>5. Listed(reg, ToSet(atts), T, I)
    BY <1>1, <1>2, <2>2, <2>3, <2>4 DEF Listed
  <2> QED
    BY <2>1, <2>5
<1> QED
  BY <1>3, <1>4, <1>5, <1>6

LEMMA DeskInit ==
  ASSUME Init
  PROVE  DeskInv
<1> PICK n \in 0..MaxArchive :
       LET atts == [i \in 1..n |-> EarlierAttestation(i)]
           reg == build_registry(atts, None)
           cp == sign_registry_checkpoint(reg, n + 1, signer)
       IN \E used \in BOOLEAN, i \in 1..n \cup {0} :
            /\ used <=> i # 0
            /\ files = [d \in Dirs |-> [f \in FileName |->
                  CASE d = Archive /\ f = "registry.json" -> <<reg>>
                    [] d = Archive /\ used /\ f = "attestation.json" -> <<atts[i]>>
                    [] d = Archive /\ used /\ f = "checkpoint.json" -> <<cp>>
                    [] d = Archive /\ used /\ f = "inclusion-proof.json" ->
                         <<build_inclusion_proof(reg, atts[i].id)>>
                    [] OTHER -> None]]
            /\ signed = ToSet(atts)
            /\ checkpointed = IF used THEN {cp} ELSE {}
            /\ issued = IF used THEN n + 1 ELSE n
  BY DEF Init
<1> PICK atts : atts = [i \in 1..n |-> EarlierAttestation(i)]
  OBVIOUS
<1> PICK reg, cp : reg = build_registry(atts, None) /\ cp = sign_registry_checkpoint(reg, n + 1, signer)
  OBVIOUS
<1>1. PICK used \in BOOLEAN, i \in 1..n \cup {0} :
            /\ used <=> i # 0
            /\ files = [d \in Dirs |-> [f \in FileName |->
                  CASE d = Archive /\ f = "registry.json" -> <<reg>>
                    [] d = Archive /\ used /\ f = "attestation.json" -> <<atts[i]>>
                    [] d = Archive /\ used /\ f = "checkpoint.json" -> <<cp>>
                    [] d = Archive /\ used /\ f = "inclusion-proof.json" ->
                         <<build_inclusion_proof(reg, atts[i].id)>>
                    [] OTHER -> None]]
            /\ signed = ToSet(atts)
            /\ checkpointed = IF used THEN {cp} ELSE {}
            /\ issued = IF used THEN n + 1 ELSE n
  OBVIOUS
<1>2. /\ evidence \in Evidence /\ signer \in Keys /\ signer = CHOOSE k \in Keys : TRUE
      /\ trusted = {signer} /\ onceTrusted = {signer} /\ op = [o \in Operators |-> Idle]
      /\ intact = {} /\ stranded = {} /\ probe = None /\ events = 0
  BY DeskAssumption DEF Init, DeskAssumption
<1>3. n \in Nat /\ (used => i \in 1..n)
  BY <1>1, DeskAssumption DEF DeskAssumption
<1>4. /\ Listed(reg, signed, onceTrusted, intact)
      /\ IsFiniteSet(signed) /\ Cardinality(signed) \in Nat /\ Cardinality(signed) <= n
      /\ (\A a \in signed : Attested(a))
      /\ (used => atts[i] \in signed)
  <2>1. (CHOOSE k \in Keys : TRUE) \in onceTrusted /\ signed = ToSet(atts)
    BY <1>1, <1>2
  <2>2. Listed(reg, ToSet(atts), onceTrusted, intact)
    BY <1>3, <2>1, EarlierListed
  <2>3. /\ IsFiniteSet(ToSet(atts)) /\ Cardinality(ToSet(atts)) \in Nat /\ Cardinality(ToSet(atts)) <= n
        /\ (\A a \in ToSet(atts) : Attested(a)) /\ \A j \in 1..n : atts[j] \in ToSet(atts)
    BY <1>3, <2>1, EarlierListed
  <2> QED
    BY <1>3, <2>1, <2>2, <2>3
<1> PICK c1, c2, c3, c4 : /\ c1 = <<reg>> /\ c2 = <<atts[i]>> /\ c3 = <<cp>>
                          /\ c4 = <<build_inclusion_proof(reg, atts[i].id)>>
  OBVIOUS
<1>5. files = [d \in Dirs |-> [f \in FileName |->
                  CASE d = Archive /\ f = "registry.json" -> c1
                    [] d = Archive /\ used /\ f = "attestation.json" -> c2
                    [] d = Archive /\ used /\ f = "checkpoint.json" -> c3
                    [] d = Archive /\ used /\ f = "inclusion-proof.json" -> c4
                    [] OTHER -> None]]
  BY <1>1
<1>6. World
  BY <1>2, DeskAssumption DEF World, DeskAssumption
<1>7. Ledger
  <2>1. CASE used
    <3>1. checkpointed = {cp} /\ issued = n + 1
      BY <1>1, <2>1
    <3>2. IsFiniteSet(checkpointed) /\ Cardinality(checkpointed) = 1
      BY <3>1, FS_Singleton
    <3>3. Sealed(cp)
      BY DEF Sealed
    <3>4. issued \in Nat /\ Cardinality(signed) + Cardinality(checkpointed) <= issued
      BY <1>3, <1>4, <3>1, <3>2
    <3>5. \A c \in checkpointed : Sealed(c)
      BY <3>1, <3>3
    <3> QED
      BY <1>4, <3>2, <3>4, <3>5 DEF Ledger
  <2>2. CASE ~used
    <3>1. checkpointed = {} /\ issued = n
      BY <1>1, <2>2
    <3>2. IsFiniteSet(checkpointed) /\ Cardinality(checkpointed) = 0
      BY <3>1, FS_EmptySet
    <3> QED
      BY <1>3, <1>4, <3>1, <3>2 DEF Ledger
  <2> QED
    BY <2>1, <2>2
<1>8. Works
  BY <1>2, IdleProgress DEF Works
<1>9. Shape(files)
  <2> DEFINE E == {None, c1, c2, c3, c4}
  <2>1. files \in [Dirs -> [FileName -> E]]
    BY <1>5
  <2> QED
    BY <2>1 DEF Shape
<1>10. \A d \in Dirs, f \in FileName : files[d][f] # None =>
         \/ f = "registry.json" /\ files[d][f] = c1
         \/ used /\ f = "attestation.json" /\ files[d][f] = c2
         \/ used /\ f = "checkpoint.json" /\ files[d][f] = c3
         \/ f = "inclusion-proof.json" /\ files[d][f] = c4
  BY <1>5
<1>11. Entries
  BY <1>10 DEF Entries
<1>12. Holding /\ Apart /\ DOMAIN op = Operators
  BY <1>2, IdleProgress DEF Holding, Apart
<1>13. Finished
  <2>1. Summary \in FileName /\ \A d \in Dirs : files[d][Summary] = None
    BY <1>10, Names DEF Summary
  <2> QED
    BY <2>1 DEF Finished
<1>14. Published
  <2>1. cp.registry = reg /\ (used => cp \in checkpointed)
    BY <1>1 DEF sign_registry_checkpoint
  <2>2. SUFFICES ASSUME NEW d \in Dirs, NEW f \in FileName, files[d][f] # None
                 PROVE  Publishable(f, files[d][f][1], signed, checkpointed, onceTrusted, intact)
    BY DEF Published
  <2> QED
    <3>1. CASE f = "registry.json" /\ files[d][f] = c1
      BY <1>4, <3>1 DEF Publishable
    <3>2. CASE used /\ f = "attestation.json" /\ files[d][f] = c2
      BY <1>4, <3>2 DEF Publishable
    <3>3. CASE used /\ f = "checkpoint.json" /\ files[d][f] = c3
      BY <1>4, <2>1, <3>3 DEF Publishable
    <3>4. CASE f = "inclusion-proof.json" /\ files[d][f] = c4
      BY <3>4 DEF Publishable
    <3> QED
      BY <1>10, <2>2, <3>1, <3>2, <3>3, <3>4
<1>15. AcceptedIsSigned
  BY <1>2 DEF AcceptedIsSigned
<1> QED
  BY <1>6, <1>7, <1>8, <1>9, <1>11, <1>12, <1>13, <1>14, <1>15 DEF DeskInv, Disk

-----------------------------------------------------------------------------
(* What the invariant says of the desk *)

LEMMA DeskIsTyped ==
  ASSUME DeskInv
  PROVE  TypeOK
<1> DEFINE X == UNION {ToSet(files[d][n]) : d \in Dirs, n \in FileName}
           E == {None} \cup {<<x>> : x \in X}
<1>1. \A d \in Dirs, f \in FileName : files[d][f] \in E
  <2>1. SUFFICES ASSUME NEW d \in Dirs, NEW f \in FileName, files[d][f] # None
                 PROVE  files[d][f] \in E
    OBVIOUS
  <2>2. PICK x : files[d][f] = <<x>>
    BY <2>1 DEF DeskInv, Disk, Entries
  <2>3. x \in ToSet(files[d][f])
    BY <2>2 DEF ToSet
  <2>4. x \in X
    BY <2>3
  <2> HIDE DEF X
  <2> QED
    BY <2>2, <2>4
<1>2. files \in [Dirs -> [FileName -> E]]
  <2>1. PICK E0 : files \in [Dirs -> [FileName -> E0]]
    BY DEF DeskInv, Disk, Shape
  <2> HIDE DEF E
  <2> QED
    BY <1>1, <2>1
<1>3. \A a \in signed : a.id = a.body /\ a.sig = <<a.body.key, a.body>>
  BY DEF DeskInv, Ledger, Attested, sign_attestation
<1>4. \A o \in Operators : op[o].pc \in Stages
  BY DEF DeskInv, Works, Progress
<1>5. Cardinality(signed) + Cardinality(checkpointed) <= issued
  BY DEF DeskInv, Ledger
<1> HIDE DEF X
<1>6. trusted \subseteq Keys
  BY DEF DeskInv, World
<1> QED
  BY <1>2, <1>3, <1>4, <1>5, <1>6 DEF TypeOK, DeskInv, World, X

LEMMA SummariesAreSound ==
  ASSUME DeskInv
  PROVE  SummaryIsOfOneRun
<1>1. SUFFICES ASSUME NEW d \in Dirs \ stranded, files[d][Summary] # None
               PROVE  LET s == files[d][Summary]
                          Holds(f, v) == files[d][f] = <<v>>
                      IN /\ files[d]["attestation.json"] # None
                         /\ files[d]["attestation.json"][1].id = s[1].id
                         /\ Holds("registry.json", s[1].registry)
                         /\ Holds("checkpoint.json", s[1].checkpoint)
                         /\ Holds("inclusion-proof.json", build_inclusion_proof(s[1].registry, s[1].id))
  BY DeskIsTyped DEF SummaryIsOfOneRun, Summary
<1>2. FinishedDir(files[d], files[d][Summary][1])
  BY <1>1 DEF DeskInv, Disk, Finished
<1> QED
  BY <1>2 DEF FinishedDir

LEMMA SoundSnapshots ==
  ASSUME DeskInv
  PROVE  SnapshotsAreSound
<1>1. SUFFICES ASSUME NEW d \in Dirs, NEW r, r = files[d]["registry.json"], r # None
      PROVE
      /\ \A i \in DOMAIN r[1].entries :
           LET a == r[1].entries[i] IN
           /\ a \in signed /\ a.body.key \in onceTrusted
           /\ a.body.artifacts # {} => a \in intact
           /\ \A j \in DOMAIN r[1].entries : r[1].entries[j].id = a.id => i = j
      /\ r[1].previous # None =>
           /\ IsStrictPrefix(r[1].previous[1].entries, r[1].entries)
           /\ r[1].previous[1].root = _root_from_entries(r[1].previous[1].entries)
      /\ \A id \in Ids(r[1].entries) :
           verify_inclusion_proof(build_inclusion_proof(r[1], id), r[1].root, <<Len(r[1].entries)>>)
  BY DEF SnapshotsAreSound
<1>2. Listed(r[1], signed, onceTrusted, intact)
  BY <1>1, ListedFile DEF DeskInv
<1>3. PICK reg, entries, n : reg = r[1] /\ entries = reg.entries /\ n = Len(entries)
  OBVIOUS
<1>4. /\ n \in Nat /\ Numbered(n, entries)
      /\ \A i \in 1..n : Listable(entries[i], signed, onceTrusted, intact)
      /\ \A i, j \in 1..n : entries[i].id = entries[j].id => i = j
      /\ reg.previous # None =>
           /\ IsStrictPrefix(reg.previous[1].entries, entries)
           /\ reg.previous[1].root = _root_from_entries(reg.previous[1].entries)
  BY <1>2, <1>3 DEF Listed
<1>5. DOMAIN entries = 1..n
  BY <1>4, Listing
<1>6. \A i \in DOMAIN entries :
        /\ entries[i] \in signed /\ entries[i].body.key \in onceTrusted
        /\ entries[i].body.artifacts # {} => entries[i] \in intact
        /\ \A j \in DOMAIN entries : entries[j].id = entries[i].id => i = j
  BY <1>4, <1>5 DEF Listable
<1>7. \A id \in Ids(entries) : verify_inclusion_proof(build_inclusion_proof(reg, id), reg.root, <<n>>)
  BY <1>2, <1>3, ProofsAreAccepted
<1> QED
  BY <1>3, <1>4, <1>6, <1>7

\* A finished directory is full, and no run's but one that is syncing the summary.
LEMMA FinishedIsFull ==
  ASSUME DeskInv, NEW d \in Dirs \ stranded, files[d][Summary] # None
  PROVE  /\ \A f \in FileName : files[d][f] # None
         /\ \A o \in Operators, i \in 1..5 : Owned(op[o], i) /\ op[o].dir = d => SyncsSummary(op[o])
<1>1. FinishedDir(files[d], files[d][Summary][1])
  BY DEF DeskInv, Disk, Finished
<1>2. \A f \in FileName : files[d][f] # None
  BY <1>1, Names, HeldIsThere DEF FinishedDir
<1> QED
  BY <1>2 DEF DeskInv, Disk, Finished

LEMMA OtherDirectory ==
  ASSUME DeskInv, NEW d \in Dirs, NEW d2, d2 # d, NEW f, NEW e,
         files' = [files EXCEPT ![d2][f] = e]
  PROVE  files'[d] = files[d]
<1>1. PICK E : files \in [Dirs -> [FileName -> E]]
  BY DEF DeskInv, Disk, Shape
<1> QED
  BY <1>1

LEMMA FinishedStays ==
  ASSUME DeskInv, [Next]_vars, NEW d \in Dirs, Complete(d)
  PROVE  files'[d] = files[d]
<1>0. /\ d \in Dirs \ stranded /\ files[d][Summary] # None
      /\ \A o \in Operators : op[o].pc = "sync" => op[o].dir # d
  BY DEF Complete, Summary
<1>1. CASE UNCHANGED files
  BY <1>1
<1>2. ASSUME NEW d2 \in Dirs, NEW f \in FileName, NEW x, CanCreate(d2, f),
             files' = [files EXCEPT ![d2][f] = <<x>>]
      PROVE  files'[d] = files[d]
  <2>1. d2 # d
    BY <1>0, <1>2, FinishedIsFull DEF CanCreate
  <2> QED
    BY <1>2, <2>1, OtherDirectory
<1>3. ASSUME NEW o \in Operators, CreateNewJson(o), ~UNCHANGED files PROVE files'[d] = files[d]
  <2>1. Progress(op[o], signed, checkpointed, onceTrusted, intact)
    BY DEF DeskInv, Works
  <2>2. op[o].pc = "write"
    BY <1>3 DEF CreateNewJson
  <2>3. op[o].dir \in Dirs /\ op[o].written \in 0..4
    BY <2>1, <2>2 DEF Progress
  <2>4. PICK k : k = op[o].written + 1
    OBVIOUS
  <2>5. k \in 1..5
    BY <2>3, <2>4
  <2>6. OutputFiles[k] \in FileName
    BY <2>5, Numbering
  <2>7. /\ CanCreate(op[o].dir, OutputFiles[k])
        /\ files' = [files EXCEPT ![op[o].dir][OutputFiles[k]] = <<Payload(op[o], OutputFiles[k])>>]
    BY <1>3, <2>4 DEF CreateNewJson
  <2> QED
    BY <1>2, <2>3, <2>6, <2>7
<1>4. ASSUME NEW o \in Operators, SyncNewJson(o) \/ Unlink(o), ~UNCHANGED files PROVE files'[d] = files[d]
  <2>1. Progress(op[o], signed, checkpointed, onceTrusted, intact)
    BY DEF DeskInv, Works
  <2>2. CASE SyncNewJson(o)
    <3>1. /\ op[o].pc = "sync"
          /\ files' = [files EXCEPT ![op[o].dir][OutputFiles[op[o].written + 1]] = None]
      BY <1>4, <2>2 DEF SyncNewJson
    <3>2. op[o].dir # d
      BY <1>0, <3>1
    <3> QED
      BY <3>1, <3>2, OtherDirectory
  <2>3. CASE Unlink(o)
    <3>1. /\ op[o].pc = "undo" /\ op[o].undone # op[o].written
          /\ files' = [files EXCEPT ![op[o].dir][OutputFiles[op[o].undone + 1]] = None]
      BY <1>4, <2>3 DEF Unlink, Written
    <3>2. PICK k : k = op[o].undone + 1
      OBVIOUS
    <3>3. op[o].written \in 0..4 /\ op[o].undone \in 0..op[o].written
      BY <2>1 DEF Progress
    <3>4. k \in 1..5 /\ Owned(op[o], k) /\ ~SyncsSummary(op[o])
      BY <3>1, <3>2, <3>3 DEF Owned, SyncsSummary
    <3>5. op[o].dir # d
      BY <1>0, <3>4, FinishedIsFull
    <3> QED
      BY <3>1, <3>5, OtherDirectory
  <2> QED
    BY <1>4, <2>2, <2>3
<1>5. ASSUME NEW o \in Operators, WorkflowStep(o), ~UNCHANGED files PROVE files'[d] = files[d]
  BY <1>3, <1>4, <1>5 DEF WorkflowStep, Begin, RequestAttestation, VerifyAttestation, Register,
     RequestCheckpoint, Killed
<1>6. ASSUME NEW d2 \in Dirs, CommandStep(d2), ~UNCHANGED files PROVE files'[d] = files[d]
  <2>1. \E f \in FileName : \E x : Create(d2, f, x)
    BY <1>6, CommandFiles DEF CommandStep, _request_attestation, _create_local_attestation, _add,
       _checkpoint, _proof
  <2> QED
    BY <1>2, <2>1 DEF Create
<1>7. ASSUME NEW d2 \in Dirs, ReaderStep(d2) PROVE UNCHANGED files
  BY <1>7 DEF ReaderStep, ReadProof, _verify
<1>8. CASE Surroundings \/ UNCHANGED vars
  BY <1>1, <1>8 DEF Surroundings, RewriteEvidence, RestartSigner, ReplaceTrustedKeys, vars
<1> QED
  BY <1>1, <1>5, <1>6, <1>7, <1>8 DEF Next

-----------------------------------------------------------------------------
(* Theorems *)

\* The inductive invariant: whatever operators, commands and the world around the desk do,
\* each run's files are its own and each published snapshot is sound.
THEOREM DeskInvariant == Spec => []DeskInv
<1>1. Init => DeskInv
  BY DeskInit
<1>2. DeskInv /\ [Next]_vars => DeskInv'
  BY DeskStep
<1> QED
  BY <1>1, <1>2, PTL DEF Spec

\* Beside a workflow-summary.json stand all the files of the run that wrote it
\* (_write_new_json and the clean-up of run_attestation_workflow), unless the disk refused to
\* sync it and to take it back.
THEOREM SummariesAreOfOneRun == Spec => []SummaryIsOfOneRun
<1>1. DeskInv => SummaryIsOfOneRun
  BY SummariesAreSound
<1> QED
  BY <1>1, DeskInvariant, PTL

\* The files of a finished run are never rewritten or removed.
THEOREM FinishedRunsAreKept == Spec => FinishedIsKept
<1>1. DeskInv /\ [Next]_vars =>
        [\A d \in Dirs : Complete(d) => files'[d] = files[d]]_vars
  BY FinishedStays
<1> QED
  BY <1>1, DeskInvariant, PTL DEF Spec, FinishedIsKept

\* Every published snapshot lists, once each, attestations signed under a trusted key; it extends the one before; and the inclusion proof of any entry of a snapshot of any
\* size is accepted (build_inclusion_proof and verify_inclusion_proof).
THEOREM PublishedSnapshotsAreSound == Spec => []SnapshotsAreSound
<1>1. DeskInv => SnapshotsAreSound
  BY SoundSnapshots
<1> QED
  BY <1>1, DeskInvariant, PTL

\* What verify and registry verify-proof accept was signed with the key it names, one that was
\* trusted, and as it stands; the checkpoint was signed by the service, the attestation is at
\* that place of its snapshot, and at level 3 about that case and that artifact.
THEOREM AcceptedWasSigned == Spec => []AcceptedIsSigned
<1>1. DeskInv => AcceptedIsSigned
  BY DEF DeskInv
<1> QED
  BY <1>1, DeskInvariant, PTL
=============================================================================
