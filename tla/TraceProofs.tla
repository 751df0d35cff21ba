---------------------------- MODULE TraceProofs -----------------------------
(***************************************************************************)
(* Theorems about Trace, for any number of runs and of edits, and about    *)
(* its Merkle tree for lists of every length.  First the tree: a root      *)
(* determines its list, and a proof holds for one leaf.  Both go by        *)
(* induction over the height of the tree, which is induction over a set    *)
(* of naturals (Upwards), never over a formula.  Then TraceInv, inductive  *)
(* for TraceSpec: what the vault holds (VaultOK), the chain of hashes that *)
(* a run recorded and the spend its attestation cites (RunsOK), the files  *)
(* that were saved and the one an auditor is given (FileOK).               *)
(***************************************************************************)
EXTENDS Trace, SequenceTheorems, WellFoundedInduction, TLAPS

-----------------------------------------------------------------------------
(* Induction, over sets of naturals.                                       *)

\* Every nonempty set of naturals has a least member.
LEMMA Least ==
  ASSUME NEW T \in SUBSET Nat, T # {}
  PROVE  \E x \in T : \A y \in T : x <= y
<1> DEFINE R == OpToRel(<, Nat)
<1>1. IsWellFoundedOn(R, Nat)
  BY NatLessThanWellFounded
<1>2. \A x, y \in Nat : y < x => <<y, x>> \in R
  BY DEF OpToRel
<1> HIDE DEF R
<1>3. PICK x \in T : \A y \in T : ~(<<y, x>> \in R)
  BY <1>1, WFMin
<1>4. \A y \in T : ~(y < x)
  BY <1>2, <1>3
<1> QED BY <1>4

\* A set that holds 0 and, with a number below n, the next one holds 0..n.
LEMMA Upwards ==
  ASSUME NEW n \in Nat, NEW S, 0 \in S, \A k \in 0..n - 1 : k \in S => k + 1 \in S
  PROVE  0..n \subseteq S
<1> SUFFICES ASSUME (0..n) \ S # {} PROVE FALSE
  OBVIOUS
<1>1. PICK x \in (0..n) \ S : \A y \in (0..n) \ S : x <= y
  <2>1. (0..n) \ S \in SUBSET Nat
    OBVIOUS
  <2> QED BY <2>1, Least
<1>2. x # 0 /\ x - 1 \in 0..n - 1 /\ (x - 1) + 1 = x
  BY <1>1
<1>3. x - 1 \in S
  BY <1>1, <1>2
<1> QED BY <1>1, <1>2, <1>3

-----------------------------------------------------------------------------
(* The levels of a tree.                                                   *)

\* f is what merkleRoot's loop has built after n turns.
Built(values, f, n) ==
  /\ f = [k \in 0..n |-> f[k]]
  /\ f[0] = [i \in 1..Len(values) |-> Leaf(values[i])]
  /\ \A k \in 1..n : f[k] = Above(f[k - 1])

LEMMA LevelsExist ==
  ASSUME NEW values, NEW n \in Nat
  PROVE  \E f : Built(values, f, n)
<1> DEFINE S == {k \in 0..n : \E f : Built(values, f, k)}
           B == [i \in 1..Len(values) |-> Leaf(values[i])]
<1>1. Built(values, [k \in 0..0 |-> B], 0)
  BY DEF Built
<1>2. ASSUME NEW k \in 0..n - 1, k \in S PROVE k + 1 \in S
  <2>1. PICK f : Built(values, f, k)
    BY <1>2
  <2> DEFINE g == [j \in 0..k + 1 |-> IF j = k + 1 THEN Above(f[k]) ELSE f[j]]
  <2>2. Built(values, g, k + 1)
    <3>1. g = [j \in 0..k + 1 |-> g[j]]
      OBVIOUS
    <3>2. /\ g[k + 1] = Above(f[k])
          /\ \A j \in 0..k : g[j] = f[j]
      OBVIOUS
    <3>3. f[0] = B /\ \A j \in 1..k : f[j] = Above(f[j - 1])
      BY <2>1 DEF Built
    <3> HIDE DEF B, g
    <3>4. ASSUME NEW j \in 1..k + 1 PROVE g[j] = Above(g[j - 1])
      <4>1. g[j - 1] = f[j - 1]
        BY <3>2
      <4>2. CASE j = k + 1
        BY <3>2, <4>1, <4>2
      <4>3. CASE j \in 1..k
        BY <3>2, <3>3, <4>1, <4>3
      <4> QED BY <4>2, <4>3
    <3>5. g[0] = B
      BY <3>2, <3>3
    <3> QED BY <3>1, <3>4, <3>5 DEF Built, B
  <2> QED BY <2>2
<1> HIDE DEF S
<1>3. 0 \in S
  BY <1>1 DEF S
<1>4. 0..n \subseteq S
  BY <1>2, <1>3, Upwards
<1> QED BY <1>4 DEF S

LEMMA LevelsBuilt ==
  ASSUME NEW values, Len(values) \in Nat
  PROVE  Built(values, Levels(values), Len(values))
<1> DEFINE Is(f) == f = [k \in 0..Len(values) |->
                           IF k = 0 THEN [i \in 1..Len(values) |-> Leaf(values[i])]
                                    ELSE Above(f[k - 1])]
           L == CHOOSE f : Is(f)
<1>1. PICK f : Built(values, f, Len(values))
  BY LevelsExist
<1>2. Is(f)
  BY <1>1 DEF Built
<1>3. Is(L)
  BY <1>2, Zenon
<1>4. Levels(values) = L
  BY Zenon DEF Levels
<1> HIDE DEF L
<1>5. /\ L = [k \in 0..Len(values) |-> L[k]]
      /\ L[0] = [i \in 1..Len(values) |-> Leaf(values[i])]
      /\ \A k \in 1..Len(values) : L[k] = Above(L[k - 1])
  BY <1>3
<1> QED BY <1>4, <1>5 DEF Built
-----------------------------------------------------------------------------
(* What a tree is made of.                                                 *)

IsList(s) == Len(s) \in Nat /\ s = [i \in 1..Len(s) |-> s[i]]

LEMMA ListLen ==
  ASSUME NEW f, NEW n \in Nat, f = [i \in 1..n |-> f[i]]
  PROVE  IsList(f) /\ Len(f) = n
BY DEF IsList

IsLeaf(x)    == \E v : x = Leaf(v)
Over(x, l)   == \E r : x = Node(l, r)

LEMMA Shapes ==
  /\ \A v, w : Leaf(v) = Leaf(w) => v = w
  /\ \A a, b, c, d : Node(a, b) = Node(c, d) => a = c /\ b = d
BY DEF Leaf, Node

LEMMA Kinds ==
  /\ \A v : IsLeaf(Leaf(v))
  /\ \A l, r : Over(Node(l, r), l)
  /\ \A x, l : ~(IsLeaf(x) /\ Over(x, l))
  /\ \A x, l, k : Over(x, l) /\ Over(x, k) => l = k
  /\ ~IsLeaf(<<"leaf">>) /\ \A l : ~Over(<<"leaf">>, l)
BY DEF IsLeaf, Over, Leaf, Node

\* From x, d steps to the left lead to a leaf.
Spine(x, d) ==
  \E f : /\ f[0] = x
         /\ \A j \in 0..d - 1 : Over(f[j], f[j + 1])
         /\ IsLeaf(f[d])

LEMMA SpineOfLeaf == \A v : Spine(Leaf(v), 0)
<1> TAKE v
<1> DEFINE f == [j \in {0} |-> Leaf(v)]
<1>1. f[0] = Leaf(v) /\ 0..(0 - 1) = {}
  OBVIOUS
<1> HIDE DEF f
<1> QED BY <1>1, Kinds DEF Spine

LEMMA SpineOfNode ==
  ASSUME NEW l, NEW r, NEW d \in Nat, Spine(l, d)
  PROVE  Spine(Node(l, r), d + 1)
<1>1. PICK f : /\ f[0] = l
               /\ \A j \in 0..d - 1 : Over(f[j], f[j + 1])
               /\ IsLeaf(f[d])
  BY DEF Spine
<1> DEFINE g == [j \in 0..d + 1 |-> IF j = 0 THEN Node(l, r) ELSE f[j - 1]]
<1>2. g[0] = Node(l, r) /\ \A j \in 1..d + 1 : g[j] = f[j - 1]
  OBVIOUS
<1> HIDE DEF g
<1>3. ASSUME NEW j \in 0..(d + 1) - 1 PROVE Over(g[j], g[j + 1])
  <2>1. CASE j = 0
    BY <1>1, <1>2, <2>1, Kinds
  <2>2. CASE j # 0
    <3>1. j - 1 \in 0..d - 1 /\ g[j] = f[j - 1] /\ g[j + 1] = f[(j - 1) + 1]
      BY <1>2, <2>2
    <3> QED BY <1>1, <3>1
  <2> QED BY <2>1, <2>2
<1>4. IsLeaf(g[d + 1])
  BY <1>1, <1>2
<1> QED BY <1>2, <1>3, <1>4 DEF Spine

LEMMA SpineUnique ==
  ASSUME NEW x, NEW d \in Nat, NEW e \in Nat, Spine(x, d), Spine(x, e)
  PROVE  ~(d < e)
<1> SUFFICES ASSUME d < e PROVE FALSE
  OBVIOUS
<1>1. PICK f : /\ f[0] = x
               /\ \A j \in 0..d - 1 : Over(f[j], f[j + 1])
               /\ IsLeaf(f[d])
  BY DEF Spine
<1>2. PICK g : g[0] = x /\ \A j \in 0..e - 1 : Over(g[j], g[j + 1])
  BY DEF Spine
<1> DEFINE S == {j \in 0..d : f[j] = g[j]}
<1>3. 0 \in S
  BY <1>1, <1>2
<1>4. ASSUME NEW j \in 0..d - 1, j \in S PROVE j + 1 \in S
  BY <1>1, <1>2, <1>4, Kinds
<1> HIDE DEF S
<1>5. d \in S
  BY <1>3, <1>4, Upwards
<1>6. f[d] = g[d]
  BY <1>5 DEF S
<1> QED BY <1>1, <1>2, <1>6, Kinds
-----------------------------------------------------------------------------
(* One tree.                                                               *)

\* The level above, by its nodes: two are hashed together, an odd one is kept.
Halved(level, up, m, w) ==
  /\ m \in Nat /\ m > 1 /\ w = (m + 1) \div 2
  /\ \A i \in 1..w :
       /\ 2 * i - 1 < m => up[i] = Node(level[2 * i - 1], level[2 * i])
       /\ ~(2 * i - 1 < m) => up[i] = level[2 * i - 1]

LEMMA OneUp ==
  ASSUME NEW level, IsList(level), Len(level) > 1
  PROVE  /\ IsList(Above(level))
         /\ Halved(level, Above(level), Len(level), Len(Above(level)))
<1>1. PICK m \in Nat : m = Len(level)
  BY DEF IsList
<1> DEFINE w == (m + 1) \div 2
           up == [i \in 1..w |-> Paired(level, 2 * i - 1)]
<1>2. m > 1 /\ w \in Nat
  BY <1>1
<1>3. Above(level) = up
  <2>1. Len(level) # 1
    BY <1>1, <1>2
  <2> QED BY <1>1, <2>1, Zenon DEF Above
<1>4. up = [i \in 1..w |-> up[i]] /\ \A i \in 1..w : up[i] = Paired(level, 2 * i - 1)
  OBVIOUS
<1> HIDE DEF up
<1>5. \A i \in 1..w : (2 * i - 1) + 1 = 2 * i
  OBVIOUS
<1>6. \A i \in 1..w :
        /\ 2 * i - 1 < m => up[i] = Node(level[2 * i - 1], level[2 * i])
        /\ ~(2 * i - 1 < m) => up[i] = level[2 * i - 1]
  BY <1>1, <1>4, <1>5 DEF Paired
<1> HIDE DEF w
<1>7. IsList(up) /\ Len(up) = w
  BY <1>2, <1>4, ListLen
<1> QED BY <1>1, <1>2, <1>3, <1>6, <1>7 DEF Halved, w

LEMMA TopStays ==
  ASSUME NEW level, Len(level) = 1
  PROVE  Above(level) = level
BY DEF Above

LEMMA HalvedBounds ==
  ASSUME NEW m \in Nat, m > 1, NEW w, w = (m + 1) \div 2
  PROVE  /\ w \in Nat \ {0} /\ w < m
         /\ \A i \in 1..w : 2 * i - 1 \in 1..m /\ (i < w => 2 * i - 1 < m)
OBVIOUS

\* A list of values, and the tree over it.
Tree(values, A, n) ==
  /\ IsList(values) /\ Len(values) = n /\ n \in Nat \ {0}
  /\ A = Levels(values)

LEMMA TreeLevels ==
  ASSUME NEW values, NEW A, NEW n, Tree(values, A, n)
  PROVE  /\ n \in Nat /\ n >= 1
         /\ IsList(A[0]) /\ Len(A[0]) = n
         /\ \A i \in 1..n : A[0][i] = Leaf(values[i])
         /\ \A k \in 0..n - 1 : A[k + 1] = Above(A[k])
<1>1. Built(values, A, n)
  BY LevelsBuilt DEF Tree, IsList
<1> DEFINE B == [i \in 1..n |-> Leaf(values[i])]
<1>2. A[0] = B /\ \A k \in 1..n : A[k] = Above(A[k - 1])
  BY <1>1 DEF Built, Tree
<1>3. B = [i \in 1..n |-> B[i]] /\ \A i \in 1..n : B[i] = Leaf(values[i])
  OBVIOUS
<1> HIDE DEF B
<1>4. IsList(B) /\ Len(B) = n
  BY <1>3, ListLen DEF Tree
<1>5. ASSUME NEW k \in 0..n - 1 PROVE A[k + 1] = Above(A[k])
  <2>1. k + 1 \in 1..n /\ (k + 1) - 1 = k
    BY DEF Tree
  <2> QED BY <1>2, <2>1
<1> QED BY <1>2, <1>3, <1>4, <1>5 DEF Tree

\* A level k steps up.  Only the last node may have been promoted: the others
\* have a leaf k steps to the left.
Leveled(level, n, k) ==
  /\ IsList(level) /\ Len(level) \in Nat \ {0}
  /\ Len(level) = 1 \/ Len(level) <= n - k
  /\ \A i \in 1..Len(level) :
       /\ i < Len(level) => Spine(level[i], k)
       /\ \E d \in 0..k : Spine(level[i], d)

LEMMA LeveledAbove ==
  ASSUME NEW n \in Nat, NEW k \in Nat, NEW level, Leveled(level, n, k)
  PROVE  Leveled(Above(level), n, k + 1)
<1>1. CASE Len(level) = 1
  <2>1. \A i \in 1..1 : \E d \in 0..k + 1 : Spine(level[i], d)
    BY <1>1 DEF Leveled
  <2>2. Above(level) = level
    BY <1>1, TopStays
  <2>3. IsList(level) /\ Len(level) \in Nat \ {0}
    BY DEF Leveled
  <2>4. ASSUME NEW i \in 1..Len(level)
        PROVE  ~(i < Len(level)) /\ \E d \in 0..k + 1 : Spine(level[i], d)
    <3>1. i = 1 /\ 1 \in 1..1
      BY <1>1
    <3> QED BY <1>1, <2>1, <3>1
  <2>5. Leveled(level, n, k + 1)
    BY <1>1, <2>3, <2>4 DEF Leveled
  <2> QED BY <2>2, <2>5, Zenon
<1>2. CASE Len(level) > 1
  <2>1. PICK m \in Nat : m = Len(level)
    BY DEF Leveled
  <2>2. PICK up : up = Above(level)
    OBVIOUS
  <2>3. PICK w : w = Len(up)
    OBVIOUS
  <2>4. IsList(up) /\ Halved(level, up, m, w)
    BY <1>2, <2>1, <2>2, <2>3, OneUp DEF Leveled
  <2>5. /\ m > 1 /\ w \in Nat \ {0} /\ w < m
        /\ \A i \in 1..w : 2 * i - 1 \in 1..m /\ (i < w => 2 * i - 1 < m)
    BY <1>2, <2>1, <2>4, HalvedBounds DEF Halved
  <2>6. ASSUME NEW i \in 1..w
        PROVE  /\ i < w => Spine(up[i], k + 1)
               /\ \E d \in 0..k + 1 : Spine(up[i], d)
    <3>1. PICK j \in 1..m : j = 2 * i - 1
      BY <2>5
    <3>2. CASE j < m
      <4>1. Spine(level[j], k)
        BY <2>1, <3>1, <3>2 DEF Leveled
      <4>2. up[i] = Node(level[j], level[2 * i])
        BY <2>4, <3>1, <3>2 DEF Halved
      <4>3. Spine(up[i], k + 1)
        BY <4>1, <4>2, SpineOfNode
      <4> QED BY <4>3
    <3>3. CASE ~(j < m)
      <4>1. PICK d \in 0..k : Spine(level[j], d)
        BY <2>1, <3>1 DEF Leveled
      <4>2. up[i] = level[j] /\ ~(i < w)
        BY <2>4, <2>5, <3>1, <3>3 DEF Halved
      <4>3. d \in 0..k + 1 /\ Spine(up[i], d)
        BY <4>1, <4>2
      <4> QED BY <4>2, <4>3
    <3> QED BY <3>2, <3>3
  <2>7. w = 1 \/ w <= n - (k + 1)
    BY <2>1, <2>5 DEF Leveled
  <2> QED BY <2>2, <2>3, <2>4, <2>5, <2>6, <2>7 DEF Leveled
<1>3. Len(level) \in Nat \ {0}
  BY DEF Leveled
<1>4. Len(level) = 1 \/ Len(level) > 1
  BY <1>3
<1> QED BY <1>1, <1>2, <1>4

LEMMA TreeIsLeveled ==
  ASSUME NEW values, NEW A, NEW n, Tree(values, A, n), NEW k \in 0..n
  PROVE  Leveled(A[k], n, k)
<1> DEFINE S == {j \in 0..n : Leveled(A[j], n, j)}
<1>1. 0 \in S
  <2>1. \A i \in 1..n : Spine(A[0][i], 0)
    BY TreeLevels, SpineOfLeaf
  <2> QED BY <2>1, TreeLevels DEF Leveled
<1>2. ASSUME NEW j \in 0..n - 1, j \in S PROVE j + 1 \in S
  <2>1. A[j + 1] = Above(A[j]) /\ n \in Nat /\ j + 1 \in 0..n /\ j \in Nat
    BY TreeLevels
  <2>2. Leveled(A[j], n, j)
    BY <1>2
  <2>3. Leveled(Above(A[j]), n, j + 1)
    BY <2>1, <2>2, LeveledAbove
  <2> QED BY <2>1, <2>3
<1> HIDE DEF S
<1>3. k \in S
  BY <1>1, <1>2, Upwards DEF Tree
<1> QED BY <1>3 DEF S
-----------------------------------------------------------------------------
(* Two trees.                                                              *)

LEMMA ListsEqual ==
  ASSUME NEW a, NEW b, IsList(a), IsList(b), Len(a) = Len(b),
         \A i \in 1..Len(a) : a[i] = b[i]
  PROVE  a = b
<1>1. PICK m : m = Len(a)
  OBVIOUS
<1>2. a = [i \in 1..m |-> a[i]] /\ b = [i \in 1..m |-> b[i]]
  BY <1>1 DEF IsList
<1> QED BY <1>1, <1>2

\* Where the levels above are the same, the one below is not one longer.
LEMMA NotOneLonger ==
  ASSUME NEW k \in Nat, NEW n \in Nat, NEW o \in Nat, NEW a, NEW b, NEW up, NEW w,
         NEW m \in Nat, Len(a) = m, Leveled(a, n, k), Halved(a, up, m, w),
         NEW l \in Nat, Len(b) = l, Leveled(b, o, k), Halved(b, up, l, w)
  PROVE  ~(m < l)
<1> SUFFICES ASSUME m < l PROVE FALSE
  OBVIOUS
<1>1. m = 2 * w - 1 /\ l = 2 * w /\ w \in Nat \ {0}
  BY DEF Halved
<1>2. up[w] = a[m]
  BY <1>1 DEF Halved
<1>3. up[w] = Node(b[m], b[l])
  <2>1. w \in 1..w /\ 2 * w - 1 < l
    BY <1>1
  <2>2. up[w] = Node(b[2 * w - 1], b[2 * w])
    BY <2>1 DEF Halved
  <2> QED BY <1>1, <2>2
<1>4. Spine(b[m], k)
  BY <1>1 DEF Leveled
<1>5. Spine(up[w], k + 1)
  BY <1>3, <1>4, SpineOfNode
<1>6. m \in 1..m
  BY <1>1
<1>7. PICK d \in 0..k : Spine(a[m], d)
  BY <1>6 DEF Leveled
<1> QED BY <1>2, <1>5, <1>7, SpineUnique

LEMMA SameBelow ==
  ASSUME NEW k \in Nat, NEW n \in Nat, NEW o \in Nat, NEW a, NEW b,
         Leveled(a, n, k), Leveled(b, o, k), Len(a) > 1, Len(b) > 1, Above(a) = Above(b)
  PROVE  a = b
<1>1. PICK m \in Nat : m = Len(a)
  BY DEF Leveled
<1>2. PICK l \in Nat : l = Len(b)
  BY DEF Leveled
<1>3. PICK up : up = Above(a)
  OBVIOUS
<1>4. PICK w : w = Len(up)
  OBVIOUS
<1>5. Halved(a, up, m, w) /\ Halved(b, up, l, w)
  BY <1>1, <1>2, <1>3, <1>4, OneUp DEF Leveled
<1>6. m = l
  BY <1>1, <1>2, <1>5, NotOneLonger
<1>7. ASSUME NEW j \in 1..m PROVE a[j] = b[j]
  <2>1. PICK i \in 1..w : j = 2 * i - 1 \/ j = 2 * i
    <3>1. w = (m + 1) \div 2
      BY <1>5 DEF Halved
    <3>2. (j + 1) \div 2 \in 1..w /\ (j = 2 * ((j + 1) \div 2) - 1 \/ j = 2 * ((j + 1) \div 2))
      BY <3>1
    <3> QED BY <3>2
  <2>2. CASE 2 * i - 1 < m
    <3>1. Node(a[2 * i - 1], a[2 * i]) = Node(b[2 * i - 1], b[2 * i])
      BY <1>5, <1>6, <2>2 DEF Halved
    <3> QED BY <2>1, <3>1, Shapes
  <2>3. CASE ~(2 * i - 1 < m)
    <3>1. a[2 * i - 1] = b[2 * i - 1]
      BY <1>5, <1>6, <2>3 DEF Halved
    <3>2. j = 2 * i - 1
      BY <2>1, <2>3
    <3> QED BY <3>1, <3>2
  <2> QED BY <2>2, <2>3
<1> QED BY <1>1, <1>2, <1>6, <1>7, ListsEqual DEF Leveled

\* The level at which one node is left: the root, with a leaf as many steps to
\* the left.
Top(values, A, n, K) ==
  /\ K \in 0..n
  /\ Len(A[K]) = 1 /\ \A k \in 0..K - 1 : Len(A[k]) > 1
  /\ MerkleRoot(values) = A[K][1]
  /\ Spine(A[K][1], K)

LEMMA TopExists ==
  ASSUME NEW values, NEW A, NEW n, Tree(values, A, n)
  PROVE  \E K : Top(values, A, n, K)
<1> DEFINE T == {k \in 0..n : Len(A[k]) = 1}
<1>1. /\ n \in Nat \ {0} /\ \A k \in 0..n : Leveled(A[k], n, k)
      /\ \A k \in 0..n - 1 : A[k + 1] = Above(A[k])
  BY TreeIsLeveled, TreeLevels
<1>2. n \in T
  <2>1. Leveled(A[n], n, n)
    BY <1>1
  <2>2. PICK m \in Nat \ {0} : m = Len(A[n])
    BY <2>1 DEF Leveled
  <2>3. m = 1 \/ m <= n - n
    BY <2>1, <2>2 DEF Leveled
  <2> QED BY <1>1, <2>2, <2>3
<1>3. PICK K \in T : \A k \in T : K <= k
  <2>1. T \in SUBSET Nat /\ T # {}
    BY <1>1, <1>2
  <2> QED BY <2>1, Least
<1>4. K \in 0..n /\ Len(A[K]) = 1
  BY <1>3
<1>5. ASSUME NEW k \in 0..K - 1 PROVE Len(A[k]) > 1
  <2>1. k \in 0..n /\ Len(A[k]) # 1
    BY <1>1, <1>3, <1>4
  <2>2. PICK m \in Nat \ {0} : m = Len(A[k])
    BY <1>1, <2>1 DEF Leveled
  <2>3. m # 1
    BY <2>1, <2>2
  <2>4. m > 1
    BY <2>3
  <2> QED BY <2>2, <2>4
<1> HIDE DEF T
<1>6. A[n] = A[K]
  <2> DEFINE S == {t \in 0..n - K : A[K + t] = A[K]}
  <2>1. 0 \in S
    BY <1>1, <1>4
  <2>2. ASSUME NEW t \in 0..(n - K) - 1, t \in S PROVE t + 1 \in S
    <3>1. K + t \in 0..n - 1 /\ (K + t) + 1 = K + (t + 1) /\ A[K + t] = A[K]
      BY <1>1, <1>4, <2>2
    <3>2. A[K + (t + 1)] = A[K]
      BY <1>1, <1>4, <3>1, TopStays
    <3> QED BY <1>1, <1>4, <3>2
  <2> HIDE DEF S
  <2>3. n - K \in S
    <3>1. n - K \in Nat /\ n - K \in 0..n - K
      BY <1>1, <1>4
    <3>2. 0..n - K \subseteq S
      BY <2>1, <2>2, <3>1, Upwards
    <3> QED BY <3>1, <3>2
  <2>4. K + (n - K) = n
    BY <1>1, <1>4
  <2> QED BY <2>3, <2>4 DEF S
<1>7. MerkleRoot(values) = A[K][1]
  <2>1. values # <<>> /\ Levels(values) = A /\ Len(values) = n
    BY DEF Tree
  <2> QED BY <1>6, <2>1 DEF MerkleRoot
<1>8. Spine(A[K][1], K)
  <2>1. CASE K = 0
    <3>1. \E d \in 0..0 : Spine(A[0][1], d)
      BY <1>1, <1>4, <2>1 DEF Leveled
    <3> QED BY <2>1, <3>1
  <2>2. CASE K # 0
    <3>1. PICK j \in 0..K - 1 : j + 1 = K
      BY <1>1, <1>4, <2>2
    <3>2. /\ Leveled(A[j], n, j) /\ Len(A[j]) > 1 /\ A[K] = Above(A[j])
          /\ j \in Nat
      BY <1>1, <1>4, <1>5, <3>1
    <3>3. PICK m \in Nat : m = Len(A[j])
      BY <3>2 DEF Leveled
    <3>4. Halved(A[j], A[K], m, 1)
      BY <1>4, <3>2, <3>3, OneUp DEF Leveled
    <3>5. A[K][1] = Node(A[j][1], A[j][2])
      BY <3>4 DEF Halved
    <3>6. Spine(A[j][1], j)
      BY <3>2, <3>3 DEF Leveled
    <3> QED BY <3>1, <3>2, <3>5, <3>6, SpineOfNode
  <2> QED BY <2>1, <2>2
<1> QED BY <1>4, <1>5, <1>7, <1>8 DEF Top

\* Different lists of values have different roots, of whatever lengths.
THEOREM RootsDiffer ==
  ASSUME NEW h, NEW g, IsList(h), IsList(g), MerkleRoot(h) = MerkleRoot(g)
  PROVE  h = g
<1>1. PICK n \in Nat : n = Len(h)
  BY DEF IsList
<1>2. PICK m \in Nat : m = Len(g)
  BY DEF IsList
<1>3. ASSUME NEW v, NEW A, NEW l, Tree(v, A, l)
      PROVE  MerkleRoot(v) # <<"leaf">>
  <2>1. PICK K : Top(v, A, l, K)
    BY <1>3, TopExists
  <2>2. K \in Nat /\ Spine(MerkleRoot(v), K)
    BY <1>3, <2>1 DEF Top, Tree
  <2>3. PICK f : /\ f[0] = MerkleRoot(v)
                 /\ \A j \in 0..K - 1 : Over(f[j], f[j + 1])
                 /\ IsLeaf(f[K])
    BY <2>2 DEF Spine
  <2>4. CASE K = 0
    BY <2>3, <2>4, Kinds
  <2>5. CASE K # 0
    <3>1. Over(f[0], f[0 + 1])
      BY <2>2, <2>3, <2>5
    <3> QED BY <2>3, <3>1, Kinds
  <2> QED BY <2>4, <2>5
<1>4. ASSUME NEW v, IsList(v), Len(v) = 0 PROVE v = <<>> /\ MerkleRoot(v) = <<"leaf">>
  <2>1. v = <<>>
    BY <1>4 DEF IsList
  <2> QED BY <2>1 DEF MerkleRoot
<1>5. CASE n = 0
  <2>1. CASE m = 0
    <3>1. Len(h) = 0 /\ Len(g) = 0
      BY <1>1, <1>2, <1>5, <2>1
    <3>2. h = <<>>
      BY <1>4, <3>1
    <3>3. g = <<>>
      BY <1>4, <3>1
    <3> QED BY <3>2, <3>3
  <2>2. CASE m # 0
    <3>1. Tree(g, Levels(g), m)
      BY <1>2, <2>2 DEF Tree
    <3> QED BY <1>1, <1>3, <1>4, <1>5, <3>1
  <2> QED BY <2>1, <2>2
<1>6. CASE n # 0 /\ m = 0
  <2>1. Tree(h, Levels(h), n)
    BY <1>1, <1>6 DEF Tree
  <2> QED BY <1>2, <1>3, <1>4, <1>6, <2>1
<1>7. CASE n # 0 /\ m # 0
  <2>1. PICK A : Tree(h, A, n)
    BY <1>1, <1>7 DEF Tree
  <2>2. PICK B : Tree(g, B, m)
    BY <1>2, <1>7 DEF Tree
  <2>3. PICK K : Top(h, A, n, K)
    BY <2>1, TopExists
  <2>4. PICK J : Top(g, B, m, J)
    BY <2>2, TopExists
  <2>5. K \in Nat /\ J \in Nat /\ K <= n /\ J <= m
    BY <2>3, <2>4 DEF Top
  <2>6. K = J
    <3>1. Spine(MerkleRoot(h), K)
      BY <2>3 DEF Top
    <3>2. Spine(MerkleRoot(h), J)
      BY <2>4 DEF Top
    <3>3. ~(K < J)
      BY <2>5, <3>1, <3>2, SpineUnique
    <3>4. ~(J < K)
      BY <2>5, <3>1, <3>2, SpineUnique
    <3> QED BY <2>5, <3>3, <3>4
  <2> DEFINE S == {t \in 0..K : A[K - t] = B[K - t]}
  <2>7. 0 \in S
    <3>1. Leveled(A[K], n, K) /\ Leveled(B[K], m, K)
      BY <2>1, <2>2, <2>5, <2>6, TreeIsLeveled
    <3>2. Len(A[K]) = 1 /\ Len(B[K]) = 1 /\ A[K][1] = B[K][1]
      BY <2>3, <2>4, <2>6 DEF Top
    <3>3. A[K] = B[K]
      BY <3>1, <3>2, ListsEqual DEF Leveled
    <3> QED BY <2>5, <3>3
  <2>8. ASSUME NEW t \in 0..K - 1, t \in S PROVE t + 1 \in S
    <3>1. PICK k \in 0..K - 1 : k = K - (t + 1) /\ k + 1 = K - t
      BY <2>5
    <3>2. Above(A[k]) = Above(B[k])
      <4>1. A[k + 1] = Above(A[k]) /\ B[k + 1] = Above(B[k])
        BY <2>1, <2>2, <2>5, <2>6, TreeLevels
      <4> QED BY <2>8, <3>1, <4>1
    <3>3. /\ Leveled(A[k], n, k) /\ Leveled(B[k], m, k)
          /\ k \in Nat
      BY <2>1, <2>2, <2>5, <2>6, TreeIsLeveled
    <3>4. Len(A[k]) > 1 /\ Len(B[k]) > 1
      BY <2>3, <2>4, <2>6 DEF Top
    <3>5. A[k] = B[k]
      BY <3>2, <3>3, <3>4, SameBelow
    <3> QED BY <2>5, <3>1, <3>5
  <2> HIDE DEF S
  <2>9. A[0] = B[0]
    <3>1. K \in S
      BY <2>5, <2>7, <2>8, Upwards
    <3> QED BY <2>5, <3>1 DEF S
  <2>10. n = m /\ \A i \in 1..n : h[i] = g[i]
    BY <2>1, <2>2, <2>9, TreeLevels, Shapes
  <2> QED BY <1>1, <1>2, <2>10, ListsEqual
<1> QED BY <1>5, <1>6, <1>7

-----------------------------------------------------------------------------
(* Inclusion proofs.                                                       *)

\* f is what verifyMerkleProof's loop has computed after n turns.
Fold(value, path, f, n) ==
  /\ f = [k \in 0..n |-> f[k]]
  /\ f[0] = Leaf(value)
  /\ \A k \in 1..n : f[k] = Joined(f[k - 1], path[k])

LEMMA FoldsExist ==
  ASSUME NEW value, NEW path, NEW n \in Nat
  PROVE  \E f : Fold(value, path, f, n)
<1> DEFINE S == {k \in 0..n : \E f : Fold(value, path, f, k)}
<1>1. Fold(value, path, [k \in 0..0 |-> Leaf(value)], 0)
  BY DEF Fold
<1>2. ASSUME NEW k \in 0..n - 1, k \in S PROVE k + 1 \in S
  <2>1. PICK f : Fold(value, path, f, k)
    BY <1>2
  <2> DEFINE g == [j \in 0..k + 1 |-> IF j = k + 1 THEN Joined(f[k], path[k + 1]) ELSE f[j]]
  <2>2. g = [j \in 0..k + 1 |-> g[j]]
    OBVIOUS
  <2>3. /\ g[k + 1] = Joined(f[k], path[k + 1])
        /\ \A j \in 0..k : g[j] = f[j]
    OBVIOUS
  <2>4. f[0] = Leaf(value) /\ \A j \in 1..k : f[j] = Joined(f[j - 1], path[j])
    BY <2>1 DEF Fold
  <2> HIDE DEF g
  <2>5. ASSUME NEW j \in 1..k + 1 PROVE g[j] = Joined(g[j - 1], path[j])
    <3>1. g[j - 1] = f[j - 1]
      BY <2>3
    <3>2. CASE j = k + 1
      <4>1. j - 1 = k
        BY <3>2
      <4> QED BY <2>3, <3>1, <3>2, <4>1
    <3>3. CASE j \in 1..k
      BY <2>3, <2>4, <3>1, <3>3
    <3> QED BY <3>2, <3>3
  <2>6. g[0] = Leaf(value)
    BY <2>3, <2>4
  <2>7. Fold(value, path, g, k + 1)
    BY <2>2, <2>5, <2>6 DEF Fold
  <2> QED BY <2>7
<1> HIDE DEF S
<1>3. 0 \in S
  BY <1>1 DEF S
<1>4. 0..n \subseteq S
  BY <1>2, <1>3, Upwards
<1> QED BY <1>4 DEF S

LEMMA JoinsFold ==
  ASSUME NEW value, NEW path, Len(path) \in Nat
  PROVE  Fold(value, path, Joins(value, path), Len(path))
<1> DEFINE Is(f) == f = [k \in 0..Len(path) |->
                           IF k = 0 THEN Leaf(value) ELSE Joined(f[k - 1], path[k])]
           J == CHOOSE f : Is(f)
<1>1. PICK f : Fold(value, path, f, Len(path))
  BY FoldsExist
<1>2. Is(f)
  BY <1>1 DEF Fold
<1>3. Is(J)
  BY <1>2, Zenon
<1>4. Joins(value, path) = J
  BY Zenon DEF Joins
<1> HIDE DEF J
<1>5. /\ J = [k \in 0..Len(path) |-> J[k]]
      /\ J[0] = Leaf(value)
      /\ \A k \in 1..Len(path) : J[k] = Joined(J[k - 1], path[k])
  BY <1>3
<1> QED BY <1>4, <1>5 DEF Fold

\* From the same start a path leads to one hash.
LEMMA FoldUnique ==
  ASSUME NEW value, NEW path, NEW n \in Nat, NEW f, NEW g,
         Fold(value, path, f, n), Fold(value, path, g, n)
  PROVE  f[n] = g[n]
<1> DEFINE S == {k \in 0..n : f[k] = g[k]}
<1>1. 0 \in S
  BY DEF Fold
<1>2. ASSUME NEW k \in 0..n - 1, k \in S PROVE k + 1 \in S
  <2>1. f[k + 1] = Joined(f[k], path[k + 1]) /\ g[k + 1] = Joined(g[k], path[k + 1])
    <3>1. k + 1 \in 1..n /\ (k + 1) - 1 = k
      OBVIOUS
    <3> QED BY <3>1 DEF Fold
  <2> QED BY <1>2, <2>1
<1> HIDE DEF S
<1>3. n \in S
  BY <1>1, <1>2, Upwards
<1> QED BY <1>3 DEF S

\* Two values that a path leads to the same hash are the same value.
LEMMA FoldSound ==
  ASSUME NEW v, NEW w, NEW path, NEW n \in Nat, NEW f, NEW g,
         Fold(v, path, f, n), Fold(w, path, g, n), f[n] = g[n]
  PROVE  v = w
<1> DEFINE S == {t \in 0..n : f[n - t] = g[n - t]}
<1>1. 0 \in S
  OBVIOUS
<1>2. ASSUME NEW t \in 0..n - 1, t \in S PROVE t + 1 \in S
  <2>1. PICK k \in 0..n - 1 : k = n - (t + 1) /\ k + 1 = n - t
    OBVIOUS
  <2>2. k + 1 \in 1..n /\ (k + 1) - 1 = k
    OBVIOUS
  <2>3. Joined(f[k], path[k + 1]) = Joined(g[k], path[k + 1])
    <3>1. f[k + 1] = Joined(f[k], path[k + 1])
      BY <2>2 DEF Fold
    <3>2. g[k + 1] = Joined(g[k], path[k + 1])
      BY <2>2 DEF Fold
    <3>3. f[k + 1] = g[k + 1]
      BY <1>2, <2>1
    <3> QED BY <3>1, <3>2, <3>3
  <2>4. f[k] = g[k]
    BY <2>3, Shapes DEF Joined
  <2> QED BY <2>1, <2>4
<1> HIDE DEF S
<1>3. n \in S
  BY <1>1, <1>2, Upwards
<1>4. f[0] = g[0]
  BY <1>3 DEF S
<1> QED BY <1>4, Shapes DEF Fold

LEMMA SeqIsList ==
  ASSUME NEW S, NEW s \in Seq(S)
  PROVE  IsList(s)
BY DEF IsList

LEMMA ListIsSeq ==
  ASSUME NEW s, NEW S, IsList(s), \A i \in 1..Len(s) : s[i] \in S
  PROVE  s \in Seq(S)
BY DEF IsList

LEMMA Appended ==
  ASSUME NEW s, NEW x, IsList(s), NEW n \in Nat, n = Len(s)
  PROVE  /\ IsList(Append(s, x)) /\ Len(Append(s, x)) = n + 1
         /\ Append(s, x)[n + 1] = x
         /\ \A i \in 1..n : Append(s, x)[i] = s[i]
<1>1. PICK S : S = {s[i] : i \in 1..n} \cup {x}
  OBVIOUS
<1>2. s \in Seq(S) /\ x \in S
  BY <1>1, ListIsSeq
<1>3. /\ Append(s, x) \in Seq(S) /\ Len(Append(s, x)) = n + 1
      /\ Append(s, x)[n + 1] = x
      /\ \A i \in 1..n : Append(s, x)[i] = s[i]
  BY <1>2
<1> QED BY <1>3, SeqIsList

\* The path leads from the value to the hash.
Reaches(value, path, hash) ==
  IsList(path) /\ \E f : Fold(value, path, f, Len(path)) /\ f[Len(path)] = hash

LEMMA ReachesMore ==
  ASSUME NEW value, NEW path, NEW hash, NEW p, Reaches(value, path, hash)
  PROVE  Reaches(value, Append(path, p), Joined(hash, p))
<1>1. PICK n \in Nat : n = Len(path)
  BY DEF Reaches, IsList
<1>2. PICK f : Fold(value, path, f, n) /\ f[n] = hash
  BY <1>1 DEF Reaches
<1>3. PICK q : q = Append(path, p)
  OBVIOUS
<1>4. IsList(q) /\ Len(q) = n + 1 /\ q[n + 1] = p /\ \A i \in 1..n : q[i] = path[i]
  BY <1>1, <1>3, Appended DEF Reaches
<1>5. PICK g : Fold(value, q, g, n + 1)
  BY FoldsExist
<1>6. g[n] = f[n]
  <2> DEFINE S == {k \in 0..n : g[k] = f[k]}
  <2>1. 0 \in S
    BY <1>2, <1>5 DEF Fold
  <2>2. ASSUME NEW k \in 0..n - 1, k \in S PROVE k + 1 \in S
    <3>1. k + 1 \in 1..n /\ (k + 1) - 1 = k /\ k + 1 \in 1..n + 1
      OBVIOUS
    <3>2. g[k + 1] = Joined(g[k], q[k + 1])
      BY <1>5, <3>1 DEF Fold
    <3>3. f[k + 1] = Joined(f[k], path[k + 1])
      BY <1>2, <3>1 DEF Fold
    <3> QED BY <1>4, <2>2, <3>1, <3>2, <3>3
  <2> HIDE DEF S
  <2>3. n \in S
    BY <2>1, <2>2, Upwards
  <2> QED BY <2>3 DEF S
<1>7. g[n + 1] = Joined(hash, p)
  <2>1. n + 1 \in 1..n + 1 /\ (n + 1) - 1 = n
    OBVIOUS
  <2>2. g[n + 1] = Joined(g[n], q[n + 1])
    BY <1>5, <2>1 DEF Fold
  <2> QED BY <1>2, <1>4, <1>6, <2>2
<1> QED BY <1>3, <1>4, <1>5, <1>7 DEF Reaches

\* f is what merkleProof's loop has computed after k turns.
Climb(levels, i, f, n) ==
  /\ f = [k \in 0..n |-> f[k]]
  /\ f[0] = [path |-> <<>>, position |-> i]
  /\ \A k \in 1..n : f[k] = Climbed(f[k - 1], levels[k - 1])

LEMMA ClimbsExist ==
  ASSUME NEW levels, NEW i, NEW n \in Nat
  PROVE  \E f : Climb(levels, i, f, n)
<1> DEFINE S == {k \in 0..n : \E f : Climb(levels, i, f, k)}
           B == [path |-> <<>>, position |-> i]
<1>1. Climb(levels, i, [k \in 0..0 |-> B], 0)
  BY DEF Climb
<1>2. ASSUME NEW k \in 0..n - 1, k \in S PROVE k + 1 \in S
  <2>1. PICK f : Climb(levels, i, f, k)
    BY <1>2
  <2> DEFINE g == [j \in 0..k + 1 |-> IF j = k + 1 THEN Climbed(f[k], levels[k]) ELSE f[j]]
  <2>2. g = [j \in 0..k + 1 |-> g[j]]
    OBVIOUS
  <2>3. /\ g[k + 1] = Climbed(f[k], levels[k])
        /\ \A j \in 0..k : g[j] = f[j]
    OBVIOUS
  <2>4. f[0] = B /\ \A j \in 1..k : f[j] = Climbed(f[j - 1], levels[j - 1])
    BY <2>1 DEF Climb
  <2> HIDE DEF g, B
  <2>5. ASSUME NEW j \in 1..k + 1 PROVE g[j] = Climbed(g[j - 1], levels[j - 1])
    <3>1. g[j - 1] = f[j - 1]
      BY <2>3
    <3>2. CASE j = k + 1
      <4>1. j - 1 = k
        BY <3>2
      <4> QED BY <2>3, <3>1, <3>2, <4>1
    <3>3. CASE j \in 1..k
      BY <2>3, <2>4, <3>1, <3>3
    <3> QED BY <3>2, <3>3
  <2>6. g[0] = B
    BY <2>3, <2>4
  <2>7. Climb(levels, i, g, k + 1)
    BY <2>2, <2>5, <2>6 DEF Climb, B
  <2> QED BY <2>7
<1> HIDE DEF S
<1>3. 0 \in S
  BY <1>1 DEF S
<1>4. 0..n \subseteq S
  BY <1>2, <1>3, Upwards
<1> QED BY <1>4 DEF S

LEMMA ClimbsClimb ==
  ASSUME NEW values, NEW i, Len(values) \in Nat
  PROVE  Climb(Levels(values), i, Climbs(values, i), Len(values))
<1> DEFINE Is(f) == f = [k \in 0..Len(values) |->
                           IF k = 0 THEN [path |-> <<>>, position |-> i]
                                    ELSE Climbed(f[k - 1], Levels(values)[k - 1])]
           C == CHOOSE f : Is(f)
<1>1. PICK f : Climb(Levels(values), i, f, Len(values))
  BY ClimbsExist
<1>2. Is(f)
  <2>1. f = [k \in 0..Len(values) |-> f[k]] /\ f[0] = [path |-> <<>>, position |-> i]
    BY <1>1 DEF Climb
  <2>2. ASSUME NEW k \in 0..Len(values), k # 0
        PROVE  f[k] = Climbed(f[k - 1], Levels(values)[k - 1])
    <3>1. k \in 1..Len(values)
      BY <2>2
    <3> QED BY <1>1, <3>1 DEF Climb
  <2>3. \A k \in 0..Len(values) :
          f[k] = IF k = 0 THEN [path |-> <<>>, position |-> i]
                          ELSE Climbed(f[k - 1], Levels(values)[k - 1])
    BY <2>1, <2>2
  <2> QED BY <2>1, <2>3
<1>3. Is(C)
  BY <1>2, Zenon
<1>4. Climbs(values, i) = C
  BY Zenon DEF Climbs
<1> HIDE DEF C
<1>5. /\ C = [k \in 0..Len(values) |-> C[k]]
      /\ C[0] = [path |-> <<>>, position |-> i]
      /\ \A k \in 1..Len(values) : C[k] = Climbed(C[k - 1], Levels(values)[k - 1])
  BY <1>3
<1> QED BY <1>4, <1>5 DEF Climb

\* One level up: the path leads to the node above.
LEMMA ClimbedReaches ==
  ASSUME NEW value, NEW level, IsList(level), Len(level) # 0,
         NEW at, at.position \in 1..Len(level), Reaches(value, at.path, level[at.position])
  PROVE  LET up == Climbed(at, level) IN
         /\ up.position \in 1..Len(Above(level))
         /\ Reaches(value, up.path, Above(level)[up.position])
<1>1. PICK m \in Nat : m = Len(level)
  BY DEF IsList
<1>2. PICK p \in 1..m : p = at.position
  BY <1>1
<1>3. PICK up : up = Climbed(at, level)
  OBVIOUS
<1>4. DOMAIN level = 1..m
  BY <1>1 DEF IsList
<1>5. PICK s : s = Sibling(p)
  OBVIOUS
<1>6. /\ up.position = (p + 1) \div 2
      /\ s \in 1..m => up.path = Append(at.path, [hash |-> level[s], isLeft |-> p % 2 = 0])
      /\ s \notin 1..m => up.path = at.path
  BY <1>2, <1>3, <1>4, <1>5 DEF Climbed
<1>7. CASE m = 1
  <2>1. p = 1 /\ s = 2
    BY <1>5, <1>7 DEF Sibling
  <2>2. up.position = 1 /\ up.path = at.path
    BY <1>6, <1>7, <2>1
  <2>3. Above(level) = level
    BY <1>1, <1>7, TopStays
  <2> QED BY <1>1, <1>2, <1>3, <1>7, <2>1, <2>2, <2>3
<1>8. CASE m > 1
  <2>1. PICK above : above = Above(level)
    OBVIOUS
  <2>2. PICK w : w = Len(above)
    OBVIOUS
  <2>3. Halved(level, above, m, w)
    BY <1>1, <1>8, <2>1, <2>2, OneUp
  <2>4. PICK i \in 1..w : i = (p + 1) \div 2 /\ (p = 2 * i - 1 \/ p = 2 * i)
    <3>1. w = (m + 1) \div 2
      BY <2>3 DEF Halved
    <3>2. (p + 1) \div 2 \in 1..w
      BY <3>1
    <3>3. p = 2 * ((p + 1) \div 2) - 1 \/ p = 2 * ((p + 1) \div 2)
      OBVIOUS
    <3> QED BY <3>2, <3>3
  <2>5. Reaches(value, at.path, level[p])
    BY <1>2
  <2>6. CASE p = 2 * i
    <3>1. p % 2 = 0 /\ s = p - 1 /\ s \in 1..m /\ 2 * i - 1 < m /\ s = 2 * i - 1
      BY <1>5, <2>6 DEF Sibling
    <3>2. above[i] = Node(level[s], level[p])
      BY <2>3, <2>6, <3>1 DEF Halved
    <3>3. PICK q : q = [hash |-> level[s], isLeft |-> p % 2 = 0]
      OBVIOUS
    <3>4. Joined(level[p], q) = above[i]
      BY <3>1, <3>2, <3>3 DEF Joined
    <3>5. Reaches(value, Append(at.path, q), Joined(level[p], q))
      BY <2>5, ReachesMore
    <3>6. up.path = Append(at.path, q)
      BY <1>6, <3>1, <3>3
    <3> QED BY <1>3, <1>6, <2>1, <2>2, <2>4, <3>4, <3>5, <3>6
  <2>7. CASE p = 2 * i - 1 /\ p < m
    <3>1. ~(p % 2 = 0) /\ s = p + 1 /\ s \in 1..m /\ 2 * i - 1 < m /\ s = 2 * i
      BY <1>5, <2>7 DEF Sibling
    <3>2. above[i] = Node(level[p], level[s])
      BY <2>3, <2>7, <3>1 DEF Halved
    <3>3. PICK q : q = [hash |-> level[s], isLeft |-> p % 2 = 0]
      OBVIOUS
    <3>4. Joined(level[p], q) = above[i]
      BY <3>1, <3>2, <3>3 DEF Joined
    <3>5. Reaches(value, Append(at.path, q), Joined(level[p], q))
      BY <2>5, ReachesMore
    <3>6. up.path = Append(at.path, q)
      BY <1>6, <3>1, <3>3
    <3> QED BY <1>3, <1>6, <2>1, <2>2, <2>4, <3>4, <3>5, <3>6
  <2>8. CASE p = 2 * i - 1 /\ ~(p < m)
    <3>1. s \notin 1..m
      <4>1. ~(p % 2 = 0)
        BY <2>8
      <4>2. s = p + 1
        BY <1>5, <4>1 DEF Sibling
      <4> QED BY <2>8, <4>2
    <3>2. above[i] = level[p]
      BY <2>3, <2>8 DEF Halved
    <3> QED BY <1>3, <1>6, <2>1, <2>2, <2>4, <2>5, <3>1, <3>2
  <2> QED BY <2>4, <2>6, <2>7, <2>8
<1> QED BY <1>1, <1>7, <1>8

\* A path leads from a leaf to the root of its tree, and from no other value.
LEMMA ProofReaches ==
  ASSUME NEW values, IsList(values), NEW i \in 1..Len(values)
  PROVE  Reaches(values[i], MerkleProof(values, i), MerkleRoot(values))
<1>1. PICK n \in Nat : n = Len(values)
  BY DEF IsList
<1>2. PICK A : A = Levels(values)
  OBVIOUS
<1>3. Tree(values, A, n)
  BY <1>1, <1>2 DEF Tree
<1>4. PICK C : C = Climbs(values, i)
  OBVIOUS
<1>5. Climb(A, i, C, n)
  BY <1>1, <1>2, <1>4, ClimbsClimb
<1> DEFINE OK(k) == /\ C[k].position \in 1..Len(A[k])
                    /\ Reaches(values[i], C[k].path, A[k][C[k].position])
           S == {k \in 0..n : OK(k)}
<1>6. 0 \in S
  <2>1. C[0] = [path |-> <<>>, position |-> i]
    BY <1>5 DEF Climb
  <2>2. C[0].path = <<>> /\ C[0].position = i
    BY <2>1
  <2>3. IsList(A[0]) /\ Len(A[0]) = n /\ A[0][i] = Leaf(values[i])
    BY <1>1, <1>3, TreeLevels
  <2>4. Reaches(values[i], <<>>, Leaf(values[i]))
    <3>1. IsList(<<>>) /\ Len(<<>>) = 0
      BY DEF IsList
    <3>2. PICK f : Fold(values[i], <<>>, f, 0)
      BY FoldsExist
    <3>3. f[0] = Leaf(values[i])
      BY <3>2 DEF Fold
    <3> QED BY <3>1, <3>2, <3>3 DEF Reaches
  <2> QED BY <1>1, <2>2, <2>3, <2>4
<1>7. ASSUME NEW k \in 0..n - 1, k \in S PROVE k + 1 \in S
  <2>1. k + 1 \in 1..n /\ (k + 1) - 1 = k /\ k \in 0..n
    OBVIOUS
  <2>2. A[k + 1] = Above(A[k])
    BY <1>3, TreeLevels
  <2>3. C[k + 1] = Climbed(C[k], A[k])
    BY <1>5, <2>1 DEF Climb
  <2>4. IsList(A[k]) /\ Len(A[k]) # 0
    BY <1>3, <2>1, TreeIsLeveled DEF Leveled
  <2>5. OK(k)
    BY <1>7
  <2>6. OK(k + 1)
    BY <2>2, <2>3, <2>4, <2>5, ClimbedReaches
  <2> QED BY <2>1, <2>6
<1> HIDE DEF S
<1>8. OK(n)
  <2>0. \A k \in 0..n - 1 : k \in S => k + 1 \in S
    BY <1>7
  <2>1. 0..n \subseteq S
    BY <1>6, <2>0, Upwards
  <2>2. n \in 0..n
    OBVIOUS
  <2> QED BY <2>1, <2>2 DEF S
<1>9. Len(A[n]) = 1
  <2>1. Leveled(A[n], n, n)
    BY <1>3, TreeIsLeveled
  <2>2. PICK m \in Nat \ {0} : m = Len(A[n])
    BY <2>1 DEF Leveled
  <2>3. m = 1 \/ m <= n - n
    BY <2>1, <2>2 DEF Leveled
  <2> QED BY <1>1, <2>2, <2>3
<1>10. MerkleRoot(values) = A[n][1]
  <2>1. values # <<>>
    BY DEF IsList
  <2> QED BY <1>1, <1>2, <2>1 DEF MerkleRoot
<1>11. MerkleProof(values, i) = C[n].path
  BY <1>1, <1>4 DEF MerkleProof
<1> QED BY <1>8, <1>9, <1>10, <1>11

\* A step's inclusion proof holds under the root for that step's hash, and for
\* no other hash.
THEOREM ProofHoldsForItsStep ==
  ASSUME NEW values, IsList(values), NEW i \in 1..Len(values), NEW value
  PROVE  VerifyMerkleProof(value, MerkleProof(values, i), MerkleRoot(values))
           <=> value = values[i]
<1>1. PICK path : path = MerkleProof(values, i)
  OBVIOUS
<1>2. Reaches(values[i], path, MerkleRoot(values))
  BY <1>1, ProofReaches
<1>3. PICK n \in Nat : n = Len(path)
  BY <1>2 DEF Reaches, IsList
<1>4. PICK f : Fold(values[i], path, f, n) /\ f[n] = MerkleRoot(values)
  BY <1>2, <1>3 DEF Reaches
<1>5. PICK g : g = Joins(value, path)
  OBVIOUS
<1>6. Fold(value, path, g, n)
  BY <1>3, <1>5, JoinsFold
<1>7. VerifyMerkleProof(value, path, MerkleRoot(values)) <=> g[n] = MerkleRoot(values)
  BY <1>3, <1>5 DEF VerifyMerkleProof
<1>8. ASSUME value = values[i] PROVE g[n] = f[n]
  BY <1>4, <1>6, <1>8, FoldUnique
<1>9. ASSUME g[n] = f[n] PROVE value = values[i]
  BY <1>4, <1>6, <1>9, FoldSound
<1> QED BY <1>1, <1>4, <1>7, <1>8, <1>9

-----------------------------------------------------------------------------
(* Steps, and chains of them.                                              *)

IsBody(body) == body = Payload(body.what, body.seq, body.yes, body.form)

IsStep(s) ==
  /\ s = [index |-> s.index, type |-> s.type, body |-> s.body, att |-> s.att,
          prior |-> s.prior, hash |-> s.hash]
  /\ IsBody(s.body)

\* A step as a file holds it.
IsText(s) == IsStep(s) /\ s.body.form = "text"

InChain(steps, i) ==
  /\ steps[i].index = i - 1
  /\ steps[i].prior = Prior(steps, i)
  /\ steps[i].hash = StepHash(steps[i].prior, steps[i].type, steps[i].body, steps[i].att)
  /\ steps[i].type = "vendor-upstream" => steps[i].att = NoAtt

Chain(steps) == IsList(steps) /\ \A i \in 1..Len(steps) : IsStep(steps[i]) /\ InChain(steps, i)

LEMMA Texts ==
  /\ \A w, q, y, f : /\ IsBody(Payload(w, q, y, f))
                     /\ Canonical(Payload(w, q, y, f)) = Payload(w, q, y, "text")
  /\ \A w : IsBody(Text(w)) /\ Text(w).form = "text"
  /\ \A b : IsBody(b) => IsBody(Canonical(b)) /\ Canonical(b).form = "text"
  /\ \A b : IsBody(b) => Canonical(Canonical(b)) = Canonical(b)
  /\ \A b : IsBody(b) /\ b.form = "text" => Canonical(b) = b
<1>1. \A w, q, y, f : /\ IsBody(Payload(w, q, y, f))
                      /\ Canonical(Payload(w, q, y, f)) = Payload(w, q, y, "text")
  BY DEF IsBody, Payload, Canonical
<1>2. \A w : IsBody(Text(w)) /\ Text(w).form = "text"
  BY DEF IsBody, Payload, Text
<1>3. ASSUME NEW b, IsBody(b)
      PROVE  /\ Canonical(b) = Payload(b.what, b.seq, b.yes, "text")
             /\ b.form = "text" => Canonical(b) = b
  <2>1. b = Payload(b.what, b.seq, b.yes, b.form)
    BY <1>3 DEF IsBody
  <2>2. Canonical(Payload(b.what, b.seq, b.yes, b.form)) = Payload(b.what, b.seq, b.yes, "text")
    BY <1>1
  <2>3. Canonical(b) = Payload(b.what, b.seq, b.yes, "text")
    BY <2>1, <2>2, Zenon
  <2> QED BY <2>1, <2>3, Zenon
<1>4. \A w, q, y : Payload(w, q, y, "text").form = "text"
  BY DEF Payload
<1> QED BY <1>1, <1>2, <1>3, <1>4

\* A hash says what it was computed from.
LEMMA HashBinds ==
  ASSUME NEW p, NEW t, NEW b, NEW a, NEW q, NEW u, NEW c, NEW e,
         StepHash(p, t, b, a) = StepHash(q, u, c, e)
  PROVE  p = q /\ t = u /\ Canonical(b) = Canonical(c) /\ a = e
<1> DEFINE Att(x) == IF x = NoAtt THEN <<"no-attestation">> ELSE <<"attestation", x>>
<1>1. \A x : StepHash(p, t, b, a)  = <<p, t, Canonical(b), Att(a)>>
  BY DEF StepHash
<1>2. \A x : StepHash(q, u, c, e)  = <<q, u, Canonical(c), Att(e)>>
  BY DEF StepHash
<1>3. Att(a) = Att(e) => a = e
  OBVIOUS
<1> HIDE DEF Att
<1> QED BY <1>1, <1>2, <1>3

LEMMA HashIsCanonical ==
  ASSUME NEW p, NEW t, NEW b, NEW a, IsBody(b)
  PROVE  StepHash(p, t, Canonical(b), a) = StepHash(p, t, b, a)
BY Texts, Zenon DEF StepHash

LEMMA HashIsNotGenesis ==
  \A p, t, b, a : StepHash(p, t, b, a) # Genesis
BY DEF StepHash, Genesis

LEMMA HashList ==
  ASSUME NEW steps, IsList(steps)
  PROVE  /\ IsList(Hashes(steps)) /\ Len(Hashes(steps)) = Len(steps)
         /\ \A i \in 1..Len(steps) : Hashes(steps)[i] = steps[i].hash
<1>1. PICK n \in Nat : n = Len(steps)
  BY DEF IsList
<1>2. PICK h : h = [i \in 1..n |-> steps[i].hash]
  OBVIOUS
<1>3. h = [i \in 1..n |-> h[i]] /\ \A i \in 1..n : h[i] = steps[i].hash
  BY <1>2
<1>4. IsList(h) /\ Len(h) = n
  BY <1>3, ListLen
<1>5. Hashes(steps) = h
  BY <1>1, <1>2 DEF Hashes
<1> QED BY <1>1, <1>3, <1>4, <1>5

\* No two steps of a chain have the same hash.
LEMMA HashesDiffer ==
  ASSUME NEW steps, Chain(steps), NEW i \in 1..Len(steps), NEW j \in 1..Len(steps),
         i < j
  PROVE  steps[i].hash # steps[j].hash
<1> SUFFICES ASSUME steps[i].hash = steps[j].hash PROVE FALSE
  OBVIOUS
<1>1. PICK n \in Nat : n = Len(steps)
  BY DEF Chain, IsList
<1>2. i \in 1..n /\ j \in 1..n
  BY <1>1
<1> DEFINE S == {t \in 0..i - 1 : steps[i - t].hash = steps[j - t].hash}
<1>3. 0 \in S
  BY <1>2
<1>4. ASSUME NEW k \in 1..n, NEW l \in 1..n, steps[k].hash = steps[l].hash
      PROVE  Prior(steps, k) = Prior(steps, l)
  <2>1. InChain(steps, k) /\ InChain(steps, l)
    BY <1>1 DEF Chain
  <2>2. StepHash(steps[k].prior, steps[k].type, steps[k].body, steps[k].att)
          = StepHash(steps[l].prior, steps[l].type, steps[l].body, steps[l].att)
    BY <1>4, <2>1 DEF InChain
  <2>3. steps[k].prior = steps[l].prior
    BY <2>2, HashBinds
  <2> QED BY <2>1, <2>3 DEF InChain
<1>5. ASSUME NEW t \in 0..(i - 1) - 1, t \in S PROVE t + 1 \in S
  <2>1. i - t \in 1..n /\ j - t \in 1..n /\ i - t # 1 /\ j - t # 1
    BY <1>2
  <2>2. Prior(steps, i - t) = Prior(steps, j - t)
    BY <1>4, <1>5, <2>1
  <2>3. steps[(i - t) - 1].hash = steps[(j - t) - 1].hash
    BY <2>1, <2>2 DEF Prior
  <2>4. (i - t) - 1 = i - (t + 1) /\ (j - t) - 1 = j - (t + 1)
    BY <1>2
  <2> QED BY <1>2, <2>3, <2>4
<1> HIDE DEF S
<1>6. i - 1 \in S
  <2>1. i - 1 \in Nat /\ i - 1 \in 0..i - 1
    BY <1>2
  <2> QED BY <1>3, <1>5, <2>1, Upwards
<1>7. PICK l \in 1..n : l = j - (i - 1) /\ l # 1 /\ l - 1 \in 1..n
  BY <1>2
<1>8. steps[1].hash = steps[l].hash
  <2>1. i - (i - 1) = 1
    BY <1>2
  <2> QED BY <1>6, <1>7, <2>1 DEF S
<1>9. Prior(steps, 1) = Prior(steps, l)
  BY <1>2, <1>4, <1>8
<1>10. steps[l - 1].hash = Genesis
  BY <1>7, <1>9 DEF Prior
<1> QED BY <1>1, <1>7, <1>10, HashIsNotGenesis DEF Chain, InChain

\* Two chains of a file with the same hashes are the same steps.
LEMMA ChainsEqual ==
  ASSUME NEW s, NEW t, Chain(s), Chain(t), Hashes(s) = Hashes(t),
         \A i \in 1..Len(s) : s[i].body.form = "text",
         \A i \in 1..Len(t) : t[i].body.form = "text"
  PROVE  s = t
<1>1. PICK n \in Nat : n = Len(s)
  BY DEF Chain, IsList
<1>2. n = Len(t)
  BY <1>1, HashList DEF Chain
<1>3. ASSUME NEW i \in 1..n PROVE s[i] = t[i]
  <2>1. IsStep(s[i]) /\ InChain(s, i) /\ IsStep(t[i]) /\ InChain(t, i)
    BY <1>1, <1>2 DEF Chain
  <2>2. s[i].hash = t[i].hash
    BY <1>1, <1>2, HashList DEF Chain
  <2>3. /\ s[i].prior = t[i].prior /\ s[i].type = t[i].type /\ s[i].att = t[i].att
        /\ Canonical(s[i].body) = Canonical(t[i].body)
    <3>1. StepHash(s[i].prior, s[i].type, s[i].body, s[i].att)
            = StepHash(t[i].prior, t[i].type, t[i].body, t[i].att)
      BY <2>1, <2>2 DEF InChain
    <3> QED BY <3>1, HashBinds
  <2>4. s[i].body = t[i].body
    BY <1>1, <1>2, <2>1, <2>3, Texts DEF IsStep
  <2>5. s[i].index = t[i].index
    BY <2>1 DEF InChain
  <2> HIDE DEF InChain
  <2> QED BY <2>1, <2>2, <2>3, <2>4, <2>5, Zenon DEF IsStep
<1> QED BY <1>1, <1>2, <1>3, ListsEqual DEF Chain

\* A step linked to a chain.
LEMMA LinkedChain ==
  ASSUME NEW steps, Chain(steps), NEW type, NEW body, NEW att, IsBody(body),
         type = "vendor-upstream" => att = NoAtt, NEW n \in Nat, n = Len(steps)
  PROVE  /\ Chain(Linked(steps, type, body, att))
         /\ Len(Linked(steps, type, body, att)) = n + 1
         /\ Linked(steps, type, body, att)[n + 1].att = att
         /\ \A i \in 1..n : Linked(steps, type, body, att)[i] = steps[i]
<1>1. PICK prior : prior = Prior(steps, n + 1)
  OBVIOUS
<1>2. PICK x : x = [index |-> n, type |-> type, body |-> body, att |-> att,
                    prior |-> prior, hash |-> StepHash(prior, type, body, att)]
  OBVIOUS
<1>3. PICK t : t = Linked(steps, type, body, att)
  OBVIOUS
<1>4. t = Append(steps, x)
  BY <1>1, <1>2, <1>3 DEF Linked
<1>5. /\ IsList(t) /\ Len(t) = n + 1 /\ t[n + 1] = x
      /\ \A i \in 1..n : t[i] = steps[i]
  BY <1>4, Appended DEF Chain
<1>6. IsStep(x) /\ x.att = att
  BY <1>2 DEF IsStep
<1>7. \A i \in 1..n + 1 : Prior(t, i) = Prior(steps, i)
  BY <1>5 DEF Prior
<1>8. InChain(t, n + 1)
  <2>1. t[n + 1].index = (n + 1) - 1
    BY <1>2, <1>5
  <2>2. Prior(t, n + 1) = prior
    BY <1>1, <1>7
  <2> QED BY <1>2, <1>5, <2>1, <2>2 DEF InChain
<1>9. \A i \in 1..n : InChain(t, i)
  BY <1>5, <1>7 DEF Chain, InChain
<1>10. \A i \in 1..n + 1 : IsStep(t[i]) /\ InChain(t, i)
  BY <1>5, <1>6, <1>8, <1>9 DEF Chain
<1> QED BY <1>3, <1>5, <1>6, <1>10 DEF Chain

-----------------------------------------------------------------------------
(* What an edit leaves of a file.                                          *)

StepList(s) == IsList(s) /\ \A i \in 1..Len(s) : IsText(s[i])

LEMMA StepSeq ==
  ASSUME NEW s, StepList(s)
  PROVE  \E S : s \in Seq(S) /\ \A x \in S : IsText(x)
<1>1. PICK n \in Nat : n = Len(s)
  BY DEF StepList, IsList
<1>2. PICK S : S = {s[i] : i \in 1..n}
  OBVIOUS
<1>3. s \in Seq(S)
  BY <1>1, <1>2, ListIsSeq DEF StepList
<1>4. \A x \in S : IsText(x)
  BY <1>1, <1>2 DEF StepList
<1> QED BY <1>3, <1>4

LEMMA SeqSteps ==
  ASSUME NEW S, NEW s \in Seq(S), \A x \in S : IsText(x)
  PROVE  StepList(s)
<1>1. \A i \in 1..Len(s) : s[i] \in S
  OBVIOUS
<1> QED BY <1>1, SeqIsList DEF StepList

LEMMA Piece ==
  ASSUME NEW S, NEW s \in Seq(S), NEW m \in Int, NEW n \in Int, m >= 1, n <= Len(s)
  PROVE  SubSeq(s, m, n) \in Seq(S)
<1>1. \A i \in m..n : s[i] \in S
  OBVIOUS
<1> QED BY <1>1, SubSeqProperties

LEMMA EditedSteps ==
  ASSUME NEW steps, StepList(steps), NEW t \in Edited(steps)
  PROVE  StepList(t)
<1>1. PICK n \in Nat : n = Len(steps)
  BY DEF StepList, IsList
<1>2. PICK S : steps \in Seq(S) /\ \A x \in S : IsText(x)
  BY StepSeq
<1>3. DOMAIN steps = 1..n
  BY <1>1 DEF StepList, IsList
<1>4. ASSUME NEW i \in 1..n, NEW x, IsText(x), t = [steps EXCEPT ![i] = x]
      PROVE  StepList(t)
  <2>1. steps \in Seq(S \cup {x}) /\ x \in S \cup {x}
    BY <1>2
  <2>2. t \in Seq(S \cup {x})
    BY <1>1, <1>4, <2>1, ExceptSeq
  <2>3. \A y \in S \cup {x} : IsText(y)
    BY <1>2, <1>4
  <2> QED BY <2>2, <2>3, SeqSteps
<1>5. ASSUME NEW i \in 1..n, t = [steps EXCEPT ![i].body.what = "altered"]
      PROVE  StepList(t)
  <2>1. PICK x : x = [steps[i] EXCEPT !.body.what = "altered"]
    OBVIOUS
  <2>2. t = [steps EXCEPT ![i] = x]
    BY <1>5, <2>1
  <2>3. IsText(steps[i])
    BY <1>1 DEF StepList
  <2>4. IsText(x)
    <3>1. PICK s : s = steps[i]
      OBVIOUS
    <3>2. PICK b : b = Payload("altered", s.body.seq, s.body.yes, s.body.form)
      OBVIOUS
    <3>3. b = [s.body EXCEPT !.what = "altered"]
      BY <2>3, <3>1, <3>2 DEF IsText, IsStep, IsBody, Payload
    <3>4. IsBody(b) /\ b.form = "text"
      BY <2>3, <3>1, <3>2 DEF IsText, IsBody, Payload
    <3>5. x = [s EXCEPT !.body = b]
      BY <2>1, <3>1, <3>3
    <3>6. x = [index |-> s.index, type |-> s.type, body |-> b, att |-> s.att,
               prior |-> s.prior, hash |-> s.hash]
      BY <2>3, <3>1, <3>5 DEF IsText, IsStep
    <3> QED BY <3>4, <3>6 DEF IsText, IsStep
  <2> QED BY <1>4, <2>2, <2>4
<1>6. ASSUME NEW i \in 1..n, t = [steps EXCEPT ![i].att.handle = 9]
      PROVE  StepList(t)
  <2>1. PICK x : x = [steps[i] EXCEPT !.att.handle = 9]
    OBVIOUS
  <2>2. t = [steps EXCEPT ![i] = x]
    BY <1>6, <2>1
  <2>3. IsText(steps[i])
    BY <1>1 DEF StepList
  <2>4. IsText(x)
    <3>1. PICK s : s = steps[i]
      OBVIOUS
    <3>2. PICK a : a = [s.att EXCEPT !.handle = 9]
      OBVIOUS
    <3>3. x = [s EXCEPT !.att = a]
      BY <2>1, <3>1, <3>2
    <3>4. x = [index |-> s.index, type |-> s.type, body |-> s.body, att |-> a,
               prior |-> s.prior, hash |-> s.hash]
      BY <2>3, <3>1, <3>3 DEF IsText, IsStep
    <3> QED BY <2>3, <3>1, <3>4 DEF IsText, IsStep
  <2> QED BY <1>4, <2>2, <2>4
<1>7. ASSUME NEW i \in 1..n PROVE /\ SubSeq(steps, 1, i - 1) \in Seq(S)
                                  /\ SubSeq(steps, i, n) \in Seq(S)
                                  /\ SubSeq(steps, i + 1, n) \in Seq(S)
                                  /\ SubSeq(steps, i + 2, n) \in Seq(S)
  BY <1>1, <1>2, Piece
<1>8. ASSUME NEW i \in 1..n, t = RemoveAt(steps, i) PROVE StepList(t)
  <2>1. t \in Seq(S)
    BY <1>1, <1>7, <1>8, ConcatProperties DEF RemoveAt
  <2> QED BY <1>2, <2>1, SeqSteps
<1>9. ASSUME NEW i \in 1..n, t = InsertAt(steps, i, steps[i]) PROVE StepList(t)
  <2>1. <<steps[i]>> \in Seq(S)
    BY <1>1, <1>2
  <2>2. SubSeq(steps, 1, i - 1) \o <<steps[i]>> \in Seq(S)
    BY <1>7, <2>1, ConcatProperties
  <2>3. t \in Seq(S)
    BY <1>1, <1>7, <1>9, <2>2, ConcatProperties DEF InsertAt
  <2> QED BY <1>2, <2>3, SeqSteps
<1>10. ASSUME NEW i \in 1..n - 1,
              t = SubSeq(steps, 1, i - 1) \o <<steps[i + 1], steps[i]>>
                    \o SubSeq(steps, i + 2, n)
       PROVE  StepList(t)
  <2>1. i \in 1..n /\ i + 1 \in 1..n
    BY <1>1
  <2>2. <<steps[i + 1], steps[i]>> \in Seq(S)
    BY <1>1, <1>2, <2>1
  <2>3. SubSeq(steps, 1, i - 1) \o <<steps[i + 1], steps[i]>> \in Seq(S)
    BY <1>7, <2>1, <2>2, ConcatProperties
  <2>4. t \in Seq(S)
    BY <1>7, <1>10, <2>1, <2>3, ConcatProperties
  <2> QED BY <1>2, <2>4, SeqSteps
<1> QED BY <1>1, <1>3, <1>5, <1>6, <1>8, <1>9, <1>10 DEF Edited

LEMMA LinkedSteps ==
  ASSUME NEW s, StepList(s), NEW type, NEW body, NEW att, IsBody(body), body.form = "text"
  PROVE  StepList(Linked(s, type, body, att))
<1>1. PICK n \in Nat : n = Len(s)
  BY DEF StepList, IsList
<1>2. PICK prior : prior = Prior(s, n + 1)
  OBVIOUS
<1>3. PICK x : x = [index |-> n, type |-> type, body |-> body, att |-> att,
                    prior |-> prior, hash |-> StepHash(prior, type, body, att)]
  OBVIOUS
<1>4. PICK t : t = Linked(s, type, body, att)
  OBVIOUS
<1>5. t = Append(s, x)
  BY <1>1, <1>2, <1>3, <1>4 DEF Linked
<1>6. IsList(t) /\ Len(t) = n + 1 /\ t[n + 1] = x /\ \A i \in 1..n : t[i] = s[i]
  BY <1>1, <1>5, Appended DEF StepList
<1>7. IsText(x)
  BY <1>3 DEF IsText, IsStep
<1>8. \A i \in 1..n + 1 : IsText(t[i])
  BY <1>1, <1>6, <1>7 DEF StepList
<1> QED BY <1>4, <1>6, <1>8 DEF StepList

\* f is what relinking has built after n steps.
Relink(steps, f, n) ==
  /\ f = [k \in 0..n |-> f[k]]
  /\ f[0] = <<>>
  /\ \A k \in 1..n : f[k] = Linked(f[k - 1], steps[k].type, steps[k].body, steps[k].att)

LEMMA RelinksExist ==
  ASSUME NEW steps, NEW n \in Nat
  PROVE  \E f : Relink(steps, f, n)
<1> DEFINE S == {k \in 0..n : \E f : Relink(steps, f, k)}
           Next1(s, k) == Linked(s, steps[k].type, steps[k].body, steps[k].att)
<1>1. Relink(steps, [k \in 0..0 |-> <<>>], 0)
  BY DEF Relink
<1>2. ASSUME NEW k \in 0..n - 1, k \in S PROVE k + 1 \in S
  <2>1. PICK f : Relink(steps, f, k)
    BY <1>2
  <2> DEFINE g == [j \in 0..k + 1 |-> IF j = k + 1 THEN Next1(f[k], k + 1) ELSE f[j]]
  <2>2. g = [j \in 0..k + 1 |-> g[j]]
    OBVIOUS
  <2>3. /\ g[k + 1] = Next1(f[k], k + 1)
        /\ \A j \in 0..k : g[j] = f[j]
    OBVIOUS
  <2>4. f[0] = <<>> /\ \A j \in 1..k : f[j] = Next1(f[j - 1], j)
    BY <2>1 DEF Relink
  <2> HIDE DEF g, Next1
  <2>5. ASSUME NEW j \in 1..k + 1 PROVE g[j] = Next1(g[j - 1], j)
    <3>1. g[j - 1] = f[j - 1]
      BY <2>3
    <3>2. CASE j = k + 1
      <4>1. j - 1 = k
        BY <3>2
      <4> QED BY <2>3, <3>1, <3>2, <4>1
    <3>3. CASE j \in 1..k
      BY <2>3, <2>4, <3>1, <3>3
    <3> QED BY <3>2, <3>3
  <2>6. g[0] = <<>>
    BY <2>3, <2>4
  <2>7. Relink(steps, g, k + 1)
    BY <2>2, <2>5, <2>6 DEF Relink, Next1
  <2> QED BY <2>7
<1> HIDE DEF S
<1>3. 0 \in S
  BY <1>1 DEF S
<1>4. 0..n \subseteq S
  BY <1>2, <1>3, Upwards
<1> QED BY <1>4 DEF S

LEMMA RelinkedSteps ==
  ASSUME NEW steps, StepList(steps)
  PROVE  StepList(Relinked(steps))
<1>1. PICK n \in Nat : n = Len(steps)
  BY DEF StepList, IsList
<1> DEFINE Is(f) == f = [k \in 0..n |->
                           IF k = 0 THEN <<>>
                                    ELSE Linked(f[k - 1], steps[k].type, steps[k].body,
                                                steps[k].att)]
           R == CHOOSE f : Is(f)
           T == {k \in 0..n : StepList(R[k])}
<1>2. PICK f : Relink(steps, f, n)
  BY RelinksExist
<1>3. Is(f)
  BY <1>2 DEF Relink
<1>4. Is(R)
  BY <1>3, Zenon
<1>5. Relinked(steps) = R[n]
  BY <1>1, Zenon DEF Relinked
<1> HIDE DEF R
<1>6. /\ R[0] = <<>>
      /\ \A k \in 1..n : R[k] = Linked(R[k - 1], steps[k].type, steps[k].body, steps[k].att)
  BY <1>4
<1>7. 0 \in T
  <2>1. StepList(<<>>)
    BY DEF StepList, IsList
  <2> QED BY <1>6, <2>1
<1>8. ASSUME NEW k \in 0..n - 1, k \in T PROVE k + 1 \in T
  <2>1. k + 1 \in 1..n /\ (k + 1) - 1 = k
    OBVIOUS
  <2>2. PICK s : s = steps[k + 1] /\ IsText(s)
    BY <1>1, <2>1 DEF StepList
  <2>3. R[k + 1] = Linked(R[k], s.type, s.body, s.att)
    BY <1>6, <2>1, <2>2
  <2>4. StepList(R[k])
    BY <1>8
  <2>5. StepList(R[k + 1])
    BY <2>2, <2>3, <2>4, LinkedSteps DEF IsText, IsStep
  <2> QED BY <2>1, <2>5
<1> HIDE DEF T
<1>9. n \in T
  BY <1>7, <1>8, Upwards
<1> QED BY <1>5, <1>9 DEF T

-----------------------------------------------------------------------------
(* The inductive invariant.                                                *)

\* What verifyOnChain wants of one attestation, in the vault v.
Attests(v, att) ==
  att # NoAtt =>
    /\ att.seq \in DOMAIN v
    /\ att.handle = att.seq
    /\ v[att.seq].finalized
    /\ v[att.seq].approved = att.approved
    /\ att.commit \in DOMAIN v

AllAttest(v, steps) == \A i \in 1..Len(steps) : Attests(v, steps[i].att)

\* A builder that remembers the spend m.
RecordOK(v, b, m) ==
  b = [steps |-> b.steps, cites |-> m] /\ Chain(b.steps) /\ AllAttest(v, b.steps)

RunOK(r) ==
  /\ mine[r] \in 0..Len(spends)
  /\ point[r] \in {"requested", "revealed"} => mine[r] # 0
  /\ RecordOK(spends, builder[r], mine[r])

TraceOK(v, t) ==
  /\ t = [steps |-> t.steps, header |-> "goal", root |-> t.root]
  /\ Chain(t.steps) /\ StepList(t.steps) /\ AllAttest(v, t.steps)
  /\ t.root = MerkleRoot(Hashes(t.steps))

Spend == [finalized : BOOLEAN, approved : BOOLEAN]

VaultOK == spends \in Seq(Spend) /\ pending \in 0..Len(spends)

RunsOK ==
  /\ point = [r \in Runs |-> point[r]] /\ mine = [r \in Runs |-> mine[r]]
  /\ builder = [r \in Runs |-> builder[r]] /\ saved = [r \in Runs |-> saved[r]]
  /\ \A r \in Runs : RunOK(r) /\ (saved[r] # <<>> => TraceOK(spends, saved[r]))

FileOK ==
  /\ edits \in 0..MaxEdits
  /\ origin = NoRun => edits = 0
  /\ origin # NoRun =>
       /\ origin \in Runs /\ saved[origin] # <<>>
       /\ file = [steps |-> file.steps, header |-> file.header, root |-> file.root]
       /\ StepList(file.steps)
       /\ edits = 0 => file = saved[origin]

TraceInv == VaultOK /\ RunsOK /\ FileOK

\* Spends are appended and finalised; a decision is never changed.
Grown(v, w) ==
  /\ v \in Seq(Spend) /\ w \in Seq(Spend) /\ Len(v) <= Len(w)
  /\ \A i \in 1..Len(v) : /\ w[i].approved = v[i].approved
                          /\ v[i].finalized => w[i].finalized

LEMMA GrownAttests ==
  ASSUME NEW v, NEW w, Grown(v, w), NEW att, Attests(v, att)
  PROVE  Attests(w, att)
BY DEF Grown, Attests

LEMMA GrownAll ==
  ASSUME NEW v, NEW w, Grown(v, w)
  PROVE  /\ \A b, m : RecordOK(v, b, m) => RecordOK(w, b, m)
         /\ \A t : TraceOK(v, t) => TraceOK(w, t)
<1>1. ASSUME NEW steps, AllAttest(v, steps) PROVE AllAttest(w, steps)
  BY <1>1, GrownAttests DEF AllAttest
<1> QED BY <1>1 DEF RecordOK, TraceOK

\* What one event leaves of a builder.
LEMMA LinkedRecord ==
  ASSUME NEW v, NEW b, NEW m, RecordOK(v, b, m), NEW type, NEW body, NEW att, NEW k,
         IsBody(body), type # "vendor-upstream", Attests(v, att)
  PROVE  RecordOK(v, [steps |-> Linked(b.steps, type, body, att), cites |-> k], k)
<1>1. PICK n \in Nat : n = Len(b.steps)
  BY DEF RecordOK, Chain, IsList
<1>2. PICK t : t = Linked(b.steps, type, body, att)
  OBVIOUS
<1>3. Chain(t) /\ Len(t) = n + 1 /\ t[n + 1].att = att /\ \A i \in 1..n : t[i] = b.steps[i]
  BY <1>1, <1>2, LinkedChain DEF RecordOK
<1>4. AllAttest(v, t)
  BY <1>1, <1>3 DEF RecordOK, AllAttest
<1>5. PICK c : c = [steps |-> t, cites |-> k]
  OBVIOUS
<1>6. c = [steps |-> c.steps, cites |-> k] /\ c.steps = t
  BY <1>5
<1> QED BY <1>2, <1>3, <1>4, <1>5, <1>6 DEF RecordOK

Plain(type) == type \notin {"spend-requested", "decision-finalized", "vendor-upstream"}

LEMMA PlainRecord ==
  ASSUME NEW v, NEW b, NEW m, RecordOK(v, b, m), NEW type, Plain(type), NEW body, IsBody(body)
  PROVE  RecordOK(v, Recorded(b, type, body), m)
<1>1. PICK t : t = Linked(b.steps, type, body, NoAtt)
  OBVIOUS
<1>2. Recorded(b, type, body) = [b EXCEPT !.steps = t]
  BY <1>1, Zenon DEF Recorded, Plain
<1>3. [b EXCEPT !.steps = t] = [steps |-> t, cites |-> m]
  BY DEF RecordOK
<1>4. Attests(v, NoAtt)
  BY DEF Attests
<1>5. type # "vendor-upstream"
  BY DEF Plain
<1>6. RecordOK(v, [steps |-> t, cites |-> m], m)
  BY <1>1, <1>4, <1>5, LinkedRecord
<1> QED BY <1>2, <1>3, <1>6

\* What the file holds of a chain is a chain, with the same attestations.
LEMMA WrittenChain ==
  ASSUME NEW v, NEW steps, Chain(steps), AllAttest(v, steps)
  PROVE  /\ Chain(Written(steps)) /\ StepList(Written(steps))
         /\ AllAttest(v, Written(steps))
<1>1. PICK n \in Nat : n = Len(steps)
  BY DEF Chain, IsList
<1>2. PICK t : t = [i \in 1..n |-> [steps[i] EXCEPT !.body.form = "text"]]
  OBVIOUS
<1>3. t = Written(steps)
  BY <1>1, <1>2 DEF Written
<1>4. t = [i \in 1..n |-> t[i]]
  BY <1>2
<1>5. IsList(t) /\ Len(t) = n
  BY <1>4, ListLen
<1>6. ASSUME NEW i \in 1..n
      PROVE  /\ IsText(t[i])
             /\ t[i].index = steps[i].index /\ t[i].type = steps[i].type
             /\ t[i].att = steps[i].att /\ t[i].prior = steps[i].prior
             /\ t[i].hash = steps[i].hash /\ t[i].body = Canonical(steps[i].body)
  <2>1. PICK s : s = steps[i] /\ IsStep(s)
    BY <1>1 DEF Chain
  <2>2. PICK b : b = Canonical(s.body)
    OBVIOUS
  <2>3. t[i] = [s EXCEPT !.body = b]
    BY <1>2, <2>1, <2>2 DEF Canonical
  <2>4. t[i] = [index |-> s.index, type |-> s.type, body |-> b, att |-> s.att,
                prior |-> s.prior, hash |-> s.hash]
    BY <2>1, <2>3 DEF IsStep
  <2>5. IsBody(b) /\ b.form = "text"
    BY <2>1, <2>2, Texts DEF IsStep
  <2> QED BY <2>1, <2>2, <2>4, <2>5 DEF IsText, IsStep
<1>7. ASSUME NEW i \in 1..n PROVE InChain(t, i)
  <2>1. InChain(steps, i) /\ IsStep(steps[i])
    BY <1>1 DEF Chain
  <2>2. Prior(t, i) = Prior(steps, i)
    <3>1. i = 1 \/ i - 1 \in 1..n
      OBVIOUS
    <3> QED BY <1>6, <3>1 DEF Prior
  <2>3. StepHash(t[i].prior, t[i].type, t[i].body, t[i].att)
          = StepHash(steps[i].prior, steps[i].type, steps[i].body, steps[i].att)
    BY <1>6, <2>1, HashIsCanonical DEF IsStep
  <2> QED BY <1>6, <2>1, <2>2, <2>3 DEF InChain
<1>8. Chain(t)
  BY <1>5, <1>6, <1>7 DEF Chain, IsText
<1>9. StepList(t)
  BY <1>5, <1>6 DEF StepList
<1>10. AllAttest(v, t)
  BY <1>1, <1>5, <1>6 DEF AllAttest
<1> QED BY <1>3, <1>8, <1>9, <1>10

-----------------------------------------------------------------------------
(* Its steps.                                                              *)

LEMMA InitTraceInv == TraceInit => TraceInv
<1> SUFFICES ASSUME TraceInit PROVE TraceInv
  OBVIOUS
<1>1. VaultOK
  BY DEF TraceInit, VaultOK
<1>2. FileOK
  BY MaxEditsAssumption DEF TraceInit, FileOK
<1>3. ASSUME NEW r \in Runs PROVE RunOK(r) /\ saved[r] = <<>>
  <2>1. Chain(<<>>) /\ AllAttest(spends, <<>>)
    BY DEF Chain, IsList, AllAttest
  <2>2. /\ point[r] = "start" /\ mine[r] = 0 /\ saved[r] = <<>>
        /\ builder[r] = [steps |-> <<>>, cites |-> 0] /\ Len(spends) = 0
    BY DEF TraceInit
  <2> QED BY <2>1, <2>2 DEF RunOK, RecordOK
<1>4. RunsOK
  BY <1>3 DEF RunsOK, TraceInit
<1> QED BY <1>1, <1>2, <1>4 DEF TraceInv

\* A run r moves: to a point, with a record and the spend it remembers.
LEMMA RunMoves ==
  ASSUME RunsOK, Grown(spends, spends'), NEW r \in Runs, NEW to, NEW b, NEW m,
         point' = [point EXCEPT ![r] = to], builder' = [builder EXCEPT ![r] = b],
         mine' = [mine EXCEPT ![r] = m], saved' = saved,
         m \in 0..Len(spends'), to \in {"requested", "revealed"} => m # 0,
         RecordOK(spends', b, m)
  PROVE  RunsOK'
<1>1. /\ point' = [o \in Runs |-> point'[o]] /\ mine' = [o \in Runs |-> mine'[o]]
      /\ builder' = [o \in Runs |-> builder'[o]] /\ saved' = [o \in Runs |-> saved'[o]]
  BY DEF RunsOK
<1>2. ASSUME NEW o \in Runs PROVE RunOK(o)'
  <2>1. CASE o = r
    <3>1. point'[o] = to /\ builder'[o] = b /\ mine'[o] = m
      BY <2>1 DEF RunsOK
    <3> QED BY <3>1 DEF RunOK
  <2>2. CASE o # r
    <3>1. point'[o] = point[o] /\ builder'[o] = builder[o] /\ mine'[o] = mine[o]
      BY <2>2 DEF RunsOK
    <3>2. RunOK(o)
      BY DEF RunsOK
    <3>3. RecordOK(spends', builder[o], mine[o])
      BY <3>2, GrownAll DEF RunOK
    <3>4. mine[o] \in 0..Len(spends')
      BY <3>2 DEF RunOK, Grown
    <3> QED BY <3>1, <3>2, <3>3, <3>4 DEF RunOK
  <2> QED BY <2>1, <2>2
<1>3. ASSUME NEW o \in Runs, saved'[o] # <<>> PROVE TraceOK(spends', saved'[o])
  BY <1>3, GrownAll DEF RunsOK
<1> QED BY <1>1, <1>2, <1>3 DEF RunsOK

LEMMA SameGrown ==
  ASSUME VaultOK, spends' = spends
  PROVE  Grown(spends, spends')
BY DEF VaultOK, Grown

LEMMA EmitIs ==
  ASSUME RunsOK, NEW r \in Runs, NEW type, NEW body, Emit(r, type, body)
  PROVE  builder' = [builder EXCEPT ![r] = Recorded(builder[r], type, body)]
BY DEF RunsOK, Emit, Listening

LEMMA FlowGoes ==
  ASSUME RunsOK, NEW r \in Runs, Flow(r)
  PROVE  /\ origin = NoRun
         /\ \E to : /\ point' = [point EXCEPT ![r] = to]
                    /\ to \in {"requested", "revealed"} => point[r] = "requested"
         /\ \/ builder' = builder
            \/ \E type, body : Plain(type) /\ IsBody(body) /\ Emit(r, type, body)
<1>1. ASSUME NEW from, NEW to, Goes(r, from, to),
             to \in {"requested", "revealed"} => from = "requested"
      PROVE  /\ origin = NoRun
             /\ \E at : /\ point' = [point EXCEPT ![r] = at]
                        /\ at \in {"requested", "revealed"} => point[r] = "requested"
  BY <1>1 DEF Goes
<1>2. ASSUME NEW type, NEW what, Emit(r, type, Text(what)), Plain(type)
      PROVE  \E t, body : Plain(t) /\ IsBody(body) /\ Emit(r, t, body)
  BY <1>2, Texts
<1>3. ASSUME NEW type, NEW w, NEW q, NEW y, NEW f, Emit(r, type, Payload(w, q, y, f)), Plain(type)
      PROVE  \E t, body : Plain(t) /\ IsBody(body) /\ Emit(r, t, body)
  BY <1>3, Texts
<1>4. \A type \in {"request", "response", "terms-rejected", "payment-required",
                   "agent-reasoning", "failed", "decision-revealed", "signer-refused",
                   "authorization-signed", "settled"} : Plain(type)
  BY DEF Plain
<1>5. \/ Goes(r, "start", "asked") \/ Goes(r, "asked", "over") \/ Goes(r, "asked", "quoted")
      \/ Goes(r, "quoted", "over") \/ Goes(r, "quoted", "decided") \/ Goes(r, "decided", "over")
      \/ Goes(r, "requested", "over") \/ Goes(r, "requested", "revealed")
      \/ Goes(r, "finalized", "over") \/ Goes(r, "finalized", "signed")
      \/ Goes(r, "signed", "over") \/ Goes(r, "signed", "paying")
      \/ Goes(r, "paying", "over") \/ Goes(r, "paying", "settled") \/ Goes(r, "settled", "over")
  BY DEF Flow
<1>6. \/ builder' = builder
      \/ \E type, what : Plain(type) /\ Emit(r, type, Text(what))
      \/ \E type, w, q, y, f : Plain(type) /\ Emit(r, type, Payload(w, q, y, f))
  BY <1>4 DEF Flow
<1>7. \/ builder' = builder
      \/ \E type, body : Plain(type) /\ IsBody(body) /\ Emit(r, type, body)
  BY <1>2, <1>3, <1>6
<1> QED BY <1>1, <1>5, <1>7

LEMMA StepKeeps ==
  ASSUME TraceInv, NEW r \in Runs, Step(r)
  PROVE  TraceInv'
<1>1. PICK to : /\ point' = [point EXCEPT ![r] = to]
                /\ to \in {"requested", "revealed"} => point[r] = "requested"
  BY FlowGoes DEF Step, TraceInv
<1>2. UNCHANGED <<spends, pending, mine, saved, file, origin, edits>>
  BY DEF Step, Unchained, Unread
<1>3. RunsOK /\ RunOK(r) /\ Grown(spends, spends')
  BY <1>2, SameGrown DEF TraceInv, RunsOK
<1>4. PICK b : builder' = [builder EXCEPT ![r] = b] /\ RecordOK(spends, b, mine[r])
  <2>1. CASE builder' = builder
    <3>1. builder' = [builder EXCEPT ![r] = builder[r]]
      BY <1>3, <2>1 DEF RunsOK
    <3> QED BY <1>3, <3>1 DEF RunOK
  <2>2. ASSUME NEW type, NEW body, Plain(type), IsBody(body), Emit(r, type, body)
        PROVE  \E b : builder' = [builder EXCEPT ![r] = b] /\ RecordOK(spends, b, mine[r])
    <3>1. builder' = [builder EXCEPT ![r] = Recorded(builder[r], type, body)]
      BY <1>3, <2>2, EmitIs
    <3>2. RecordOK(spends, Recorded(builder[r], type, body), mine[r])
      BY <1>3, <2>2, PlainRecord DEF RunOK
    <3> QED BY <3>1, <3>2
  <2> QED BY <1>3, <2>1, <2>2, FlowGoes DEF Step
<1>5. mine' = [mine EXCEPT ![r] = mine[r]]
  BY <1>2, <1>3 DEF RunsOK
<1>6. RunsOK'
  <2>1. mine[r] \in 0..Len(spends') /\ (to \in {"requested", "revealed"} => mine[r] # 0)
    BY <1>1, <1>2, <1>3 DEF RunOK
  <2>2. RecordOK(spends', b, mine[r])
    BY <1>2, <1>4
  <2> QED BY <1>1, <1>2, <1>3, <1>4, <1>5, <2>1, <2>2, RunMoves
<1>7. VaultOK' /\ FileOK'
  BY <1>2 DEF TraceInv, VaultOK, FileOK
<1> QED BY <1>6, <1>7 DEF TraceInv

LEMMA ChangedSpend ==
  ASSUME NEW v \in Seq(Spend), NEW i \in 1..Len(v), NEW s \in Spend
  PROVE  LET u == [v EXCEPT ![i] = s] IN
         /\ u \in Seq(Spend) /\ Len(u) = Len(v)
         /\ \A j \in 1..Len(v) : u[j] = IF j = i THEN s ELSE v[j]
BY ExceptSeq

LEMMA FinalizedGrows ==
  ASSUME NEW v, v \in Seq(Spend), NEW i, i \in 1..Len(v)
  PROVE  LET w == [v EXCEPT ![i].finalized = TRUE] IN
         /\ Grown(v, w) /\ w \in Seq(Spend) /\ Len(w) = Len(v)
         /\ w[i].finalized /\ w[i].approved = v[i].approved
<1>1. PICK e \in Spend : e = v[i]
  OBVIOUS
<1>2. PICK s : s = [e EXCEPT !.finalized = TRUE]
  OBVIOUS
<1>3. s \in Spend /\ s.finalized /\ s.approved = e.approved
  BY <1>2 DEF Spend
<1>4. PICK u : u = [v EXCEPT ![i] = s]
  OBVIOUS
<1>5. u \in Seq(Spend) /\ Len(u) = Len(v) /\ \A j \in 1..Len(v) : u[j] = IF j = i THEN s ELSE v[j]
  BY <1>3, <1>4, ChangedSpend
<1>6. [v EXCEPT ![i].finalized = TRUE] = u
  BY <1>1, <1>2, <1>4
<1>7. Grown(v, u)
  BY <1>1, <1>3, <1>5 DEF Grown
<1> QED BY <1>1, <1>3, <1>5, <1>6, <1>7

LEMMA RecoverKeeps ==
  ASSUME TraceInv, NEW r \in Runs, RecoverOrphan(r)
  PROVE  TraceInv'
<1>1. /\ spends' = [spends EXCEPT ![pending].finalized = TRUE] /\ pending # 0 /\ pending' = 0
      /\ UNCHANGED <<point, mine, builder, saved, file, origin, edits>>
  BY DEF RecoverOrphan, Unread
<1>2. spends \in Seq(Spend) /\ pending \in 1..Len(spends)
  BY <1>1 DEF TraceInv, VaultOK
<1>3. Grown(spends, spends') /\ spends' \in Seq(Spend) /\ Len(spends') = Len(spends)
  BY <1>1, <1>2, FinalizedGrows
<1>4. RunsOK /\ RunOK(r)
  BY DEF TraceInv, RunsOK
<1>5. RunsOK'
  <2>1. /\ point' = [point EXCEPT ![r] = point[r]] /\ mine' = [mine EXCEPT ![r] = mine[r]]
        /\ builder' = [builder EXCEPT ![r] = builder[r]] /\ saved' = saved
    BY <1>1, <1>4 DEF RunsOK
  <2>2. RecordOK(spends', builder[r], mine[r])
    BY <1>3, <1>4, GrownAll DEF RunOK
  <2>3. mine[r] \in 0..Len(spends') /\ (point[r] \in {"requested", "revealed"} => mine[r] # 0)
    BY <1>3, <1>4 DEF RunOK
  <2> QED BY <1>3, <1>4, <2>1, <2>2, <2>3, RunMoves
<1>6. VaultOK'
  BY <1>1, <1>2, <1>3 DEF VaultOK
<1>7. FileOK'
  BY <1>1 DEF TraceInv, FileOK
<1> QED BY <1>5, <1>6, <1>7 DEF TraceInv

LEMMA RequestKeeps ==
  ASSUME TraceInv, NEW r \in Runs, RequestSpend(r)
  PROVE  TraceInv'
<1>1. PICK n \in Nat : n = Len(spends) /\ spends \in Seq(Spend)
  BY DEF TraceInv, VaultOK
<1>2. PICK ok \in BOOLEAN : spends' = Append(spends, [finalized |-> FALSE, approved |-> ok])
  BY DEF RequestSpend
<1>3. /\ pending' = n + 1 /\ mine' = [mine EXCEPT ![r] = n + 1]
      /\ point' = [point EXCEPT ![r] = "requested"]
      /\ Emit(r, "spend-requested", Payload("spend", n + 1, FALSE, "bigint"))
      /\ UNCHANGED <<saved, file, origin, edits>>
  BY <1>1 DEF RequestSpend, Goes, Unread
<1>4. /\ spends' \in Seq(Spend) /\ Len(spends') = n + 1
      /\ \A i \in 1..n : spends'[i] = spends[i]
  <2>1. [finalized |-> FALSE, approved |-> ok] \in Spend
    BY DEF Spend
  <2> QED BY <1>1, <1>2, <2>1
<1>5. Grown(spends, spends')
  BY <1>1, <1>4 DEF Grown
<1>6. RunsOK /\ RunOK(r)
  BY DEF TraceInv, RunsOK
<1> DEFINE body == Payload("spend", n + 1, FALSE, "bigint")
<1>7. RecordOK(spends', Recorded(builder[r], "spend-requested", body), n + 1)
  <2>1. RecordOK(spends', builder[r], mine[r])
    BY <1>5, <1>6, GrownAll DEF RunOK
  <2>2. IsBody(body) /\ body.seq = n + 1
    BY DEF IsBody, Payload
  <2> HIDE DEF body
  <2>3. Recorded(builder[r], "spend-requested", body)
          = [steps |-> Linked(builder[r].steps, "spend-requested", body, NoAtt),
             cites |-> n + 1]
    BY <2>2, Zenon DEF Recorded
  <2>4. Attests(spends', NoAtt)
    BY DEF Attests
  <2>5. "spend-requested" # "vendor-upstream"
    OBVIOUS
  <2>6. RecordOK(spends', [steps |-> Linked(builder[r].steps, "spend-requested", body, NoAtt),
                           cites |-> n + 1], n + 1)
    BY <2>1, <2>2, <2>4, <2>5, LinkedRecord
  <2> QED BY <2>3, <2>6
<1>8. builder' = [builder EXCEPT ![r] = Recorded(builder[r], "spend-requested", body)]
  BY <1>3, <1>6, EmitIs
<1>9. RunsOK'
  <2>1. n + 1 \in 0..Len(spends') /\ n + 1 # 0
    BY <1>4
  <2> HIDE DEF body
  <2> QED BY <1>3, <1>5, <1>6, <1>7, <1>8, <2>1, RunMoves
<1>10. VaultOK'
  BY <1>3, <1>4 DEF VaultOK
<1>11. FileOK'
  BY <1>3 DEF TraceInv, FileOK
<1> QED BY <1>9, <1>10, <1>11 DEF TraceInv

LEMMA FinalizeKeeps ==
  ASSUME TraceInv, NEW r \in Runs, Finalize(r)
  PROVE  TraceInv'
<1>1. PICK q : q = mine[r]
  OBVIOUS
<1>2. RunsOK /\ RunOK(r) /\ VaultOK /\ FileOK
  BY DEF TraceInv, RunsOK
<1>3. /\ point[r] = "revealed"
      /\ UNCHANGED <<mine, saved, file, origin, edits>>
  BY DEF Finalize, Unread
<1>4. q \in 1..Len(spends) /\ spends \in Seq(Spend)
  BY <1>1, <1>2, <1>3 DEF RunOK, VaultOK
<1>5. mine' = [mine EXCEPT ![r] = q]
  BY <1>1, <1>2, <1>3 DEF RunsOK
<1>6. FileOK'
  BY <1>2, <1>3 DEF FileOK
<1>7. CASE spends[q].finalized
  <2>1. /\ point' = [point EXCEPT ![r] = "over"]
        /\ Emit(r, "failed", Text("finalizeDecision failed"))
        /\ UNCHANGED <<spends, pending>>
    BY <1>1, <1>7 DEF Finalize, Goes
  <2>2. PICK b : b = Recorded(builder[r], "failed", Text("finalizeDecision failed"))
    OBVIOUS
  <2>3. builder' = [builder EXCEPT ![r] = b]
    BY <1>2, <2>1, <2>2, EmitIs
  <2>4. Plain("failed")
    BY DEF Plain
  <2>5. RecordOK(spends, b, q)
    BY <1>1, <1>2, <2>2, <2>4, PlainRecord, Texts DEF RunOK
  <2>6. RunsOK'
    <3>1. Grown(spends, spends')
      BY <1>2, <2>1, SameGrown
    <3>2. q \in 0..Len(spends') /\ q # 0
      <4>1. Len(spends') = Len(spends)
        BY <2>1
      <4> QED BY <1>4, <4>1
    <3>3. RecordOK(spends', b, q)
      BY <2>1, <2>5
    <3> QED BY <1>2, <1>3, <1>5, <2>1, <2>3, <3>1, <3>2, <3>3, RunMoves
  <2>7. VaultOK'
    BY <1>2, <2>1 DEF VaultOK
  <2> QED BY <1>6, <2>6, <2>7 DEF TraceInv
<1>8. CASE ~spends[q].finalized
  <2>1. PICK to : to = IF spends[q].approved THEN "finalized" ELSE "over"
    OBVIOUS
  <2>2. PICK body : body = Payload("decision", q, spends[q].approved, "text")
    OBVIOUS
  <2>3. /\ point' = [point EXCEPT ![r] = to] /\ pending' = 0
        /\ spends' = [spends EXCEPT ![q].finalized = TRUE]
        /\ Emit(r, "decision-finalized", body)
    BY <1>1, <1>8, <2>1, <2>2 DEF Finalize, Goes
  <2>4. /\ Grown(spends, spends') /\ spends' \in Seq(Spend) /\ Len(spends') = Len(spends)
        /\ spends'[q].finalized /\ spends'[q].approved = spends[q].approved
    BY <1>4, <2>3, FinalizedGrows
  <2>5. IsBody(body) /\ body.seq = q /\ body.yes = spends[q].approved
    BY <2>2 DEF IsBody, Payload
  <2>6. PICK att : att = [handle |-> q, commit |-> q, seq |-> q, approved |-> body.yes]
    OBVIOUS
  <2>7. Attests(spends', att)
    <3>1. att.handle = q /\ att.commit = q /\ att.seq = q /\ att.approved = spends[q].approved
      BY <2>5, <2>6
    <3> QED BY <1>4, <2>4, <3>1 DEF Attests
  <2>8. PICK b : b = Recorded(builder[r], "decision-finalized", body)
    OBVIOUS
  <2>9. b = [steps |-> Linked(builder[r].steps, "decision-finalized", body, att), cites |-> q]
    <3>1. builder[r] = [steps |-> builder[r].steps, cites |-> q] /\ builder[r].cites = q
      BY <1>1, <1>2 DEF RunOK, RecordOK
    <3>2. b = [builder[r] EXCEPT !.steps =
                 Linked(builder[r].steps, "decision-finalized", body, att)]
      <4>1. q # 0
        BY <1>4
      <4>2. "decision-finalized" # "spend-requested"
        OBVIOUS
      <4>3. att = [handle |-> builder[r].cites, commit |-> builder[r].cites,
                   seq |-> body.seq, approved |-> body.yes]
        BY <2>5, <2>6, <3>1
      <4> QED BY <2>8, <3>1, <4>1, <4>2, <4>3, Zenon DEF Recorded
    <3> QED BY <3>1, <3>2
  <2>10. RecordOK(spends', b, q)
    <3>1. RecordOK(spends', builder[r], q)
      BY <1>1, <1>2, <2>4, GrownAll DEF RunOK
    <3>2. "decision-finalized" # "vendor-upstream"
      OBVIOUS
    <3> QED BY <2>5, <2>7, <2>9, <3>1, <3>2, LinkedRecord
  <2>11. RunsOK'
    <3>1. q \in 0..Len(spends') /\ q # 0
      BY <1>4, <2>4
    <3>2. builder' = [builder EXCEPT ![r] = b]
      BY <1>2, <2>3, <2>8, EmitIs
    <3> QED BY <1>2, <1>3, <1>5, <2>3, <2>4, <2>10, <3>1, <3>2, RunMoves
  <2>12. VaultOK'
    BY <2>3, <2>4 DEF VaultOK
  <2> QED BY <1>6, <2>11, <2>12 DEF TraceInv
<1> QED BY <1>7, <1>8

LEMMA SaveKeeps ==
  ASSUME TraceInv, NEW r \in Runs, Save(r)
  PROVE  TraceInv'
<1>1. /\ origin = NoRun /\ point' = [point EXCEPT ![r] = "saved"]
      /\ saved' = [saved EXCEPT ![r] = Trace(Written(builder[r].steps))]
      /\ UNCHANGED <<spends, pending, mine, builder, file, origin, edits>>
  BY DEF Save, Goes
<1>2. RunsOK /\ RunOK(r) /\ VaultOK /\ FileOK
  BY DEF TraceInv, RunsOK
<1>3. PICK t : t = Trace(Written(builder[r].steps))
  OBVIOUS
<1>4. TraceOK(spends, t)
  <2>1. PICK steps : steps = Written(builder[r].steps)
    OBVIOUS
  <2>2. Chain(steps) /\ StepList(steps) /\ AllAttest(spends, steps)
    BY <1>2, <2>1, WrittenChain DEF RunOK, RecordOK
  <2>3. PICK root : root = MerkleRoot(Hashes(steps))
    OBVIOUS
  <2>4. t = [steps |-> steps, header |-> "goal", root |-> root]
    BY <1>3, <2>1, <2>3 DEF Trace
  <2> QED BY <2>2, <2>3, <2>4 DEF TraceOK
<1>5. RunsOK'
  <2>1. /\ point' = [o \in Runs |-> point'[o]] /\ mine' = [o \in Runs |-> mine'[o]]
        /\ builder' = [o \in Runs |-> builder'[o]] /\ saved' = [o \in Runs |-> saved'[o]]
    BY <1>1, <1>2 DEF RunsOK
  <2>2. ASSUME NEW o \in Runs
        PROVE  RunOK(o)' /\ (saved'[o] # <<>> => TraceOK(spends', saved'[o]))
    <3>1. RunOK(o) /\ (saved[o] # <<>> => TraceOK(spends, saved[o]))
      BY <1>2 DEF RunsOK
    <3>2. point'[o] = IF o = r THEN "saved" ELSE point[o]
      BY <1>1, <1>2 DEF RunsOK
    <3>3. saved'[o] = IF o = r THEN t ELSE saved[o]
      BY <1>1, <1>2, <1>3 DEF RunsOK
    <3>4. RunOK(o)'
      BY <1>1, <3>1, <3>2 DEF RunOK
    <3> QED BY <1>1, <1>4, <3>1, <3>3, <3>4
  <2> QED BY <2>1, <2>2 DEF RunsOK
<1>6. VaultOK' /\ FileOK'
  BY <1>1, <1>2 DEF VaultOK, FileOK
<1> QED BY <1>5, <1>6 DEF TraceInv

LEMMA HandKeeps ==
  ASSUME TraceInv, NEW r \in Runs, Hand(r)
  PROVE  TraceInv'
<1>1. /\ saved[r] # <<>> /\ file' = saved[r] /\ origin' = r /\ origin = NoRun
      /\ UNCHANGED <<spends, pending, point, mine, builder, saved, edits>>
  BY DEF Hand
<1>2. RunsOK /\ VaultOK /\ FileOK
  BY DEF TraceInv
<1>3. TraceOK(spends, file')
  BY <1>1, <1>2 DEF RunsOK
<1>4. /\ file' = [steps |-> file'.steps, header |-> file'.header, root |-> file'.root]
      /\ StepList(file'.steps)
  BY <1>3 DEF TraceOK
<1>5. FileOK'
  BY <1>1, <1>2, <1>4 DEF FileOK
<1>6. VaultOK' /\ RunsOK'
  BY <1>1, <1>2 DEF VaultOK, RunsOK, RunOK
<1> QED BY <1>5, <1>6 DEF TraceInv

LEMMA EditKeeps ==
  ASSUME TraceInv, Edit
  PROVE  TraceInv'
<1>1. /\ origin # NoRun /\ edits < MaxEdits /\ edits' = edits + 1
      /\ UNCHANGED <<spends, pending, point, mine, builder, saved, origin>>
  BY DEF Edit
<1>2. RunsOK /\ VaultOK /\ FileOK
  BY DEF TraceInv
<1>3. PICK steps \in Edited(file.steps) :
        \/ file' = [file EXCEPT !.steps = steps]
        \/ file' = Trace(steps)
        \/ file' = Trace(Relinked(steps))
  BY DEF Edit
<1>4. StepList(steps) /\ StepList(Relinked(steps))
  BY <1>1, <1>2, <1>3, EditedSteps, RelinkedSteps DEF FileOK
<1>5. /\ file' = [steps |-> file'.steps, header |-> file'.header, root |-> file'.root]
      /\ StepList(file'.steps)
  <2>1. CASE file' = [file EXCEPT !.steps = steps]
    <3>1. file = [steps |-> file.steps, header |-> file.header, root |-> file.root]
      BY <1>1, <1>2 DEF FileOK
    <3>2. file' = [steps |-> steps, header |-> file.header, root |-> file.root]
      BY <2>1, <3>1
    <3> QED BY <1>4, <3>2
  <2>2. ASSUME NEW list, StepList(list), file' = Trace(list)
        PROVE  /\ file' = [steps |-> file'.steps, header |-> file'.header, root |-> file'.root]
               /\ StepList(file'.steps)
    BY <2>2 DEF Trace
  <2> QED BY <1>3, <1>4, <2>1, <2>2
<1>6. FileOK'
  BY <1>1, <1>2, <1>5, MaxEditsAssumption DEF FileOK
<1>7. VaultOK' /\ RunsOK'
  BY <1>1, <1>2 DEF VaultOK, RunsOK, RunOK
<1> QED BY <1>6, <1>7 DEF TraceInv

LEMMA NextTraceInv == TraceInv /\ [TraceNext]_traceVars => TraceInv'
<1> SUFFICES ASSUME TraceInv, [TraceNext]_traceVars PROVE TraceInv'
  OBVIOUS
<1>1. CASE UNCHANGED traceVars
  BY <1>1 DEF traceVars, TraceInv, VaultOK, RunsOK, RunOK, FileOK
<1>2. ASSUME NEW r \in Runs, Step(r) PROVE TraceInv'
  BY <1>2, StepKeeps
<1>3. ASSUME NEW r \in Runs, RecoverOrphan(r) PROVE TraceInv'
  BY <1>3, RecoverKeeps
<1>4. ASSUME NEW r \in Runs, RequestSpend(r) PROVE TraceInv'
  BY <1>4, RequestKeeps
<1>5. ASSUME NEW r \in Runs, Finalize(r) PROVE TraceInv'
  BY <1>5, FinalizeKeeps
<1>6. ASSUME NEW r \in Runs, Save(r) PROVE TraceInv'
  BY <1>6, SaveKeeps
<1>7. ASSUME NEW r \in Runs, Hand(r) PROVE TraceInv'
  BY <1>7, HandKeeps
<1>8. CASE Edit
  BY <1>8, EditKeeps
<1> QED BY <1>1, <1>2, <1>3, <1>4, <1>5, <1>6, <1>7, <1>8 DEF TraceNext

\* TraceInv holds of every run of the model.
THEOREM TraceInvariant == TraceSpec => []TraceInv
BY InitTraceInv, NextTraceInv, PTL DEF TraceSpec

-----------------------------------------------------------------------------
(* The properties.                                                         *)

\* A list of steps that verifies offline is a chain.
LEMMA OfflineChain ==
  ASSUME NEW t, StepList(t.steps), Offline(t)
  PROVE  Chain(t.steps) /\ t.root = MerkleRoot(Hashes(t.steps))
<1>1. PICK n \in Nat : n = Len(t.steps) /\ DOMAIN t.steps = 1..n
  BY DEF StepList, IsList
<1>2. ASSUME NEW i \in 1..n PROVE IsStep(t.steps[i]) /\ InChain(t.steps, i)
  BY <1>1 DEF StepList, IsText, Offline, InChain
<1> QED BY <1>1, <1>2 DEF Chain, StepList, Offline

LEMMA SameRootSameSteps ==
  ASSUME NEW s, NEW t, Chain(s), Chain(t), StepList(s), StepList(t),
         MerkleRoot(Hashes(s)) = MerkleRoot(Hashes(t))
  PROVE  s = t
<1>1. Hashes(s) = Hashes(t)
  BY HashList, RootsDiffer DEF Chain
<1> QED BY <1>1, ChainsEqual DEF StepList, IsText

\* Every variable keeps its type.
THEOREM TraceTypeCorrect == TraceSpec => []TraceTypeOK
<1>1. TraceInv => TraceTypeOK
  <2> SUFFICES ASSUME TraceInv PROVE TraceTypeOK
    OBVIOUS
  <2>1. VaultOK /\ RunsOK /\ FileOK
    BY DEF TraceInv
  <2>2. mine \in [Runs -> 0..Len(spends)]
    BY <2>1 DEF RunsOK, RunOK
  <2>3. \A i \in DOMAIN spends : spends[i] \in Spend
    BY <2>1 DEF VaultOK
  <2> QED BY <2>1, <2>2, <2>3 DEF VaultOK, FileOK, TraceTypeOK, Spend
<1> QED BY <1>1, TraceInvariant, PTL

\* The file of every run passes the verifier, offline and on chain, whatever
\* other runs do to the goal meanwhile (builder.ts, verify.ts).
THEOREM HonestTracesVerify == TraceSpec => []HonestVerifies
<1>1. TraceInv => HonestVerifies
  <2> SUFFICES ASSUME TraceInv, NEW r \in Runs, saved[r] # <<>>
               PROVE  Offline(saved[r]) /\ OnChain(saved[r])
    BY DEF HonestVerifies
  <2>1. PICK t : t = saved[r] /\ TraceOK(spends, t)
    BY DEF TraceInv, RunsOK
  <2>2. PICK n \in Nat : n = Len(t.steps) /\ DOMAIN t.steps = 1..n
    BY <2>1 DEF TraceOK, Chain, IsList
  <2>3. ASSUME NEW i \in 1..n PROVE InChain(t.steps, i) /\ Attests(spends, t.steps[i].att)
    BY <2>1, <2>2 DEF TraceOK, Chain, AllAttest
  <2>4. Offline(t)
    BY <2>1, <2>2, <2>3 DEF Offline, InChain, TraceOK
  <2>5. OnChain(t)
    BY <2>2, <2>3 DEF OnChain, Attests
  <2> QED BY <2>1, <2>4, <2>5
<1> QED BY <1>1, TraceInvariant, PTL

\* A file that verifies under the root a run anchored holds that run's steps,
\* however many edits were made to it (verify.ts).
THEOREM AnchoredTracesAreUnedited == TraceSpec => []AnchoredIsUnedited
<1>1. TraceInv => AnchoredIsUnedited
  <2> SUFFICES ASSUME TraceInv, origin # NoRun, Offline(file), file.root = saved[origin].root
               PROVE  file.steps = saved[origin].steps
    BY DEF AnchoredIsUnedited
  <2>1. PICK t : t = saved[origin] /\ TraceOK(spends, t)
    BY DEF TraceInv, RunsOK, FileOK
  <2>2. Chain(file.steps) /\ StepList(file.steps) /\ file.root = MerkleRoot(Hashes(file.steps))
    BY OfflineChain DEF TraceInv, FileOK
  <2>3. Chain(t.steps) /\ StepList(t.steps) /\ t.root = MerkleRoot(Hashes(t.steps))
    BY <2>1 DEF TraceOK
  <2>4. MerkleRoot(Hashes(file.steps)) = MerkleRoot(Hashes(t.steps))
    BY <2>1, <2>2, <2>3
  <2> QED BY <2>1, <2>2, <2>3, <2>4, SameRootSameSteps
<1> QED BY <1>1, TraceInvariant, PTL

\* A step's proof holds under the anchored root for that step and for no other,
\* and other steps have another root (merkle.ts).
THEOREM InclusionProofsAreSound == TraceSpec => []ProofsAreSound
<1>1. TraceInv => ProofsAreSound
  <2> SUFFICES ASSUME TraceInv, origin # NoRun PROVE ProofsAreSound
    BY DEF ProofsAreSound
  <2>1. PICK t : t = saved[origin] /\ TraceOK(spends, t)
    BY DEF TraceInv, RunsOK, FileOK
  <2>2. PICK h : h = Hashes(t.steps)
    OBVIOUS
  <2>3. PICK g : g = Hashes(file.steps)
    OBVIOUS
  <2>4. /\ IsList(h) /\ Len(h) = Len(t.steps) /\ t.root = MerkleRoot(h)
        /\ \A i \in 1..Len(h) : h[i] = t.steps[i].hash
    BY <2>1, <2>2, HashList DEF TraceOK, Chain
  <2>5. PICK n \in Nat : n = Len(h) /\ DOMAIN h = 1..n
    BY <2>4 DEF IsList
  <2>6. ASSUME NEW i \in 1..n, NEW j \in 1..n
        PROVE  VerifyMerkleProof(h[j], MerkleProof(h, i), t.root) <=> i = j
    <3>1. VerifyMerkleProof(h[j], MerkleProof(h, i), t.root) <=> h[j] = h[i]
      BY <2>4, <2>5, ProofHoldsForItsStep
    <3>2. ASSUME NEW k \in 1..n, NEW l \in 1..n, k < l PROVE h[k] # h[l]
      BY <2>1, <2>4, <2>5, <3>2, HashesDiffer DEF TraceOK
    <3>3. h[j] = h[i] <=> i = j
      <4>1. i < j \/ j < i \/ i = j
        OBVIOUS
      <4> QED BY <3>2, <4>1
    <3> QED BY <3>1, <3>3
  <2>7. ASSUME g # h PROVE MerkleRoot(g) # t.root
    <3>1. IsList(g)
      BY <2>3, HashList DEF TraceInv, FileOK, StepList
    <3> QED BY <2>4, <2>7, <3>1, RootsDiffer
  <2>8. \A i, j \in DOMAIN h :
          VerifyMerkleProof(h[j], MerkleProof(h, i), saved[origin].root) <=> i = j
    BY <2>1, <2>5, <2>6
  <2>9. g # h => MerkleRoot(g) # saved[origin].root
    BY <2>1, <2>7
  <2> QED BY <2>1, <2>2, <2>3, <2>8, <2>9, Zenon DEF ProofsAreSound
<1> QED BY <1>1, TraceInvariant, PTL
=============================================================================
