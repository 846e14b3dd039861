------------------------- MODULE CJsonTreeRefinement -------------------------
(***************************************************************************)
(* The proof that CJsonTree implements JsonForest: seen as ordered trees,  *)
(* every call makes, moves, replaces or drops a whole tree.                *)
(*                                                                         *)
(* CJsonTreeProofs has the links; here are the lists they make, and what   *)
(* each list operation does to them.                                       *)
(***************************************************************************)
EXTENDS CJsonTreeProofs

-----------------------------------------------------------------------------
(***************************************************************************)
(* Sequences.                                                              *)
(***************************************************************************)

LEMMA SliceOf ==
  ASSUME NEW S, NEW s \in Seq(S), NEW a \in Nat \ {0}, NEW b \in Nat, a <= b + 1, b <= Len(s)
  PROVE  /\ SubSeq(s, a, b) \in Seq(S) /\ Len(SubSeq(s, a, b)) = b - a + 1
         /\ \A i \in 1 .. b - a + 1 : SubSeq(s, a, b)[i] = s[a + i - 1]
OBVIOUS

LEMMA JoinOf ==
  ASSUME NEW S, NEW s \in Seq(S), NEW t \in Seq(S)
  PROVE  /\ s \o t \in Seq(S) /\ Len(s \o t) = Len(s) + Len(t)
         /\ \A i \in 1 .. Len(s) + Len(t) :
              (s \o t)[i] = IF i <= Len(s) THEN s[i] ELSE t[i - Len(s)]
OBVIOUS

LEMMA Inserted ==
  ASSUME NEW S, NEW s \in Seq(S), NEW j \in 1 .. Len(s) + 1, NEW x \in S
  PROVE  LET t == Forest!InsertAt(s, j, x) IN
         /\ t \in Seq(S) /\ Len(t) = Len(s) + 1
         /\ \A i \in 1 .. Len(s) + 1 :
              t[i] = IF i < j THEN s[i] ELSE IF i = j THEN x ELSE s[i - 1]
<1> DEFINE a == SubSeq(s, 1, j - 1)
           b == SubSeq(s, j, Len(s))
           ax == a \o <<x>>
           t == ax \o b
<1>1. Len(s) \in Nat /\ j \in Nat \ {0} /\ j - 1 \in Nat /\ j <= Len(s) + 1
  OBVIOUS
<1>2. /\ a \in Seq(S) /\ Len(a) = j - 1
      /\ \A i \in 1 .. j - 1 : a[i] = s[i]
  <2>1. /\ a \in Seq(S) /\ Len(a) = (j - 1) - 1 + 1
        /\ \A i \in 1 .. (j - 1) - 1 + 1 : a[i] = s[1 + i - 1]
    BY <1>1, SliceOf
  <2> HIDE DEF a
  <2> QED
    BY <2>1, <1>1
<1>3. /\ b \in Seq(S) /\ Len(b) = Len(s) - j + 1
      /\ \A i \in 1 .. Len(s) - j + 1 : b[i] = s[j + i - 1]
  BY <1>1, SliceOf
<1> HIDE DEF a, b
<1>4. <<x>> \in Seq(S) /\ Len(<<x>>) = 1 /\ <<x>>[1] = x
  OBVIOUS
<1>5. /\ ax \in Seq(S) /\ Len(ax) = j
      /\ \A i \in 1 .. j : ax[i] = IF i < j THEN s[i] ELSE x
  <2>1. /\ ax \in Seq(S) /\ Len(ax) = Len(a) + 1
        /\ \A i \in 1 .. Len(a) + 1 : ax[i] = IF i <= Len(a) THEN a[i] ELSE <<x>>[i - Len(a)]
    BY <1>2, <1>4, JoinOf
  <2> HIDE DEF ax
  <2> QED
    BY <2>1, <1>1, <1>2, <1>4
<1> HIDE DEF ax
<1>6. /\ t \in Seq(S) /\ Len(t) = Len(ax) + Len(b)
      /\ \A i \in 1 .. Len(ax) + Len(b) : t[i] = IF i <= Len(ax) THEN ax[i] ELSE b[i - Len(ax)]
  BY <1>3, <1>5, JoinOf
<1>7. t = Forest!InsertAt(s, j, x)
  BY DEF Forest!InsertAt, ax, a, b
<1> HIDE DEF t
<1>8. Len(ax) + Len(b) = Len(s) + 1
  BY <1>1, <1>3, <1>5
<1>9. ASSUME NEW i \in 1 .. Len(s) + 1
      PROVE  t[i] = IF i < j THEN s[i] ELSE IF i = j THEN x ELSE s[i - 1]
  <2>1. CASE i <= j
    BY <2>1, <1>1, <1>5, <1>6, <1>8
  <2>2. CASE ~(i <= j)
    <3>1. i - j \in 1 .. Len(s) - j + 1 /\ j + (i - j) - 1 = i - 1
      BY <2>2, <1>1
    <3>2. t[i] = b[i - j]
      BY <2>2, <1>1, <1>5, <1>6, <1>8
    <3>3. b[i - j] = s[j + (i - j) - 1]
      BY <3>1, <1>3
    <3> QED
      BY <2>2, <3>1, <3>2, <3>3, <1>1
  <2> QED
    BY <2>1, <2>2
<1> QED
  BY <1>6, <1>7, <1>8, <1>9

LEMMA Removed ==
  ASSUME NEW S, NEW s \in Seq(S), NEW j \in 1 .. Len(s)
  PROVE  LET t == Forest!RemoveAt(s, j) IN
         /\ t \in Seq(S) /\ Len(t) = Len(s) - 1
         /\ \A i \in 1 .. Len(s) - 1 : t[i] = IF i < j THEN s[i] ELSE s[i + 1]
<1> DEFINE a == SubSeq(s, 1, j - 1)
           b == SubSeq(s, j + 1, Len(s))
           t == a \o b
<1>1. Len(s) \in Nat /\ j \in Nat \ {0} /\ j - 1 \in Nat /\ j + 1 \in Nat \ {0} /\ j <= Len(s)
  OBVIOUS
<1>2. /\ a \in Seq(S) /\ Len(a) = j - 1
      /\ \A i \in 1 .. j - 1 : a[i] = s[i]
  <2>1. /\ a \in Seq(S) /\ Len(a) = (j - 1) - 1 + 1
        /\ \A i \in 1 .. (j - 1) - 1 + 1 : a[i] = s[1 + i - 1]
    BY <1>1, SliceOf
  <2> HIDE DEF a
  <2> QED
    BY <2>1, <1>1
<1>3. /\ b \in Seq(S) /\ Len(b) = Len(s) - j
      /\ \A i \in 1 .. Len(s) - j : b[i] = s[j + i]
  <2>1. /\ b \in Seq(S) /\ Len(b) = Len(s) - (j + 1) + 1
        /\ \A i \in 1 .. Len(s) - (j + 1) + 1 : b[i] = s[(j + 1) + i - 1]
    BY <1>1, SliceOf
  <2> HIDE DEF b
  <2>2. Len(s) - (j + 1) + 1 = Len(s) - j
    BY <1>1
  <2>3. ASSUME NEW i \in 1 .. Len(s) - j PROVE b[i] = s[j + i]
    <3>1. b[i] = s[(j + 1) + i - 1]
      BY <2>1, <2>2
    <3>2. (j + 1) + i - 1 = j + i
      BY <1>1
    <3> QED
      BY <3>1, <3>2
  <2> QED
    BY <2>1, <2>2, <2>3
<1> HIDE DEF a, b
<1>4. /\ t \in Seq(S) /\ Len(t) = Len(a) + Len(b)
      /\ \A i \in 1 .. Len(a) + Len(b) : t[i] = IF i <= Len(a) THEN a[i] ELSE b[i - Len(a)]
  BY <1>2, <1>3, JoinOf
<1>5. t = Forest!RemoveAt(s, j)
  BY DEF Forest!RemoveAt, a, b
<1> HIDE DEF t
<1>6. Len(a) + Len(b) = Len(s) - 1
  BY <1>1, <1>2, <1>3
<1>7. ASSUME NEW i \in 1 .. Len(s) - 1 PROVE t[i] = IF i < j THEN s[i] ELSE s[i + 1]
  <2>1. CASE i < j
    <3>1. i <= Len(a) /\ i \in 1 .. j - 1 /\ i \in 1 .. Len(a) + Len(b)
      BY <2>1, <1>1, <1>2, <1>6
    <3> QED
      BY <2>1, <3>1, <1>2, <1>4
  <2>2. CASE ~(i < j)
    <3>1. i - (j - 1) \in 1 .. Len(s) - j /\ j + (i - (j - 1)) = i + 1
      BY <2>2, <1>1
    <3>2. t[i] = b[i - (j - 1)]
      BY <2>2, <1>1, <1>2, <1>4, <1>6
    <3>3. b[i - (j - 1)] = s[j + (i - (j - 1))]
      BY <3>1, <1>3
    <3> QED
      BY <2>2, <3>1, <3>2, <3>3
  <2> QED
    BY <2>1, <2>2
<1> QED
  BY <1>4, <1>5, <1>6, <1>7

-----------------------------------------------------------------------------
(***************************************************************************)
(* Rows: the children of an item in order.                                 *)
(***************************************************************************)

\* In heap h with the blocks L allocated, s has the children of p.
Row(h, L, p, s) ==
  /\ s \in Seq(L)
  /\ h[p].ref \/ h[p].child = None => s = <<>>
  /\ ~h[p].ref /\ h[p].child # None => Len(s) > 0 /\ s[1] = h[p].child
  /\ \A i \in 1 .. Len(s) : /\ h[s[i]].parent = p
                            /\ h[s[i]].next = IF i = Len(s) THEN None ELSE s[i + 1]
  /\ \A i, j \in 1 .. Len(s) : s[i] = s[j] => i = j

\* A block that is not allocated shows no children and no name.
Clean(h, L) == \A n \in Node \ L : h[n].child = None /\ h[n].string = None

\* K has the children of every block.
Ordered(h, L, K) ==
  /\ K \in [Node -> Seq(L)] /\ \A p \in Node : Row(h, L, p, K[p])
  /\ Clean(h, L)

\* An item has one row.
LEMMA OneRow ==
  ASSUME NEW h, NEW L, None \notin L, NEW p, NEW s, Row(h, L, p, s), NEW t, Row(h, L, p, t)
  PROVE  s = t
<1>1. CASE h[p].ref \/ h[p].child = None
  BY <1>1 DEF Row
<1>2. CASE ~h[p].ref /\ h[p].child # None
  <2>1. /\ s \in Seq(L) /\ t \in Seq(L) /\ Len(s) \in Nat \ {0} /\ Len(t) \in Nat \ {0}
        /\ s[1] = t[1]
        /\ \A i \in 1 .. Len(s) : s[i] # None /\ h[s[i]].next = IF i = Len(s) THEN None ELSE s[i + 1]
        /\ \A i \in 1 .. Len(t) : t[i] # None /\ h[t[i]].next = IF i = Len(t) THEN None ELSE t[i + 1]
    BY <1>2 DEF Row
  <2> DEFINE S == {n \in Nat : n + 1 <= Len(s) => n + 1 <= Len(t) /\ s[n + 1] = t[n + 1]}
  <2>2. 0 \in S
    BY <2>1
  <2>3. ASSUME NEW n \in Nat, n \in S PROVE n + 1 \in S
    <3> SUFFICES ASSUME (n + 1) + 1 <= Len(s)
                 PROVE  (n + 1) + 1 <= Len(t) /\ s[(n + 1) + 1] = t[(n + 1) + 1]
      OBVIOUS
    <3>1. /\ n + 1 \in 1 .. Len(s) /\ n + 1 # Len(s) /\ (n + 1) + 1 \in 1 .. Len(s)
          /\ n + 1 \in 1 .. Len(t) /\ s[n + 1] = t[n + 1]
      BY <2>1, <2>3
    <3>2. h[s[n + 1]].next = s[(n + 1) + 1] /\ s[(n + 1) + 1] # None
      BY <3>1, <2>1
    <3>3. n + 1 # Len(t) /\ h[t[n + 1]].next = t[(n + 1) + 1]
      BY <3>1, <3>2, <2>1
    <3> QED
      BY <3>1, <3>2, <3>3, <2>1
  <2> HIDE DEF S
  <2>4. Nat \subseteq S
    BY <2>2, <2>3, SetInduction
  <2>5. \A i \in 1 .. Len(s) : i <= Len(t) /\ s[i] = t[i]
    <3> SUFFICES ASSUME NEW i \in 1 .. Len(s) PROVE i <= Len(t) /\ s[i] = t[i]
      OBVIOUS
    <3>1. i - 1 \in S /\ (i - 1) + 1 = i /\ i <= Len(s)
      BY <2>1, <2>4
    <3> QED
      BY <3>1 DEF S
  <2>6. Len(s) = Len(t)
    <3>1. Len(s) \in 1 .. Len(s) /\ Len(s) \in 1 .. Len(t)
      BY <2>1, <2>5
    <3>2. h[t[Len(s)]].next = None
      BY <3>1, <2>1, <2>5
    <3>3. Len(s) # Len(t) => t[Len(s) + 1] = None /\ Len(s) + 1 \in 1 .. Len(t)
      BY <3>1, <3>2, <2>1
    <3> QED
      BY <3>3, <2>1
  <2> QED
    BY <2>1, <2>5, <2>6
<1> QED
  BY <1>1, <1>2

LEMMA OneOrder ==
  ASSUME NEW h, NEW L, None \notin L, NEW K, Ordered(h, L, K), NEW J, Ordered(h, L, J)
  PROVE  K = J
<1>1. \A p \in Node : K[p] = J[p]
  BY OneRow DEF Ordered
<1> QED
  BY <1>1 DEF Ordered

\* A row has all the children of its item.
LEMMA RowIsComplete ==
  ASSUME NEW h, NEW L, Shape(h, L), None \notin L, NEW p \in L, NEW s, Row(h, L, p, s),
         NEW m \in L, h[m].parent = p
  PROVE  \E i \in 1 .. Len(s) : s[i] = m
<1>0. ~h[p].ref /\ h[p].child # None
  BY DEF Shape, HasPlace
<1>1. /\ s \in Seq(L) /\ Len(s) \in Nat \ {0} /\ s[1] = h[p].child
      /\ \A i \in 1 .. Len(s) : /\ s[i] \in L
                                /\ h[s[i]].next = IF i = Len(s) THEN None ELSE s[i + 1]
  BY <1>0 DEF Row
<1> DEFINE S == {n \in L : h[n].parent = p /\ ~\E i \in 1 .. Len(s) : s[i] = n}
<1>2. ASSUME NEW n \in S PROVE Up(h, n) \in S
  <2>1. n # h[p].child
    BY <1>1
  <2>2. h[n].prev \in L /\ h[h[n].prev].parent = p /\ h[h[n].prev].next = n
    BY <2>1 DEF Shape, HasPlace, Inside
  <2>3. ASSUME NEW i \in 1 .. Len(s), s[i] = h[n].prev PROVE FALSE
    <3>1. i # Len(s)
      BY <2>2, <2>3, <1>1
    <3>2. i + 1 \in 1 .. Len(s)
      BY <3>1, <1>1
    <3>3. s[i + 1] = n
      BY <3>1, <2>2, <2>3, <1>1
    <3> QED
      BY <3>2, <3>3
  <2>4. Up(h, n) = h[n].prev
    BY <2>1 DEF Up
  <2> QED
    BY <2>2, <2>3, <2>4
<1>3. S \in SUBSET L
  OBVIOUS
<1> HIDE DEF S
<1>4. S = {}
  BY <1>2, <1>3 DEF Shape, Grounded
<1> QED
  BY <1>4 DEF S

\* The children of p as a set.
LEMMA RowIsChildren ==
  ASSUME NEW h, NEW L \in SUBSET Node, Shape(h, L), None \notin L, NEW K, Ordered(h, L, K),
         NEW p \in Node
  PROVE  /\ Forest!Range(K[p]) = {m \in L : h[m].parent = p}
         /\ \A m \in L : h[m].parent = p <=> \E i \in 1 .. Len(K[p]) : K[p][i] = m
<1> DEFINE s == K[p]
<1>1. Row(h, L, p, s)
  BY DEF Ordered
<1> HIDE DEF s
<1>2. /\ s \in Seq(L) /\ DOMAIN s = 1 .. Len(s)
      /\ \A i \in 1 .. Len(s) : s[i] \in L /\ h[s[i]].parent = p
  BY <1>1 DEF Row
<1>3. \A m \in L : h[m].parent = p => p \in L
  BY NodesAreFinite DEF Shape, Inside
<1>4. \A m \in L : h[m].parent = p => \E i \in 1 .. Len(s) : s[i] = m
  BY <1>1, <1>3, RowIsComplete
<1>5. Forest!Range(s) = {s[i] : i \in 1 .. Len(s)}
  BY <1>2 DEF Forest!Range
<1> QED
  BY <1>2, <1>4, <1>5 DEF s

-----------------------------------------------------------------------------
(***************************************************************************)
(* The heap, seen as a forest.                                             *)
(***************************************************************************)

\* What is invariant here: the heap of CJsonTreeProofs, and clean free blocks.
RInv == IInv /\ Clean(heap, live)

\* Items gives the rows of the heap.
HeapIsOrdered == Ordered(heap, live, AllItems)

LEMMA ItemsAreRows == RInv => HeapIsOrdered
<1> SUFFICES ASSUME RInv PROVE HeapIsOrdered
  OBVIOUS
<1>1. /\ heap \in [Node -> Item] /\ live \subseteq Node /\ Shape(heap, live)
      /\ Clean(heap, live) /\ None \notin live
  BY NodesAreFinite DEF RInv, IInv
<1>2. ASSUME NEW p \in Node PROVE Row(heap, live, p, Items(p))
  <2>1. heap[p].child \in Ptr
    BY <1>1 DEF Item
  <2>2. CASE heap[p].ref \/ heap[p].child = None
    <3>1. Items(p) = <<>>
      <4>1. Chain(N, heap[p].child, List(heap[p].child))
        BY <1>1, <2>1, ListIsChain
      <4> QED
        BY <2>2, <4>1 DEF Items, Chain
    <3>2. <<>> \in Seq(live) /\ Len(<<>>) = 0
      OBVIOUS
    <3> QED
      BY <2>2, <3>1, <3>2 DEF Row
  <2>3. CASE ~heap[p].ref /\ heap[p].child # None
    <3> DEFINE s == List(heap[p].child)
    <3>1. p \in live
      BY <1>1, <2>3 DEF Clean
    <3>2. /\ s \in Seq(Node) /\ Len(s) \in Nat \ {0}
          /\ \A i \in 1 .. Len(s) : s[i] \in live /\ heap[s[i]].parent = p
          /\ \A i, j \in 1 .. Len(s) : s[i] = s[j] => i = j
          /\ \A i \in 1 .. Len(s) : heap[s[i]].next = IF i = Len(s) THEN None ELSE s[i + 1]
      BY <1>1, <2>3, <3>1, ListOfChildren
    <3>3. Items(p) = s /\ Chain(N, heap[p].child, s)
      BY <1>1, <2>1, <2>3, ListIsChain DEF Items
    <3> HIDE DEF s
    <3>4. s[1] = heap[p].child
      <4>1. s # <<>>
        BY <3>2
      <4> QED
        BY <2>3, <3>3, <4>1, TreeAssumption DEF Chain
    <3>5. s \in Seq(live)
      BY <3>2
    <3> QED
      BY <2>3, <3>2, <3>3, <3>4, <3>5 DEF Row
  <2> QED
    BY <2>2, <2>3
<1>3. AllItems \in [Node -> Seq(live)] /\ \A p \in Node : AllItems[p] = Items(p)
  <2>1. \A p \in Node : Items(p) \in Seq(live)
    BY <1>2 DEF Row
  <2> QED
    BY <2>1 DEF AllItems
<1> QED
  BY <1>1, <1>2, <1>3 DEF HeapIsOrdered, Ordered

\* A tree of the forest has what is below its root, and nothing else.
LEMMA TreeHas ==
  ASSUME NEW K, NEW r \in Node, \A n \in Node : Forest!Range(K[n]) \subseteq Node
  PROVE  /\ r \in Forest!Tree(K, r) /\ Forest!Tree(K, r) \subseteq Node
         /\ \A n \in Forest!Tree(K, r) : Forest!Range(K[n]) \subseteq Forest!Tree(K, r)
         /\ \A S \in SUBSET Node :
              r \in S /\ (\A n \in S : Forest!Range(K[n]) \subseteq S) => Forest!Tree(K, r) \subseteq S
<1> DEFINE child == UNION {{n} \X Forest!Range(K[n]) : n \in Node}
           Closed(S) == r \in S /\ \A e \in child : e[1] \in S => e[2] \in S
           closed == {S \in SUBSET Node : Closed(S)}
           T == Forest!Tree(K, r)
<1>1. T = {n \in Node : \A S \in closed : n \in S}
  BY DEF Forest!Tree
<1>2. \A n, m : <<n, m>> \in child <=> n \in Node /\ m \in Forest!Range(K[n])
  OBVIOUS
<1>3. \A e \in child : e = <<e[1], e[2]>>
  OBVIOUS
<1> HIDE DEF child
<1>4. ASSUME NEW S \in SUBSET Node
      PROVE  Closed(S) <=> r \in S /\ \A n \in S : Forest!Range(K[n]) \subseteq S
  <2>1. ASSUME Closed(S), NEW n \in S, NEW m \in Forest!Range(K[n]) PROVE m \in S
    <3>1. <<n, m>> \in child /\ <<n, m>>[1] = n /\ <<n, m>>[2] = m
      BY <1>2
    <3> QED
      BY <2>1, <3>1
  <2>2. ASSUME \A n \in S : Forest!Range(K[n]) \subseteq S, NEW e \in child, e[1] \in S
        PROVE  e[2] \in S
    <3>1. e[2] \in Forest!Range(K[e[1]])
      BY <1>2, <1>3
    <3> QED
      BY <2>2, <3>1
  <2> QED
    BY <2>1, <2>2
<1> HIDE DEF Closed, T
<1>5. r \in T
  BY <1>1 DEF Closed
<1>6. ASSUME NEW n \in T, NEW m \in Forest!Range(K[n]) PROVE m \in T
  <2>1. n \in Node /\ m \in Node
    BY <1>1
  <2>2. \A S \in closed : m \in S
    BY <1>1, <1>4
  <2> QED
    BY <1>1, <2>1, <2>2
<1>7. ASSUME NEW S \in SUBSET Node, r \in S, \A n \in S : Forest!Range(K[n]) \subseteq S
      PROVE  T \subseteq S
  BY <1>1, <1>4, <1>7
<1> QED
  BY <1>1, <1>5, <1>6, <1>7 DEF T

\* With an item other than the root, its parent is in the tree.
LEMMA TreeParents ==
  ASSUME NEW h, NEW L \in SUBSET Node, Shape(h, L), None \notin L, NEW K, Ordered(h, L, K),
         NEW r \in L
  PROVE  LET T == Forest!Tree(K, r) IN
         /\ r \in T /\ T \subseteq L
         /\ \A m \in L : h[m].parent \in T => m \in T
         /\ \A m \in T : m # r => h[m].parent \in T
<1> DEFINE T == Forest!Tree(K, r)
           S == {m \in T \cap L : m # r => h[m].parent \in T}
<1>1. \A n \in Node : Forest!Range(K[n]) = {m \in L : h[m].parent = n}
  BY RowIsChildren
<1>2. /\ r \in T /\ T \subseteq Node
      /\ \A n \in T : Forest!Range(K[n]) \subseteq T
      /\ \A Q \in SUBSET Node :
           r \in Q /\ (\A n \in Q : Forest!Range(K[n]) \subseteq Q) => T \subseteq Q
  <2>1. \A n \in Node : Forest!Range(K[n]) \subseteq Node
    BY <1>1
  <2>2. r \in Node
    OBVIOUS
  <2> QED
    BY <2>1, <2>2, TreeHas
<1> HIDE DEF T
<1>3. \A m \in L : h[m].parent \in T => m \in T
  BY <1>1, <1>2
<1>4. S \in SUBSET Node /\ r \in S /\ \A n \in S : Forest!Range(K[n]) \subseteq S
  BY <1>1, <1>2
<1>5. T \subseteq S
  BY <1>2, <1>4
<1> QED
  BY <1>2, <1>3, <1>5 DEF T

\* The tree at r is the set that has r and everything below it.
LEMMA TreeIsSubtree ==
  ASSUME NEW h, NEW L \in SUBSET Node, Shape(h, L), None \notin L, NEW K, Ordered(h, L, K),
         NEW r, NEW D, Subtree(h, L, D, r)
  PROVE  Forest!Tree(K, r) = D
<1> DEFINE T == Forest!Tree(K, r)
<1>1. /\ r \in D /\ D \subseteq L /\ r \in L
      /\ \A m \in L : h[m].parent \in D => m \in D
      /\ \A m \in D : m # r => h[m].parent \in D
  BY DEF Subtree
<1>2. \A n \in Node : Forest!Range(K[n]) = {m \in L : h[m].parent = n}
  BY RowIsChildren
<1>3. /\ r \in T /\ T \subseteq L
      /\ \A m \in L : h[m].parent \in T => m \in T
      /\ \A m \in T : m # r => h[m].parent \in T
  BY <1>1, TreeParents
<1>4. T \subseteq D
  <2>1. \A n \in Node : Forest!Range(K[n]) \subseteq Node
    BY <1>2
  <2>2. \A n \in D : Forest!Range(K[n]) \subseteq D
    BY <1>1, <1>2
  <2>3. D \in SUBSET Node /\ r \in Node
    BY <1>1
  <2> QED
    BY <2>1, <2>2, <2>3, <1>1, TreeHas
<1> HIDE DEF T
<1> DEFINE S == D \ T
<1>5. ASSUME NEW m \in S PROVE Up(h, m) \in S
  <2>1. m # r /\ m \in L /\ h[m].parent \in S
    BY <1>1, <1>3
  <2>2. h[m].parent # None
    BY <1>1, <2>1
  <2>3. h[m].prev \in L /\ h[h[m].prev].parent = h[m].parent
    BY <2>1, <2>2 DEF Shape, HasPlace, Inside
  <2>4. h[m].prev \in D
    BY <1>1, <2>1, <2>3
  <2>5. h[m].prev # r
    <3>1. h[r].parent \notin D
      BY ParentIsOutside
    <3> QED
      BY <2>1, <2>3, <3>1
  <2>6. h[m].prev \notin T
    BY <1>3, <2>1, <2>3, <2>5
  <2> QED
    BY <2>1, <2>2, <2>4, <2>6 DEF Up
<1>6. S \in SUBSET L
  BY <1>1
<1> HIDE DEF S
<1>7. S = {}
  BY <1>5, <1>6 DEF Shape, Grounded
<1> QED
  BY <1>4, <1>7 DEF S, T

\* The items the application reaches: what is allocated, but for references that
\* leaked.
LEMMA Reached ==
  ASSUME RInv
  PROVE  LET A == Forest!Items(AllItems, roots) IN
         /\ A \subseteq live
         /\ \A m \in live : ~heap[m].ref => m \in A
<1> DEFINE A == Forest!Items(AllItems, roots)
<1>1. /\ heap \in [Node -> Item] /\ live \in SUBSET Node /\ Shape(heap, live)
      /\ None \notin live /\ Owners(heap, live, roots) /\ Ordered(heap, live, AllItems)
  BY ItemsAreRows, NodesAreFinite DEF RInv, IInv, HeapIsOrdered
<1>2. A = UNION {Forest!Tree(AllItems, r) : r \in roots}
  BY DEF Forest!Items
<1> HIDE DEF A
<1>3. ASSUME NEW r \in roots
      PROVE  LET T == Forest!Tree(AllItems, r) IN
             /\ r \in T /\ T \subseteq live
             /\ \A m \in live : heap[m].parent \in T => m \in T
             /\ \A m \in T : m # r => heap[m].parent \in T
  <2>1. r \in live
    BY <1>1 DEF Owners
  <2> QED
    BY <1>1, <2>1, TreeParents
<1>4. /\ A \subseteq live /\ roots \subseteq A
      /\ \A m \in live : heap[m].parent \in A => m \in A
      /\ \A m \in A : m \notin roots => heap[m].parent \in A
  BY <1>2, <1>3
<1> DEFINE S == {m \in live : m \notin A /\ (heap[m].parent # None \/ ~heap[m].ref)}
<1>5. ASSUME NEW m \in S PROVE Up(heap, m) \in S
  <2>1. heap[m].parent # None
    BY <1>1, <1>4 DEF Owners
  <2>2. /\ heap[m].parent \in live /\ ~heap[heap[m].parent].ref /\ heap[m].prev \in live
        /\ heap[heap[m].prev].parent = heap[m].parent
    BY <1>1, <2>1 DEF Shape, HasPlace, Inside
  <2>3. heap[m].parent \in S
    BY <1>4, <2>2
  <2>4. heap[m].prev \in S
    <3>1. heap[m].prev \notin roots
      BY <1>1, <2>1, <2>2 DEF Owners
    <3> QED
      BY <1>4, <2>1, <2>2, <2>3, <3>1
  <2> QED
    BY <2>1, <2>3, <2>4 DEF Up
<1>6. S \in SUBSET live
  OBVIOUS
<1> HIDE DEF S
<1>7. S = {}
  BY <1>1, <1>5, <1>6 DEF Shape, Grounded
<1> QED
  BY <1>4, <1>7 DEF A, S

-----------------------------------------------------------------------------
(***************************************************************************)
(* What the list operations do to the rows.                                *)
(***************************************************************************)

\* A row stays what it is when its items keep their links.
LEMMA SameRow ==
  ASSUME NEW h, NEW k, NEW L, NEW M, NEW q, NEW t, Row(h, L, q, t),
         k[q].ref = h[q].ref, k[q].child = h[q].child,
         \A i \in 1 .. Len(t) : /\ t[i] \in M /\ k[t[i]].parent = q
                                /\ k[t[i]].next = h[t[i]].next
  PROVE  Row(k, M, q, t)
<1>1. t \in Seq(M)
  BY DEF Row
<1> QED
  BY <1>1 DEF Row

\* One row changes when the others keep their links.
LEMMA OneRowChanges ==
  ASSUME NEW h, NEW L, NEW K, Ordered(h, L, K), NEW p \in L, L \subseteq Node,
         NEW k, SameData(h, k), \A n \in Node \ {p} : k[n].child = h[n].child,
         \A n \in L : h[n].parent \notin {None, p} =>
                        k[n].next = h[n].next /\ k[n].parent = h[n].parent,
         NEW t, Row(k, L, p, t)
  PROVE  Ordered(k, L, [K EXCEPT ![p] = t])
<1> DEFINE J == [K EXCEPT ![p] = t]
<1>1. J \in [Node -> Seq(L)] /\ J[p] = t /\ \A q \in Node \ {p} : J[q] = K[q]
  BY DEF Ordered, Row
<1> HIDE DEF J
<1>2. ASSUME NEW q \in Node, q # p PROVE Row(k, L, q, K[q])
  <2>1. Row(h, L, q, K[q]) /\ q # None
    BY NodesAreFinite DEF Ordered
  <2>2. \A i \in 1 .. Len(K[q]) : K[q][i] \in L /\ h[K[q][i]].parent = q
    BY <2>1 DEF Row
  <2>3. k[q].ref = h[q].ref /\ k[q].child = h[q].child
    BY <1>2 DEF SameData
  <2> QED
    BY <2>1, <2>2, <2>3, <1>2, SameRow
<1>3. Clean(k, L)
  BY DEF Ordered, Clean, SameData
<1>4. ASSUME NEW q \in Node PROVE Row(k, L, q, J[q])
  BY <1>1, <1>2
<1> QED
  BY <1>1, <1>3, <1>4 DEF Ordered, J

\* add_item_to_array: the item goes to the end.
LEMMA AddedLast ==
  ASSUME NEW h \in [Node -> Item], NEW L \in SUBSET Node, Shape(h, L),
         NEW K, Ordered(h, L, K), NEW p \in L, NEW x \in L, ~h[p].ref, h[x].parent = None,
         NEW D, Subtree(h, L, D, x), p \notin D
  PROVE  Ordered(AddItem(h, p, x), L,
                 [K EXCEPT ![p] = Forest!InsertAt(K[p], Len(K[p]) + 1, x)])
<1> DEFINE k == AddItem(h, p, x)
           s == K[p]
           t == Forest!InsertAt(s, Len(s) + 1, x)
<1>0. None \notin Node /\ None \notin L /\ x # p
  BY NodesAreFinite DEF Subtree
<1>b. Row(h, L, p, s) /\ L \subseteq Node
  BY DEF Ordered
<1>1. Row(h, L, p, s) /\ s \in Seq(L) /\ Len(s) \in Nat
  <2> HIDE DEF s
  <2> QED
    BY <1>b DEF Row
<1>2. \A i \in 1 .. Len(s) : s[i] \in L /\ h[s[i]].parent = p /\ s[i] # x
  BY <1>0, <1>1 DEF Row
<1> HIDE DEF s
<1>3. /\ t \in Seq(L) /\ Len(t) = Len(s) + 1
      /\ \A i \in 1 .. Len(s) + 1 : t[i] = IF i < Len(s) + 1 THEN s[i] ELSE x
  <2> DEFINE j == Len(s) + 1
  <2>1. j \in 1 .. Len(s) + 1
    BY <1>1
  <2>2. t = Forest!InsertAt(s, j, x)
    OBVIOUS
  <2> HIDE DEF t, j
  <2> HIDE DEF k
  <2>3. s \in Seq(L)
    BY <1>1
  <2>4. LET u == Forest!InsertAt(s, j, x) IN
        /\ u \in Seq(L) /\ Len(u) = Len(s) + 1
        /\ \A i \in 1 .. Len(s) + 1 :
             u[i] = IF i < j THEN s[i] ELSE IF i = j THEN x ELSE s[i - 1]
    BY <2>1, <2>3, Inserted
  <2> QED
    BY <2>2, <2>4, <1>1 DEF j
<1> HIDE DEF t
<1>a. \A i, j \in 1 .. Len(t) : t[i] = t[j] => i = j
  BY <1>1, <1>2, <1>3 DEF Row
<1>4. CASE h[p].child = None
  <2>1. /\ k \in [Node -> Item] /\ SameData(h, k)
        /\ \A n \in Node : /\ k[n].next = IF n = x THEN None ELSE h[n].next
                           /\ k[n].prev = IF n = x THEN x ELSE h[n].prev
                           /\ k[n].child = IF n = p THEN x ELSE h[n].child
                           /\ k[n].parent = IF n = x THEN p ELSE h[n].parent
    BY <1>0, <1>4, AddItemToEmpty
  <2> HIDE DEF k
  <2>2. s = <<>> /\ Len(s) = 0
    BY <1>1, <1>4 DEF Row
  <2>3. Len(t) = 1 /\ t[1] = x
    BY <1>3, <2>2
  <2>4. Row(k, L, p, t)
    BY <2>1, <2>3, <1>0, <1>3, <1>a DEF Row, SameData
  <2>5. Ordered(k, L, [K EXCEPT ![p] = t])
    BY <2>1, <2>4, OneRowChanges
  <2> QED
    BY <2>5 DEF k, t, s
<1>5. CASE h[p].child # None
  <2> DEFINE first == h[p].child
             last == h[first].prev
  <2>1. Len(s) > 0 /\ s[1] = first /\ first \in L /\ h[first].parent = p
    BY <1>1, <1>2, <1>5 DEF Row
  <2>2. last \in L /\ h[last].parent = p /\ h[last].next = None
    BY <2>1, <1>0 DEF Shape, Inside, HasPlace
  <2>3. x # first /\ x # last
    BY <2>1, <2>2, <1>0
  <2>4. /\ k \in [Node -> Item] /\ SameData(h, k)
        /\ \A n \in Node : /\ k[n].next = IF n = last THEN x ELSE h[n].next
                           /\ k[n].prev = IF n = first THEN x ELSE IF n = x THEN last ELSE h[n].prev
                           /\ k[n].child = h[n].child
                           /\ k[n].parent = IF n = x THEN p ELSE h[n].parent
    BY <1>0, <2>1, <2>2, <2>3, AddItemToList
  <2>5. s[Len(s)] = last
    <3>1. PICK j \in 1 .. Len(s) : s[j] = last
      BY <2>2, <1>0, <1>1, RowIsComplete
    <3>2. j = Len(s)
      <4>1. j # Len(s) => j + 1 \in 1 .. Len(s)
        BY <1>1
      <4>2. j # Len(s) => s[j + 1] = None
        BY <2>2, <3>1, <1>1 DEF Row
      <4> QED
        BY <4>1, <4>2, <1>0, <1>2
    <3> QED
      BY <3>1, <3>2
  <2>6. h[x].next = None
    BY DEF Shape, Alone
  <2> HIDE DEF k, last
  <2>7. ASSUME NEW i \in 1 .. Len(t)
        PROVE  k[t[i]].parent = p /\ k[t[i]].next = IF i = Len(t) THEN None ELSE t[i + 1]
    <3>1. CASE i = Len(t)
      <4>1. t[i] = x
        BY <3>1, <1>1, <1>3
      <4> QED
        BY <3>1, <4>1, <2>3, <2>4, <2>6
    <3>2. CASE i # Len(t)
      <4>1. i \in 1 .. Len(s) /\ t[i] = s[i] /\ h[s[i]].parent = p
            /\ h[s[i]].next = IF i = Len(s) THEN None ELSE s[i + 1]
        BY <3>2, <1>1, <1>3 DEF Row
      <4>2. CASE i = Len(s)
        <5>1. t[i + 1] = x /\ s[i] = last
          BY <4>2, <2>5, <1>1, <1>3
        <5> QED
          BY <3>2, <4>1, <5>1, <2>2, <2>3, <2>4
      <4>3. CASE i # Len(s)
        <5>1. i + 1 \in 1 .. Len(s) /\ t[i + 1] = s[i + 1]
          BY <4>1, <4>3, <1>1, <1>3
        <5>2. s[i] # last /\ s[i] # x /\ s[i] \in Node
          BY <4>1, <4>3, <5>1, <2>2, <1>0, <1>2
        <5> QED
          BY <3>2, <4>1, <4>3, <5>1, <5>2, <2>4
      <4> QED
        BY <4>2, <4>3
    <3> QED
      BY <3>1, <3>2
  <2>8. t[1] = first /\ Len(t) > 0
    BY <2>1, <1>1, <1>3
  <2>9. Row(k, L, p, t)
    BY <2>4, <2>7, <2>8, <1>3, <1>5, <1>a DEF Row, SameData
  <2>10. Ordered(k, L, [K EXCEPT ![p] = t])
    <3>1. \A n \in Node \ {p} : k[n].child = h[n].child
      BY <2>4
    <3>2. \A n \in L : h[n].parent \notin {None, p} =>
                        k[n].next = h[n].next /\ k[n].parent = h[n].parent
      BY <2>2, <2>4
    <3> QED
      BY <2>4, <2>9, <3>1, <3>2, <1>b, OneRowChanges
  <2> QED
    BY <2>10 DEF k, t, s
<1> QED
  BY <1>4, <1>5

\* The neighbours of the j-th item of a row.
LEMMA PlaceInRow ==
  ASSUME NEW h, NEW L, Shape(h, L), None \notin L, NEW p \in L, NEW s, Row(h, L, p, s),
         NEW j \in 1 .. Len(s), NEW i, s[j] = i
  PROVE  /\ i \in L /\ h[i].parent = p /\ ~h[p].ref /\ h[p].child # None
         /\ i = h[p].child <=> j = 1
         /\ j # 1 => j - 1 \in 1 .. Len(s) /\ h[i].prev = s[j - 1]
         /\ h[i].next = IF j = Len(s) THEN None ELSE s[j + 1]
<1>1. /\ s \in Seq(L) /\ Len(s) \in Nat \ {0} /\ i \in L /\ h[i].parent = p
      /\ \A a \in 1 .. Len(s) : /\ s[a] \in L
                                /\ h[s[a]].next = IF a = Len(s) THEN None ELSE s[a + 1]
      /\ \A a, b \in 1 .. Len(s) : s[a] = s[b] => a = b
  BY DEF Row
<1>2. ~h[p].ref /\ h[p].child # None /\ s[1] = h[p].child
  BY <1>1 DEF Row
<1>3. i = h[p].child <=> j = 1
  BY <1>1, <1>2
<1>4. ASSUME j # 1 PROVE j - 1 \in 1 .. Len(s) /\ h[i].prev = s[j - 1]
  <2> DEFINE q == h[i].prev
  <2>1. q \in L /\ h[q].parent = p /\ h[q].next = i
    BY <1>1, <1>3, <1>4, PlaceOf
  <2>2. PICK a \in 1 .. Len(s) : s[a] = q
    BY <2>1, RowIsComplete
  <2>3. a # Len(s)
    BY <2>1, <2>2, <1>1
  <2>4. a + 1 \in 1 .. Len(s) /\ s[a + 1] = s[j]
    BY <2>1, <2>2, <2>3, <1>1
  <2>5. a + 1 = j
    BY <2>4, <1>1
  <2> QED
    BY <2>2, <2>5, <1>1
<1> QED
  BY <1>1, <1>2, <1>3, <1>4

\* cJSON_InsertItemInArray: the item goes in front of another.
LEMMA InsertedThere ==
  ASSUME NEW h \in [Node -> Item], NEW L \in SUBSET Node, Shape(h, L),
         NEW K, Ordered(h, L, K), NEW p \in L, NEW x \in L, h[x].parent = None, x # p,
         NEW j \in 1 .. Len(K[p]), NEW i, i = K[p][j]
  PROVE  Ordered(InsertBefore(h, p, i, x), L, [K EXCEPT ![p] = Forest!InsertAt(K[p], j, x)])
<1> DEFINE k == InsertBefore(h, p, i, x)
           s == K[p]
           t == Forest!InsertAt(s, j, x)
           q == h[i].prev
<1>0. None \notin Node /\ None \notin L /\ L \subseteq Node
  BY NodesAreFinite
<1>b. Row(h, L, p, s) /\ j \in 1 .. Len(s) /\ s[j] = i
  BY DEF Ordered
<1> HIDE DEF s
<1>1. s \in Seq(L) /\ Len(s) \in Nat /\ j \in Nat /\ 1 <= j /\ j <= Len(s)
  BY <1>b DEF Row
<1>2. \A a \in 1 .. Len(s) : s[a] \in L /\ h[s[a]].parent = p /\ s[a] # x
  BY <1>0, <1>b DEF Row
<1>3. /\ i \in L /\ h[i].parent = p /\ ~h[p].ref /\ h[p].child # None
      /\ i = h[p].child <=> j = 1
      /\ j # 1 => j - 1 \in 1 .. Len(s) /\ q = s[j - 1]
      /\ h[i].next = IF j = Len(s) THEN None ELSE s[j + 1]
  BY <1>0, <1>b, PlaceInRow
<1>4. /\ x # i /\ i # p /\ q \in L /\ h[q].parent = p /\ q # x
  BY <1>0, <1>3, PlaceOf
<1>5. /\ k \in [Node -> Item] /\ SameData(h, k)
      /\ \A n \in Node : /\ k[n].next = IF n = x THEN i
                                        ELSE IF i # h[p].child /\ n = q THEN x ELSE h[n].next
                         /\ k[n].prev = IF n = i THEN x ELSE IF n = x THEN q ELSE h[n].prev
                         /\ k[n].child = IF n = p /\ i = h[p].child THEN x ELSE h[n].child
                         /\ k[n].parent = IF n = x THEN p ELSE h[n].parent
  BY <1>0, <1>3, <1>4, InsertBeforeFields
<1> HIDE DEF k, q
<1>6. /\ t \in Seq(L) /\ Len(t) = Len(s) + 1
      /\ \A a \in 1 .. Len(s) + 1 :
           t[a] = IF a < j THEN s[a] ELSE IF a = j THEN x ELSE s[a - 1]
  <2>1. j \in 1 .. Len(s) + 1 /\ s \in Seq(L)
    BY <1>1
  <2> QED
    BY <2>1, Inserted
<1> HIDE DEF t
<1>7. ASSUME NEW a \in 1 .. Len(t)
      PROVE  /\ t[a] = x <=> a = j
             /\ t[a] \in L /\ k[t[a]].parent = p
             /\ k[t[a]].next = IF a = Len(t) THEN None ELSE t[a + 1]
  <2>1. CASE a < j - 1
    <3>1. /\ a \in 1 .. Len(s) /\ a + 1 \in 1 .. Len(s) /\ t[a] = s[a] /\ t[a + 1] = s[a + 1]
          /\ a # Len(t) /\ a # j /\ a # Len(s) /\ j # 1
      BY <2>1, <1>1, <1>6
    <3>2. s[a] # q
      BY <2>1, <3>1, <1>1, <1>3, <1>b DEF Row
    <3>3. h[s[a]].next = s[a + 1]
      BY <3>1, <1>b DEF Row
    <3> QED
      BY <3>1, <3>2, <3>3, <1>0, <1>2, <1>5
  <2>2. CASE a = j - 1
    <3>1. /\ a \in 1 .. Len(s) /\ t[a] = s[a] /\ t[a + 1] = x
          /\ a # Len(t) /\ a # j /\ j # 1
      BY <2>2, <1>1, <1>6
    <3> QED
      BY <2>2, <3>1, <1>0, <1>2, <1>3, <1>5
  <2>3. CASE a = j
    <3>1. t[a] = x /\ a # Len(t) /\ t[a + 1] = s[j]
      BY <2>3, <1>1, <1>6
    <3> QED
      BY <2>3, <3>1, <1>0, <1>5, <1>b
  <2>4. CASE a > j
    <3>1. /\ a - 1 \in 1 .. Len(s) /\ t[a] = s[a - 1] /\ a # j
          /\ a = Len(t) <=> a - 1 = Len(s)
      BY <2>4, <1>1, <1>6
    <3>2. a # Len(t) => t[a + 1] = s[(a - 1) + 1]
      BY <2>4, <3>1, <1>1, <1>6
    <3>3. i # h[p].child => s[a - 1] # q
      BY <2>4, <3>1, <1>1, <1>3, <1>b DEF Row
    <3>4. h[s[a - 1]].next = IF a - 1 = Len(s) THEN None ELSE s[(a - 1) + 1]
      BY <3>1, <1>b DEF Row
    <3>5. s[a - 1] \in Node /\ s[a - 1] \in L /\ s[a - 1] # x /\ h[s[a - 1]].parent = p
      BY <3>1, <1>0, <1>2
    <3>6. k[s[a - 1]].next = h[s[a - 1]].next /\ k[s[a - 1]].parent = p
      BY <3>3, <3>5, <1>5
    <3> QED
      BY <3>1, <3>2, <3>4, <3>5, <3>6
  <2>5. a < j - 1 \/ a = j - 1 \/ a = j \/ a > j
    BY <1>1
  <2> QED
    BY <2>1, <2>2, <2>3, <2>4, <2>5
<1>8. ASSUME NEW a \in 1 .. Len(t), NEW b \in 1 .. Len(t), t[a] = t[b] PROVE a = b
  <2>1. CASE a = j \/ b = j
    BY <2>1, <1>7, <1>8
  <2>2. CASE a # j /\ b # j
    <3> DEFINE c(d) == IF d < j THEN d ELSE d - 1
    <3>1. c(a) \in 1 .. Len(s) /\ c(b) \in 1 .. Len(s) /\ t[a] = s[c(a)] /\ t[b] = s[c(b)]
      BY <2>2, <1>1, <1>6
    <3>2. c(a) = c(b)
      <4> HIDE DEF c
      <4> QED
        BY <3>1, <1>8, <1>b DEF Row
    <3> QED
      BY <3>2, <2>2, <1>1
  <2> QED
    BY <2>1, <2>2
<1>9. Len(t) > 0 /\ t[1] = k[p].child
  <2>1. Len(t) > 0 /\ 1 \in 1 .. Len(t) /\ t[1] = IF j = 1 THEN x ELSE s[1]
    BY <1>1, <1>6
  <2>2. s[1] = h[p].child
    BY <1>3, <1>b DEF Row
  <2>3. p \in Node
    BY <1>0
  <2> QED
    BY <2>1, <2>2, <2>3, <1>3, <1>5
<1>10. Row(k, L, p, t)
  <2>1. ~k[p].ref /\ k[p].child # None
    BY <1>0, <1>3, <1>5 DEF SameData
  <2>2. \A a \in 1 .. Len(t) : /\ k[t[a]].parent = p
                               /\ k[t[a]].next = IF a = Len(t) THEN None ELSE t[a + 1]
    BY <1>7
  <2>3. \A a, b \in 1 .. Len(t) : t[a] = t[b] => a = b
    BY <1>8
  <2> QED
    BY <2>1, <2>2, <2>3, <1>6, <1>9 DEF Row
<1>11. Ordered(k, L, [K EXCEPT ![p] = t])
  <2>1. \A n \in Node \ {p} : k[n].child = h[n].child
    BY <1>5
  <2>2. \A n \in L : h[n].parent \notin {None, p} =>
                      k[n].next = h[n].next /\ k[n].parent = h[n].parent
    BY <1>0, <1>4, <1>5
  <2> QED
    BY <2>1, <2>2, <1>0, <1>5, <1>10, OneRowChanges
<1> QED
  BY <1>11 DEF k, t, s

\* cJSON_DetachItemViaPointer: the item leaves the row.
LEMMA Detached ==
  ASSUME NEW h \in [Node -> Item], NEW L \in SUBSET Node, Shape(h, L),
         NEW K, Ordered(h, L, K), NEW p \in L,
         NEW j \in 1 .. Len(K[p]), NEW i, i = K[p][j]
  PROVE  Ordered(Detach(h, p, i), L, [K EXCEPT ![p] = Forest!RemoveAt(K[p], j)])
<1> DEFINE k == Detach(h, p, i)
           s == K[p]
           t == Forest!RemoveAt(s, j)
           f == h[p].child
           q == h[i].prev
           m == h[i].next
<1>0. None \notin Node /\ None \notin L /\ L \subseteq Node
  BY NodesAreFinite
<1>b. Row(h, L, p, s) /\ j \in 1 .. Len(s) /\ s[j] = i
  BY DEF Ordered
<1> HIDE DEF s
<1>1. s \in Seq(L) /\ Len(s) \in Nat /\ j \in Nat /\ 1 <= j /\ j <= Len(s)
  BY <1>b DEF Row
<1>2. \A a \in 1 .. Len(s) : /\ s[a] \in L /\ s[a] \in Node /\ h[s[a]].parent = p
                             /\ h[s[a]].next = IF a = Len(s) THEN None ELSE s[a + 1]
                             /\ s[a] = i => a = j
  BY <1>0, <1>b DEF Row
<1>3. /\ i \in L /\ h[i].parent = p /\ ~h[p].ref /\ h[p].child # None
      /\ i = f <=> j = 1
      /\ j # 1 => j - 1 \in 1 .. Len(s) /\ q = s[j - 1]
      /\ m = IF j = Len(s) THEN None ELSE s[j + 1]
  BY <1>0, <1>b, PlaceInRow
<1>4. /\ i # p /\ q \in L /\ f \in L /\ h[q].parent = p /\ m # i /\ (i # f => q # i)
      /\ m \in Ptr
  <2>1. /\ i # p /\ q \in L /\ f \in L /\ h[q].parent = p /\ m # i /\ (i # f => q # i)
        /\ m # None => m \in L
    BY <1>0, <1>3, PlaceOf
  <2> QED
    BY <2>1, <1>0 DEF Ptr
<1>5. /\ k \in [Node -> Item] /\ SameData(h, k)
      /\ \A n \in Node : /\ k[n].next = IF n = i THEN None
                                        ELSE IF i # f /\ n = q THEN m ELSE h[n].next
                         /\ k[n].child = IF n = p /\ i = f THEN m ELSE h[n].child
                         /\ k[n].parent = IF n = i THEN None ELSE h[n].parent
  <2> HIDE DEF k, f, q, m
  <2>1. f = h[p].child /\ q = h[i].prev /\ m = h[i].next
    BY DEF f, q, m
  <2>2. f \in Node /\ q \in Node /\ i \in Node /\ p \in Node
    BY <1>0, <1>3, <1>4
  <2> QED
    BY <2>1, <2>2, <1>0, <1>4, DetachFields DEF k
<1> HIDE DEF k
<1>6. /\ t \in Seq(L) /\ Len(t) = Len(s) - 1
      /\ \A a \in 1 .. Len(s) - 1 : t[a] = IF a < j THEN s[a] ELSE s[a + 1]
  BY <1>1, Removed
<1> HIDE DEF t
<1>7. ASSUME NEW a \in 1 .. Len(t)
      PROVE  /\ k[t[a]].parent = p
             /\ k[t[a]].next = IF a = Len(t) THEN None ELSE t[a + 1]
  <2>1. CASE a < j - 1
    <3>1. /\ a \in 1 .. Len(s) /\ a + 1 \in 1 .. Len(s) /\ t[a] = s[a] /\ t[a + 1] = s[a + 1]
          /\ a # Len(t) /\ a # j /\ a # Len(s) /\ j # 1 /\ a # j - 1
      BY <2>1, <1>1, <1>6
    <3>2. s[a] # q
      BY <3>1, <1>1, <1>3, <1>b DEF Row
    <3>3. /\ s[a] # i /\ s[a] \in Node /\ h[s[a]].parent = p
          /\ h[s[a]].next = s[a + 1]
      BY <3>1, <1>2
    <3>4. k[s[a]].next = h[s[a]].next /\ k[s[a]].parent = p
      BY <3>2, <3>3, <1>5
    <3> QED
      BY <3>1, <3>3, <3>4
  <2>2. CASE a = j - 1
    <3>1. /\ a \in 1 .. Len(s) /\ t[a] = s[a] /\ a # j /\ j # 1
          /\ a = Len(t) <=> j = Len(s)
      BY <2>2, <1>1, <1>6
    <3>2. a # Len(t) => t[a + 1] = s[j + 1]
      BY <2>2, <3>1, <1>1, <1>6
    <3>3. s[a] # i /\ s[a] \in Node /\ h[s[a]].parent = p
      BY <3>1, <1>2
    <3>4. k[s[a]].next = m /\ k[s[a]].parent = p
      BY <2>2, <3>1, <3>3, <1>3, <1>5
    <3> QED
      BY <3>1, <3>2, <3>4, <1>3
  <2>3. CASE a >= j
    <3>1. /\ a + 1 \in 1 .. Len(s) /\ t[a] = s[a + 1] /\ a + 1 # j
          /\ a = Len(t) <=> a + 1 = Len(s)
      BY <2>3, <1>1, <1>6
    <3>2. a # Len(t) => t[a + 1] = s[(a + 1) + 1]
      BY <2>3, <3>1, <1>1, <1>6
    <3>3. i # f => s[a + 1] # q
      BY <2>3, <3>1, <1>1, <1>3, <1>b DEF Row
    <3>4. /\ s[a + 1] # i /\ s[a + 1] \in Node /\ h[s[a + 1]].parent = p
          /\ h[s[a + 1]].next = IF a + 1 = Len(s) THEN None ELSE s[(a + 1) + 1]
      BY <3>1, <1>2
    <3>5. k[s[a + 1]].next = h[s[a + 1]].next /\ k[s[a + 1]].parent = p
      BY <3>3, <3>4, <1>5
    <3> QED
      BY <3>1, <3>2, <3>4, <3>5
  <2>4. a < j - 1 \/ a = j - 1 \/ a >= j
    BY <1>1
  <2> QED
    BY <2>1, <2>2, <2>3, <2>4
<1>8. ASSUME NEW a \in 1 .. Len(t), NEW b \in 1 .. Len(t), t[a] = t[b] PROVE a = b
  <2> DEFINE c(d) == IF d < j THEN d ELSE d + 1
  <2>1. ASSUME NEW d \in 1 .. Len(t) PROVE c(d) \in 1 .. Len(s) /\ t[d] = s[c(d)]
    <3>1. d \in 1 .. Len(s) - 1
      BY <1>1, <1>6
    <3>2. t[d] = IF d < j THEN s[d] ELSE s[d + 1]
      BY <3>1, <1>6
    <3> QED
      BY <3>1, <3>2, <1>1
  <2>2. c(a) = c(b)
    <3> HIDE DEF c
    <3>1. c(a) \in 1 .. Len(s) /\ c(b) \in 1 .. Len(s) /\ s[c(a)] = s[c(b)]
      BY <2>1, <1>8
    <3> QED
      BY <3>1, <1>b DEF Row
  <2> QED
    BY <2>2, <1>1
<1>9. Row(k, L, p, t)
  <2>1. ~k[p].ref /\ k[p].child = IF i = f THEN m ELSE f
    BY <1>0, <1>3, <1>5 DEF SameData
  <2>2. CASE j = 1 /\ Len(s) = 1
    <3>1. k[p].child = None /\ Len(t) = 0
      BY <2>1, <2>2, <1>3, <1>6
    <3> QED
      BY <2>1, <3>1, <1>6 DEF Row
  <2>3. CASE ~(j = 1 /\ Len(s) = 1)
    <3>1. Len(t) > 0 /\ t[1] = (IF j = 1 THEN s[2] ELSE s[1]) /\ (j = 1 => 2 \in 1 .. Len(s))
      BY <2>3, <1>1, <1>6
    <3>2. s[1] = f
      BY <1>3, <1>b DEF Row
    <3>3. j = 1 => m = s[2] /\ s[2] \in L
      BY <2>3, <3>1, <1>2, <1>3
    <3>4. k[p].child = t[1] /\ k[p].child # None
      BY <2>1, <3>1, <3>2, <3>3, <1>0, <1>3
    <3> QED
      BY <2>1, <3>1, <3>4, <1>6, <1>7, <1>8 DEF Row
  <2> QED
    BY <2>2, <2>3
<1>10. Ordered(k, L, [K EXCEPT ![p] = t])
  <2>1. \A n \in Node \ {p} : k[n].child = h[n].child
    BY <1>5
  <2>2. \A n \in L : h[n].parent \notin {None, p} =>
                      k[n].next = h[n].next /\ k[n].parent = h[n].parent
    BY <1>0, <1>3, <1>4, <1>5
  <2> QED
    BY <2>1, <2>2, <1>0, <1>5, <1>9, OneRowChanges
<1> QED
  BY <1>10 DEF k, t, s

\* cJSON_ReplaceItemViaPointer: another item stands in its place.
LEMMA Replaced ==
  ASSUME NEW h \in [Node -> Item], NEW L \in SUBSET Node, Shape(h, L),
         NEW K, Ordered(h, L, K), NEW p \in L, NEW x \in L, h[x].parent = None, x # p,
         NEW j \in 1 .. Len(K[p]), NEW i, i = K[p][j]
  PROVE  Ordered(Replace(h, p, i, x), L, [K EXCEPT ![p] = [K[p] EXCEPT ![j] = x]])
<1> DEFINE k == Replace(h, p, i, x)
           s == K[p]
           t == [s EXCEPT ![j] = x]
           f == h[p].child
           q == h[i].prev
           m == h[i].next
<1>0. None \notin Node /\ None \notin L /\ L \subseteq Node
  BY NodesAreFinite
<1>b. Row(h, L, p, s) /\ j \in 1 .. Len(s) /\ s[j] = i
  BY DEF Ordered
<1> HIDE DEF s
<1>1. s \in Seq(L) /\ Len(s) \in Nat /\ j \in Nat /\ 1 <= j /\ j <= Len(s)
  BY <1>b DEF Row
<1>2. \A a \in 1 .. Len(s) : /\ s[a] \in L /\ s[a] \in Node /\ h[s[a]].parent = p
                             /\ s[a] # x /\ s[a] # p
                             /\ h[s[a]].next = IF a = Len(s) THEN None ELSE s[a + 1]
                             /\ s[a] = i => a = j
  <2>1. \A a \in 1 .. Len(s) : /\ s[a] \in L /\ h[s[a]].parent = p
                               /\ h[s[a]].next = IF a = Len(s) THEN None ELSE s[a + 1]
                               /\ s[a] = i => a = j
    BY <1>b DEF Row
  <2>2. \A n \in L : h[n].parent # n
    BY <1>0, NotItself
  <2> QED
    BY <2>1, <2>2, <1>0
<1>3. /\ i \in L /\ h[i].parent = p /\ ~h[p].ref /\ h[p].child # None
      /\ i = f <=> j = 1
      /\ j # 1 => j - 1 \in 1 .. Len(s) /\ q = s[j - 1]
      /\ m = IF j = Len(s) THEN None ELSE s[j + 1]
  BY <1>0, <1>b, PlaceInRow
<1>4. /\ i # p /\ q \in L /\ f \in L /\ h[q].parent = p /\ m # i /\ (i # f => q # i)
      /\ m \in Ptr /\ x # i /\ x # f /\ q # x /\ m # x
  <2>1. /\ i # p /\ q \in L /\ f \in L /\ h[q].parent = p /\ m # i /\ (i # f => q # i)
        /\ m # None => m \in L /\ h[m].parent = p
        /\ h[f].parent = p
    BY <1>0, <1>3, PlaceOf
  <2> QED
    BY <2>1, <1>0, <1>3 DEF Ptr
<1>5. /\ k \in [Node -> Item] /\ SameData(h, k)
      /\ \A n \in Node : /\ k[n].next = IF n = i THEN None ELSE IF n = x THEN m
                                        ELSE IF i # f /\ n = q THEN x ELSE h[n].next
                         /\ k[n].child = IF n = p /\ i = f THEN x ELSE h[n].child
                         /\ k[n].parent = IF n = i THEN None ELSE IF n = x THEN p ELSE h[n].parent
  <2> HIDE DEF k, f, q, m
  <2>1. f = h[p].child /\ q = h[i].prev /\ m = h[i].next
    BY DEF f, q, m
  <2>2. f \in Node /\ q \in Node /\ i \in Node /\ p \in Node
    BY <1>0, <1>3, <1>4
  <2> QED
    BY <2>1, <2>2, <1>0, <1>4, ReplaceFields DEF k
<1> HIDE DEF k
<1>6. /\ t \in Seq(L) /\ Len(t) = Len(s)
      /\ \A a \in 1 .. Len(s) : t[a] = IF a = j THEN x ELSE s[a]
  BY <1>1
<1> HIDE DEF t
<1>7. ASSUME NEW a \in 1 .. Len(t)
      PROVE  /\ k[t[a]].parent = p
             /\ k[t[a]].next = IF a = Len(t) THEN None ELSE t[a + 1]
  <2>0. a \in 1 .. Len(s) /\ (a # Len(s) => a + 1 \in 1 .. Len(s)) /\ a + 1 # a
    BY <1>1, <1>6
  <2>1. CASE a = j
    <3>1. t[a] = x /\ (a # Len(s) => t[a + 1] = s[a + 1])
      BY <2>0, <2>1, <1>6
    <3>2. k[x].next = m /\ k[x].parent = p
      BY <1>0, <1>4, <1>5
    <3> QED
      BY <2>1, <3>1, <3>2, <1>3, <1>6
  <2>2. CASE a = j - 1
    <3>1. a # j /\ j # 1 /\ a # Len(s) /\ t[a] = s[a] /\ t[a + 1] = x
      BY <2>0, <2>2, <1>1, <1>6
    <3>2. s[a] = q /\ s[a] # i /\ s[a] # x /\ s[a] \in Node /\ h[s[a]].parent = p /\ i # f
      BY <2>0, <2>2, <3>1, <1>2, <1>3
    <3>3. k[s[a]].next = x /\ k[s[a]].parent = p
      BY <3>2, <1>5
    <3> QED
      BY <3>1, <3>3, <1>6
  <2>3. CASE a # j /\ a # j - 1
    <3>1. t[a] = s[a] /\ (a # Len(s) => t[a + 1] = s[a + 1])
      BY <2>0, <2>3, <1>1, <1>6
    <3>2. i # f => s[a] # q
      BY <2>0, <2>3, <1>3, <1>b DEF Row
    <3>3. /\ s[a] # i /\ s[a] # x /\ s[a] \in Node /\ h[s[a]].parent = p
          /\ h[s[a]].next = IF a = Len(s) THEN None ELSE s[a + 1]
      BY <2>0, <2>3, <1>2
    <3>4. k[s[a]].next = h[s[a]].next /\ k[s[a]].parent = p
      BY <3>2, <3>3, <1>5
    <3> QED
      BY <3>1, <3>3, <3>4, <1>6
  <2> QED
    BY <2>1, <2>2, <2>3
<1>8. \A a, b \in 1 .. Len(t) : t[a] = t[b] => a = b
  BY <1>2, <1>6, <1>b DEF Row
<1>9. Row(k, L, p, t)
  <2>1. ~k[p].ref /\ k[p].child = IF i = f THEN x ELSE f
    BY <1>0, <1>3, <1>5 DEF SameData
  <2>2. Len(t) > 0 /\ t[1] = (IF j = 1 THEN x ELSE s[1])
    BY <1>1, <1>6
  <2>3. s[1] = f
    BY <1>3, <1>b DEF Row
  <2>4. k[p].child = t[1] /\ k[p].child # None
    BY <2>1, <2>2, <2>3, <1>0, <1>3
  <2> QED
    BY <2>1, <2>2, <2>4, <1>6, <1>7, <1>8 DEF Row
<1>10. Ordered(k, L, [K EXCEPT ![p] = t])
  <2>1. \A n \in Node \ {p} : k[n].child = h[n].child
    BY <1>5
  <2>2. \A n \in L : h[n].parent \notin {None, p} =>
                      k[n].next = h[n].next /\ k[n].parent = h[n].parent
    BY <1>0, <1>3, <1>4, <1>5
  <2> QED
    BY <2>1, <2>2, <1>0, <1>5, <1>9, OneRowChanges
<1> QED
  BY <1>10 DEF k, t, s

\* A name does not matter to the rows.
LEMMA Renamed ==
  ASSUME NEW h, NEW L, NEW K, Ordered(h, L, K), NEW x \in L, NEW k,
         \A n \in Node : /\ k[n].next = h[n].next /\ k[n].child = h[n].child
                         /\ k[n].parent = h[n].parent /\ k[n].ref = h[n].ref,
         \A n \in Node \ {x} : k[n].string = h[n].string, L \subseteq Node
  PROVE  Ordered(k, L, K)
<1>1. ASSUME NEW p \in Node PROVE Row(k, L, p, K[p])
  <2>1. Row(h, L, p, K[p])
    BY DEF Ordered
  <2>2. \A i \in 1 .. Len(K[p]) : K[p][i] \in Node /\ K[p][i] \in L /\ h[K[p][i]].parent = p
    BY <2>1 DEF Row
  <2> QED
    BY <2>1, <2>2, SameRow
<1>2. Clean(k, L)
  BY DEF Ordered, Clean
<1> QED
  BY <1>1, <1>2 DEF Ordered

\* Nor does a new item that is in no list, and has no list of its own.
LEMMA OneMore ==
  ASSUME NEW h \in [Node -> Item], NEW L \in SUBSET Node, NEW K, Ordered(h, L, K),
         NEW n \in Node \ L, NEW it \in Item, it.ref \/ it.child = None
  PROVE  Ordered([h EXCEPT ![n] = it], L \cup {n}, K)
<1> DEFINE k == [h EXCEPT ![n] = it]
<1>1. k[n] = it /\ \A m \in Node \ {n} : k[m] = h[m]
  OBVIOUS
<1> HIDE DEF k
<1>2. ASSUME NEW p \in Node PROVE Row(k, L \cup {n}, p, K[p])
  <2>1. Row(h, L, p, K[p])
    BY DEF Ordered
  <2>2. CASE p = n
    <3>1. K[p] = <<>>
      BY <2>1, <2>2 DEF Ordered, Clean, Row
    <3> QED
      BY <2>2, <3>1, <1>1 DEF Row
  <2>3. CASE p # n
    <3>1. \A i \in 1 .. Len(K[p]) : /\ K[p][i] \in L /\ h[K[p][i]].parent = p
                                    /\ k[K[p][i]] = h[K[p][i]]
      BY <2>1, <1>1 DEF Row
    <3>2. k[p] = h[p]
      BY <2>3, <1>1
    <3> QED
      BY <2>1, <3>1, <3>2, SameRow
  <2> QED
    BY <2>2, <2>3
<1>3. Clean(k, L \cup {n})
  BY <1>1 DEF Ordered, Clean
<1>4. K \in [Node -> Seq(L \cup {n})]
  BY <1>2 DEF Row, Ordered
<1> QED
  BY <1>2, <1>3, <1>4 DEF Ordered, k

\* Trees that are freed take their rows with them.
LEMMA TreesGone ==
  ASSUME NEW h, NEW L \in SUBSET Node, NEW K, Ordered(h, L, K), NEW D, Whole(h, L, D)
  PROVE  Ordered([n \in Node |-> IF n \in D THEN Zero ELSE h[n]], L \ D,
                 Forest!Emptied(K, D, <<>>))
<1> DEFINE k == [n \in Node |-> IF n \in D THEN Zero ELSE h[n]]
           J == Forest!Emptied(K, D, <<>>)
<1>0. None \notin Node
  BY NodesAreFinite
<1>1. \A n \in Node : k[n] = IF n \in D THEN Zero ELSE h[n]
  OBVIOUS
<1>2. J = [n \in Node |-> IF n \in D THEN <<>> ELSE K[n]]
  BY DEF Forest!Emptied
<1> HIDE DEF k, J
<1>3. Zero.child = None /\ Zero.string = None
  BY DEF Zero
<1>4. ASSUME NEW p \in Node PROVE Row(k, L \ D, p, J[p])
  <2>1. CASE p \in D
    <3>1. J[p] = <<>> /\ k[p].child = None
      BY <2>1, <1>1, <1>2, <1>3
    <3> QED
      BY <3>1 DEF Row
  <2>2. CASE p \notin D
    <3>1. Row(h, L, p, K[p]) /\ J[p] = K[p] /\ k[p] = h[p]
      BY <2>2, <1>1, <1>2 DEF Ordered
    <3>2. \A i \in 1 .. Len(K[p]) : K[p][i] \in L /\ h[K[p][i]].parent = p
      BY <3>1 DEF Row
    <3>3. \A i \in 1 .. Len(K[p]) : K[p][i] \in L \ D /\ k[K[p][i]] = h[K[p][i]]
      BY <2>2, <3>2, <1>0, <1>1 DEF Whole
    <3> QED
      BY <3>1, <3>2, <3>3, SameRow
  <2> QED
    BY <2>1, <2>2
<1>5. Clean(k, L \ D)
  BY <1>1, <1>3 DEF Ordered, Clean
<1>6. J \in [Node -> Seq(L \ D)]
  BY <1>2, <1>4 DEF Row
<1> QED
  BY <1>4, <1>5, <1>6 DEF Ordered, k, J

\* New blocks leave the rows of the others.
LEMMA Beside ==
  ASSUME NEW h, NEW L \in SUBSET Node, NEW K, Ordered(h, L, K),
         NEW B \in SUBSET Node, L \cap B = {}, NEW k, \A n \in Node \ B : k[n] = h[n],
         NEW J, Ordered(k, L \cup B, J)
  PROVE  J = [n \in Node |-> IF n \in B THEN J[n] ELSE K[n]]
<1>0. None \notin L \cup B
  BY NodesAreFinite
<1>1. ASSUME NEW p \in Node \ B PROVE J[p] = K[p]
  <2>1. Row(h, L, p, K[p]) /\ Row(k, L \cup B, p, J[p])
    BY DEF Ordered
  <2>2. \A i \in 1 .. Len(K[p]) : K[p][i] \in L /\ h[K[p][i]].parent = p
    BY <2>1 DEF Row
  <2>3. \A i \in 1 .. Len(K[p]) : K[p][i] \in L \cup B /\ k[K[p][i]] = h[K[p][i]]
    BY <2>2
  <2>4. Row(k, L \cup B, p, K[p])
    BY <2>1, <2>2, <2>3, SameRow
  <2> QED
    BY <2>1, <2>4, <1>0, OneRow
<1> QED
  BY <1>1 DEF Ordered

-----------------------------------------------------------------------------
(***************************************************************************)
(* The steps of the forest.                                                *)
(***************************************************************************)

\* A step of JsonForest, or none, to the rows K2.
ForestStep(K2) ==
  \/ Forest!Make(AllItems, K2) \/ Forest!Rename(AllItems, K2) \/ Forest!Give(AllItems, K2)
  \/ Forest!Take(AllItems, K2) \/ Forest!Cut(AllItems, K2) \/ Forest!Drop(AllItems, K2)
  \/ K2 = AllItems /\ roots' = roots /\ AllNames' = AllNames

\* What an action does, when the rows it leaves are K2.
Moved ==
  /\ Clean(heap', live')
  /\ \A K2 : Ordered(heap', live', K2) => ForestStep(K2)

\* One account of the rows is enough.
LEMMA OneAccount ==
  ASSUME live' \subseteq Node, NEW K2, Ordered(heap', live', K2), ForestStep(K2)
  PROVE  Moved
<1>1. None \notin live'
  BY NodesAreFinite
<1>2. Clean(heap', live')
  BY DEF Ordered
<1>3. ASSUME NEW J, Ordered(heap', live', J) PROVE ForestStep(J)
  <2>1. J = K2
    BY <1>1, <1>3, OneOrder
  <2> QED
    BY <2>1
<1> QED
  BY <1>2, <1>3 DEF Moved

\* The names of all but the items in X stay.
KeepsNames(X) == \A n \in Node \ X : heap'[n].string = heap[n].string

LEMMA NamesKept ==
  ASSUME NEW x \in Node, KeepsNames({x})
  PROVE  AllNames' = [AllNames EXCEPT ![x] = AllNames'[x]]
<1>1. AllNames = [n \in Node |-> heap[n].string] /\ AllNames' = [n \in Node |-> heap'[n].string]
  BY DEF AllNames
<1> QED
  BY <1>1 DEF KeepsNames

LEMMA RowsHere ==
  ASSUME RInv, NEW p \in live
  PROVE  /\ Ordered(heap, live, AllItems) /\ p \in Node
         /\ AllItems \in [Node -> Seq(live)]
         /\ AllItems[p] \in Seq(live) /\ Len(AllItems[p]) \in Nat
         /\ DOMAIN AllItems[p] = 1 .. Len(AllItems[p])
         /\ ~heap[p].ref => p \in Forest!Items(AllItems, roots)
<1>1. Ordered(heap, live, AllItems) /\ p \in Node
  BY ItemsAreRows DEF RInv, IInv, HeapIsOrdered
<1>2. AllItems \in [Node -> Seq(live)]
  BY <1>1 DEF Ordered
<1>3. ~heap[p].ref => p \in Forest!Items(AllItems, roots)
  BY Reached
<1> HIDE DEF AllItems
<1>4. AllItems[p] \in Seq(live)
  BY <1>1, <1>2
<1> QED
  BY <1>1, <1>2, <1>3, <1>4

LEMMA GiveStep ==
  ASSUME RInv, NEW p \in live, ~heap[p].ref, NEW j \in 1 .. Len(AllItems[p]) + 1,
         NEW x \in Node, x \in roots \/ x \notin live, roots' = roots \ {x}, KeepsNames({x})
  PROVE  ForestStep([AllItems EXCEPT ![p] = Forest!InsertAt(AllItems[p], j, x)])
<1> DEFINE s == AllItems[p]
           t == Forest!InsertAt(s, j, x)
           K2 == [AllItems EXCEPT ![p] = t]
<1>1. /\ p \in Node /\ AllItems \in [Node -> Seq(live)] /\ s \in Seq(live)
      /\ p \in Forest!Items(AllItems, roots)
  BY RowsHere
<1>2. x \in roots \/ x \notin Forest!Items(AllItems, roots)
  BY Reached
<1>3. AllNames' = [AllNames EXCEPT ![x] = AllNames'[x]]
  BY NamesKept
<1>4. K2[p] = t
  BY <1>1
<1>5. j \in DOMAIN t /\ t[j] = x
  <2>1. s \in Seq(Node)
    BY <1>1 DEF RInv, IInv
  <2>2. j \in 1 .. Len(s) + 1 /\ x \in Node
    OBVIOUS
  <2> HIDE DEF K2, t, s
  <2>3. LET u == Forest!InsertAt(s, j, x) IN
        /\ u \in Seq(Node) /\ Len(u) = Len(s) + 1
        /\ \A i \in 1 .. Len(s) + 1 : u[i] = IF i < j THEN s[i] ELSE IF i = j THEN x ELSE s[i - 1]
    BY <2>1, <2>2, Inserted
  <2> HIDE DEF t
  <2>4. t \in Seq(Node) /\ Len(t) = Len(s) + 1 /\ t[j] = x
    BY <2>2, <2>3 DEF t
  <2> QED
    BY <2>2, <2>4
<1>6. K2 = [AllItems EXCEPT ![p] = Forest!InsertAt(AllItems[p], j, x)]
  OBVIOUS
<1> HIDE DEF K2, t, s
<1>7. Forest!Give(AllItems, K2)
  <2>1. j \in DOMAIN K2[p] /\ K2[p][j] = x
    BY <1>4, <1>5
  <2> QED
    BY <2>1, <1>1, <1>2, <1>3, <1>6 DEF Forest!Give
<1> QED
  BY <1>7 DEF ForestStep, K2, t, s

LEMMA TakeStep ==
  ASSUME RInv, NEW p \in live, ~heap[p].ref, NEW j \in 1 .. Len(AllItems[p]),
         roots' = roots \cup {AllItems[p][j]}, KeepsNames({})
  PROVE  ForestStep([AllItems EXCEPT ![p] = Forest!RemoveAt(AllItems[p], j)])
<1>1. /\ p \in Node /\ j \in DOMAIN AllItems[p]
      /\ p \in Forest!Items(AllItems, roots)
  BY RowsHere
<1>2. AllNames' = AllNames
  BY DEF AllNames, KeepsNames
<1> HIDE DEF AllItems, AllNames
<1>3. Forest!Take(AllItems, [AllItems EXCEPT ![p] = Forest!RemoveAt(AllItems[p], j)])
  BY <1>1, <1>2 DEF Forest!Take
<1> QED
  BY <1>3 DEF ForestStep

LEMMA RenameStep ==
  ASSUME NEW x \in roots, roots \subseteq Node, roots' = roots, KeepsNames({x})
  PROVE  ForestStep(AllItems)
<1>1. AllNames' = [AllNames EXCEPT ![x] = AllNames'[x]]
  BY NamesKept
<1> QED
  BY <1>1 DEF ForestStep, Forest!Rename

LEMMA DropStep ==
  ASSUME NEW r \in roots, NEW D, D = Forest!Tree(AllItems, r), roots' = roots \ {r},
         \A n \in Node : heap'[n].string = IF n \in D THEN None ELSE heap[n].string
  PROVE  ForestStep(Forest!Emptied(AllItems, D, <<>>))
<1>1. AllNames' = Forest!Emptied(AllNames, D, None)
  BY DEF AllNames, Forest!Emptied
<1> HIDE DEF AllItems, AllNames
<1>2. Forest!Drop(AllItems, Forest!Emptied(AllItems, D, <<>>))
  BY <1>1 DEF Forest!Drop
<1> QED
  BY <1>2 DEF ForestStep

LEMMA CutStep ==
  ASSUME RInv, NEW p \in live, ~heap[p].ref, NEW j \in 1 .. Len(AllItems[p]),
         NEW D, D = Forest!Tree(AllItems, AllItems[p][j]), roots' = roots,
         \A n \in Node : heap'[n].string = IF n \in D THEN None ELSE heap[n].string
  PROVE  ForestStep(Forest!Emptied([AllItems EXCEPT ![p] = Forest!RemoveAt(AllItems[p], j)], D, <<>>))
<1>1. /\ p \in Node /\ j \in DOMAIN AllItems[p]
      /\ p \in Forest!Items(AllItems, roots)
  BY RowsHere
<1>2. AllNames' = Forest!Emptied(AllNames, D, None)
  BY DEF AllNames, Forest!Emptied
<1> HIDE DEF AllItems, AllNames
<1>3. Forest!Cut(AllItems, Forest!Emptied([AllItems EXCEPT ![p] = Forest!RemoveAt(AllItems[p], j)], D, <<>>))
  BY <1>1, <1>2 DEF Forest!Cut
<1> QED
  BY <1>3 DEF ForestStep

LEMMA CutForStep ==
  ASSUME RInv, NEW p \in live, ~heap[p].ref, NEW j \in 1 .. Len(AllItems[p]),
         NEW D, D = Forest!Tree(AllItems, AllItems[p][j]), p \notin D,
         NEW x \in roots, x \notin D, roots' = roots \ {x},
         \A n \in Node \ {x} : heap'[n].string = IF n \in D THEN None ELSE heap[n].string
  PROVE  ForestStep(Forest!Emptied([AllItems EXCEPT ![p] = [AllItems[p] EXCEPT ![j] = x]], D, <<>>))
<1> DEFINE t == [AllItems[p] EXCEPT ![j] = x]
           K2 == Forest!Emptied([AllItems EXCEPT ![p] = t], D, <<>>)
<1>1. /\ p \in Node /\ j \in DOMAIN AllItems[p] /\ AllItems \in [Node -> Seq(live)]
      /\ p \in Forest!Items(AllItems, roots)
  BY RowsHere
<1>2. x \in Node
  BY DEF RInv, IInv, Owners
<1>3. AllNames' = Forest!Emptied([AllNames EXCEPT ![x] = AllNames'[x]], D, None)
  BY <1>2 DEF AllNames, Forest!Emptied
<1> HIDE DEF AllItems, AllNames
<1>4. K2[p] = t
  <2> HIDE DEF t
  <2> QED
    BY <1>1 DEF Forest!Emptied
<1>5. /\ K2[p] = [AllItems[p] EXCEPT ![j] = x]
      /\ K2 = Forest!Emptied([AllItems EXCEPT ![p] = K2[p]], D, <<>>)
  BY <1>4
<1> HIDE DEF K2
<1>6. x \in roots \ roots'
  OBVIOUS
<1>7. Forest!Cut(AllItems, K2)
  BY <1>1, <1>3, <1>5, <1>6 DEF Forest!Cut
<1> QED
  BY <1>7 DEF ForestStep, K2

LEMMA MakeStep ==
  ASSUME RInv, NEW B \in SUBSET Node, live \cap B = {}, live' = live \cup B,
         \A n \in Node \ B : heap'[n] = heap[n], NEW a \in B, roots' = roots \cup {a},
         Shape(heap', live'), Subtree(heap', live', B, a)
  PROVE  Moved
<1>1. /\ Ordered(heap, live, AllItems) /\ live \in SUBSET Node /\ roots \subseteq live
      /\ None \notin live' /\ live' \in SUBSET Node
  BY ItemsAreRows, NodesAreFinite DEF RInv, IInv, HeapIsOrdered, Owners
<1>2. Clean(heap', live')
  <2>1. \A n \in Node \ live' : n \in Node \ live /\ heap'[n] = heap[n]
    OBVIOUS
  <2> QED
    BY <2>1 DEF RInv, Clean
<1>3. ASSUME NEW K2, Ordered(heap', live', K2) PROVE ForestStep(K2)
  <2>1. Forest!Tree(K2, a) = B
    BY <1>1, <1>3, TreeIsSubtree
  <2>2. B \cap Forest!Items(AllItems, roots) = {}
    BY Reached
  <2>3. K2 = [n \in Node |-> IF n \in B THEN K2[n] ELSE AllItems[n]]
    BY <1>1, <1>3, Beside
  <2>4. AllNames' = [n \in Node |-> IF n \in B THEN AllNames'[n] ELSE AllNames[n]]
    BY DEF AllNames
  <2>5. a \in roots' \ roots
    BY <1>1
  <2> HIDE DEF AllItems, AllNames
  <2>6. Forest!Make(AllItems, K2)
    BY <2>1, <2>2, <2>3, <2>4, <2>5 DEF Forest!Make
  <2> QED
    BY <2>6 DEF ForestStep
<1> QED
  BY <1>2, <1>3 DEF Moved

-----------------------------------------------------------------------------
(***************************************************************************)
(* The calls.                                                              *)
(***************************************************************************)

\* New blocks with a shape of their own are a new tree.
LEMMA BlocksAreATree ==
  ASSUME RInv, NEW B \in SUBSET Node, NEW a \in B, live \cap B = {},
         heap' \in [Node -> Item], Shape(heap', B), \A n \in Node \ B : heap'[n] = heap[n],
         heap'[a].parent = None, \A n \in B : n # a => heap'[n].parent # None,
         live' = live \cup B, roots' = roots \cup {a}
  PROVE  Moved
<1>1. live \subseteq Node /\ Shape(heap, live) /\ None \notin live \cup B
  BY NodesAreFinite DEF RInv, IInv
<1>2. Shape(heap', live)
  <2>1. SameLinks(heap, heap', live)
    <3>1. \A n \in live : heap'[n] = heap[n]
      BY <1>1
    <3> QED
      BY <3>1 DEF SameLinks
  <2> QED
    BY <1>1, <2>1, SameLinksSameShape
<1>3. Shape(heap', live')
  BY <1>1, <1>2, ShapeOfUnion
<1>4. Subtree(heap', live', B, a)
  <2>1. \A m \in live : heap'[m].parent \notin B
    <3>1. \A m \in live : heap'[m].parent \in live \cup {None}
      BY <1>2 DEF Shape, Inside
    <3> QED
      BY <3>1, <1>1
  <2>2. \A m \in B : m # a => heap'[m].parent \in B
    BY DEF Shape, Inside
  <2> QED
    BY <2>1, <2>2 DEF Subtree
<1> QED
  BY <1>3, <1>4, MakeStep

\* A root or a new item x is linked behind the last of p; in h it has its name.
LEMMA AddMoves ==
  ASSUME RInv, NEW p \in live, ~heap[p].ref, NEW h \in [Node -> Item], live' \subseteq Node,
         live \subseteq live', Shape(h, live'), Ordered(h, live', AllItems), ~h[p].ref,
         NEW x \in live', h[x].parent = None, NEW D, Subtree(h, live', D, x), p \notin D,
         \A n \in Node \ {x} : h[n].string = heap[n].string,
         x \in roots \/ x \notin live, roots' = roots \ {x}, heap' = AddItem(h, p, x)
  PROVE  Moved
<1> DEFINE s == AllItems[p]
           j == Len(s) + 1
           K2 == [AllItems EXCEPT ![p] = Forest!InsertAt(s, j, x)]
<1>1. p \in live' /\ live' \in SUBSET Node
  OBVIOUS
<1>2. Ordered(heap', live', K2)
  <2> HIDE DEF AllItems
  <2> QED
    BY <1>1, AddedLast
<1>3. KeepsNames({x})
  <2>1. SameData(h, AddItem(h, p, x))
    BY <1>1, AddItemKeepsShape
  <2> QED
    BY <2>1 DEF SameData, KeepsNames
<1>4. j \in 1 .. Len(s) + 1
  <2>1. Len(s) \in Nat
    BY RowsHere
  <2> QED
    BY <2>1
<1>5. x \in Node
  OBVIOUS
<1>6. ForestStep(K2)
  <2> HIDE DEF j
  <2>1. ForestStep([AllItems EXCEPT ![p] = Forest!InsertAt(AllItems[p], j, x)])
    BY <1>3, <1>4, <1>5, GiveStep
  <2> QED
    BY <2>1
<1> HIDE DEF K2
<1> QED
  BY <1>2, <1>6, OneAccount

\* A call that changes a name, and nothing else.
LEMMA RenameMoves ==
  ASSUME RInv, NEW x \in roots, live' = live, roots' = roots,
         \A n \in Node : /\ heap'[n].next = heap[n].next /\ heap'[n].child = heap[n].child
                         /\ heap'[n].parent = heap[n].parent /\ heap'[n].ref = heap[n].ref,
         \A n \in Node \ {x} : heap'[n].string = heap[n].string
  PROVE  Moved
<1>1. /\ Ordered(heap, live, AllItems) /\ live \subseteq Node /\ x \in live
      /\ roots \subseteq Node
  BY ItemsAreRows DEF RInv, IInv, HeapIsOrdered, Owners
<1>2. Ordered(heap', live, AllItems)
  <2> HIDE DEF AllItems
  <2> QED
    BY <1>1, Renamed
<1>3. ForestStep(AllItems)
  BY <1>1, RenameStep DEF KeepsNames
<1> HIDE DEF AllItems
<1> QED
  BY <1>1, <1>2, <1>3, OneAccount

LEMMA CreateItemMoves ==
  ASSUME RInv, NEW it \in Item, it.next = None, it.prev = None, it.parent = None,
         it.child \in live \cup {None}, it.ref \/ it.child = None, NEW n \in Node \ live,
         heap' = [heap EXCEPT ![n] = it], live' = live \cup {n}, roots' = roots \cup {n}
  PROVE  Moved
<1> DEFINE B == {n}
           k == [heap EXCEPT ![n] = it]
<1>1. heap \in [Node -> Item] /\ live \in SUBSET Node /\ Shape(heap, live)
  BY DEF RInv, IInv
<1>2. Shape(k, live \cup B) /\ Subtree(k, live \cup B, B, n)
  BY <1>1, NewItemKeepsShape
<1>3. \A m \in Node \ B : k[m] = heap[m]
  BY <1>1
<1>4. B \in SUBSET Node /\ n \in B /\ live \cap B = {} /\ roots' = roots \cup {n} /\ live' = live \cup B
  OBVIOUS
<1>5. heap' = k
  OBVIOUS
<1> HIDE DEF k, B
<1>6. /\ Shape(heap', live') /\ Subtree(heap', live', B, n)
      /\ \A m \in Node \ B : heap'[m] = heap[m]
  BY <1>2, <1>3, <1>4, <1>5
<1> QED
  BY <1>4, <1>6, MakeStep

LEMMA CreationMoves ==
  ASSUME RInv, Creation
  PROVE  Moved
<1>1. IInv /\ heap \in [Node -> Item] /\ app.values \subseteq BOOLEAN
  BY AppAssumption DEF RInv, IInv, Application
<1>2. ASSUME NEW value \in app.values, CreateItem(value) PROVE Moved
  <2> DEFINE n == Fresh
             it == [Zero EXCEPT !.value = value]
  <2>1. n \in Node \ live
    BY <1>1, <1>2, FreshBlock DEF CreateItem
  <2>2. it \in Item /\ it.next = None /\ it.prev = None /\ it.parent = None /\ it.child = None
    BY <1>1 DEF Zero, Item, Ptr
  <2>3. heap' = [heap EXCEPT ![n] = it] /\ live' = live \cup {n} /\ roots' = roots \cup {n}
    BY <1>2 DEF CreateItem
  <2> HIDE DEF n, it
  <2> QED
    BY <2>1, <2>2, <2>3, CreateItemMoves
<1>3. ASSUME NEW p \in live, heap[p].child # None, CreateReference(heap[p].child) PROVE Moved
  <2> DEFINE n == Fresh
             c == heap[p].child
             it == [Zero EXCEPT !.ref = TRUE, !.child = c]
  <2>1. n \in Node \ live
    BY <1>1, <1>3, FreshBlock DEF CreateReference
  <2>2. c \in live /\ live \subseteq Node
    BY <1>1, <1>3 DEF IInv, Shape, Inside
  <2>3. heap' = [heap EXCEPT ![n] = it] /\ live' = live \cup {n} /\ roots' = roots \cup {n}
    BY <1>3 DEF CreateReference
  <2> HIDE DEF c
  <2>4. /\ it \in Item /\ it.next = None /\ it.prev = None /\ it.parent = None
        /\ it.child = c /\ it.ref
    BY <2>2 DEF Zero, Item, Ptr
  <2> HIDE DEF n, it
  <2> QED
    BY <2>1, <2>2, <2>3, <2>4, CreateItemMoves
<1>6. CASE CreateStringReference
  <2> DEFINE n == Fresh
             it == [Zero EXCEPT !.ref = TRUE, !.value = TRUE]
  <2>1. n \in Node \ live
    BY <1>1, <1>6, FreshBlock DEF CreateStringReference
  <2>2. it \in Item /\ it.next = None /\ it.prev = None /\ it.parent = None /\ it.child = None
    BY <1>1 DEF Zero, Item, Ptr
  <2>3. heap' = [heap EXCEPT ![n] = it] /\ live' = live \cup {n} /\ roots' = roots \cup {n}
    BY <1>6 DEF CreateStringReference
  <2> HIDE DEF n, it
  <2> QED
    BY <2>1, <2>2, <2>3, CreateItemMoves
<1>4. ASSUME NEW len \in 1 .. MaxArray, NEW value \in BOOLEAN, CreateFilledArray(len, value)
      PROVE  Moved
  <2>1. len \in Nat \ {0}
    BY TreeAssumption
  <2>2. PICK a \in Node, row \in [1 .. len -> Node] :
          /\ live \cap ({a} \cup Range(row)) = {} /\ {a} \cup Range(row) \subseteq Node
          /\ IsArray(heap, a, row, value, heap')
          /\ live' = live \cup ({a} \cup Range(row)) /\ roots' = roots \cup {a}
    BY <1>1, <1>4, <2>1, FilledBlocks
  <2> DEFINE B == {a} \cup Range(row)
  <2>3. /\ heap' \in [Node -> Item] /\ Shape(heap', B)
        /\ \A n \in Node \ B : heap'[n] = heap[n]
        /\ heap'[a].parent = None /\ \A n \in Range(row) : heap'[n].parent = a
    BY <2>2 DEF IsArray
  <2>4. \A n \in B : n # a => heap'[n].parent # None
    BY <2>3, NodesAreFinite
  <2>5. B \in SUBSET Node /\ a \in B /\ live \cap B = {} /\ live' = live \cup B
    BY <2>2
  <2> HIDE DEF B
  <2> QED
    BY <2>2, <2>3, <2>4, <2>5, BlocksAreATree
<1>5. ASSUME NEW n \in live, NEW recurse \in BOOLEAN, Duplicate(n, recurse) PROVE Moved
  <2>1. PICK B \in SUBSET Node, a \in Node :
          /\ a \in B /\ live \cap B = {} /\ heap' \in [Node -> Item] /\ Shape(heap', B)
          /\ \A m \in Node \ B : heap'[m] = heap[m]
          /\ heap'[a].parent = None /\ \A m \in B : m # a => heap'[m].parent # None
          /\ live' = live \cup B /\ roots' = roots \cup {a}
    BY <1>1, <1>5, CopiedBlocks
  <2> QED
    BY <2>1, BlocksAreATree
<1> QED
  BY <1>2, <1>3, <1>4, <1>5, <1>6 DEF Creation, CreateNumberArray, CreateStringArray

\* A new name changes no links.
LEMMA NamedFields ==
  ASSUME NEW h \in [Node -> Item], NEW x \in Node, NEW m
  PROVE  LET k == Named(h, x, m) IN
         /\ \A n \in Node : /\ k[n].next = h[n].next /\ k[n].child = h[n].child
                            /\ k[n].parent = h[n].parent /\ k[n].ref = h[n].ref
         /\ \A n \in Node \ {x} : k[n].string = h[n].string
BY DEF Named, Item

\* In which place of its row a child is.
LEMMA PlaceOfChild ==
  ASSUME RInv, NEW p \in live, NEW i \in live, heap[i].parent = p
  PROVE  /\ \E j \in 1 .. Len(AllItems[p]) : AllItems[p][j] = i
         /\ Shape(heap, live) /\ ~heap[p].ref
<1>1. /\ Ordered(heap, live, AllItems) /\ Shape(heap, live) /\ None \notin live
      /\ live \in SUBSET Node /\ p \in Node /\ p # None
  BY ItemsAreRows, NodesAreFinite DEF RInv, IInv, HeapIsOrdered
<1>2. ~heap[p].ref
  BY <1>1 DEF Shape, HasPlace
<1> HIDE DEF AllItems
<1> QED
  BY <1>1, <1>2, RowIsChildren

\* A root is linked in front of i.
LEMMA InsertMoves ==
  ASSUME RInv, NEW p \in live, NEW i \in live, heap[i].parent = p,
         NEW x \in roots, x # p, live' = live, roots' = roots \ {x},
         heap' = InsertBefore(heap, p, i, x), NEW D, Subtree(heap, live, D, x), p \notin D
  PROVE  Moved
<1>1. /\ heap \in [Node -> Item] /\ live \in SUBSET Node /\ Ordered(heap, live, AllItems)
      /\ x \in live /\ heap[x].parent = None /\ x \in Node
  BY ItemsAreRows DEF RInv, IInv, HeapIsOrdered, Owners
<1>2. PICK j \in 1 .. Len(AllItems[p]) : AllItems[p][j] = i
  BY PlaceOfChild
<1>3. Shape(heap, live) /\ ~heap[p].ref
  BY PlaceOfChild
<1>4. Len(AllItems[p]) \in Nat
  BY RowsHere
<1>5. KeepsNames({x})
  <2>1. SameData(heap, InsertBefore(heap, p, i, x))
    BY <1>1, <1>3, InsertKeepsShape
  <2> QED
    BY <2>1 DEF SameData, KeepsNames
<1> DEFINE K2 == [AllItems EXCEPT ![p] = Forest!InsertAt(AllItems[p], j, x)]
<1>6. j \in 1 .. Len(AllItems[p]) + 1
  BY <1>4
<1>7. ForestStep(K2)
  BY <1>1, <1>3, <1>5, <1>6, GiveStep
<1> HIDE DEF AllItems
<1>8. Ordered(heap', live', K2)
  BY <1>1, <1>2, <1>3, InsertedThere
<1> HIDE DEF K2
<1> QED
  BY <1>1, <1>7, <1>8, OneAccount

LEMMA AddItemToArrayMoves ==
  ASSUME RInv, NEW p, NEW i, Holds(p), Loose(i, p),
         heap' = AddItem(heap, p, i), roots' = roots \ {i}, live' = live
  PROVE  Moved
<1>1. /\ heap \in [Node -> Item] /\ live \subseteq Node /\ Shape(heap, live)
      /\ Ordered(heap, live, AllItems) /\ p \in live /\ ~heap[p].ref
  BY ItemsAreRows DEF RInv, IInv, HeapIsOrdered, Holds
<1>2. /\ i \in roots /\ i \in live /\ heap[i].parent = None
      /\ Subtree(heap, live, Deleted(i), i) /\ p \notin Deleted(i)
  BY LooseIsSubtree DEF RInv
<1> HIDE DEF AllItems
<1> QED
  BY <1>1, <1>2, AddMoves

LEMMA AddItemToObjectMoves ==
  ASSUME RInv, NEW p, NEW m \in Names, NEW i, AddItemToObject(p, m, i)
  PROVE  Moved
<1> DEFINE h == Named(heap, i, m)
           D == Deleted(i)
<1>1. /\ heap \in [Node -> Item] /\ live \subseteq Node /\ Shape(heap, live)
      /\ Ordered(heap, live, AllItems) /\ p \in live /\ ~heap[p].ref
      /\ Good(heap, live, roots, strings)
  BY ItemsAreRows, GoodIsIInv DEF RInv, IInv, HeapIsOrdered, AddItemToObject, Holds
<1>2. /\ i \in roots /\ i \in live /\ i \in Node /\ heap[i].parent = None
      /\ Subtree(heap, live, D, i) /\ p \notin D
  BY <1>1, LooseIsSubtree DEF RInv, AddItemToObject
<1>3. heap' = AddItem(h, p, i) /\ roots' = roots \ {i} /\ live' = live
  BY DEF AddItemToObject, AddNamed
<1> HIDE DEF AllItems, D
<1>4. /\ \A n \in Node : /\ h[n].next = heap[n].next /\ h[n].child = heap[n].child
                         /\ h[n].parent = heap[n].parent /\ h[n].ref = heap[n].ref
      /\ \A n \in Node \ {i} : h[n].string = heap[n].string
  BY <1>1, <1>2, NamedFields
<1>5. h \in [Node -> Item] /\ Shape(h, live) /\ Subtree(h, live, D, i)
  <2>1. /\ Good(h, live, roots, strings - NameOf(heap, i) + Copied(m))
        /\ \A E, j : Subtree(heap, live, E, j) => Subtree(h, live, E, j)
    BY <1>1, <1>2, GoodNamed
  <2> QED
    BY <2>1, <1>2 DEF Good
<1> HIDE DEF h
<1>6. Ordered(h, live, AllItems)
  BY <1>1, <1>2, <1>4, Renamed
<1>7. ~h[p].ref /\ h[i].parent = None
  BY <1>1, <1>2, <1>4
<1> QED
  BY <1>1, <1>2, <1>3, <1>4, <1>5, <1>6, <1>7, AddMoves

\* A new item or reference n is linked behind the last of p, with a name or without.
LEMMA AddNewMoves ==
  ASSUME RInv, NEW p \in live, ~heap[p].ref, NEW n \in Node \ live, NEW it \in Item,
         it.next = None, it.prev = None, it.parent = None, it.child \in live \cup {None},
         it.ref \/ it.child = None, live' = live \cup {n}, roots' = roots,
         LET k == [heap EXCEPT ![n] = it] IN
         heap' = AddItem(k, p, n) \/ \E m \in Names : heap' = AddItem(Named(k, n, m), p, n)
  PROVE  Moved
<1> DEFINE k == [heap EXCEPT ![n] = it]
           M == live \cup {n}
<1>1. /\ heap \in [Node -> Item] /\ live \in SUBSET Node /\ Shape(heap, live)
      /\ Ordered(heap, live, AllItems) /\ roots \subseteq live
      /\ Good(heap, live, roots, strings)
  BY ItemsAreRows, GoodIsIInv DEF RInv, IInv, HeapIsOrdered, Owners
<1>2. k[n] = it /\ \A i \in Node \ {n} : k[i] = heap[i]
  BY <1>1
<1> HIDE DEF AllItems
<1>3. Ordered(k, M, AllItems)
  BY <1>1, OneMore
<1>4. /\ Good(k, M, roots \cup {n}, strings + Owned(k, {n}))
      /\ Subtree(k, M, {n}, n)
  BY <1>1, GoodNewItem
<1>a. heap' = AddItem(k, p, n) \/ \E m \in Names : heap' = AddItem(Named(k, n, m), p, n)
  OBVIOUS
<1> HIDE DEF k
<1>5. k \in [Node -> Item] /\ Shape(k, M)
  BY <1>4 DEF Good
<1>6. /\ M \subseteq Node /\ live \subseteq M /\ live' = M /\ n \in M /\ n \notin live
      /\ p \in Node /\ p \notin {n} /\ n \notin roots /\ roots' = roots \ {n}
  BY <1>1
<1>7. CASE heap' = AddItem(k, p, n)
  <2>1. ~k[p].ref /\ k[n].parent = None /\ \A i \in Node \ {n} : k[i].string = heap[i].string
    BY <1>2, <1>6
  <2> HIDE DEF M
  <2>2. live' \subseteq Node /\ live \subseteq live' /\ Shape(k, live') /\ n \in live'
        /\ Ordered(k, live', AllItems) /\ Subtree(k, live', {n}, n)
    BY <1>3, <1>4, <1>5, <1>6
  <2> QED
    BY <2>1, <2>2, <1>5, <1>6, <1>7, AddMoves
<1>8. ASSUME NEW m \in Names, heap' = AddItem(Named(k, n, m), p, n) PROVE Moved
  <2> DEFINE h == Named(k, n, m)
             Q == roots \cup {n}
             u == strings + Owned(k, {n})
  <2>1. /\ \A i \in Node : /\ h[i].next = k[i].next /\ h[i].child = k[i].child
                           /\ h[i].parent = k[i].parent /\ h[i].ref = k[i].ref
        /\ \A i \in Node \ {n} : h[i].string = k[i].string
    BY <1>5, <1>6, NamedFields
  <2>2. h \in [Node -> Item] /\ Shape(h, M) /\ Subtree(h, M, {n}, n)
    <3> HIDE DEF Q, u, M
    <3>1. Good(k, M, Q, u)
      BY <1>4 DEF Q, u
    <3>2. /\ Good(h, M, Q, u - NameOf(k, n) + Copied(m))
          /\ \A E, j : Subtree(k, M, E, j) => Subtree(h, M, E, j)
      BY <3>1, <1>6, GoodNamed
    <3> QED
      BY <3>2, <1>4 DEF Good
  <2>3. heap' = AddItem(h, p, n)
    BY <1>8
  <2> HIDE DEF h, M
  <2>4. Ordered(h, M, AllItems)
    BY <2>1, <1>3, <1>6, Renamed
  <2>5. ~h[p].ref /\ h[n].parent = None /\ \A i \in Node \ {n} : h[i].string = heap[i].string
    BY <2>1, <1>2, <1>6
  <2>6. live' \subseteq Node /\ live \subseteq live' /\ Shape(h, live') /\ n \in live'
        /\ Ordered(h, live', AllItems) /\ Subtree(h, live', {n}, n)
    BY <2>2, <2>4, <1>6
  <2> QED
    BY <2>2, <2>3, <2>5, <2>6, <1>6, AddMoves
<1> QED
  BY <1>a, <1>7, <1>8

LEMMA AddNewToObjectMoves ==
  ASSUME RInv, NEW p, NEW m \in Names, NEW value \in BOOLEAN, AddNewToObject(p, m, value)
  PROVE  Moved
<1> DEFINE n == Fresh
           it == [Zero EXCEPT !.value = value]
<1>1. n \in Node \ live /\ p \in live /\ ~heap[p].ref
  BY FreshBlock DEF RInv, AddNewToObject, Holds
<1>2. /\ it \in Item /\ it.next = None /\ it.prev = None /\ it.parent = None
      /\ it.child = None
  BY DEF Zero, Item, Ptr
<1>3. /\ heap' = AddItem(Named([heap EXCEPT ![n] = it], n, m), p, n)
      /\ live' = live \cup {n} /\ roots' = roots
  BY DEF AddNewToObject
<1> HIDE DEF n, it
<1> QED
  BY <1>1, <1>2, <1>3, AddNewMoves

\* A reference that leaks is seen nowhere.
LEMMA LeakMoves ==
  ASSUME RInv, NEW n \in Node \ live, NEW it \in Item, it.ref, it.string = None,
         heap' = [heap EXCEPT ![n] = it], live' = live \cup {n}, roots' = roots
  PROVE  Moved
<1>1. /\ heap \in [Node -> Item] /\ live \in SUBSET Node /\ Ordered(heap, live, AllItems)
      /\ heap[n].string = None
  BY ItemsAreRows DEF RInv, IInv, HeapIsOrdered, Clean
<1>2. AllNames' = AllNames
  <2>1. \A i \in Node : heap'[i].string = heap[i].string
    BY <1>1
  <2> QED
    BY <2>1 DEF AllNames
<1> HIDE DEF AllItems, AllNames
<1>3. Ordered(heap', live', AllItems)
  BY <1>1, OneMore
<1>4. live' \subseteq Node
  BY <1>1
<1>5. ForestStep(AllItems)
  BY <1>2 DEF ForestStep
<1> QED
  BY <1>3, <1>4, <1>5, OneAccount

LEMMA AddItemReferenceToArrayMoves ==
  ASSUME RInv, NEW p, NEW n \in live, AddItemReferenceToArray(p, n)
  PROVE  Moved
<1> DEFINE r == Fresh
           it == Reference(n)
<1>1. /\ r \in Node \ live /\ p \in live /\ ~heap[p].ref
      /\ heap \in [Node -> Item] /\ n \in Node /\ heap[n].child \in live \cup {None}
  BY FreshBlock DEF RInv, AddItemReferenceToArray, Holds, IInv, Shape, Inside
<1>2. /\ it \in Item /\ it.next = None /\ it.prev = None /\ it.parent = None
      /\ it.child \in live \cup {None} /\ it.ref
  BY <1>1, ReferenceFields
<1>3. /\ heap' = AddItem([heap EXCEPT ![r] = it], p, r)
      /\ live' = live \cup {r} /\ roots' = roots
  BY DEF AddItemReferenceToArray
<1> HIDE DEF r, it
<1> QED
  BY <1>1, <1>2, <1>3, AddNewMoves

LEMMA AddItemReferenceToObjectMoves ==
  ASSUME RInv, NEW p, NEW m \in Names, NEW n \in live, AddItemReferenceToObject(p, m, n)
  PROVE  Moved
<1> DEFINE r == Fresh
           it == Reference(n)
           k == [heap EXCEPT ![r] = it]
<1>1. /\ r \in Node \ live /\ p \in live /\ ~heap[p].ref
      /\ heap \in [Node -> Item] /\ n \in Node /\ heap[n].child \in live \cup {None}
  BY FreshBlock DEF RInv, AddItemReferenceToObject, Holds, IInv, Shape, Inside
<1>2. /\ it \in Item /\ it.next = None /\ it.prev = None /\ it.parent = None
      /\ it.child \in live \cup {None} /\ it.ref /\ it.string = None
  BY <1>1, ReferenceFields
<1>3. /\ heap' = AddItem(Named(k, r, m), p, r) \/ heap' = k
      /\ live' = live \cup {r} /\ roots' = roots
  BY DEF AddItemReferenceToObject
<1> HIDE DEF r, it
<1>4. CASE heap' = AddItem(Named(k, r, m), p, r)
  BY <1>1, <1>2, <1>3, <1>4, AddNewMoves
<1>5. CASE heap' = k
  BY <1>1, <1>2, <1>3, <1>5, LeakMoves
<1> QED
  BY <1>3, <1>4, <1>5

LEMMA InsertItemInArrayMoves ==
  ASSUME RInv, NEW p, NEW which, NEW x, InsertItemInArray(p, which, x)
  PROVE  Moved
<1> DEFINE i == GetArrayItem(p, which)
<1>1. /\ Holds(p) /\ Loose(x, p) /\ live' = live /\ roots' = roots \ {x}
      /\ heap' = IF i = None THEN AddItem(heap, p, x) ELSE InsertBefore(heap, p, i, x)
  BY DEF InsertItemInArray
<1>2. /\ IInv /\ heap \in [Node -> Item] /\ live \subseteq Node /\ Shape(heap, live)
      /\ p \in live
  BY <1>1 DEF RInv, IInv, Holds
<1>3. /\ x \in roots /\ Subtree(heap, live, Deleted(x), x) /\ p \notin Deleted(x)
  BY <1>1, <1>2, LooseIsSubtree
<1>4. x # p
  BY <1>3 DEF Subtree
<1>5. i # None => i \in live /\ heap[i].parent = p
  BY <1>1, <1>2, GetArrayItemFindsAChild
<1> HIDE DEF i
<1>6. CASE i = None
  BY <1>1, <1>6, AddItemToArrayMoves
<1>7. CASE i # None
  BY <1>1, <1>2, <1>3, <1>4, <1>5, <1>7, InsertMoves
<1> QED
  BY <1>6, <1>7

LEMMA AddingMoves ==
  ASSUME RInv, NEW p, Adding(p)
  PROVE  Moved
<1>1. app.names \subseteq Names /\ app.values \subseteq BOOLEAN /\ Name \subseteq Names
  BY NamesOfApp DEF RInv, Names
<1>2. ASSUME NEW i, AddItemToArray(p, i) PROVE Moved
  BY <1>2, AddItemToArrayMoves DEF AddItemToArray
<1>3. ASSUME NEW i, NEW m \in app.names, AddItemToObject(p, m, i) PROVE Moved
  BY <1>1, <1>3, AddItemToObjectMoves
<1>4. ASSUME NEW i, NEW which, InsertItemInArray(p, which, i) PROVE Moved
  BY <1>4, InsertItemInArrayMoves
<1>5. ASSUME NEW m \in app.names \cap Name, NEW value \in app.values, AddNewToObject(p, m, value)
      PROVE  Moved
  BY <1>1, <1>5, AddNewToObjectMoves
<1>6. ASSUME NEW n \in live, AddItemReferenceToArray(p, n) PROVE Moved
  BY <1>6, AddItemReferenceToArrayMoves
<1>7. ASSUME NEW n \in live, NEW m \in app.names \cap Name, AddItemReferenceToObject(p, m, n)
      PROVE  Moved
  BY <1>1, <1>7, AddItemReferenceToObjectMoves
<1> QED
  BY <1>2, <1>3, <1>4, <1>5, <1>6, <1>7 DEF Adding, insert_item_in_array

LEMMA DetachItemViaPointerMoves ==
  ASSUME RInv, NEW p, NEW i, DetachItemViaPointer(p, i)
  PROVE  Moved
<1>1. /\ heap \in [Node -> Item] /\ live \in SUBSET Node /\ Ordered(heap, live, AllItems)
      /\ p \in live
  BY ItemsAreRows DEF RInv, IInv, HeapIsOrdered, DetachItemViaPointer, Holds
<1>2. i \in live /\ heap[i].parent = p
  BY ItemsAreChildren DEF RInv, IInv, DetachItemViaPointer, Holds
<1>3. PICK j \in 1 .. Len(AllItems[p]) : AllItems[p][j] = i
  BY <1>1, <1>2, PlaceOfChild
<1>4. Shape(heap, live) /\ ~heap[p].ref
  BY <1>1, <1>2, PlaceOfChild
<1>5. heap' = Detach(heap, p, i) /\ roots' = roots \cup {i} /\ live' = live
  BY DEF DetachItemViaPointer
<1>6. KeepsNames({})
  <2>1. SameData(heap, Detach(heap, p, i))
    BY <1>1, <1>2, <1>4, DetachKeepsShape
  <2> QED
    BY <2>1, <1>5 DEF SameData, KeepsNames
<1> DEFINE K2 == [AllItems EXCEPT ![p] = Forest!RemoveAt(AllItems[p], j)]
<1>7. ForestStep(K2)
  BY <1>1, <1>3, <1>4, <1>5, <1>6, TakeStep
<1> HIDE DEF AllItems
<1>8. Ordered(heap', live', K2)
  BY <1>1, <1>3, <1>4, <1>5, Detached
<1> HIDE DEF K2
<1> QED
  BY <1>1, <1>5, <1>7, <1>8, OneAccount

LEMMA DeleteMoves ==
  ASSUME RInv, NEW r, Delete(r)
  PROVE  Moved
<1> DEFINE D == Deleted(r)
<1>1. /\ heap \in [Node -> Item] /\ live \in SUBSET Node /\ Ordered(heap, live, AllItems)
      /\ Shape(heap, live) /\ None \notin live
      /\ r \in roots /\ r \in live /\ heap[r].parent = None
  BY ItemsAreRows, NodesAreFinite DEF RInv, IInv, HeapIsOrdered, Owners, Delete
<1>2. Subtree(heap, live, D, r)
  BY <1>1, DeletedIsSubtree
<1>3. /\ roots' = roots \ {r} /\ live' = live \ D
      /\ heap' = [n \in Node |-> IF n \in D THEN Zero ELSE heap[n]]
  BY DEF Delete, Free
<1> HIDE DEF D, AllItems
<1>4. Whole(heap, live, D)
  BY <1>1, <1>2, ParentIsOutside
<1>5. Forest!Tree(AllItems, r) = D
  BY <1>1, <1>2, TreeIsSubtree
<1>6. Ordered(heap', live', Forest!Emptied(AllItems, D, <<>>))
  BY <1>1, <1>3, <1>4, TreesGone
<1>7. \A n \in Node : heap'[n].string = IF n \in D THEN None ELSE heap[n].string
  BY <1>3 DEF Zero
<1>8. ForestStep(Forest!Emptied(AllItems, D, <<>>))
  BY <1>1, <1>3, <1>5, <1>7, DropStep
<1> QED
  BY <1>1, <1>3, <1>6, <1>8, OneAccount

\* After item i left, or x came in its place, what is below i is made of whole trees.
LEMMA CutIsWhole ==
  ASSUME NEW h, NEW L, Shape(h, L), None \notin L, NEW p \in L, NEW i \in L, h[i].parent = p,
         NEW D, Subtree(h, L, D, i), NEW k, k[i].parent = None,
         \A n \in L \ {i} : \/ k[n].parent = h[n].parent
                            \/ h[n].parent = None /\ k[n].parent = p
  PROVE  Whole(k, L, D) /\ p \notin D
<1>1. p \notin D /\ \A m \in D : h[m].parent = None => m = i
  BY ParentIsOutside
<1>2. D \subseteq L /\ None \notin D
  BY DEF Subtree
<1>3. \A m \in L : k[m].parent \in D => m \in D
  BY <1>1, <1>2 DEF Subtree
<1>4. \A m \in D : k[m].parent \in D \cup {None}
  BY <1>1, <1>2 DEF Subtree
<1> QED
  BY <1>1, <1>2, <1>3, <1>4 DEF Whole

LEMMA DeleteItemMoves ==
  ASSUME RInv, NEW p, NEW i \in live, heap[i].parent = p, DeleteItem(p, i)
  PROVE  Moved
<1> DEFINE D == Below(i)
           k == Detach(heap, p, i)
<1>1. /\ heap \in [Node -> Item] /\ live \in SUBSET Node /\ Ordered(heap, live, AllItems)
      /\ Shape(heap, live) /\ None \notin live /\ p \in live
  BY ItemsAreRows, NodesAreFinite DEF RInv, IInv, HeapIsOrdered, DeleteItem, Holds
<1>2. Subtree(heap, live, D, i)
  BY <1>1, BelowIsSubtree
<1>3. /\ roots' = roots /\ live' = live \ D
      /\ heap' = [n \in Node |-> IF n \in D THEN Zero ELSE k[n]]
  BY DEF DeleteItem, Free
<1>4. PICK j \in 1 .. Len(AllItems[p]) : AllItems[p][j] = i
  BY <1>1, PlaceOfChild
<1>5. ~heap[p].ref
  BY <1>1, PlaceOfChild
<1>6. /\ SameData(heap, k)
      /\ \A n \in Node : k[n].parent = IF n = i THEN None ELSE heap[n].parent
  BY <1>1, DetachKeepsShape
<1> DEFINE K1 == [AllItems EXCEPT ![p] = Forest!RemoveAt(AllItems[p], j)]
<1>7. Forest!Tree(AllItems, i) = D
  <2> HIDE DEF AllItems, D
  <2> QED
    BY <1>1, <1>2, TreeIsSubtree
<1>8. Ordered(k, live, K1)
  <2> HIDE DEF AllItems
  <2> QED
    BY <1>1, <1>4, Detached
<1> HIDE DEF k, D
<1>9. Whole(k, live, D)
  <2>1. i \in Node /\ live \subseteq Node
    BY <1>1
  <2>2. k[i].parent = None /\ \A n \in live \ {i} : k[n].parent = heap[n].parent
    BY <2>1, <1>6
  <2> QED
    BY <2>2, <1>1, <1>2, CutIsWhole
<1>10. \A n \in Node : heap'[n].string = IF n \in D THEN None ELSE heap[n].string
  BY <1>3, <1>6 DEF Zero, SameData
<1>11. ForestStep(Forest!Emptied(K1, D, <<>>))
  BY <1>1, <1>3, <1>4, <1>5, <1>7, <1>10, CutStep
<1> HIDE DEF AllItems, K1
<1>12. Ordered(heap', live', Forest!Emptied(K1, D, <<>>))
  BY <1>1, <1>3, <1>8, <1>9, TreesGone
<1> QED
  BY <1>1, <1>3, <1>11, <1>12, OneAccount

LEMMA RemovingMoves ==
  ASSUME RInv, NEW p, Removing(p)
  PROVE  Moved
<1>1. heap \in [Node -> Item] /\ live \subseteq Node /\ Shape(heap, live)
  BY DEF RInv, IInv
<1>2. ASSUME NEW i, DetachItemViaPointer(p, i) PROVE Moved
  BY <1>2, DetachItemViaPointerMoves
<1>3. ASSUME NEW which, DeleteItemFromArray(p, which) PROVE Moved
  <2>1. /\ GetArrayItem(p, which) \in live /\ heap[GetArrayItem(p, which)].parent = p
        /\ DeleteItem(p, GetArrayItem(p, which))
    BY <1>1, <1>3, GetArrayItemFindsAChild DEF DeleteItemFromArray, DeleteItem
  <2> QED
    BY <2>1, DeleteItemMoves
<1>4. ASSUME NEW m, NEW sensitive, DeleteItemFromObject(p, m, sensitive) PROVE Moved
  <2>1. /\ GetObjectItem(p, m, sensitive) \in live
        /\ heap[GetObjectItem(p, m, sensitive)].parent = p
        /\ DeleteItem(p, GetObjectItem(p, m, sensitive))
    BY <1>1, <1>4, GetObjectItemFindsAChild DEF DeleteItemFromObject, DeleteItem
  <2> QED
    BY <2>1, DeleteItemMoves
<1> QED
  BY <1>2, <1>3, <1>4 DEF Removing, DetachItemFromArray, DetachItemFromObject

\* In h, which is the heap with another name for x, root x takes the place of i.
LEMMA ReplaceItemMoves ==
  ASSUME RInv, NEW p \in live, NEW i \in live, heap[i].parent = p, NEW x, Loose(x, p),
         NEW h \in [Node -> Item], Shape(h, live), NEW renamed,
         \A n \in Node : /\ h[n].next = heap[n].next /\ h[n].child = heap[n].child
                         /\ h[n].parent = heap[n].parent /\ h[n].ref = heap[n].ref,
         \A n \in Node \ {x} : h[n].string = heap[n].string,
         \A E, j : Subtree(heap, live, E, j) => Subtree(h, live, E, j),
         ReplaceItem(h, p, i, x, renamed)
  PROVE  Moved
<1> DEFINE D == Below(i)
           k == Replace(h, p, i, x)
           E == Deleted(x)
<1>1. /\ heap \in [Node -> Item] /\ live \in SUBSET Node /\ Ordered(heap, live, AllItems)
      /\ Shape(heap, live) /\ None \notin live /\ IInv /\ i \in Node /\ p \in Node
  BY ItemsAreRows, NodesAreFinite DEF RInv, IInv, HeapIsOrdered
<1>2. /\ x \in roots /\ x \in live /\ x \in Node /\ heap[x].parent = None /\ p \notin E
      /\ Subtree(heap, live, E, x)
  BY <1>1, LooseIsSubtree
<1>3. Subtree(heap, live, D, i)
  BY <1>1, BelowIsSubtree
<1>4. /\ roots' = roots \ {x} /\ live' = live \ D
      /\ heap' = [n \in Node |-> IF n \in D THEN Zero ELSE k[n]]
  BY DEF ReplaceItem
<1>5. PICK j \in 1 .. Len(AllItems[p]) : AllItems[p][j] = i
  BY <1>1, PlaceOfChild
<1>6. ~heap[p].ref
  BY <1>1, PlaceOfChild
<1>7. /\ h[i].parent = p /\ h[x].parent = None /\ Subtree(h, live, E, x) /\ Subtree(h, live, D, i)
      /\ x # p
  <2>1. x # p
    BY <1>2 DEF Subtree
  <2> HIDE DEF D, E
  <2> QED
    BY <2>1, <1>1, <1>2, <1>3
<1> DEFINE K1 == [AllItems EXCEPT ![p] = [AllItems[p] EXCEPT ![j] = x]]
<1>8. Forest!Tree(AllItems, i) = D
  <2> HIDE DEF AllItems, D
  <2> QED
    BY <1>1, <1>3, TreeIsSubtree
<1> HIDE DEF D, E
<1>9. /\ SameData(h, k)
      /\ \A n \in Node : k[n].parent = IF n = i THEN None ELSE IF n = x THEN p ELSE h[n].parent
  BY <1>1, <1>2, <1>7, ReplaceKeepsShape
<1>10. Ordered(k, live, K1)
  <2> HIDE DEF AllItems
  <2>1. Ordered(h, live, AllItems)
    BY <1>1, <1>2, Renamed
  <2> QED
    BY <2>1, <1>1, <1>2, <1>5, <1>7, Replaced
<1> HIDE DEF k
<1>11. Whole(k, live, D) /\ p \notin D
  <2>1. /\ k[i].parent = None
        /\ \A n \in live \ {i} : \/ k[n].parent = h[n].parent
                                 \/ h[n].parent = None /\ k[n].parent = p
    BY <1>1, <1>7, <1>9
  <2> QED
    BY <2>1, <1>1, <1>7, CutIsWhole
<1>12. x \notin D
  <2>1. x # i
    BY <1>1, <1>7
  <2> QED
    BY <2>1, <1>1, <1>2, <1>3, ParentIsOutside
<1>13. \A n \in Node \ {x} : heap'[n].string = IF n \in D THEN None ELSE heap[n].string
  BY <1>4, <1>9 DEF Zero, SameData
<1>14. ForestStep(Forest!Emptied(K1, D, <<>>))
  BY <1>2, <1>4, <1>5, <1>6, <1>8, <1>11, <1>12, <1>13, CutForStep
<1> HIDE DEF AllItems, K1
<1>15. Ordered(heap', live', Forest!Emptied(K1, D, <<>>))
  BY <1>1, <1>4, <1>10, <1>11, TreesGone
<1> QED
  BY <1>1, <1>4, <1>14, <1>15, OneAccount

LEMMA ReplaceItemInArrayMoves ==
  ASSUME RInv, NEW p, NEW i, NEW x, ReplaceItemViaPointer(p, i, x)
  PROVE  Moved
<1>1. /\ p \in live /\ i \in live /\ heap[i].parent = p
      /\ heap \in [Node -> Item] /\ Shape(heap, live)
  BY ItemsAreChildren DEF RInv, IInv, ReplaceItemViaPointer, Holds
<1>2. Loose(x, p) /\ ReplaceItem(heap, p, i, x, 0)
  BY DEF ReplaceItemViaPointer
<1> QED
  BY <1>1, <1>2, ReplaceItemMoves

LEMMA ReplaceItemInObjectMoves ==
  ASSUME RInv, NEW p, NEW m \in Name, NEW x, NEW sensitive,
         ReplaceItemInObject(p, m, x, sensitive)
  PROVE  Moved
<1> DEFINE i == GetObjectItem(p, m, sensitive)
           h == Named(heap, x, m)
<1>1. /\ IInv /\ heap \in [Node -> Item] /\ live \subseteq Node /\ Shape(heap, live)
      /\ Holds(p) /\ p \in live /\ Loose(x, p) /\ Good(heap, live, roots, strings)
  BY GoodIsIInv DEF RInv, IInv, ReplaceItemInObject, Holds
<1>2. x \in roots /\ x \in live /\ x \in Node /\ m \in Names
  BY <1>1, LooseIsSubtree DEF Names
<1>3. \/ i = None /\ heap' = h /\ live' = live /\ roots' = roots
      \/ i # None /\ ReplaceItem(h, p, i, x, 1 - NameOwned(x))
      \/ heap' = [heap EXCEPT ![x].string = None] /\ live' = live /\ roots' = roots
  BY DEF ReplaceItemInObject
<1>4. i # None => i \in live /\ heap[i].parent = p
  BY <1>1, GetObjectItemFindsAChild
<1>5. /\ \A n \in Node : /\ h[n].next = heap[n].next /\ h[n].child = heap[n].child
                         /\ h[n].parent = heap[n].parent /\ h[n].ref = heap[n].ref
      /\ \A n \in Node \ {x} : h[n].string = heap[n].string
  BY <1>1, <1>2, NamedFields
<1>6. /\ h \in [Node -> Item] /\ Shape(h, live)
      /\ \A E, j : Subtree(heap, live, E, j) => Subtree(h, live, E, j)
  <2>1. /\ Good(h, live, roots, strings - NameOf(heap, x) + Copied(m))
        /\ \A E, j : Subtree(heap, live, E, j) => Subtree(h, live, E, j)
    BY <1>1, <1>2, GoodNamed
  <2> QED
    BY <2>1 DEF Good
<1> HIDE DEF i, h
<1>7. CASE i = None /\ heap' = h /\ live' = live /\ roots' = roots
  BY <1>2, <1>5, <1>7, RenameMoves
<1>8. CASE i # None /\ ReplaceItem(h, p, i, x, 1 - NameOwned(x))
  BY <1>1, <1>4, <1>5, <1>6, <1>8, ReplaceItemMoves
<1>9. CASE heap' = [heap EXCEPT ![x].string = None] /\ live' = live /\ roots' = roots
  <2>1. /\ \A n \in Node : /\ heap'[n].next = heap[n].next /\ heap'[n].child = heap[n].child
                           /\ heap'[n].parent = heap[n].parent /\ heap'[n].ref = heap[n].ref
        /\ \A n \in Node \ {x} : heap'[n].string = heap[n].string
    BY <1>1, <1>2, <1>9 DEF Item
  <2> QED
    BY <2>1, <1>2, <1>9, RenameMoves
<1> QED
  BY <1>3, <1>7, <1>8, <1>9

LEMMA ReplacingMoves ==
  ASSUME RInv, NEW p, Replacing(p)
  PROVE  Moved
<1>1. ASSUME NEW x, NEW which, ReplaceItemInArray(p, which, x) PROVE Moved
  BY <1>1, ReplaceItemInArrayMoves DEF ReplaceItemInArray
<1>2. ASSUME NEW x, NEW m \in Name, NEW sensitive, ReplaceItemInObject(p, m, x, sensitive)
      PROVE  Moved
  BY <1>2, ReplaceItemInObjectMoves
<1> QED
  BY <1>1, <1>2 DEF Replacing

LEMMA NextMoves ==
  ASSUME RInv, Next
  PROVE  Moved
BY CreationMoves, DeleteMoves, AddingMoves, RemovingMoves, ReplacingMoves DEF Next

-----------------------------------------------------------------------------
(***************************************************************************)
(* The refinement.                                                         *)
(***************************************************************************)

LEMMA InitHasRInv ==
  ASSUME Init
  PROVE  RInv /\ Forest!Init
<1>1. RInv
  <2>1. Clean(heap, live)
    BY DEF Init, Clean, Zero
  <2> QED
    BY <2>1, InitHasIInv DEF RInv
<1>2. Ordered(heap, live, AllItems)
  BY <1>1, ItemsAreRows DEF HeapIsOrdered
<1>3. \A n \in Node : heap[n].child = None /\ heap[n].string = None
  BY DEF Init, Zero
<1>4. roots = {} /\ AllNames = [n \in Node |-> None]
  BY <1>3 DEF Init, AllNames
<1> HIDE DEF AllItems, AllNames
<1>5. AllItems = [n \in Node |-> <<>>]
  BY <1>2, <1>3 DEF Ordered, Row
<1> QED
  BY <1>1, <1>4, <1>5 DEF Forest!Init

LEMMA RInvIsInductive ==
  ASSUME RInv, [Next]_vars
  PROVE  RInv'
<1>1. CASE Next
  <2>1. IInv' /\ Clean(heap', live')
    BY <1>1, NextStep, NextMoves DEF RInv, Moved
  <2> QED
    BY <2>1 DEF RInv, Clean
<1>2. CASE UNCHANGED vars
  BY <1>2 DEF vars, RInv, Clean, IInv, Owners, OwnedBy
<1> QED
  BY <1>1, <1>2

\* Every step of CJsonTree is a step of JsonForest, or leaves the forest as it is.
LEMMA StepsAreForestSteps ==
  ASSUME RInv, HeapIsOrdered, RInv', HeapIsOrdered', [Next]_vars
  PROVE  [Forest!Next]_(Forest!vars)
<1>1. Ordered(heap', live', AllItems') /\ None \notin live' /\ Ordered(heap, live, AllItems)
  BY NodesAreFinite DEF HeapIsOrdered, Ordered, Row, Clean, RInv, IInv
<1>2. CASE Next
  <2>1. ForestStep(AllItems')
    BY <1>1, <1>2, NextMoves DEF Moved
  <2> HIDE DEF AllItems, AllNames
  <2> QED
    BY <2>1 DEF ForestStep, Forest!Next, Forest!vars
<1>3. CASE UNCHANGED vars
  <2>1. heap' = heap /\ live' = live /\ roots' = roots
    BY <1>3 DEF vars
  <2>2. AllNames' = AllNames
    BY <2>1 DEF AllNames
  <2> HIDE DEF AllItems, AllNames
  <2>3. AllItems' = AllItems
    BY <1>1, <2>1, OneOrder
  <2> QED
    BY <2>1, <2>2, <2>3 DEF Forest!vars
<1> QED
  BY <1>2, <1>3

\* The calls of cJSON's item interface do what JsonForest says and nothing else:
\* every call makes, renames, gives, takes, replaces or drops a whole tree, and
\* all other items keep their children, in order, and their names.
THEOREM TreeImplementsForest == Spec => ImplementsForest
<1>1. Init => RInv /\ Forest!Init
  BY InitHasRInv
<1>2. RInv /\ [Next]_vars => RInv'
  BY RInvIsInductive
<1>3. RInv => HeapIsOrdered
  BY ItemsAreRows
<1>4. RInv /\ HeapIsOrdered /\ RInv' /\ HeapIsOrdered' /\ [Next]_vars
        => [Forest!Next]_(Forest!vars)
  BY StepsAreForestSteps
<1> QED
  BY <1>1, <1>2, <1>3, <1>4, PTL DEF Spec, ImplementsForest, Forest!Spec
=============================================================================
