--------------------------- MODULE CJsonTreeProofs ---------------------------
(***************************************************************************)
(* The heap of CJsonTree, for every number of blocks: pointers stay inside *)
(* what is allocated, the children of an item form one list linked both    *)
(* ways, and nothing leaks.                                                *)
(*                                                                         *)
(* The invariant speaks of single links: next and prev agree, neighbours   *)
(* have the same parent, and going from an item to the one before it, or   *)
(* from the first of a list to its parent, ends at a root.  The last part  *)
(* says it without numbers: no set of items contains, for each of its      *)
(* members, the step up.  Every call keeps that because it only moves      *)
(* whole trees; what the lists are follows from it.                        *)
(***************************************************************************)
EXTENDS CJsonTree, FiniteSetTheorems, WellFoundedInduction, TLAPS

-----------------------------------------------------------------------------
(***************************************************************************)
(* The invariant.  h is a heap, L its allocated blocks, R the roots.       *)
(***************************************************************************)

\* The step up: to the item before, or from the first of a list to its parent.
Up(h, n) ==
  IF h[n].parent = None THEN None
  ELSE IF h[h[n].parent].child = n THEN h[n].parent ELSE h[n].prev

\* No pointer leads out of what is allocated.
Inside(h, L) ==
  \A n \in L : /\ h[n].next \in L \cup {None} /\ h[n].prev \in L \cup {None}
               /\ h[n].child \in L \cup {None} /\ h[n].parent \in L \cup {None}

\* An item that is in no list has no neighbours.
Alone(h, L) ==
  \A n \in L : h[n].parent = None => h[n].next = None /\ h[n].prev = None

\* An item in a list follows its prev; the prev of the first is a last one.
HasPlace(h, L) ==
  \A n \in L : h[n].parent # None =>
    /\ ~h[h[n].parent].ref
    /\ h[h[n].parent].child # None
    /\ h[n].prev # None
    /\ h[h[n].prev].parent = h[n].parent
    /\ h[h[n].prev].next = IF h[h[n].parent].child = n THEN None ELSE n

\* The next of an item is a later one of the same list.
HasNext(h, L) ==
  \A n \in L : h[n].next # None =>
    /\ h[h[n].next].prev = n
    /\ h[h[n].next].parent = h[n].parent
    /\ h[h[n].parent].child # h[n].next

\* What an item has as its child is in its list; a reference only shows it.
HasChild(h, L) ==
  \A n \in L : h[n].child # None /\ ~h[n].ref => h[h[n].child].parent = n

\* Going up ends.
Grounded(h, L) ==
  \A S \in SUBSET L : (\A n \in S : Up(h, n) \in S) => S = {}

Shape(h, L) ==
  /\ Inside(h, L) /\ Alone(h, L) /\ HasPlace(h, L) /\ HasNext(h, L)
  /\ HasChild(h, L) /\ Grounded(h, L)

\* What is in no list is a root, or a reference that leaked.
Owners(h, L, R) ==
  /\ R \subseteq L
  /\ \A n \in L : /\ n \in R => h[n].parent = None
                  /\ n \notin R /\ h[n].parent = None => h[n].ref

IInv ==
  /\ app \in App /\ heap \in [Node -> Item] /\ live \subseteq Node
  /\ Shape(heap, live) /\ Owners(heap, live, roots)
  /\ strings = OwnedBy(live)

-----------------------------------------------------------------------------
(***************************************************************************)
(* Constants and sets of blocks.                                           *)
(***************************************************************************)
\* NULL is no block, and a set of blocks is finite.
LEMMA NodesAreFinite ==
  /\ None \notin Node /\ IsFiniteSet(Node) /\ Cardinality(Node) = N
  /\ \A S \in SUBSET Node : IsFiniteSet(S) /\ Cardinality(S) \in Nat
<1>1. IsFiniteSet(Node) /\ Cardinality(Node) = N
  BY TreeAssumption, FS_Interval DEF Node
<1>2. ASSUME NEW S \in SUBSET Node PROVE IsFiniteSet(S) /\ Cardinality(S) \in Nat
  BY <1>1, FS_Subset, FS_CardinalityType
<1> QED
  BY <1>1, <1>2, TreeAssumption

\* A set of k free blocks can be numbered, when there are k.
LEMMA Rows ==
  ASSUME NEW F \in SUBSET Node, NEW k \in Nat, k <= Cardinality(F)
  PROVE  \E row \in [1 .. k -> F] : IsInjective(row)
<1>1. PICK f \in Bijection(1 .. Cardinality(F), F) : TRUE
  BY NodesAreFinite, FS_CardinalityType DEF ExistsBijection
<1> DEFINE row == [i \in 1 .. k |-> f[i]]
<1>2. Cardinality(F) \in Nat
  BY NodesAreFinite
<1>3. f \in [1 .. Cardinality(F) -> F] /\ \A a, b \in 1 .. Cardinality(F) : f[a] = f[b] => a = b
  BY <1>1 DEF Bijection, Injection, IsInjective
<1>4. 1 .. k \subseteq 1 .. Cardinality(F)
  BY <1>2
<1>5. row \in [1 .. k -> F] /\ IsInjective(row)
  BY <1>3, <1>4 DEF IsInjective
<1> QED
  BY <1>5

\* The free blocks are those that are not allocated.
LEMMA FreeBlocks ==
  ASSUME NEW L \in SUBSET Node
  PROVE  Node \ L \in SUBSET Node /\ Cardinality(Node \ L) = N - Cardinality(L)
<1>1. Node \cap L = L
  OBVIOUS
<1> QED
  BY <1>1, NodesAreFinite, FS_Difference

\* CanAllocate(k) leaves k free blocks: a row of them exists.
LEMMA FreshRows ==
  ASSUME app \in App, live \subseteq Node, NEW k \in Nat, CanAllocate(k)
  PROVE  FreshRow(k) \in [1 .. k -> Node \ live] /\ IsInjective(FreshRow(k))
<1>1. app.blocks \in 0 .. N
  BY AppAssumption DEF Application
<1>2. k <= Cardinality(Node \ live)
  BY <1>1, FreeBlocks, NodesAreFinite, TreeAssumption DEF CanAllocate
<1>3. \E row \in [1 .. k -> Node \ live] : IsInjective(row)
  BY <1>2, Rows
<1> QED
  BY <1>3 DEF FreshRow

LEMMA FreshIsFree ==
  ASSUME app \in App, live \subseteq Node, CanAllocate(1)
  PROVE  Fresh \in Node /\ Fresh \notin live
<1>1. PICK row \in [1 .. 1 -> Node \ live] : TRUE
  BY FreshRows
<1>2. row[1] \in Node /\ row[1] \notin live
  BY <1>1
<1> QED
  BY <1>2 DEF Fresh

-----------------------------------------------------------------------------
(***************************************************************************)
(* Whole trees.                                                            *)
(***************************************************************************)

\* D is made of whole trees: with an item it has its children, and, unless the
\* item is in no list, its parent.
Whole(h, L, D) ==
  /\ D \subseteq L
  /\ \A m \in L : h[m].parent \in D => m \in D
  /\ \A m \in D : h[m].parent \in D \cup {None}

\* Neighbours are in the same whole trees, and so is the item above.
LEMMA WholeNeighbours ==
  ASSUME NEW h, NEW L, Shape(h, L), None \notin L, NEW D, Whole(h, L, D), NEW n \in L
  PROVE  /\ h[n].next \in D <=> n \in D /\ h[n].next # None
         /\ h[n].prev \in D <=> n \in D /\ h[n].prev # None
         /\ Up(h, n) \in D <=> n \in D /\ Up(h, n) # None
<1> USE DEF Shape, Inside, Alone, HasPlace, HasNext, Whole
<1>1. None \notin D
  OBVIOUS
<1>2. h[n].next # None =>
        h[n].next \in L /\ h[n].parent # None /\ h[h[n].next].parent = h[n].parent
  OBVIOUS
<1>3. h[n].prev # None =>
        h[n].prev \in L /\ h[n].parent # None /\ h[h[n].prev].parent = h[n].parent
  OBVIOUS
<1>4. ASSUME NEW a \in L, NEW b \in L, h[a].parent # None, h[b].parent = h[a].parent
      PROVE  a \in D <=> b \in D
  BY <1>4, <1>1
<1>5. h[n].next \in D <=> n \in D /\ h[n].next # None
  BY <1>1, <1>2, <1>4
<1>6. h[n].prev \in D <=> n \in D /\ h[n].prev # None
  BY <1>1, <1>3, <1>4
<1>7. Up(h, n) \in D <=> n \in D /\ Up(h, n) # None
  BY <1>1, <1>6 DEF Up
<1> QED
  BY <1>5, <1>6, <1>7

\* Trees in which every item is above another of them do not exist.
LEMMA SomeTreeHasARoot ==
  ASSUME NEW h, NEW L, Shape(h, L), None \notin L, NEW D, Whole(h, L, D), D # {}
  PROVE  \E m \in D : h[m].parent = None
<1> SUFFICES ASSUME \A m \in D : h[m].parent # None PROVE FALSE
  OBVIOUS
<1>1. \A n \in D : Up(h, n) # None
  BY DEF Shape, Whole, HasPlace, Up
<1>2. D \in SUBSET L /\ \A n \in D : Up(h, n) \in D
  BY <1>1, WholeNeighbours DEF Whole
<1> QED
  BY <1>2 DEF Shape, Grounded

\* Deleted(r) has r, and what its items point to, and nothing else.
LEMMA DeletedIsClosed ==
  ASSUME NEW r \in Node, heap \in [Node -> Item]
  PROVE  /\ Deleted(r) \subseteq Node /\ r \in Deleted(r)
         /\ \A i \in Deleted(r) : /\ heap[i].next \in Deleted(r) \cup {None}
                                  /\ heap[i].ref \/ heap[i].child \in Deleted(r) \cup {None}
<1>1. \A i \in Node : heap[i].next \in Node \cup {None} /\ heap[i].child \in Node \cup {None}
  BY DEF Item, Ptr
<1> QED
  BY <1>1 DEF Deleted

LEMMA DeletedIsLeast ==
  ASSUME NEW r, NEW S \in SUBSET Node, r \in S,
         \A i \in S : /\ heap[i].next \in S \cup {None}
                      /\ heap[i].ref \/ heap[i].child \in S \cup {None}
  PROVE  Deleted(r) \subseteq S
BY DEF Deleted

\* The items of a list and what is below them, for the list of p or an item in
\* no list.
LEMMA DeletedIs ==
  ASSUME heap \in [Node -> Item], live \subseteq Node, Shape(heap, live),
         NEW r \in live, NEW p \in live \cup {None}, heap[r].parent = p,
         p # None => heap[p].child = r
  PROVE  /\ r \in Deleted(r) /\ Deleted(r) \subseteq live
         /\ \A m \in Deleted(r) : heap[m].parent \in Deleted(r) \cup {p}
         /\ \A m \in live : heap[m].parent \in Deleted(r) \/ (p # None /\ heap[m].parent = p)
                              => m \in Deleted(r)
<1> DEFINE D == Deleted(r)
<1>0. None \notin Node /\ None \notin live
  BY NodesAreFinite
<1>1. D \subseteq Node /\ r \in D
      /\ \A i \in D : heap[i].next \in D \cup {None} /\ (heap[i].ref \/ heap[i].child \in D \cup {None})
  BY DeletedIsClosed
<1>2. ASSUME NEW S \in SUBSET Node, r \in S,
             \A i \in S : /\ heap[i].next \in S \cup {None}
                          /\ heap[i].ref \/ heap[i].child \in S \cup {None}
      PROVE  D \subseteq S
  BY <1>2, DeletedIsLeast
<1> HIDE DEF D
<1>3. D \subseteq live
  <2>1. \A i \in live : heap[i].next \in live \cup {None} /\ heap[i].child \in live \cup {None}
    BY DEF Shape, Inside
  <2> QED
    BY <2>1, <1>2
<1>4. \A m \in D : heap[m].parent \in D \cup {p}
  <2> DEFINE S == {m \in D : heap[m].parent \in D \cup {p}}
  <2>1. r \in S
    BY <1>1
  <2>2. ASSUME NEW i \in S PROVE heap[i].next \in S \cup {None}
    <3>1. heap[i].next # None => heap[heap[i].next].parent = heap[i].parent
      BY <1>3 DEF Shape, HasNext
    <3> QED
      BY <3>1, <1>1
  <2>3. ASSUME NEW i \in S PROVE heap[i].ref \/ heap[i].child \in S \cup {None}
    <3>1. heap[i].child # None /\ ~heap[i].ref => heap[heap[i].child].parent = i
      BY <1>3 DEF Shape, HasChild
    <3> QED
      BY <3>1, <1>1
  <2>4. D \subseteq S
    BY <2>1, <2>2, <2>3, <1>1, <1>2
  <2> QED
    BY <2>4
<1>5. \A m \in live : heap[m].parent \in D \/ (p # None /\ heap[m].parent = p) => m \in D
  <2> DEFINE S == {m \in live \ D : heap[m].parent \in D \/ (p # None /\ heap[m].parent = p)}
  <2>1. ASSUME NEW m \in S PROVE Up(heap, m) \in S
    <3>1. heap[m].parent # None /\ heap[m].parent \in live
      BY <1>0, <1>3
    <3>2. ~heap[heap[m].parent].ref /\ heap[heap[m].parent].child # None
          /\ heap[m].prev \in live /\ heap[heap[m].prev].parent = heap[m].parent
          /\ heap[heap[m].prev].next = IF heap[heap[m].parent].child = m THEN None ELSE m
      BY <3>1 DEF Shape, HasPlace, Inside
    <3>3. heap[heap[m].parent].child \in D
      <4>1. CASE heap[m].parent \in D
        BY <4>1, <3>2, <1>1
      <4>2. CASE p # None /\ heap[m].parent = p
        BY <4>2, <1>1
      <4> QED
        BY <4>1, <4>2
    <3>4. heap[heap[m].parent].child # m
      BY <3>3
    <3>5. heap[m].prev \notin D
      BY <3>2, <3>4, <1>0, <1>1
    <3> QED
      BY <3>1, <3>2, <3>4, <3>5 DEF Up
  <2>2. S = {}
    BY <2>1 DEF Shape, Grounded
  <2> QED
    BY <2>2
<1> QED
  BY <1>1, <1>3, <1>4, <1>5 DEF D

\* D is the item i with everything below it.
Subtree(h, L, D, i) ==
  /\ i \in D /\ D \subseteq L
  /\ \A m \in L : h[m].parent \in D => m \in D
  /\ \A m \in D : m # i => h[m].parent \in D

\* An item is not below itself: its parent is outside.
LEMMA ParentIsOutside ==
  ASSUME NEW h, NEW L, Shape(h, L), None \notin L, NEW D, NEW i, Subtree(h, L, D, i)
  PROVE  /\ h[i].parent \notin D
         /\ h[i].parent = None => Whole(h, L, D)
         /\ \A m \in D : h[m].parent = None => m = i
<1>1. None \notin D
  BY DEF Subtree
<1>2. ASSUME h[i].parent \in D PROVE FALSE
  <2>1. Whole(h, L, D) /\ \A m \in D : h[m].parent # None
    BY <1>1, <1>2 DEF Whole, Subtree
  <2> QED
    BY <2>1, SomeTreeHasARoot DEF Subtree
<1> QED
  BY <1>1, <1>2 DEF Whole, Subtree

LEMMA DeletedIsSubtree ==
  ASSUME heap \in [Node -> Item], live \subseteq Node, Shape(heap, live),
         NEW r \in live, heap[r].parent = None
  PROVE  Subtree(heap, live, Deleted(r), r)
<1>0. None \notin live
  BY NodesAreFinite
<1>1. /\ r \in Deleted(r) /\ Deleted(r) \subseteq live
      /\ \A m \in Deleted(r) : heap[m].parent \in Deleted(r) \cup {None}
      /\ \A m \in live : heap[m].parent \in Deleted(r) => m \in Deleted(r)
  BY DeletedIs
<1> DEFINE T == {m \in Deleted(r) : m = r \/ heap[m].parent # None}
<1>2. \A i \in live : heap[i].next \in live \cup {None} /\ heap[i].child \in live \cup {None}
  BY DEF Shape, Inside
<1>3. \A i \in T : heap[i].next # None => heap[heap[i].next].parent # None
  BY <1>1 DEF Shape, HasNext, Alone
<1>4. \A i \in T : heap[i].child # None /\ ~heap[i].ref => heap[heap[i].child].parent # None
  BY <1>0, <1>1 DEF Shape, HasChild
<1>5. \A i \in Deleted(r) : /\ heap[i].next \in Deleted(r) \cup {None}
                            /\ heap[i].ref \/ heap[i].child \in Deleted(r) \cup {None}
  BY DeletedIsClosed
<1>6. /\ r \in T /\ T \in SUBSET Node
      /\ \A i \in T : /\ heap[i].next \in T \cup {None}
                      /\ heap[i].ref \/ heap[i].child \in T \cup {None}
  BY <1>1, <1>3, <1>4, <1>5
<1>7. Deleted(r) \subseteq T
  BY <1>6, DeletedIsLeast
<1> QED
  BY <1>0, <1>1, <1>7 DEF Subtree

\* What cJSON_Delete frees of an item that was taken out of a list.
LEMMA BelowIsSubtree ==
  ASSUME heap \in [Node -> Item], live \subseteq Node, Shape(heap, live), NEW i \in live
  PROVE  Subtree(heap, live, Below(i), i)
<1>0. None \notin live
  BY NodesAreFinite
<1>1. CASE heap[i].ref \/ heap[i].child = None
  <2>1. Below(i) = {i}
    BY <1>1 DEF Below
  <2>2. \A m \in live : heap[m].parent # i
    BY <1>0, <1>1 DEF Shape, HasPlace
  <2> QED
    BY <2>1, <2>2 DEF Subtree
<1>2. CASE ~heap[i].ref /\ heap[i].child # None
  <2> DEFINE c == heap[i].child
  <2>1. c \in live /\ heap[c].parent = i
    BY <1>2 DEF Shape, Inside, HasChild
  <2>2. /\ Deleted(c) \subseteq live
        /\ \A m \in Deleted(c) : heap[m].parent \in Deleted(c) \cup {i}
        /\ \A m \in live : heap[m].parent \in Deleted(c) \/ heap[m].parent = i => m \in Deleted(c)
    BY <1>0, <2>1, DeletedIs
  <2>3. Below(i) = {i} \cup Deleted(c)
    BY <1>2 DEF Below
  <2> QED
    BY <2>2, <2>3 DEF Subtree
<1> QED
  BY <1>1, <1>2

\* Without some whole trees that nothing shows the heap keeps its shape.
LEMMA RemoveTrees ==
  ASSUME NEW h, NEW L, Shape(h, L), None \notin L, NEW D, Whole(h, L, D),
         \A n \in L \ D : ~(h[n].ref /\ h[n].child \in D),
         NEW k, \A n \in L \ D : k[n] = h[n]
  PROVE  Shape(k, L \ D)
<1> DEFINE M == L \ D
<1>0. M \subseteq L /\ None \notin D
  BY DEF Whole
<1>1. \A n \in M : /\ h[n].next \in M \cup {None} /\ h[n].prev \in M \cup {None}
                   /\ h[n].parent \in M \cup {None}
  BY <1>0, WholeNeighbours DEF Shape, Inside, Whole
<1>2. \A n \in M : h[n].child \in M \cup {None}
  BY <1>0 DEF Shape, Inside, HasChild, Whole
<1>3. Inside(k, M)
  BY <1>1, <1>2 DEF Inside
<1>4. Alone(k, M)
  BY <1>0 DEF Alone, Shape
<1>5. HasPlace(k, M)
  BY <1>0, <1>1 DEF HasPlace, Shape
<1>6. HasNext(k, M)
  <2> SUFFICES ASSUME NEW n \in M, k[n].next # None
               PROVE  /\ k[k[n].next].prev = n /\ k[k[n].next].parent = k[n].parent
                      /\ k[k[n].parent].child # k[n].next
    BY DEF HasNext
  <2>1. h[n].parent # None /\ h[n].next \in M /\ h[n].parent \in M
    BY <1>0, <1>1 DEF Shape, Alone
  <2> QED
    BY <2>1, <1>0 DEF Shape, HasNext
<1>7. HasChild(k, M)
  BY <1>0, <1>2 DEF HasChild, Shape
<1>8. Grounded(k, M)
  <2>1. \A n \in M : Up(k, n) = Up(h, n)
    BY <1>1 DEF Up
  <2> QED
    BY <2>1, <1>0 DEF Grounded, Shape
<1> QED
  BY <1>3, <1>4, <1>5, <1>6, <1>7, <1>8 DEF Shape

-----------------------------------------------------------------------------
(***************************************************************************)
(* What the list operations change, field by field.                        *)
(***************************************************************************)

\* The list operations change links only.
SameData(h, k) ==
  \A n \in Node : /\ k[n].string = h[n].string /\ k[n].const = h[n].const
                  /\ k[n].ref = h[n].ref /\ k[n].value = h[n].value

LEMMA SameDataIsTransitive ==
  ASSUME NEW a, NEW b, NEW c, SameData(a, b), SameData(b, c)
  PROVE  SameData(a, c)
BY DEF SameData

LEMMA UnlinkedFields ==
  ASSUME NEW h \in [Node -> Item], NEW i \in Node
  PROVE  LET k == Unlinked(h, i) IN
         /\ k \in [Node -> Item] /\ SameData(h, k)
         /\ \A n \in Node : /\ k[n].next = IF n = i THEN None ELSE h[n].next
                            /\ k[n].prev = IF n = i THEN None ELSE h[n].prev
                            /\ k[n].child = h[n].child
                            /\ k[n].parent = IF n = i THEN None ELSE h[n].parent
<1> DEFINE a == SetNext(h, i, None)
           b == SetPrev(a, i, None)
           c == SetParent(b, i, None)
<1>0. None \in Ptr
  BY DEF Ptr
<1>1. a \in [Node -> Item] /\ SameData(h, a)
      /\ \A n \in Node : /\ a[n].next = IF n = i THEN None ELSE h[n].next
                         /\ a[n].prev = h[n].prev /\ a[n].child = h[n].child /\ a[n].parent = h[n].parent
  BY <1>0 DEF SetNext, Item, SameData
<1> HIDE DEF a
<1>2. b \in [Node -> Item] /\ SameData(a, b)
      /\ \A n \in Node : /\ b[n].prev = IF n = i THEN None ELSE a[n].prev
                         /\ b[n].next = a[n].next /\ b[n].child = a[n].child /\ b[n].parent = a[n].parent
  BY <1>0, <1>1 DEF SetPrev, Item, SameData
<1> HIDE DEF b
<1>3. c \in [Node -> Item] /\ SameData(b, c)
      /\ \A n \in Node : /\ c[n].parent = IF n = i THEN None ELSE b[n].parent
                         /\ c[n].next = b[n].next /\ c[n].prev = b[n].prev /\ c[n].child = b[n].child
  BY <1>0, <1>2 DEF SetParent, Item, SameData
<1>4. Unlinked(h, i) = c
  BY DEF Unlinked, a, b
<1> HIDE DEF c
<1>5. SameData(h, c)
  BY <1>1, <1>2, <1>3, SameDataIsTransitive
<1> QED
  BY <1>1, <1>2, <1>3, <1>4, <1>5

\* The list of p is empty.
LEMMA AddItemToEmpty ==
  ASSUME NEW h \in [Node -> Item], NEW p \in Node, NEW i \in Node, p # i, h[p].child = None
  PROVE  LET k == AddItem(h, p, i) IN
         /\ k \in [Node -> Item] /\ SameData(h, k)
         /\ \A n \in Node : /\ k[n].next = IF n = i THEN None ELSE h[n].next
                            /\ k[n].prev = IF n = i THEN i ELSE h[n].prev
                            /\ k[n].child = IF n = p THEN i ELSE h[n].child
                            /\ k[n].parent = IF n = i THEN p ELSE h[n].parent
<1> DEFINE a == SetChild(h, p, i)
           b == SetPrev(a, i, i)
           c == SetNext(b, i, None)
           d == SetParent(c, i, p)
<1>0. i \in Ptr /\ p \in Ptr /\ None \in Ptr
  BY DEF Ptr
<1>1. AddItem(h, p, i) = d
  BY DEF AddItem
<1> HIDE DEF a, b, c, d
<1>2. a \in [Node -> Item] /\ SameData(h, a)
      /\ \A n \in Node : /\ a[n].child = IF n = p THEN i ELSE h[n].child
                         /\ a[n].next = h[n].next /\ a[n].prev = h[n].prev /\ a[n].parent = h[n].parent
  BY <1>0 DEF a, SetChild, Item, SameData
<1>3. b \in [Node -> Item] /\ SameData(a, b)
      /\ \A n \in Node : /\ b[n].prev = IF n = i THEN i ELSE a[n].prev
                         /\ b[n].next = a[n].next /\ b[n].child = a[n].child /\ b[n].parent = a[n].parent
  BY <1>0, <1>2 DEF b, SetPrev, Item, SameData
<1>4. c \in [Node -> Item] /\ SameData(b, c)
      /\ \A n \in Node : /\ c[n].next = IF n = i THEN None ELSE b[n].next
                         /\ c[n].prev = b[n].prev /\ c[n].child = b[n].child /\ c[n].parent = b[n].parent
  BY <1>0, <1>3 DEF c, SetNext, Item, SameData
<1>5. d \in [Node -> Item] /\ SameData(c, d)
      /\ \A n \in Node : /\ d[n].parent = IF n = i THEN p ELSE c[n].parent
                         /\ d[n].next = c[n].next /\ d[n].prev = c[n].prev /\ d[n].child = c[n].child
  BY <1>0, <1>4 DEF d, SetParent, Item, SameData
<1>90. SameData(h, d)
  BY <1>2, <1>3, <1>4, <1>5, SameDataIsTransitive
<1> QED
  BY <1>1, <1>2, <1>3, <1>4, <1>5, <1>90

\* It is not, and ends with last.
LEMMA AddItemToList ==
  ASSUME NEW h \in [Node -> Item], NEW p \in Node, NEW i \in Node, p # i,
         NEW first \in Node, first = h[p].child, NEW last \in Node, last = h[first].prev,
         i # first, i # last, None \notin Node
  PROVE  LET k == AddItem(h, p, i) IN
         /\ k \in [Node -> Item] /\ SameData(h, k)
         /\ \A n \in Node : /\ k[n].next = IF n = last THEN i ELSE h[n].next
                            /\ k[n].prev = IF n = first THEN i ELSE IF n = i THEN last ELSE h[n].prev
                            /\ k[n].child = h[n].child
                            /\ k[n].parent = IF n = i THEN p ELSE h[n].parent
<1> DEFINE a == SetParent(h, i, p)
           b == SetNext(a, last, i)
           c == SetPrev(b, i, last)
           d == SetPrev(c, first, i)
<1>0. i \in Ptr /\ p \in Ptr /\ last \in Ptr
  BY DEF Ptr
<1>1. AddItem(h, p, i) = d
  <2>1. h[p].child # None /\ h[first].prev # None
    OBVIOUS
  <2> QED
    BY <2>1 DEF AddItem, SuffixObject
<1> HIDE DEF a, b, c, d
<1>2. a \in [Node -> Item] /\ SameData(h, a)
      /\ \A n \in Node : /\ a[n].parent = IF n = i THEN p ELSE h[n].parent
                         /\ a[n].next = h[n].next /\ a[n].prev = h[n].prev /\ a[n].child = h[n].child
  BY <1>0 DEF a, SetParent, Item, SameData
<1>3. b \in [Node -> Item] /\ SameData(a, b)
      /\ \A n \in Node : /\ b[n].next = IF n = last THEN i ELSE a[n].next
                         /\ b[n].prev = a[n].prev /\ b[n].child = a[n].child /\ b[n].parent = a[n].parent
  BY <1>0, <1>2 DEF b, SetNext, Item, SameData
<1>4. c \in [Node -> Item] /\ SameData(b, c)
      /\ \A n \in Node : /\ c[n].prev = IF n = i THEN last ELSE b[n].prev
                         /\ c[n].next = b[n].next /\ c[n].child = b[n].child /\ c[n].parent = b[n].parent
  BY <1>0, <1>3 DEF c, SetPrev, Item, SameData
<1>5. d \in [Node -> Item] /\ SameData(c, d)
      /\ \A n \in Node : /\ d[n].prev = IF n = first THEN i ELSE c[n].prev
                         /\ d[n].next = c[n].next /\ d[n].child = c[n].child /\ d[n].parent = c[n].parent
  BY <1>0, <1>4 DEF d, SetPrev, Item, SameData
<1>90. SameData(h, d)
  BY <1>2, <1>3, <1>4, <1>5, SameDataIsTransitive
<1> QED
  BY <1>1, <1>2, <1>3, <1>4, <1>5, <1>90

LEMMA InsertBeforeFields ==
  ASSUME NEW h \in [Node -> Item], NEW p \in Node, NEW i \in Node, NEW x \in Node,
         x # i, x # p, i # p, NEW q \in Node, q = h[i].prev, q # x
  PROVE  LET k == InsertBefore(h, p, i, x) IN
         /\ k \in [Node -> Item] /\ SameData(h, k)
         /\ \A n \in Node : /\ k[n].next = IF n = x THEN i
                                          ELSE IF i # h[p].child /\ n = q THEN x ELSE h[n].next
                            /\ k[n].prev = IF n = i THEN x ELSE IF n = x THEN q ELSE h[n].prev
                            /\ k[n].child = IF n = p /\ i = h[p].child THEN x ELSE h[n].child
                            /\ k[n].parent = IF n = x THEN p ELSE h[n].parent
<1> DEFINE a == SetNext(h, x, i)
           b == SetPrev(a, x, q)
           c == SetPrev(b, i, x)
           d == SetParent(c, x, p)
           e == IF i = h[p].child THEN SetChild(d, p, x) ELSE SetNext(d, q, x)
<1>0. i \in Ptr /\ p \in Ptr /\ x \in Ptr /\ q \in Ptr
  BY DEF Ptr
<1>1. InsertBefore(h, p, i, x) = e
  BY DEF InsertBefore
<1> HIDE DEF a, b, c, d, e
<1>2. a \in [Node -> Item] /\ SameData(h, a)
      /\ \A n \in Node : /\ a[n].next = IF n = x THEN i ELSE h[n].next
                         /\ a[n].prev = h[n].prev /\ a[n].child = h[n].child /\ a[n].parent = h[n].parent
  BY <1>0 DEF a, SetNext, Item, SameData
<1>3. b \in [Node -> Item] /\ SameData(a, b)
      /\ \A n \in Node : /\ b[n].prev = IF n = x THEN q ELSE a[n].prev
                         /\ b[n].next = a[n].next /\ b[n].child = a[n].child /\ b[n].parent = a[n].parent
  BY <1>0, <1>2 DEF b, SetPrev, Item, SameData
<1>4. c \in [Node -> Item] /\ SameData(b, c)
      /\ \A n \in Node : /\ c[n].prev = IF n = i THEN x ELSE b[n].prev
                         /\ c[n].next = b[n].next /\ c[n].child = b[n].child /\ c[n].parent = b[n].parent
  BY <1>0, <1>3 DEF c, SetPrev, Item, SameData
<1>5. d \in [Node -> Item] /\ SameData(c, d)
      /\ \A n \in Node : /\ d[n].parent = IF n = x THEN p ELSE c[n].parent
                         /\ d[n].next = c[n].next /\ d[n].prev = c[n].prev /\ d[n].child = c[n].child
  BY <1>0, <1>4 DEF d, SetParent, Item, SameData
<1>6. e \in [Node -> Item] /\ SameData(d, e)
      /\ \A n \in Node : /\ e[n].next = IF i # h[p].child /\ n = q THEN x ELSE d[n].next
                         /\ e[n].child = IF i = h[p].child /\ n = p THEN x ELSE d[n].child
                         /\ e[n].prev = d[n].prev /\ e[n].parent = d[n].parent
  BY <1>0, <1>5 DEF e, SetChild, SetNext, Item, SameData
<1>90. SameData(h, e)
  BY <1>2, <1>3, <1>4, <1>5, <1>6, SameDataIsTransitive
<1> QED
  BY <1>1, <1>2, <1>3, <1>4, <1>5, <1>6, <1>90

LEMMA DetachFields ==
  ASSUME NEW h \in [Node -> Item], NEW p \in Node, NEW i \in Node, i # p, None \notin Node,
         NEW f \in Node, f = h[p].child, NEW q \in Node, q = h[i].prev, i # f => q # i,
         NEW m \in Ptr, m = h[i].next, m # i
  PROVE  LET k == Detach(h, p, i) IN
         /\ k \in [Node -> Item] /\ SameData(h, k)
         /\ \A n \in Node : /\ k[n].next = IF n = i THEN None
                                          ELSE IF i # f /\ n = q THEN m ELSE h[n].next
                            /\ k[n].prev = IF n = i THEN None
                                          ELSE IF n = m \/ (i # f /\ m = None /\ n = f) THEN q
                                          ELSE h[n].prev
                            /\ k[n].child = IF n = p /\ i = f THEN m ELSE h[n].child
                            /\ k[n].parent = IF n = i THEN None ELSE h[n].parent
<1> DEFINE a == IF i # f THEN SetNext(h, q, m) ELSE h
           b == IF m # None THEN SetPrev(a, m, q) ELSE a
           c == IF i = f THEN SetChild(b, p, m) ELSE IF m = None THEN SetPrev(b, f, q) ELSE b
           g == Unlinked(c, i)
<1>0. q \in Ptr /\ None \in Ptr /\ (m = None \/ m \in Node) /\ SameData(h, h)
  BY DEF Ptr, SameData
<1>1. Detach(h, p, i) = g
  BY DEF Detach
<1> HIDE DEF a, b, c, g
<1>2. a \in [Node -> Item] /\ SameData(h, a)
      /\ \A n \in Node : /\ a[n].next = IF i # f /\ n = q THEN m ELSE h[n].next
                         /\ a[n].prev = h[n].prev /\ a[n].child = h[n].child /\ a[n].parent = h[n].parent
  BY <1>0 DEF a, SetNext, Item, SameData
<1>3. b \in [Node -> Item] /\ SameData(a, b)
      /\ \A n \in Node : /\ b[n].prev = IF n = m THEN q ELSE a[n].prev
                         /\ b[n].next = a[n].next /\ b[n].child = a[n].child /\ b[n].parent = a[n].parent
  BY <1>0, <1>2 DEF b, SameData, SetPrev, Item
<1>4. c \in [Node -> Item] /\ SameData(b, c)
      /\ \A n \in Node : /\ c[n].prev = IF i # f /\ m = None /\ n = f THEN q ELSE b[n].prev
                         /\ c[n].child = IF n = p /\ i = f THEN m ELSE b[n].child
                         /\ c[n].next = b[n].next /\ c[n].parent = b[n].parent
  BY <1>0, <1>3 DEF c, SameData, SetChild, SetPrev, Item
<1>5. g \in [Node -> Item] /\ SameData(c, g)
      /\ \A n \in Node : /\ g[n].next = IF n = i THEN None ELSE c[n].next
                         /\ g[n].prev = IF n = i THEN None ELSE c[n].prev
                         /\ g[n].parent = IF n = i THEN None ELSE c[n].parent
                         /\ g[n].child = c[n].child
  BY <1>0, <1>4, UnlinkedFields DEF g
<1>6. \A n \in Node : g[n].prev = IF n = i THEN None
                                  ELSE IF n = m \/ (i # f /\ m = None /\ n = f) THEN q ELSE h[n].prev
  BY <1>0, <1>2, <1>3, <1>4, <1>5
<1>90. SameData(h, g)
  BY <1>2, <1>3, <1>4, <1>5, <1>6, SameDataIsTransitive
<1> QED
  BY <1>1, <1>2, <1>3, <1>4, <1>5, <1>6, <1>90

LEMMA ReplaceFields ==
  ASSUME NEW h \in [Node -> Item], NEW p \in Node, NEW i \in Node, NEW x \in Node,
         i # p, x # p, x # i, None \notin Node,
         NEW f \in Node, f = h[p].child, x # f,
         NEW q \in Node, q = h[i].prev, i # f => q # i, q # x,
         NEW m \in Ptr, m = h[i].next, m # i, m # x
  PROVE  LET k == Replace(h, p, i, x) IN
         /\ k \in [Node -> Item] /\ SameData(h, k)
         /\ \A n \in Node : /\ k[n].next = IF n = i THEN None ELSE IF n = x THEN m
                                          ELSE IF i # f /\ n = q THEN x ELSE h[n].next
                            /\ k[n].prev = IF n = i THEN None
                                          ELSE IF n = x THEN (IF i = f /\ q = i THEN x ELSE q)
                                          ELSE IF n = m \/ (i # f /\ m = None /\ n = f) THEN x
                                          ELSE h[n].prev
                            /\ k[n].child = IF n = p /\ i = f THEN x ELSE h[n].child
                            /\ k[n].parent = IF n = i THEN None ELSE IF n = x THEN p ELSE h[n].parent
<1> DEFINE a1 == SetNext(h, x, m)
           a2 == SetPrev(a1, x, q)
           a3 == SetParent(a2, x, p)
           b == IF m # None THEN SetPrev(a3, m, x) ELSE a3
           d == SetNext(b, q, x)
           e == IF m = None THEN SetPrev(d, f, x) ELSE d
           y == IF q = i THEN SetPrev(b, x, x) ELSE b
           c == IF f = i THEN SetChild(y, p, x) ELSE e
           g == Unlinked(c, i)
<1>0. q \in Ptr /\ None \in Ptr /\ (m = None \/ m \in Node) /\ x \in Ptr /\ p \in Ptr
  BY DEF Ptr
<1>1. Replace(h, p, i, x) = g
  <2>1. TakeLinks(h, p, i, x) = b
    BY DEF TakeLinks
  <2> HIDE DEF a1, a2, a3, b
  <2>2. ReplaceLater(h, b, p, i, x) = e
    <3>1. h[i].prev # None
      OBVIOUS
    <3> QED
      BY <3>1 DEF ReplaceLater
  <2>3. ReplaceFirst(h, b, p, i, x) = SetChild(y, p, x)
    BY DEF ReplaceFirst
  <2> HIDE DEF d, e, y
  <2> QED
    BY <2>1, <2>2, <2>3 DEF Replace
<1> HIDE DEF a1, a2, a3, b, d, e, y, c, g
<1>2. a1 \in [Node -> Item] /\ SameData(h, a1)
      /\ \A n \in Node : /\ a1[n].next = IF n = x THEN m ELSE h[n].next
                         /\ a1[n].prev = h[n].prev /\ a1[n].child = h[n].child /\ a1[n].parent = h[n].parent
  BY <1>0 DEF a1, SetNext, Item, SameData
<1>3. a2 \in [Node -> Item] /\ SameData(a1, a2)
      /\ \A n \in Node : /\ a2[n].prev = IF n = x THEN q ELSE a1[n].prev
                         /\ a2[n].next = a1[n].next /\ a2[n].child = a1[n].child /\ a2[n].parent = a1[n].parent
  BY <1>0, <1>2 DEF a2, SetPrev, Item, SameData
<1>4. a3 \in [Node -> Item] /\ SameData(a2, a3)
      /\ \A n \in Node : /\ a3[n].parent = IF n = x THEN p ELSE a2[n].parent
                         /\ a3[n].next = a2[n].next /\ a3[n].prev = a2[n].prev /\ a3[n].child = a2[n].child
  BY <1>0, <1>3 DEF a3, SetParent, Item, SameData
<1>5. b \in [Node -> Item] /\ SameData(a3, b)
      /\ \A n \in Node : /\ b[n].prev = IF n = m THEN x ELSE a3[n].prev
                         /\ b[n].next = a3[n].next /\ b[n].child = a3[n].child /\ b[n].parent = a3[n].parent
  BY <1>0, <1>4 DEF b, SameData, SetPrev, Item
<1>6. d \in [Node -> Item] /\ SameData(b, d)
      /\ \A n \in Node : /\ d[n].next = IF n = q THEN x ELSE b[n].next
                         /\ d[n].prev = b[n].prev /\ d[n].child = b[n].child /\ d[n].parent = b[n].parent
  BY <1>0, <1>5 DEF d, SetNext, Item, SameData
<1>7. e \in [Node -> Item] /\ SameData(d, e)
      /\ \A n \in Node : /\ e[n].prev = IF m = None /\ n = f THEN x ELSE d[n].prev
                         /\ e[n].next = d[n].next /\ e[n].child = d[n].child /\ e[n].parent = d[n].parent
  BY <1>0, <1>6 DEF e, SameData, SetPrev, Item
<1>8. y \in [Node -> Item] /\ SameData(b, y)
      /\ \A n \in Node : /\ y[n].prev = IF q = i /\ n = x THEN x ELSE b[n].prev
                         /\ y[n].next = b[n].next /\ y[n].child = b[n].child /\ y[n].parent = b[n].parent
  BY <1>0, <1>5 DEF y, SameData, SetPrev, Item
<1>9. c \in [Node -> Item] /\ SameData(b, c)
      /\ \A n \in Node : /\ c[n].next = IF i # f /\ n = q THEN x ELSE b[n].next
                         /\ c[n].prev = IF i = f /\ q = i /\ n = x THEN x
                                        ELSE IF i # f /\ m = None /\ n = f THEN x ELSE b[n].prev
                         /\ c[n].child = IF n = p /\ i = f THEN x ELSE b[n].child
                         /\ c[n].parent = b[n].parent
  <2>1. CASE i = f
    <3> DEFINE z == SetChild(y, p, x)
    <3>1. z \in [Node -> Item] /\ SameData(y, z)
          /\ \A n \in Node : /\ z[n].child = IF n = p THEN x ELSE y[n].child
                             /\ z[n].next = y[n].next /\ z[n].prev = y[n].prev /\ z[n].parent = y[n].parent
      BY <1>0, <1>8 DEF SetChild, Item, SameData
    <3>2. c = z
      BY <2>1 DEF c
    <3> HIDE DEF z
    <3>3. SameData(b, c)
      BY <3>1, <3>2, <1>8, SameDataIsTransitive
    <3> QED
      BY <2>1, <3>1, <3>2, <3>3, <1>8
  <2>2. CASE i # f
    <3>1. c = e
      BY <2>2 DEF c
    <3>2. SameData(b, c)
      BY <3>1, <1>6, <1>7, SameDataIsTransitive
    <3> QED
      BY <2>2, <3>1, <3>2, <1>6, <1>7
  <2> QED
    BY <2>1, <2>2
<1>10. g \in [Node -> Item] /\ SameData(c, g)
      /\ \A n \in Node : /\ g[n].next = IF n = i THEN None ELSE c[n].next
                         /\ g[n].prev = IF n = i THEN None ELSE c[n].prev
                         /\ g[n].parent = IF n = i THEN None ELSE c[n].parent
                         /\ g[n].child = c[n].child
  BY <1>9, UnlinkedFields DEF g
<1>11. \A n \in Node : g[n].prev = IF n = i THEN None
                               ELSE IF n = x THEN (IF i = f /\ q = i THEN x ELSE q)
                               ELSE IF n = m \/ (i # f /\ m = None /\ n = f) THEN x
                               ELSE h[n].prev
  BY <1>0, <1>2, <1>3, <1>4, <1>5, <1>9, <1>10
<1>12. \A n \in Node : /\ g[n].next = IF n = i THEN None ELSE IF n = x THEN m
                                     ELSE IF i # f /\ n = q THEN x ELSE h[n].next
                       /\ g[n].child = IF n = p /\ i = f THEN x ELSE h[n].child
                       /\ g[n].parent = IF n = i THEN None ELSE IF n = x THEN p ELSE h[n].parent
  BY <1>0, <1>2, <1>3, <1>4, <1>5, <1>9, <1>10
<1>13. SameData(h, g)
  BY <1>2, <1>3, <1>4, <1>5, <1>9, <1>10, SameDataIsTransitive
<1> QED
  BY <1>1, <1>10, <1>11, <1>12, <1>13

-----------------------------------------------------------------------------
(***************************************************************************)
(* The list operations keep the shape of the heap.                         *)
(***************************************************************************)

\* An item that has no next and is the first is the only one.
LEMMA OnlyChild ==
  ASSUME NEW h, NEW L, Shape(h, L), None \notin L,
         NEW i \in L, NEW p \in L, h[p].child = i, h[i].next = None,
         NEW n \in L, h[n].parent = p
  PROVE  n = i
<1> DEFINE S == {m \in L : h[m].parent = p /\ m # i}
<1>1. ASSUME NEW m \in S PROVE Up(h, m) \in S
  <2>1. h[m].prev # None /\ h[m].prev \in L /\ h[h[m].prev].parent = p /\ h[h[m].prev].next = m
    BY DEF Shape, HasPlace, Inside
  <2>2. Up(h, m) = h[m].prev
    BY DEF Up
  <2> QED
    BY <2>1, <2>2
<1>2. S = {}
  BY <1>1 DEF Shape, Grounded
<1> QED
  BY <1>2

\* Going up still ends when the tree at x got a place outside of itself, and
\* the item that follows x there, if one does, now has x before it.
LEMMA GroundedAfterGive ==
  ASSUME NEW h, NEW L, Shape(h, L), None \notin L,
         NEW x \in L, h[x].parent = None, NEW D, Subtree(h, L, D, x),
         NEW k, Up(k, x) \in L \ D,
         \A n \in L \ {x} : \/ Up(k, n) = Up(h, n)
                            \/ n \notin D /\ Up(k, n) = x /\ Up(k, x) = Up(h, n)
  PROVE  Grounded(k, L)
<1> SUFFICES ASSUME NEW S \in SUBSET L, \A n \in S : Up(k, n) \in S PROVE S = {}
  BY DEF Grounded
<1>0. x \in D /\ Whole(h, L, D)
  BY ParentIsOutside DEF Subtree
<1>1. \A n \in S \ D : Up(h, n) \in S \ D
  BY <1>0, WholeNeighbours
<1>2. S \ D = {}
  BY <1>1 DEF Shape, Grounded
<1>3. x \notin S
  BY <1>2
<1>4. \A n \in S : Up(h, n) \in S
  BY <1>2, <1>3
<1> QED
  BY <1>4 DEF Shape, Grounded

\* add_item_to_array puts an item that is in no list at the end of p's.
LEMMA AddItemKeepsShape ==
  ASSUME NEW h \in [Node -> Item], NEW L \in SUBSET Node, Shape(h, L),
         NEW p \in L, NEW x \in L, ~h[p].ref, h[x].parent = None,
         NEW D, Subtree(h, L, D, x), p \notin D
  PROVE  LET k == AddItem(h, p, x) IN
         /\ k \in [Node -> Item] /\ Shape(k, L) /\ SameData(h, k)
         /\ \A n \in Node : k[n].parent = IF n = x THEN p ELSE h[n].parent
<1> DEFINE k == AddItem(h, p, x)
<1>0. None \notin Node /\ None \notin L /\ x # p /\ x \in D /\ D \subseteq L
  BY NodesAreFinite DEF Subtree
<1>a. h[x].next = None /\ h[x].prev = None
  BY DEF Shape, Alone
<1>1. CASE h[p].child = None
  <2>1. k \in [Node -> Item] /\ SameData(h, k)
        /\ \A n \in Node : /\ k[n].next = IF n = x THEN None ELSE h[n].next
                           /\ k[n].prev = IF n = x THEN x ELSE h[n].prev
                           /\ k[n].child = IF n = p THEN x ELSE h[n].child
                           /\ k[n].parent = IF n = x THEN p ELSE h[n].parent
    BY <1>0, <1>1, AddItemToEmpty
  <2> HIDE DEF k
  <2>2. \A n \in L : k[n].ref = h[n].ref
    BY <2>1 DEF SameData
  <2>3. \A n \in L : h[n].parent # p
    BY <1>0, <1>1 DEF Shape, HasPlace
  <2>4. Inside(k, L)
    BY <2>1 DEF Shape, Inside
  <2>5. Alone(k, L)
    BY <1>0, <2>1 DEF Shape, Alone
  <2>6. HasPlace(k, L)
    <3> SUFFICES ASSUME NEW n \in L, k[n].parent # None
                 PROVE  /\ ~k[k[n].parent].ref /\ k[k[n].parent].child # None /\ k[n].prev # None
                        /\ k[k[n].prev].parent = k[n].parent
                        /\ k[k[n].prev].next = IF k[k[n].parent].child = n THEN None ELSE n
      BY DEF HasPlace
    <3>1. CASE n = x
      BY <3>1, <1>0, <2>1, <2>2
    <3>2. CASE n # x
      <4>1. h[n].parent \in L /\ h[n].prev \in L /\ h[n].prev # x /\ h[n].parent # p
        BY <3>2, <1>0, <2>1, <2>3 DEF Shape, Inside, HasPlace
      <4> QED
        BY <3>2, <4>1, <1>0, <2>1, <2>2 DEF Shape, HasPlace
    <3> QED
      BY <3>1, <3>2
  <2>7. HasNext(k, L)
    <3> SUFFICES ASSUME NEW n \in L, k[n].next # None
                 PROVE  /\ k[k[n].next].prev = n /\ k[k[n].next].parent = k[n].parent
                        /\ k[k[n].parent].child # k[n].next
      BY DEF HasNext
    <3>1. n # x /\ k[n].next = h[n].next /\ h[n].next \in L /\ h[n].parent \in L
      BY <2>1, <1>a DEF Shape, Inside, Alone
    <3>2. h[n].next # x /\ h[n].parent # p
      BY <3>1, <1>0, <2>3 DEF Shape, HasNext
    <3> QED
      BY <3>1, <3>2, <1>0, <2>1 DEF Shape, HasNext
  <2>8. HasChild(k, L)
    <3>1. \A n \in L : h[n].child # None /\ ~h[n].ref => h[n].child # x
      BY <1>0 DEF Shape, HasChild
    <3> QED
      BY <3>1, <1>0, <2>1, <2>2 DEF Shape, HasChild, Inside
  <2>9. Grounded(k, L)
    <3>1. \A n \in L \ {x} : Up(k, n) = Up(h, n)
      BY <2>1, <2>3, <1>0 DEF Up, Shape, Inside
    <3>2. Up(k, x) = p
      BY <2>1, <1>0 DEF Up
    <3> QED
      BY <3>1, <3>2, <1>0, GroundedAfterGive
  <2> QED
    BY <2>1, <2>4, <2>5, <2>6, <2>7, <2>8, <2>9 DEF Shape, k
<1>2. CASE h[p].child # None
  <2> DEFINE first == h[p].child
             last == h[first].prev
  <2>0. /\ first \in L /\ h[first].parent = p /\ last \in L /\ h[last].parent = p
        /\ h[last].next = None /\ first # x /\ last # x /\ last \notin D
    <3>1. first \in L /\ h[first].parent = p
      BY <1>2 DEF Shape, Inside, HasChild
    <3>2. last \in L /\ h[last].parent = p /\ h[last].next = None
      BY <3>1, <1>0 DEF Shape, HasPlace, Inside
    <3>3. last \notin D
      BY <3>2, <1>0 DEF Subtree
    <3> QED
      BY <3>1, <3>2, <3>3, <1>0
  <2>1. k \in [Node -> Item] /\ SameData(h, k)
        /\ \A n \in Node : /\ k[n].next = IF n = last THEN x ELSE h[n].next
                           /\ k[n].prev = IF n = first THEN x ELSE IF n = x THEN last ELSE h[n].prev
                           /\ k[n].child = h[n].child
                           /\ k[n].parent = IF n = x THEN p ELSE h[n].parent
    BY <1>0, <2>0, AddItemToList
  <2> HIDE DEF k
  <2>2. \A n \in L : k[n].ref = h[n].ref
    BY <2>1 DEF SameData
  <2>3. h[p].child = first /\ h[first].prev = last
    OBVIOUS
  <2> HIDE DEF first, last
  <2>4. Inside(k, L)
    BY <2>0, <2>1 DEF Shape, Inside
  <2>5. Alone(k, L)
    BY <1>0, <2>0, <2>1 DEF Shape, Alone
  <2>6. HasPlace(k, L)
    <3> SUFFICES ASSUME NEW n \in L, k[n].parent # None
                 PROVE  /\ ~k[k[n].parent].ref /\ k[k[n].parent].child # None /\ k[n].prev # None
                        /\ k[k[n].prev].parent = k[n].parent
                        /\ k[k[n].prev].next = IF k[k[n].parent].child = n THEN None ELSE n
      BY DEF HasPlace
    <3>1. CASE n = x
      BY <3>1, <1>0, <2>0, <2>1, <2>2, <2>3
    <3>2. CASE n = first
      BY <3>2, <1>0, <1>a, <2>0, <2>1, <2>2, <2>3
    <3>3. CASE n # x /\ n # first
      <4>1. h[n].parent \in L /\ h[n].prev \in L /\ h[n].prev # x
        BY <3>3, <1>0, <2>1 DEF Shape, Inside, HasPlace
      <4>2. /\ ~h[h[n].parent].ref /\ h[h[n].parent].child # None
            /\ h[h[n].prev].parent = h[n].parent
            /\ h[h[n].prev].next = IF h[h[n].parent].child = n THEN None ELSE n
        BY <4>1, <1>0 DEF Shape, HasPlace
      <4>3. h[n].prev = last => h[n].parent = p
        BY <4>2, <2>0
      <4>4. h[n].prev # last
        BY <4>2, <4>3, <3>3, <2>0, <2>3, <1>0
      <4> QED
        BY <3>3, <4>1, <4>2, <4>4, <1>0, <2>1, <2>2
    <3> QED
      BY <3>1, <3>2, <3>3
  <2>7. HasNext(k, L)
    <3> SUFFICES ASSUME NEW n \in L, k[n].next # None
                 PROVE  /\ k[k[n].next].prev = n /\ k[k[n].next].parent = k[n].parent
                        /\ k[k[n].parent].child # k[n].next
      BY DEF HasNext
    <3>1. CASE n = last
      BY <3>1, <1>0, <2>0, <2>1, <2>3
    <3>2. CASE n # last
      <4>1. n # x /\ k[n].next = h[n].next /\ h[n].next \in L /\ h[n].parent \in L
        BY <3>2, <2>1, <1>a DEF Shape, Inside, Alone
      <4>2. /\ h[h[n].next].prev = n /\ h[h[n].next].parent = h[n].parent
            /\ h[h[n].parent].child # h[n].next
        BY <4>1, <1>0 DEF Shape, HasNext
      <4>3. h[n].next # x
        BY <4>1, <4>2, <1>0
      <4>4. h[n].next # first
        BY <4>2, <2>0, <2>3
      <4> QED
        BY <4>1, <4>2, <4>3, <4>4, <1>0, <2>1
    <3> QED
      BY <3>1, <3>2
  <2>8. HasChild(k, L)
    <3>1. \A n \in L : h[n].child # None /\ ~h[n].ref => h[n].child # x
      BY <1>0 DEF Shape, HasChild
    <3> QED
      BY <3>1, <1>0, <2>1, <2>2 DEF Shape, HasChild, Inside
  <2>9. Grounded(k, L)
    <3>1. \A n \in L \ {x} : Up(k, n) = Up(h, n)
      BY <2>0, <2>1, <2>3, <1>0 DEF Up, Shape, Inside
    <3>2. Up(k, x) = last
      BY <2>0, <2>1, <2>3, <1>0 DEF Up
    <3> QED
      BY <3>1, <3>2, <2>0, <1>0, GroundedAfterGive
  <2> QED
    BY <2>1, <2>4, <2>5, <2>6, <2>7, <2>8, <2>9 DEF Shape, k
<1> QED
  BY <1>1, <1>2

\* No item is its own parent or next.
LEMMA NotItself ==
  ASSUME NEW h, NEW L, Shape(h, L), None \notin L, NEW i \in L
  PROVE  h[i].parent # i /\ h[i].next # i
<1>1. ASSUME h[i].parent = i PROVE FALSE
  <2> DEFINE S == {m \in L : h[m].parent = i}
  <2>1. ASSUME NEW m \in S PROVE Up(h, m) \in S
    <3>1. h[m].prev # None /\ h[m].prev \in L /\ h[h[m].prev].parent = i
      BY DEF Shape, HasPlace, Inside
    <3> QED
      BY <1>1, <3>1 DEF Up
  <2>2. i \in S
    BY <1>1
  <2> QED
    BY <2>1, <2>2 DEF Shape, Grounded
<1>2. ASSUME h[i].next = i PROVE FALSE
  <2>1. h[i].prev = i /\ h[i].parent # None /\ h[h[i].parent].child # i
    BY <1>2 DEF Shape, HasNext, Alone
  <2>2. Up(h, i) = i
    BY <2>1 DEF Up
  <2>3. \A n \in {i} : Up(h, n) \in {i}
    BY <2>2
  <2>4. {i} \in SUBSET L /\ {i} # {}
    OBVIOUS
  <2> QED
    BY <2>3, <2>4 DEF Shape, Grounded
<1> QED
  BY <1>1, <1>2

\* The surroundings of an item i in the list of p: the first, the item before
\* and the item after.
LEMMA PlaceOf ==
  ASSUME NEW h, NEW L, Shape(h, L), None \notin L,
         NEW i \in L, NEW p \in L, h[i].parent = p,
         NEW f, f = h[p].child, NEW q, q = h[i].prev, NEW m, m = h[i].next
  PROVE  /\ i # p /\ m # i /\ ~h[p].ref
         /\ f \in L /\ h[f].parent = p
         /\ q \in L /\ h[q].parent = p /\ h[q].next = IF i = f THEN None ELSE i
         /\ i # f => q # i
         /\ m # None => m \in L /\ h[m].parent = p /\ h[m].prev = i /\ m # f
         /\ h[f].prev \in L /\ h[h[f].prev].next = None
<1>1. i # p /\ m # i
  BY NotItself
<1>2. ~h[p].ref /\ f \in L
  BY DEF Shape, HasPlace, Inside
<1>3. h[f].parent = p
  BY <1>2 DEF Shape, HasChild
<1>4. q \in L /\ h[q].parent = p /\ h[q].next = IF i = f THEN None ELSE i
  BY DEF Shape, HasPlace, Inside
<1>5. i # f => q # i
  BY <1>1, <1>4
<1>6. m # None => m \in L /\ h[m].parent = p /\ h[m].prev = i /\ m # f
  BY DEF Shape, HasNext, Inside
<1>7. h[f].prev \in L /\ h[h[f].prev].next = None
  BY <1>2, <1>3 DEF Shape, HasPlace, Inside
<1> QED
  BY <1>1, <1>2, <1>3, <1>4, <1>5, <1>6, <1>7

\* Only the item after i and, for a last i, the first have i before them.
LEMMA BeforeOthers ==
  ASSUME NEW h, NEW L, Shape(h, L), None \notin L,
         NEW i \in L, NEW p \in L, h[i].parent = p,
         NEW n \in L, n # i, h[n].parent # None
  PROVE  /\ h[n].prev = i => n = h[i].next \/ (n = h[p].child /\ h[i].next = None)
         /\ h[n].prev = h[i].prev => i = h[p].child
         /\ h[n].parent = p => ~(i = h[p].child /\ h[i].next = None)
         /\ h[n].next = i => n = h[i].prev /\ i # h[p].child
<1>1. /\ h[h[n].prev].parent = h[n].parent
      /\ h[h[n].prev].next = IF h[h[n].parent].child = n THEN None ELSE n
  BY DEF Shape, HasPlace
<1>2. h[h[i].prev].parent = p /\ h[h[i].prev].next = IF i = h[p].child THEN None ELSE i
  BY DEF Shape, HasPlace
<1>3. h[n].next = i => h[i].prev = n /\ i # h[p].child
  BY DEF Shape, HasNext
<1> QED
  BY <1>1, <1>2, <1>3, OnlyChild

\* An item that is in no list goes in front of item i of p.
LEMMA InsertKeepsShape ==
  ASSUME NEW h \in [Node -> Item], NEW L \in SUBSET Node, Shape(h, L),
         NEW p \in L, NEW i \in L, h[i].parent = p, NEW x \in L, h[x].parent = None,
         NEW D, Subtree(h, L, D, x), p \notin D
  PROVE  LET k == InsertBefore(h, p, i, x) IN
         /\ k \in [Node -> Item] /\ Shape(k, L) /\ SameData(h, k)
         /\ \A n \in Node : k[n].parent = IF n = x THEN p ELSE h[n].parent
<1> DEFINE k == InsertBefore(h, p, i, x)
           f == h[p].child
           q == h[i].prev
           m == h[i].next
<1>0. None \notin Node /\ None \notin L /\ x # p /\ x \in D /\ D \subseteq L /\ x # i
  BY NodesAreFinite DEF Subtree
<1>a. h[x].next = None /\ h[x].prev = None
  BY DEF Shape, Alone
<1>b. /\ i # p /\ m # i /\ ~h[p].ref
      /\ f \in L /\ h[f].parent = p
      /\ q \in L /\ h[q].parent = p /\ h[q].next = IF i = f THEN None ELSE i
      /\ i # f => q # i
  BY <1>0, PlaceOf
<1>c. f # x /\ q # x /\ i \notin D /\ q \notin D
  BY <1>0, <1>b DEF Subtree
<1>1. k \in [Node -> Item] /\ SameData(h, k)
      /\ \A n \in Node : /\ k[n].next = IF n = x THEN i
                                        ELSE IF i # f /\ n = q THEN x ELSE h[n].next
                         /\ k[n].prev = IF n = i THEN x ELSE IF n = x THEN q ELSE h[n].prev
                         /\ k[n].child = IF n = p /\ i = f THEN x ELSE h[n].child
                         /\ k[n].parent = IF n = x THEN p ELSE h[n].parent
  BY <1>0, <1>b, <1>c, InsertBeforeFields
<1>2. \A n \in L : k[n].ref = h[n].ref
  BY <1>1 DEF SameData
<1>3. h[p].child = f /\ h[i].prev = q
  OBVIOUS
<1> HIDE DEF k, f, q, m
<1>4. Inside(k, L)
  BY <1>b, <1>1 DEF Shape, Inside
<1>5. Alone(k, L)
  BY <1>0, <1>b, <1>1 DEF Shape, Alone
<1>6. HasPlace(k, L)
  <2> SUFFICES ASSUME NEW n \in L, k[n].parent # None
               PROVE  /\ ~k[k[n].parent].ref /\ k[k[n].parent].child # None /\ k[n].prev # None
                      /\ k[k[n].prev].parent = k[n].parent
                      /\ k[k[n].prev].next = IF k[k[n].parent].child = n THEN None ELSE n
    BY DEF HasPlace
  <2>1. CASE n = x
    BY <2>1, <1>0, <1>b, <1>c, <1>1, <1>2, <1>3
  <2>2. CASE n = i
    BY <2>2, <1>0, <1>b, <1>c, <1>1, <1>2, <1>3
  <2>3. CASE n # x /\ n # i
    <3>1. h[n].parent \in L /\ h[n].prev \in L /\ h[n].prev # x
      BY <2>3, <1>0, <1>1 DEF Shape, Inside, HasPlace
    <3>2. /\ ~h[h[n].parent].ref /\ h[h[n].parent].child # None
          /\ h[h[n].prev].parent = h[n].parent
          /\ h[h[n].prev].next = IF h[h[n].parent].child = n THEN None ELSE n
      BY <3>1, <1>0 DEF Shape, HasPlace
    <3>3. i # f => h[n].prev # q
      BY <2>3, <3>1, <1>0, <1>3, BeforeOthers
    <3> QED
      BY <2>3, <3>1, <3>2, <3>3, <1>0, <1>b, <1>1, <1>2, <1>3
  <2> QED
    BY <2>1, <2>2, <2>3
<1>7. HasNext(k, L)
  <2> SUFFICES ASSUME NEW n \in L, k[n].next # None
               PROVE  /\ k[k[n].next].prev = n /\ k[k[n].next].parent = k[n].parent
                      /\ k[k[n].parent].child # k[n].next
    BY DEF HasNext
  <2>1. CASE n = x
    BY <2>1, <1>0, <1>b, <1>c, <1>1, <1>3
  <2>2. CASE n = q /\ i # f
    BY <2>2, <1>0, <1>b, <1>c, <1>1, <1>3
  <2>3. CASE n # x /\ ~(n = q /\ i # f)
    <3>1. k[n].next = h[n].next /\ h[n].next \in L /\ h[n].parent \in L
      BY <2>3, <1>1 DEF Shape, Inside, Alone
    <3>2. /\ h[h[n].next].prev = n /\ h[h[n].next].parent = h[n].parent
          /\ h[h[n].parent].child # h[n].next
      BY <3>1, <1>0 DEF Shape, HasNext
    <3>3. h[n].next # x
      BY <3>1, <3>2, <1>0
    <3>4. h[n].next # i
      BY <3>2, <2>3, <1>3
    <3> QED
      BY <2>3, <3>1, <3>2, <3>3, <3>4, <1>0, <1>1
  <2> QED
    BY <2>1, <2>2, <2>3
<1>8. HasChild(k, L)
  <2>1. \A n \in L : h[n].child # None /\ ~h[n].ref => h[n].child # x
    BY <1>0 DEF Shape, HasChild
  <2> QED
    BY <2>1, <1>0, <1>1, <1>2 DEF Shape, HasChild, Inside
<1>9. Grounded(k, L)
  <2>1. Up(k, x) = (IF i = f THEN p ELSE q) /\ Up(h, i) = (IF i = f THEN p ELSE q) /\ Up(k, i) = x
    BY <1>0, <1>b, <1>c, <1>1, <1>3 DEF Up
  <2>2. ASSUME NEW n \in L, n # x, n # i PROVE Up(k, n) = Up(h, n)
    <3>1. k[n].parent = h[n].parent /\ k[n].prev = h[n].prev /\ (h[n].parent = None \/ h[n].parent \in Node)
      BY <2>2, <1>1 DEF Shape, Inside
    <3>2. h[n].parent # None => (k[h[n].parent].child = n <=> h[h[n].parent].child = n)
      BY <2>2, <3>1, <1>1, <1>3
    <3> QED
      BY <3>1, <3>2 DEF Up
  <2>3. Up(k, x) \in L \ D
    BY <2>1, <1>b, <1>c
  <2> QED
    BY <2>1, <2>2, <2>3, <1>0, <1>c, GroundedAfterGive
<1> QED
  BY <1>1, <1>4, <1>5, <1>6, <1>7, <1>8, <1>9 DEF Shape, k

\* Item i of p is taken out of its list.
LEMMA DetachKeepsShape ==
  ASSUME NEW h \in [Node -> Item], NEW L \in SUBSET Node, Shape(h, L),
         NEW p \in L, NEW i \in L, h[i].parent = p
  PROVE  LET k == Detach(h, p, i) IN
         /\ k \in [Node -> Item] /\ Shape(k, L) /\ SameData(h, k)
         /\ \A n \in Node : k[n].parent = IF n = i THEN None ELSE h[n].parent
         /\ \A n \in Node \ {p} : k[n].child = h[n].child
<1> DEFINE k == Detach(h, p, i)
           f == h[p].child
           q == h[i].prev
           m == h[i].next
<1>0. None \notin Node /\ None \notin L
  BY NodesAreFinite
<1>b. /\ i # p /\ m # i /\ ~h[p].ref
      /\ f \in L /\ h[f].parent = p
      /\ q \in L /\ h[q].parent = p /\ h[q].next = IF i = f THEN None ELSE i
      /\ i # f => q # i
      /\ m # None => m \in L /\ h[m].parent = p /\ h[m].prev = i /\ m # f
  BY <1>0, PlaceOf
<1>c. m \in Ptr /\ (m = None \/ m \in L)
  BY <1>b DEF Ptr
<1>1. k \in [Node -> Item] /\ SameData(h, k)
      /\ \A n \in Node : /\ k[n].next = IF n = i THEN None
                                        ELSE IF i # f /\ n = q THEN m ELSE h[n].next
                         /\ k[n].prev = IF n = i THEN None
                                        ELSE IF n = m \/ (i # f /\ m = None /\ n = f) THEN q
                                        ELSE h[n].prev
                         /\ k[n].child = IF n = p /\ i = f THEN m ELSE h[n].child
                         /\ k[n].parent = IF n = i THEN None ELSE h[n].parent
  BY <1>0, <1>b, <1>c, DetachFields
<1>2. \A n \in L : k[n].ref = h[n].ref
  BY <1>1 DEF SameData
<1>3. h[p].child = f /\ h[i].prev = q /\ h[i].next = m
  OBVIOUS
<1> HIDE DEF k, f, q, m
<1>4. Inside(k, L)
  BY <1>b, <1>c, <1>1 DEF Shape, Inside
<1>5. Alone(k, L)
  <2> SUFFICES ASSUME NEW n \in L, k[n].parent = None PROVE k[n].next = None /\ k[n].prev = None
    BY DEF Alone
  <2>1. CASE n = i
    BY <2>1, <1>1
  <2>2. CASE n # i
    <3>1. h[n].parent = None /\ h[n].next = None /\ h[n].prev = None
      BY <2>2, <1>1 DEF Shape, Alone
    <3>2. n # q /\ n # m /\ n # f
      BY <3>1, <1>0, <1>b
    <3> QED
      BY <2>2, <3>1, <3>2, <1>1
  <2> QED
    BY <2>1, <2>2
<1>6. HasPlace(k, L)
  <2> SUFFICES ASSUME NEW n \in L, k[n].parent # None
               PROVE  /\ ~k[k[n].parent].ref /\ k[k[n].parent].child # None /\ k[n].prev # None
                      /\ k[k[n].prev].parent = k[n].parent
                      /\ k[k[n].prev].next = IF k[k[n].parent].child = n THEN None ELSE n
    BY DEF HasPlace
  <2>0. n # i
    BY <1>1
  <2>1. CASE n = m
    <3>1. m # None /\ m \in L /\ h[m].parent = p /\ m # f
      BY <2>1, <1>0, <1>b
    <3>2. q # i
      BY <3>1, <1>b, <1>3
    <3>3. k[n].parent = p /\ k[n].prev = q /\ k[q].parent = p /\ k[p].ref = h[p].ref
      BY <2>0, <2>1, <3>1, <3>2, <1>b, <1>1, <1>2
    <3>4. CASE i = f
      BY <3>1, <3>2, <3>3, <3>4, <2>1, <1>0, <1>b, <1>1
    <3>5. CASE i # f
      BY <3>1, <3>2, <3>3, <3>5, <2>1, <1>0, <1>b, <1>1, <1>3
    <3> QED
      BY <3>4, <3>5
  <2>2. CASE i # f /\ m = None /\ n = f
    BY <2>0, <2>2, <1>0, <1>b, <1>1, <1>2, <1>3
  <2>3. CASE n # m /\ ~(i # f /\ m = None /\ n = f)
    <3>1. h[n].parent \in L /\ h[n].prev \in L /\ k[n].parent = h[n].parent /\ k[n].prev = h[n].prev
      BY <2>0, <2>3, <1>0, <1>1 DEF Shape, Inside, HasPlace
    <3>2. /\ ~h[h[n].parent].ref /\ h[h[n].parent].child # None
          /\ h[h[n].prev].parent = h[n].parent
          /\ h[h[n].prev].next = IF h[h[n].parent].child = n THEN None ELSE n
      BY <3>1, <1>0 DEF Shape, HasPlace
    <3>3. /\ h[n].prev = i => n = m \/ (n = f /\ m = None)
          /\ h[n].prev = q => i = f
          /\ h[n].parent = p => ~(i = f /\ m = None)
      BY <2>0, <3>1, <1>0, <1>3, BeforeOthers
    <3>4. h[n].prev # i
      <4>1. n = f => h[n].parent = p
        BY <1>b
      <4> QED
        BY <4>1, <3>3, <2>3
    <3>5. k[h[n].prev].parent = h[n].parent /\ k[h[n].prev].next = h[h[n].prev].next
      BY <3>1, <3>2, <3>3, <3>4, <1>1
    <3>6. k[h[n].parent].child # None
      BY <3>1, <3>2, <3>3, <1>1
    <3>7. k[h[n].parent].child = n <=> h[h[n].parent].child = n
      BY <3>1, <3>2, <1>1, <1>3, <2>0, <2>3
    <3> QED
      BY <3>1, <3>2, <3>5, <3>6, <3>7, <1>0, <1>2
  <2> QED
    BY <2>1, <2>2, <2>3
<1>7. HasNext(k, L)
  <2> SUFFICES ASSUME NEW n \in L, k[n].next # None
               PROVE  /\ k[k[n].next].prev = n /\ k[k[n].next].parent = k[n].parent
                      /\ k[k[n].parent].child # k[n].next
    BY DEF HasNext
  <2>0. n # i
    BY <1>1
  <2>1. CASE n = q /\ i # f
    <3>1. k[n].next = m /\ m # None /\ k[n].parent = p
      BY <2>0, <2>1, <1>b, <1>1
    <3> QED
      BY <2>1, <3>1, <1>0, <1>b, <1>1, <1>3
  <2>2. CASE ~(n = q /\ i # f)
    <3>1. k[n].next = h[n].next /\ h[n].next \in L /\ h[n].parent \in L /\ k[n].parent = h[n].parent
      BY <2>0, <2>2, <1>1 DEF Shape, Inside, Alone
    <3>2. /\ h[h[n].next].prev = n /\ h[h[n].next].parent = h[n].parent
          /\ h[h[n].parent].child # h[n].next
      BY <3>1, <1>0 DEF Shape, HasNext
    <3>3. h[n].next # i
      BY <2>0, <2>2, <3>1, <1>0, <1>3, BeforeOthers
    <3>4. h[n].next # m
      BY <2>0, <3>1, <3>2, <1>0, <1>b
    <3>5. h[n].next # f
      BY <3>2, <1>b, <1>3
    <3> QED
      BY <3>1, <3>2, <3>3, <3>4, <3>5, <1>0, <1>1
  <2> QED
    BY <2>1, <2>2
<1>8. HasChild(k, L)
  <2> SUFFICES ASSUME NEW n \in L, k[n].child # None, ~k[n].ref PROVE k[k[n].child].parent = n
    BY DEF HasChild
  <2>1. CASE n = p /\ i = f
    BY <2>1, <1>0, <1>b, <1>c, <1>1
  <2>2. CASE ~(n = p /\ i = f)
    <3>1. k[n].child = h[n].child /\ h[n].child \in L /\ h[h[n].child].parent = n
      BY <2>2, <1>1, <1>2 DEF Shape, HasChild, Inside
    <3>2. h[n].child # i
      BY <2>2, <3>1, <1>3
    <3> QED
      BY <3>1, <3>2, <1>1
  <2> QED
    BY <2>1, <2>2
<1>9. Grounded(k, L)
  <2> SUFFICES ASSUME NEW S \in SUBSET L, \A n \in S : Up(k, n) \in S PROVE S = {}
    BY DEF Grounded
  <2>1. i \notin S
    BY <1>0, <1>1 DEF Up
  <2>2. Up(h, i) = (IF i = f THEN p ELSE q)
    BY <1>0, <1>3 DEF Up
  <2>3. ASSUME m # None PROVE Up(k, m) = (IF i = f THEN p ELSE q) /\ Up(h, m) = i
    BY <2>3, <1>0, <1>b, <1>1, <1>3 DEF Up
  <2>4. ASSUME NEW n \in L, n # i, n # m PROVE Up(k, n) = Up(h, n)
    <3>1. CASE h[n].parent = None
      BY <2>4, <3>1, <1>1 DEF Up
    <3>2. CASE h[n].parent # None
      <4>1. h[n].parent \in L /\ k[n].parent = h[n].parent
        BY <2>4, <3>2, <1>1 DEF Shape, Inside
      <4>2. k[h[n].parent].child = n <=> h[h[n].parent].child = n
        BY <4>1, <2>4, <1>1, <1>3
      <4>3. h[h[n].parent].child # n => k[n].prev = h[n].prev
        BY <4>1, <2>4, <1>1, <1>3, <1>b
      <4> QED
        BY <3>2, <4>1, <4>2, <4>3 DEF Up
    <3> QED
      BY <3>1, <3>2
  <2> DEFINE T == IF m \in S THEN S \cup {i} ELSE S
  <2>5. \A n \in T : Up(h, n) \in T
    BY <2>1, <2>2, <2>3, <2>4, <1>0
  <2>6. T \in SUBSET L
    OBVIOUS
  <2>7. T = {}
    BY <2>5, <2>6 DEF Shape, Grounded
  <2> QED
    BY <2>7
<1>10. \A n \in Node \ {p} : k[n].child = h[n].child
  BY <1>1
<1> QED
  BY <1>1, <1>4, <1>5, <1>6, <1>7, <1>8, <1>9, <1>10 DEF Shape, k

\* An item that is in no list takes the place of item i of p.
LEMMA ReplaceKeepsShape ==
  ASSUME NEW h \in [Node -> Item], NEW L \in SUBSET Node, Shape(h, L),
         NEW p \in L, NEW i \in L, h[i].parent = p, NEW x \in L, h[x].parent = None,
         NEW D, Subtree(h, L, D, x), p \notin D
  PROVE  LET k == Replace(h, p, i, x) IN
         /\ k \in [Node -> Item] /\ Shape(k, L) /\ SameData(h, k)
         /\ \A n \in Node : k[n].parent = IF n = i THEN None ELSE IF n = x THEN p ELSE h[n].parent
         /\ \A n \in Node \ {p} : k[n].child = h[n].child
<1> DEFINE k == Replace(h, p, i, x)
           f == h[p].child
           q == h[i].prev
           m == h[i].next
<1>0. None \notin Node /\ None \notin L /\ x # p /\ x \in D /\ D \subseteq L /\ x # i
  BY NodesAreFinite DEF Subtree
<1>a. h[x].next = None /\ h[x].prev = None
  BY DEF Shape, Alone
<1>b. /\ i # p /\ m # i /\ ~h[p].ref
      /\ f \in L /\ h[f].parent = p
      /\ q \in L /\ h[q].parent = p /\ h[q].next = IF i = f THEN None ELSE i
      /\ i # f => q # i
      /\ m # None => m \in L /\ h[m].parent = p /\ h[m].prev = i /\ m # f
  BY <1>0, PlaceOf
<1>c. m \in Ptr /\ (m = None \/ m \in L)
  BY <1>b DEF Ptr
<1>d. f # x /\ q # x /\ m # x /\ i \notin D /\ q \notin D
  BY <1>0, <1>b DEF Subtree
<1>1. k \in [Node -> Item] /\ SameData(h, k)
      /\ \A n \in Node : /\ k[n].next = IF n = i THEN None ELSE IF n = x THEN m
                                        ELSE IF i # f /\ n = q THEN x ELSE h[n].next
                         /\ k[n].prev = IF n = i THEN None
                                        ELSE IF n = x THEN (IF i = f /\ q = i THEN x ELSE q)
                                        ELSE IF n = m \/ (i # f /\ m = None /\ n = f) THEN x
                                        ELSE h[n].prev
                         /\ k[n].child = IF n = p /\ i = f THEN x ELSE h[n].child
                         /\ k[n].parent = IF n = i THEN None ELSE IF n = x THEN p ELSE h[n].parent
  BY <1>0, <1>b, <1>c, <1>d, ReplaceFields
<1>2. \A n \in L : k[n].ref = h[n].ref
  BY <1>1 DEF SameData
<1>3. h[p].child = f /\ h[i].prev = q /\ h[i].next = m
  OBVIOUS
<1> HIDE DEF k, f, q, m
<1>4. Inside(k, L)
  BY <1>b, <1>c, <1>1 DEF Shape, Inside
<1>5. Alone(k, L)
  <2> SUFFICES ASSUME NEW n \in L, k[n].parent = None PROVE k[n].next = None /\ k[n].prev = None
    BY DEF Alone
  <2>1. CASE n = i
    BY <2>1, <1>1
  <2>2. CASE n # i
    <3>1. n # x /\ h[n].parent = None /\ h[n].next = None /\ h[n].prev = None
      BY <2>2, <1>0, <1>1 DEF Shape, Alone
    <3>2. n # q /\ n # m /\ n # f
      BY <3>1, <1>0, <1>b
    <3> QED
      BY <2>2, <3>1, <3>2, <1>1
  <2> QED
    BY <2>1, <2>2
<1>6. HasPlace(k, L)
  <2> SUFFICES ASSUME NEW n \in L, k[n].parent # None
               PROVE  /\ ~k[k[n].parent].ref /\ k[k[n].parent].child # None /\ k[n].prev # None
                      /\ k[k[n].prev].parent = k[n].parent
                      /\ k[k[n].prev].next = IF k[k[n].parent].child = n THEN None ELSE n
    BY DEF HasPlace
  <2>0. n # i
    BY <1>1
  <2>1. CASE n = m /\ n # x
    BY <2>0, <2>1, <1>0, <1>b, <1>d, <1>1, <1>2, <1>3
  <2>2. CASE i # f /\ m = None /\ n = f
    BY <2>0, <2>2, <1>0, <1>b, <1>d, <1>1, <1>2, <1>3
  <2>3. CASE n = x
    <3>0. h[p].child # None /\ x # None
      BY <1>0, <1>b, <1>3
    <3>1. k[n].parent = p /\ k[p].ref = h[p].ref /\ k[p].child # None
      BY <2>3, <3>0, <1>0, <1>1, <1>2
    <3>2. CASE i = f /\ q = i
      BY <2>3, <3>1, <3>2, <1>0, <1>b, <1>1, <1>3
    <3>3. CASE i = f /\ q # i
      BY <2>3, <3>1, <3>3, <1>0, <1>b, <1>d, <1>1, <1>3
    <3>4. CASE i # f
      BY <2>3, <3>1, <3>4, <1>0, <1>b, <1>d, <1>1, <1>3
    <3> QED
      BY <3>2, <3>3, <3>4
  <2>4. CASE n # x /\ n # m /\ ~(i # f /\ m = None /\ n = f)
    <3>1. h[n].parent \in L /\ h[n].prev \in L /\ k[n].parent = h[n].parent /\ k[n].prev = h[n].prev
      BY <2>0, <2>4, <1>0, <1>1 DEF Shape, Inside, HasPlace
    <3>2. /\ ~h[h[n].parent].ref /\ h[h[n].parent].child # None
          /\ h[h[n].prev].parent = h[n].parent
          /\ h[h[n].prev].next = IF h[h[n].parent].child = n THEN None ELSE n
      BY <3>1, <1>0 DEF Shape, HasPlace
    <3>3. /\ h[n].prev = i => n = m \/ (n = f /\ m = None)
          /\ h[n].prev = q => i = f
          /\ h[n].parent = p => ~(i = f /\ m = None)
      BY <2>0, <3>1, <1>0, <1>3, BeforeOthers
    <3>4. h[n].prev # i
      <4>1. n = f => h[n].parent = p
        BY <1>b
      <4> QED
        BY <4>1, <3>3, <2>4
    <3>5. h[n].prev # x
      BY <3>1, <3>2, <1>0
    <3>6. k[h[n].prev].parent = h[n].parent /\ k[h[n].prev].next = h[h[n].prev].next
      BY <3>1, <3>2, <3>3, <3>4, <3>5, <1>1
    <3>7. k[h[n].parent].child # None
      BY <3>1, <3>2, <1>0, <1>1
    <3>8. k[h[n].parent].child = n <=> h[h[n].parent].child = n
      BY <3>1, <3>2, <1>1, <1>3, <2>0, <2>4
    <3> QED
      BY <3>1, <3>2, <3>6, <3>7, <3>8, <1>0, <1>2
  <2> QED
    BY <2>1, <2>2, <2>3, <2>4
<1>7. HasNext(k, L)
  <2> SUFFICES ASSUME NEW n \in L, k[n].next # None
               PROVE  /\ k[k[n].next].prev = n /\ k[k[n].next].parent = k[n].parent
                      /\ k[k[n].parent].child # k[n].next
    BY DEF HasNext
  <2>0. n # i
    BY <1>1
  <2>1. CASE n = q /\ i # f
    BY <2>0, <2>1, <1>0, <1>b, <1>d, <1>1, <1>3
  <2>2. CASE n = x
    BY <2>0, <2>2, <1>0, <1>b, <1>d, <1>1, <1>3
  <2>3. CASE n # x /\ ~(n = q /\ i # f)
    <3>1. k[n].next = h[n].next /\ h[n].next \in L /\ h[n].parent \in L /\ k[n].parent = h[n].parent
      BY <2>0, <2>3, <1>1 DEF Shape, Inside, Alone
    <3>2. /\ h[h[n].next].prev = n /\ h[h[n].next].parent = h[n].parent
          /\ h[h[n].parent].child # h[n].next
      BY <3>1, <1>0 DEF Shape, HasNext
    <3>3. h[n].next # i
      BY <2>0, <2>3, <3>1, <1>0, <1>3, BeforeOthers
    <3>4. h[n].next # m
      BY <2>0, <3>1, <3>2, <1>0, <1>b
    <3>5. h[n].next # f
      BY <3>2, <1>b, <1>3
    <3>6. h[n].next # x
      BY <3>1, <3>2, <1>0
    <3> QED
      BY <3>1, <3>2, <3>3, <3>4, <3>5, <3>6, <1>0, <1>1
  <2> QED
    BY <2>1, <2>2, <2>3
<1>8. HasChild(k, L)
  <2> SUFFICES ASSUME NEW n \in L, k[n].child # None, ~k[n].ref PROVE k[k[n].child].parent = n
    BY DEF HasChild
  <2>1. CASE n = p /\ i = f
    BY <2>1, <1>0, <1>b, <1>1
  <2>2. CASE ~(n = p /\ i = f)
    <3>1. k[n].child = h[n].child /\ h[n].child \in L /\ h[h[n].child].parent = n
      BY <2>2, <1>1, <1>2 DEF Shape, HasChild, Inside
    <3>2. h[n].child # i /\ h[n].child # x
      BY <2>2, <3>1, <1>0, <1>3
    <3> QED
      BY <3>1, <3>2, <1>1
  <2> QED
    BY <2>1, <2>2
<1>9. Grounded(k, L)
  <2> SUFFICES ASSUME NEW S \in SUBSET L, \A n \in S : Up(k, n) \in S PROVE S = {}
    BY DEF Grounded
  <2>1. i \notin S
    BY <1>0, <1>1 DEF Up
  <2> DEFINE u == IF i = f THEN p ELSE q
  <2>2. Up(h, i) = u /\ Up(k, x) = u /\ u \in L \ D
    BY <1>0, <1>1, <1>3, <1>b, <1>d DEF Up
  <2>3. ASSUME m # None PROVE Up(k, m) = x /\ Up(h, m) = i /\ m \notin D
    <3>1. Up(h, m) = i
      BY <2>3, <1>0, <1>b, <1>3 DEF Up
    <3>2. m \notin D
      BY <2>3, <1>0, <1>b DEF Subtree
    <3>3. k[m].parent = p /\ k[m].prev = x /\ k[p].child # m
      BY <2>3, <1>0, <1>b, <1>d, <1>1, <1>3
    <3> QED
      BY <3>1, <3>2, <3>3, <1>0 DEF Up
  <2>4. ASSUME NEW n \in L, n # i, n # m, n # x PROVE Up(k, n) = Up(h, n)
    <3>1. CASE h[n].parent = None
      BY <2>4, <3>1, <1>1 DEF Up
    <3>2. CASE h[n].parent # None
      <4>1. h[n].parent \in L /\ k[n].parent = h[n].parent
        BY <2>4, <3>2, <1>1 DEF Shape, Inside
      <4>2. k[h[n].parent].child = n <=> h[h[n].parent].child = n
        BY <4>1, <2>4, <1>1, <1>3
      <4>3. h[h[n].parent].child # n => k[n].prev = h[n].prev
        BY <4>1, <2>4, <1>1, <1>3, <1>b
      <4> QED
        BY <3>2, <4>1, <4>2, <4>3 DEF Up
    <3> QED
      BY <3>1, <3>2
  <2> HIDE DEF u
  <2>w. Whole(h, L, D)
    BY <1>0, ParentIsOutside
  <2> DEFINE T == (S \ D) \cup (IF x \in S THEN {i} ELSE {})
  <2>5. ASSUME NEW n \in S \ D PROVE Up(h, n) \in T
    <3>1. n # i /\ n # x
      BY <2>1, <1>0
    <3>2. CASE n = m
      BY <3>2, <2>3, <1>0
    <3>3. CASE n # m
      <4>1. Up(h, n) \in S
        BY <3>1, <3>3, <2>4
      <4>2. Up(h, n) \notin D
        BY <2>w, <1>0, WholeNeighbours
      <4> QED
        BY <4>1, <4>2
    <3> QED
      BY <3>2, <3>3
  <2>6. x \in S => Up(h, i) \in T
    BY <2>2
  <2>7. T \in SUBSET L /\ \A n \in T : Up(h, n) \in T
    BY <2>5, <2>6
  <2>8. T = {}
    BY <2>7 DEF Shape, Grounded
  <2>9. x \notin S /\ S \subseteq D
    BY <2>8
  <2>10. \A n \in S : Up(h, n) \in S
    BY <2>9, <2>1, <2>3, <2>4, <1>0
  <2> QED
    BY <2>10 DEF Shape, Grounded
<1>10. \A n \in Node \ {p} : k[n].child = h[n].child
  BY <1>1
<1> QED
  BY <1>1, <1>4, <1>5, <1>6, <1>7, <1>8, <1>9, <1>10 DEF Shape, k

-----------------------------------------------------------------------------
(***************************************************************************)
(* What List returns: the items that have the same parent, in order.       *)
(***************************************************************************)

\* A set that holds 0 and, with a number, the next one, holds them all.
LEMMA SetInduction ==
  ASSUME NEW S, 0 \in S, \A n \in Nat : n \in S => n + 1 \in S
  PROVE  Nat \subseteq S
<1> SUFFICES ASSUME Nat \ S # {} PROVE FALSE
  OBVIOUS
<1> DEFINE R == OpToRel(<, Nat)
<1>1. \A m, n \in Nat : <<m, n>> \in R <=> m < n
  BY Zenon DEF OpToRel
<1>2. IsWellFoundedOn(R, Nat)
  BY NatLessThanWellFounded, Zenon
<1> HIDE DEF R
<1>3. PICK x \in Nat \ S : \A y \in Nat \ S : ~(<<y, x>> \in R)
  BY <1>2, WFMin
<1>4. x # 0
  OBVIOUS
<1>5. x - 1 \in Nat \ S
  BY <1>4
<1>6. <<x - 1, x>> \in R
  BY <1>1, <1>5
<1> QED
  BY <1>3, <1>5, <1>6

\* The recursive function in List is one.
LEMMA ListRecursion ==
  \E L : L = [k \in 0 .. N |->
               [m \in Ptr |-> IF k = 0 \/ m = None THEN <<>>
                              ELSE <<m>> \o L[k - 1][heap[m].next]]]
<1> DEFINE Row(f, k) == [m \in Ptr |-> IF k = 0 \/ m = None THEN <<>>
                                       ELSE <<m>> \o f[k - 1][heap[m].next]]
           S == {K \in Nat : \E L : L = [k \in 0 .. K |-> Row(L, k)]}
<1>1. 0 \in S
  <2> DEFINE L == [k \in 0 .. 0 |-> [m \in Ptr |-> <<>>]]
  <2>1. L = [k \in 0 .. 0 |-> Row(L, k)]
    <3>1. \A k \in 0 .. 0 : Row(L, k) = [m \in Ptr |-> <<>>]
      OBVIOUS
    <3> HIDE DEF Row
    <3> QED
      BY <3>1
  <2> QED
    BY <2>1
<1>2. ASSUME NEW K \in Nat, K \in S PROVE K + 1 \in S
  <2>1. PICK L : L = [k \in 0 .. K |-> Row(L, k)]
    BY <1>2
  <2> DEFINE M == [k \in 0 .. K + 1 |-> IF k <= K THEN L[k] ELSE Row(L, K + 1)]
  <2>2. \A k \in 0 .. K : L[k] = Row(L, k)
    <3> HIDE DEF Row
    <3> QED
      BY <2>1
  <2>3. \A k \in 0 .. K : M[k] = L[k]
    OBVIOUS
  <2>4. \A k \in 0 .. K + 1 : Row(M, k) = Row(L, k)
    <3> SUFFICES ASSUME NEW k \in 0 .. K + 1 PROVE Row(M, k) = Row(L, k)
      OBVIOUS
    <3>1. CASE k = 0
      BY <3>1
    <3>2. CASE k # 0
      <4>1. M[k - 1] = L[k - 1]
        BY <3>2, <2>3
      <4> HIDE DEF M
      <4> QED
        BY <4>1
    <3> QED
      BY <3>1, <3>2
  <2>5. \A k \in 0 .. K + 1 : M[k] = Row(L, k)
    <3> HIDE DEF Row
    <3> QED
      BY <2>2, <2>3
  <2>6. M = [k \in 0 .. K + 1 |-> Row(M, k)]
    <3>1. DOMAIN M = 0 .. K + 1 /\ M = [k \in 0 .. K + 1 |-> M[k]]
      OBVIOUS
    <3>2. \A k \in 0 .. K + 1 : M[k] = Row(M, k)
      <4> HIDE DEF M, Row
      <4> QED
        BY <2>4, <2>5
    <3> HIDE DEF M, Row
    <3> QED
      BY <3>1, <3>2
  <2> HIDE DEF M, Row
  <2> QED
    BY <2>6
<1>3. N \in S
  <2> HIDE DEF S
  <2> QED
    BY <1>1, <1>2, SetInduction, TreeAssumption
<1> QED
  BY <1>3

\* s is the list that begins at m, or its first K items.
Chain(K, m, s) ==
  /\ s \in Seq(Node) /\ Len(s) <= K
  /\ K = 0 \/ m = None => s = <<>>
  /\ K > 0 /\ m # None => Len(s) > 0 /\ s[1] = m
  /\ \A i \in 1 .. Len(s) - 1 : heap[s[i]].next = s[i + 1]
  /\ Len(s) > 0 => Len(s) = K \/ heap[s[Len(s)]].next = None

LEMMA Prepend ==
  ASSUME NEW m \in Node, NEW t \in Seq(Node)
  PROVE  /\ <<m>> \o t \in Seq(Node) /\ Len(<<m>> \o t) = Len(t) + 1
         /\ (<<m>> \o t)[1] = m
         /\ \A i \in 1 .. Len(t) : (<<m>> \o t)[i + 1] = t[i]
OBVIOUS

LEMMA ListIsChain ==
  ASSUME heap \in [Node -> Item], NEW n \in Ptr
  PROVE  Chain(N, n, List(n))
<1> DEFINE Rec(L) == L = [k \in 0 .. N |->
                           [m \in Ptr |-> IF k = 0 \/ m = None THEN <<>>
                                          ELSE <<m>> \o L[k - 1][heap[m].next]]]
<1>0. N \in Nat /\ None \notin Node
  BY TreeAssumption
<1>1. PICK L : Rec(L) /\ List(n) = L[N][n]
  <2>1. \E L : Rec(L)
    BY ListRecursion
  <2>2. Rec(CHOOSE L : Rec(L))
    BY <2>1
  <2>3. List(n) = (CHOOSE L : Rec(L))[N][n]
    BY DEF List
  <2> HIDE DEF Rec
  <2> QED
    BY <2>2, <2>3
<1>2. \A k \in 0 .. N, m \in Ptr :
        /\ k = 0 \/ m = None => L[k][m] = <<>>
        /\ k # 0 /\ m # None => L[k][m] = <<m>> \o L[k - 1][heap[m].next]
  <2>1. \A k \in 0 .. N : L[k] = [m \in Ptr |-> IF k = 0 \/ m = None THEN <<>>
                                                ELSE <<m>> \o L[k - 1][heap[m].next]]
    BY <1>1
  <2> QED
    BY <2>1
<1> HIDE DEF Rec
<1> DEFINE S == {k \in Nat : k <= N => \A m \in Ptr : Chain(k, m, L[k][m])}
<1>3. 0 \in S
  <2>0. 0 \in 0 .. N
    BY <1>0
  <2>1. ASSUME NEW m \in Ptr PROVE L[0][m] = <<>>
    BY <2>0, <1>2
  <2>2. ASSUME NEW m PROVE Chain(0, m, <<>>)
    <3>1. <<>> \in Seq(Node) /\ Len(<<>>) = 0
      OBVIOUS
    <3> QED
      BY <3>1 DEF Chain
  <2> QED
    BY <2>1, <2>2
<1>4. ASSUME NEW k \in Nat, k \in S PROVE k + 1 \in S
  <2> SUFFICES ASSUME k + 1 <= N, NEW m \in Ptr PROVE Chain(k + 1, m, L[k + 1][m])
    OBVIOUS
  <2>1. CASE m = None
    <3>0. k + 1 \in 0 .. N
      BY <1>0
    <3>1. L[k + 1][m] = <<>>
      BY <2>1, <3>0, <1>2
    <3>2. <<>> \in Seq(Node) /\ Len(<<>>) = 0 /\ 0 <= k + 1
      OBVIOUS
    <3> QED
      BY <3>1, <3>2, <2>1 DEF Chain
  <2>2. CASE m # None
    <3> DEFINE x == heap[m].next
               t == L[k][x]
               s == <<m>> \o t
    <3>1. m \in Node /\ x \in Ptr
      BY <2>2 DEF Ptr, Item
    <3>2. Chain(k, x, t)
      BY <3>1, <1>4, <1>0
    <3>3. L[k + 1][m] = s
      <4>1. k + 1 \in 0 .. N /\ k + 1 # 0 /\ (k + 1) - 1 = k
        BY <1>0
      <4> QED
        BY <4>1, <2>2, <1>2
    <3>a. heap[m].next = x
      OBVIOUS
    <3> HIDE DEF x, t
    <3>4. t \in Seq(Node) /\ Len(t) \in Nat /\ Len(t) <= k
      BY <3>2 DEF Chain
    <3>5. /\ s \in Seq(Node) /\ Len(s) = Len(t) + 1 /\ s[1] = m
          /\ \A i \in 1 .. Len(t) : s[i + 1] = t[i]
      BY <3>1, <3>4, Prepend
    <3> HIDE DEF s
    <3>6. ASSUME NEW i \in 1 .. Len(s) - 1 PROVE heap[s[i]].next = s[i + 1]
      <4>0. i \in 1 .. Len(t) /\ s[i + 1] = t[i]
        BY <3>4, <3>5
      <4>1. CASE i = 1
        <5>1. t # <<>> /\ Len(t) > 0
          BY <4>0, <3>4
        <5>2. t[1] = x
          BY <5>1, <3>2, <3>4 DEF Chain
        <5> QED
          BY <4>0, <4>1, <5>2, <3>5, <3>a
      <4>2. CASE i # 1
        <5>1. i - 1 \in 1 .. Len(t) - 1 /\ i - 1 \in 1 .. Len(t) /\ (i - 1) + 1 = i
          BY <4>0, <4>2, <3>4
        <5>2. heap[t[i - 1]].next = t[(i - 1) + 1]
          BY <5>1, <3>2 DEF Chain
        <5>3. s[(i - 1) + 1] = t[i - 1]
          BY <5>1, <3>5
        <5> QED
          BY <4>0, <5>1, <5>2, <5>3
      <4> QED
        BY <4>1, <4>2
    <3>7. Len(s) = k + 1 \/ heap[s[Len(s)]].next = None
      <4>1. CASE Len(t) > 0
        <5>1. Len(t) \in 1 .. Len(t) /\ s[Len(t) + 1] = t[Len(t)]
          BY <4>1, <3>4, <3>5
        <5>2. Len(t) = k \/ heap[t[Len(t)]].next = None
          BY <4>1, <3>2 DEF Chain
        <5> QED
          BY <5>1, <5>2, <3>5
      <4>2. CASE Len(t) = 0
        <5>1. Len(s) = 1 /\ s[Len(s)] = m
          BY <4>2, <3>5
        <5>2. k = 0 \/ x = None
          BY <4>2, <3>2, <1>4 DEF Chain
        <5> QED
          BY <5>1, <5>2, <3>a
      <4> QED
        BY <4>1, <4>2, <3>4
    <3>8. Chain(k + 1, m, s)
      BY <3>4, <3>5, <3>6, <3>7, <2>2 DEF Chain
    <3> QED
      BY <3>3, <3>8
  <2> QED
    BY <2>1, <2>2
<1>5. N \in S
  <2> HIDE DEF S
  <2> QED
    BY <1>0, <1>3, <1>4, SetInduction
<1> QED
  BY <1>1, <1>5, <1>0

\* The list of an item that has children holds each of them once, linked both
\* ways; the prev of the first is the last.
LEMMA ListOfChildren ==
  ASSUME heap \in [Node -> Item], live \subseteq Node, Shape(heap, live),
         NEW p \in live, ~heap[p].ref, heap[p].child # None,
         NEW s, s = List(heap[p].child)
  PROVE  /\ s \in Seq(Node) /\ Len(s) \in Nat \ {0}
         /\ \A i \in 1 .. Len(s) : s[i] \in live /\ heap[s[i]].parent = p
         /\ \A i, j \in 1 .. Len(s) : s[i] = s[j] => i = j
         /\ \A i \in 1 .. Len(s) :
              /\ heap[s[i]].prev = IF i = 1 THEN s[Len(s)] ELSE s[i - 1]
              /\ heap[s[i]].next = IF i = Len(s) THEN None ELSE s[i + 1]
         /\ \A m \in live : heap[m].parent = p => \E i \in 1 .. Len(s) : s[i] = m
<1> DEFINE c == heap[p].child
<1>0. N \in Nat /\ None \notin Node /\ None \notin live /\ N > 0
  <2>1. N \in Nat
    BY TreeAssumption
  <2>2. None \notin Node /\ None \notin live
    BY NodesAreFinite
  <2>3. p \in 1 .. N
    BY DEF Node
  <2> QED
    BY <2>1, <2>2, <2>3
<1>1. c \in live /\ heap[c].parent = p /\ c \in Ptr
  BY DEF Shape, Inside, HasChild, Ptr
<1>2. Chain(N, c, s)
  BY <1>1, ListIsChain
<1>a. heap[p].child = c /\ c # None
  OBVIOUS
<1> HIDE DEF c
<1>3. /\ s \in Seq(Node) /\ Len(s) \in Nat \ {0} /\ Len(s) <= N /\ s[1] = c
      /\ \A i \in 1 .. Len(s) - 1 : heap[s[i]].next = s[i + 1]
      /\ Len(s) = N \/ heap[s[Len(s)]].next = None
      /\ \A i \in 1 .. Len(s) : s[i] \in Node
  <2>1. s \in Seq(Node) /\ Len(s) \in Nat
    BY <1>2 DEF Chain
  <2>2. \A i \in 1 .. Len(s) : s[i] \in Node
    BY <2>1
  <2> QED
    BY <2>1, <2>2, <1>0, <1>2, <1>a DEF Chain
<1>4. \A i \in 1 .. Len(s) : s[i] \in live /\ heap[s[i]].parent = p
  <2> DEFINE S == {i \in Nat : i + 1 <= Len(s) => s[i + 1] \in live /\ heap[s[i + 1]].parent = p}
  <2>1. 0 \in S
    BY <1>1, <1>3
  <2>2. ASSUME NEW i \in Nat, i \in S PROVE i + 1 \in S
    <3> SUFFICES ASSUME (i + 1) + 1 <= Len(s)
                 PROVE  s[(i + 1) + 1] \in live /\ heap[s[(i + 1) + 1]].parent = p
      OBVIOUS
    <3>1. i + 1 \in 1 .. Len(s) - 1 /\ (i + 1) + 1 \in 1 .. Len(s) /\ i + 1 <= Len(s)
      BY <1>3
    <3>2. s[i + 1] \in live /\ heap[s[i + 1]].parent = p
      BY <2>2, <3>1
    <3>3. heap[s[i + 1]].next = s[(i + 1) + 1] /\ s[(i + 1) + 1] # None
      BY <3>1, <1>0, <1>3
    <3> QED
      BY <3>2, <3>3 DEF Shape, HasNext, Inside
  <2> HIDE DEF S
  <2>3. Nat \subseteq S
    BY <2>1, <2>2, SetInduction
  <2>4. ASSUME NEW i \in 1 .. Len(s) PROVE s[i] \in live /\ heap[s[i]].parent = p
    <3>1. i - 1 \in S /\ (i - 1) + 1 = i /\ i <= Len(s)
      BY <1>3, <2>3
    <3> QED
      BY <3>1 DEF S
  <2> QED
    BY <2>4
<1>5. \A i \in 1 .. Len(s) - 1 :
        heap[s[i + 1]].prev = s[i] /\ s[i + 1] # c
  <2> SUFFICES ASSUME NEW i \in 1 .. Len(s) - 1 PROVE heap[s[i + 1]].prev = s[i] /\ s[i + 1] # c
    OBVIOUS
  <2>1. i \in 1 .. Len(s) /\ i + 1 \in 1 .. Len(s)
    BY <1>3
  <2>2. s[i] \in live /\ heap[s[i]].parent = p /\ heap[s[i]].next = s[i + 1] /\ s[i + 1] # None
    BY <2>1, <1>0, <1>3, <1>4
  <2> QED
    BY <2>2, <1>a DEF Shape, HasNext
<1>6. \A i, j \in 1 .. Len(s) : s[i] = s[j] => i = j
  <2> DEFINE S == {i \in Nat : \A j \in 1 .. Len(s) : i + 1 < j => s[i + 1] # s[j]}
  <2>1. 0 \in S
    <3> SUFFICES ASSUME NEW j \in 1 .. Len(s), 0 + 1 < j PROVE s[0 + 1] # s[j]
      OBVIOUS
    <3>1. j - 1 \in 1 .. Len(s) - 1 /\ (j - 1) + 1 = j
      BY <1>3
    <3>2. s[(j - 1) + 1] # c
      BY <3>1, <1>5
    <3> QED
      BY <3>1, <3>2, <1>3
  <2>2. ASSUME NEW i \in Nat, i \in S PROVE i + 1 \in S
    <3> SUFFICES ASSUME NEW j \in 1 .. Len(s), (i + 1) + 1 < j, s[(i + 1) + 1] = s[j]
                 PROVE  FALSE
      OBVIOUS
    <3>1. /\ j - 1 \in 1 .. Len(s) - 1 /\ j - 1 \in 1 .. Len(s) /\ (j - 1) + 1 = j
          /\ i + 1 \in 1 .. Len(s) - 1 /\ i + 1 < j - 1
      BY <1>3
    <3>2. heap[s[(j - 1) + 1]].prev = s[j - 1] /\ heap[s[(i + 1) + 1]].prev = s[i + 1]
      BY <3>1, <1>5
    <3>3. s[i + 1] = s[j - 1]
      BY <3>1, <3>2
    <3> QED
      BY <3>1, <3>3, <2>2
  <2> HIDE DEF S
  <2>3. Nat \subseteq S
    BY <2>1, <2>2, SetInduction
  <2>4. ASSUME NEW i \in 1 .. Len(s), NEW j \in 1 .. Len(s), i < j PROVE s[i] # s[j]
    <3>1. i - 1 \in S /\ (i - 1) + 1 = i
      BY <1>3, <2>3
    <3> QED
      BY <3>1, <2>4 DEF S
  <2>5. \A i, j \in 1 .. Len(s) : i < j \/ j < i \/ i = j
    BY <1>3
  <2> QED
    BY <2>4, <2>5
<1>7. heap[s[Len(s)]].next = None
  <2> SUFFICES ASSUME Len(s) = N PROVE FALSE
    BY <1>3
  <2> DEFINE f == [i \in 1 .. N |-> s[i]]
  <2>1. f \in Injection(1 .. N, Node)
    BY <1>3, <1>6 DEF Injection, IsInjective
  <2>2. IsFiniteSet(Node) /\ Cardinality(Node) = N /\ Cardinality(1 .. N) = N
    BY <1>0, NodesAreFinite, FS_Interval
  <2>3. f \in Surjection(1 .. N, Node)
    BY <2>1, <2>2, FS_Injection
  <2>4. p \in Node
    OBVIOUS
  <2>5. PICK i \in 1 .. N : f[i] = p
    BY <2>3, <2>4 DEF Surjection
  <2>6. s[i] = p /\ heap[s[i]].parent = p
    BY <2>5, <1>4
  <2> QED
    BY <2>6, <1>0, NotItself
<1>8. \A m \in live : heap[m].parent = p => \E i \in 1 .. Len(s) : s[i] = m
  <2> DEFINE S == {m \in live : heap[m].parent = p /\ ~\E i \in 1 .. Len(s) : s[i] = m}
  <2>1. ASSUME NEW m \in S PROVE Up(heap, m) \in S
    <3>1. m # c
      BY <1>3
    <3>2. heap[m].prev \in live /\ heap[heap[m].prev].parent = p /\ heap[heap[m].prev].next = m
      BY <3>1, <1>0, <1>a DEF Shape, HasPlace, Inside
    <3>3. ASSUME NEW i \in 1 .. Len(s), s[i] = heap[m].prev PROVE FALSE
      <4>1. i # Len(s)
        BY <3>2, <3>3, <1>0, <1>7
      <4>2. i \in 1 .. Len(s) - 1 /\ i + 1 \in 1 .. Len(s)
        BY <4>1, <1>3
      <4>3. s[i + 1] = m
        BY <4>2, <3>2, <3>3, <1>3
      <4> QED
        BY <4>2, <4>3
    <3>4. Up(heap, m) = heap[m].prev
      BY <3>1, <1>0, <1>a DEF Up
    <3> QED
      BY <3>2, <3>3, <3>4
  <2>2. S \in SUBSET live
    OBVIOUS
  <2> HIDE DEF S
  <2>3. S = {}
    BY <2>1, <2>2 DEF Shape, Grounded
  <2> QED
    BY <2>3 DEF S
<1>9. heap[s[1]].prev = s[Len(s)]
  <2>1. heap[c].prev \in live /\ heap[heap[c].prev].parent = p /\ heap[heap[c].prev].next = None
    BY <1>0, <1>1, <1>a DEF Shape, HasPlace, Inside
  <2>2. PICK j \in 1 .. Len(s) : s[j] = heap[c].prev
    BY <2>1, <1>8
  <2>3. j = Len(s)
    <3> SUFFICES ASSUME j # Len(s) PROVE FALSE
      OBVIOUS
    <3>1. j \in 1 .. Len(s) - 1 /\ j + 1 \in 1 .. Len(s)
      BY <1>3
    <3>2. s[j + 1] = None
      BY <3>1, <2>1, <2>2, <1>3
    <3> QED
      BY <3>1, <3>2, <1>0, <1>3
  <2> QED
    BY <2>2, <2>3, <1>3
<1>10. ASSUME NEW i \in 1 .. Len(s)
       PROVE  /\ heap[s[i]].prev = IF i = 1 THEN s[Len(s)] ELSE s[i - 1]
              /\ heap[s[i]].next = IF i = Len(s) THEN None ELSE s[i + 1]
  <2>1. i # 1 => heap[s[i]].prev = s[i - 1]
    <3> SUFFICES ASSUME i # 1 PROVE heap[s[i]].prev = s[i - 1]
      OBVIOUS
    <3>1. i - 1 \in 1 .. Len(s) - 1 /\ (i - 1) + 1 = i
      BY <1>3
    <3>2. heap[s[(i - 1) + 1]].prev = s[i - 1]
      BY <3>1, <1>5
    <3> QED
      BY <3>1, <3>2
  <2>2. i # Len(s) => heap[s[i]].next = s[i + 1]
    <3>1. i # Len(s) => i \in 1 .. Len(s) - 1
      BY <1>3
    <3> QED
      BY <3>1, <1>3
  <2> QED
    BY <2>1, <2>2, <1>7, <1>9
<1> QED
  BY <1>3, <1>4, <1>6, <1>8, <1>10

\* What is below an item, seen as a set: the items whose parent it is.
LEMMA ItemsAreChildren ==
  ASSUME heap \in [Node -> Item], live \subseteq Node, Shape(heap, live), NEW p \in live
  PROVE  Range(Items(p)) = {m \in live : heap[m].parent = p}
<1>0. None \notin Node /\ None \notin live
  BY NodesAreFinite
<1>1. CASE heap[p].ref
  <2>1. Items(p) = <<>> /\ Range(Items(p)) = {}
    BY <1>1 DEF Items, Range
  <2>2. \A m \in live : heap[m].parent # p
    BY <1>0, <1>1 DEF Shape, HasPlace
  <2> QED
    BY <2>1, <2>2
<1>2. CASE ~heap[p].ref /\ heap[p].child = None
  <2>1. Chain(N, None, List(None))
    BY ListIsChain DEF Ptr
  <2>2. Items(p) = <<>> /\ Range(Items(p)) = {}
    BY <1>2, <2>1 DEF Items, Range, Chain
  <2>3. \A m \in live : heap[m].parent # p
    BY <1>0, <1>2 DEF Shape, HasPlace
  <2> QED
    BY <2>2, <2>3
<1>3. CASE ~heap[p].ref /\ heap[p].child # None
  <2> DEFINE s == List(heap[p].child)
  <2>1. /\ s \in Seq(Node)
        /\ \A i \in 1 .. Len(s) : s[i] \in live /\ heap[s[i]].parent = p
        /\ \A m \in live : heap[m].parent = p => \E i \in 1 .. Len(s) : s[i] = m
    BY <1>3, ListOfChildren
  <2>2. Items(p) = s
    BY <1>3 DEF Items
  <2> HIDE DEF s
  <2>3. DOMAIN s = 1 .. Len(s)
    BY <2>1
  <2>4. Range(s) = {s[i] : i \in 1 .. Len(s)}
    BY <2>3 DEF Range
  <2> QED
    BY <2>1, <2>2, <2>4
<1> QED
  BY <1>1, <1>2, <1>3

-----------------------------------------------------------------------------
(***************************************************************************)
(* New items, and changes that leave the links alone.                      *)
(***************************************************************************)

\* The shape does not depend on names and values.
SameLinks(h, k, L) ==
  \A n \in L : /\ k[n].next = h[n].next /\ k[n].prev = h[n].prev /\ k[n].child = h[n].child
               /\ k[n].parent = h[n].parent /\ k[n].ref = h[n].ref

LEMMA SameLinksSameShape ==
  ASSUME NEW h, NEW k, NEW L, Shape(h, L), None \notin L, SameLinks(h, k, L)
  PROVE  Shape(k, L) /\ \A D, i : Subtree(h, L, D, i) => Subtree(k, L, D, i)
<1> USE DEF SameLinks
<1>1. Inside(k, L) /\ Alone(k, L)
  BY DEF Shape, Inside, Alone
<1>2. HasPlace(k, L)
  BY DEF Shape, HasPlace, Inside
<1>3. HasNext(k, L)
  BY DEF Shape, HasNext, Inside, Alone
<1>4. HasChild(k, L)
  BY DEF Shape, HasChild, Inside
<1>5. Grounded(k, L)
  <2>1. \A n \in L : Up(k, n) = Up(h, n)
    BY DEF Up, Shape, Inside
  <2> QED
    BY <2>1 DEF Shape, Grounded
<1>6. \A D, i : Subtree(h, L, D, i) => Subtree(k, L, D, i)
  BY DEF Subtree
<1> QED
  BY <1>1, <1>2, <1>3, <1>4, <1>5, <1>6 DEF Shape

\* A new item is in no list and has no children; a reference shows some.
LEMMA NewItemKeepsShape ==
  ASSUME NEW h \in [Node -> Item], NEW L \in SUBSET Node, Shape(h, L),
         NEW n \in Node \ L, NEW it \in Item,
         it.next = None, it.prev = None, it.parent = None, it.child \in L \cup {None},
         it.ref \/ it.child = None
  PROVE  LET k == [h EXCEPT ![n] = it] IN
         /\ k \in [Node -> Item] /\ Shape(k, L \cup {n})
         /\ Subtree(k, L \cup {n}, {n}, n)
<1> DEFINE k == [h EXCEPT ![n] = it]
           M == L \cup {n}
<1>0. None \notin Node /\ None \notin M
  BY NodesAreFinite
<1>1. k \in [Node -> Item] /\ k[n] = it /\ \A m \in L : k[m] = h[m]
  OBVIOUS
<1> HIDE DEF k
<1>2. \A m \in L : /\ h[m].next \in L \cup {None} /\ h[m].prev \in L \cup {None}
                   /\ h[m].child \in L \cup {None} /\ h[m].parent \in L \cup {None}
  BY DEF Shape, Inside
<1>3. Inside(k, M) /\ Alone(k, M)
  BY <1>1, <1>2 DEF Shape, Inside, Alone
<1>4. HasPlace(k, M)
  BY <1>0, <1>1, <1>2 DEF Shape, HasPlace
<1>5. HasNext(k, M)
  <2>1. \A m \in L : h[m].next # None => h[m].parent # None
    BY DEF Shape, Alone
  <2> QED
    BY <2>1, <1>0, <1>1, <1>2 DEF Shape, HasNext
<1>6. HasChild(k, M)
  BY <1>0, <1>1, <1>2 DEF Shape, HasChild
<1>7. Grounded(k, M)
  <2> SUFFICES ASSUME NEW S \in SUBSET M, \A m \in S : Up(k, m) \in S PROVE S = {}
    BY DEF Grounded
  <2>1. Up(k, n) = None
    BY <1>1 DEF Up
  <2>2. n \notin S
    BY <2>1, <1>0
  <2>3. \A m \in L : Up(k, m) = Up(h, m)
    BY <1>0, <1>1, <1>2 DEF Up
  <2> QED
    BY <2>2, <2>3 DEF Shape, Grounded
<1>8. Subtree(k, M, {n}, n)
  BY <1>0, <1>1, <1>2 DEF Subtree
<1> QED
  BY <1>1, <1>3, <1>4, <1>5, <1>6, <1>7, <1>8 DEF Shape, k

\* Two heaps side by side.
LEMMA ShapeOfUnion ==
  ASSUME NEW k, NEW L, NEW B, Shape(k, L), Shape(k, B), None \notin L \cup B,
         L \cap B = {}
  PROVE  Shape(k, L \cup B)
<1>1. Inside(k, L \cup B) /\ Alone(k, L \cup B)
  BY DEF Shape, Inside, Alone
<1>2. HasPlace(k, L \cup B)
  BY DEF Shape, HasPlace
<1>3. HasNext(k, L \cup B)
  BY DEF Shape, HasNext
<1>4. HasChild(k, L \cup B)
  BY DEF Shape, HasChild
<1>5. Grounded(k, L \cup B)
  <2> SUFFICES ASSUME NEW S \in SUBSET (L \cup B), \A n \in S : Up(k, n) \in S PROVE S = {}
    BY DEF Grounded
  <2>1. \A n \in L : Up(k, n) \in L \cup {None}
    BY DEF Up, Shape, Inside
  <2>2. \A n \in B : Up(k, n) \in B \cup {None}
    BY DEF Up, Shape, Inside
  <2>3. \A n \in S \cap L : Up(k, n) \in S \cap L
    BY <2>1
  <2>4. \A n \in S \cap B : Up(k, n) \in S \cap B
    BY <2>2
  <2>5. S \cap L = {}
    BY <2>3 DEF Shape, Grounded
  <2>6. S \cap B = {}
    BY <2>4 DEF Shape, Grounded
  <2> QED
    BY <2>5, <2>6
<1> QED
  BY <1>1, <1>2, <1>3, <1>4, <1>5 DEF Shape

\* In k, which is h elsewhere, a is an array of the items of row.
IsArray(h, a, row, value, k) ==
  LET B == {a} \cup Range(row) IN
  /\ k \in [Node -> Item] /\ Shape(k, B)
  /\ \A n \in Node \ B : k[n] = h[n]
  /\ k[a].parent = None /\ k[a].string = None /\ ~k[a].value
  /\ \A n \in Range(row) : /\ k[n].parent = a /\ ~k[n].ref
                           /\ k[n].value = value /\ k[n].string = None

\* What the loops of the Create...Array functions build is one array.
LEMMA FillIsAnArray ==
  ASSUME NEW h \in [Node -> Item], NEW a \in Node, NEW len \in Nat \ {0},
         NEW row \in [1 .. len -> Node], IsInjective(row), a \notin Range(row),
         NEW value \in BOOLEAN
  PROVE  IsArray(h, a, row, value, Fill(h, a, row, value))
<1> DEFINE k == Fill(h, a, row, value)
           B == {a} \cup Range(row)
<1>0. /\ None \notin Node /\ row \in Seq(Node) /\ Len(row) = len /\ DOMAIN row = 1 .. len
      /\ Range(row) = {row[i] : i \in 1 .. len}
      /\ \A i \in 1 .. len : row[i] \in Node /\ row[i] # None /\ row[i] # a
      /\ \A i, j \in 1 .. len : row[i] = row[j] => i = j
  <2>1. None \notin Node
    BY NodesAreFinite
  <2>2. DOMAIN row = 1 .. len /\ Range(row) = {row[i] : i \in 1 .. len}
    BY DEF Range
  <2>3. row \in Seq(Node) /\ Len(row) = len
    BY <2>2
  <2>4. \A i \in 1 .. len : row[i] \in Node /\ row[i] # None /\ row[i] # a
    BY <2>1, <2>2
  <2>5. \A i, j \in 1 .. len : row[i] = row[j] => i = j
    BY <2>2 DEF IsInjective
  <2> QED
    BY <2>1, <2>2, <2>3, <2>4, <2>5
<1> DEFINE at(i) == [Zero EXCEPT !.value = value, !.parent = a,
                       !.next = IF i = len THEN None ELSE row[i + 1],
                       !.prev = IF i = 1 THEN row[len] ELSE row[i - 1]]
<1>1. ASSUME NEW i \in 1 .. len PROVE k[row[i]] = at(i)
  <2> DEFINE j == CHOOSE x \in 1 .. len : row[x] = row[i]
  <2>1. j = i
    <3>1. j \in 1 .. len /\ row[j] = row[i]
      OBVIOUS
    <3> QED
      BY <3>1, <1>0
  <2>2. row[i] \in Node /\ row[i] # a /\ row[i] \in Range(row)
    BY <1>0
  <2>3. k[row[i]] = at(j)
    BY <2>2, <1>0 DEF Fill
  <2> QED
    BY <2>1, <2>3
<1>2. k[a] = [Zero EXCEPT !.child = row[1]] /\ \A n \in Node \ B : k[n] = h[n]
  BY DEF Fill
<1>3. /\ k[a].next = None /\ k[a].prev = None /\ k[a].child = row[1] /\ k[a].parent = None
      /\ k[a].ref = FALSE /\ k[a].string = None /\ ~k[a].value /\ k[a] \in Item
  <2>1. row[1] \in Node
    BY <1>0
  <2> QED
    BY <2>1, <1>2 DEF Zero, Item, Ptr
<1>4. ASSUME NEW i \in 1 .. len
      PROVE  /\ k[row[i]].next = IF i = len THEN None ELSE row[i + 1]
             /\ k[row[i]].prev = IF i = 1 THEN row[len] ELSE row[i - 1]
             /\ k[row[i]].child = None /\ k[row[i]].parent = a
             /\ k[row[i]].ref = FALSE /\ k[row[i]].value = value /\ k[row[i]].string = None
             /\ k[row[i]] \in Item
  <2>1. i # len => row[i + 1] \in Node
    BY <1>0
  <2>2. i # 1 => row[i - 1] \in Node
    BY <1>0
  <2>3. row[len] \in Node
    BY <1>0
  <2> DEFINE next == IF i = len THEN None ELSE row[i + 1]
             prev == IF i = 1 THEN row[len] ELSE row[i - 1]
  <2>4. next \in Ptr /\ prev \in Ptr /\ a \in Ptr /\ None \in Ptr
    BY <2>1, <2>2, <2>3 DEF Ptr
  <2>5. k[row[i]] = [Zero EXCEPT !.value = value, !.parent = a, !.next = next, !.prev = prev]
    BY <1>1
  <2> HIDE DEF next, prev, k
  <2>6. k[row[i]] = [next |-> next, prev |-> prev, child |-> None, string |-> None,
                     const |-> FALSE, ref |-> FALSE, value |-> value, parent |-> a]
    BY <2>5 DEF Zero
  <2>7. k[row[i]] \in Item
    BY <2>4, <2>6 DEF Item
  <2>8. /\ k[row[i]].next = next /\ k[row[i]].prev = prev /\ k[row[i]].child = None
        /\ k[row[i]].parent = a /\ k[row[i]].ref = FALSE /\ k[row[i]].value = value
        /\ k[row[i]].string = None
    BY <2>6
  <2> QED
    BY <2>7, <2>8 DEF next, prev
<1> HIDE DEF at
<1>5. k \in [Node -> Item]
  <2>1. ASSUME NEW n \in Node PROVE k[n] \in Item
    <3>1. CASE n \in Range(row)
      <4>1. PICK i \in 1 .. len : n = row[i]
        BY <3>1, <1>0
      <4> QED
        BY <4>1, <1>4
    <3>2. CASE n = a
      BY <3>2, <1>3
    <3>3. CASE n \notin B
      <4>1. k[n] = h[n]
        BY <3>3, <1>2
      <4> QED
        BY <4>1
    <3> QED
      BY <3>1, <3>2, <3>3
  <2>2. DOMAIN k = Node /\ k = [n \in Node |-> k[n]]
    BY DEF Fill
  <2> QED
    BY <2>1, <2>2
<1> HIDE DEF k
<1>6. Inside(k, B)
  <2>1. \A i \in 1 .. len : row[i] \in B
    BY <1>0
  <2>2. ASSUME NEW i \in 1 .. len
        PROVE  /\ k[row[i]].next \in B \cup {None} /\ k[row[i]].prev \in B \cup {None}
               /\ k[row[i]].child \in B \cup {None} /\ k[row[i]].parent \in B \cup {None}
    <3>1. /\ k[row[i]].next = IF i = len THEN None ELSE row[i + 1]
          /\ k[row[i]].prev = IF i = 1 THEN row[len] ELSE row[i - 1]
          /\ k[row[i]].child = None /\ k[row[i]].parent = a
      BY <1>4
    <3>2. i # len => i + 1 \in 1 .. len
      OBVIOUS
    <3>3. i # 1 => i - 1 \in 1 .. len
      OBVIOUS
    <3>4. len \in 1 .. len
      OBVIOUS
    <3> QED
      BY <3>1, <3>2, <3>3, <3>4, <2>1
  <2>3. 1 \in 1 .. len
    OBVIOUS
  <2> QED
    BY <2>1, <2>2, <2>3, <1>0, <1>3 DEF Inside
<1>a. /\ \A n \in B : n = a \/ \E i \in 1 .. len : n = row[i]
      /\ 1 \in 1 .. len /\ len \in 1 .. len
      /\ \A i \in 1 .. len : /\ i # len => i + 1 \in 1 .. len /\ i + 1 # 1 /\ (i + 1) - 1 = i
                            /\ i # 1 => i - 1 \in 1 .. len /\ i - 1 # len /\ (i - 1) + 1 = i
  BY <1>0
<1>b. \A i \in 1 .. len : /\ k[row[i]].child = None /\ k[row[i]].parent = a
                          /\ k[row[i]].ref = FALSE
  BY <1>4
<1>c. /\ k[row[len]].next = None /\ k[row[1]].prev = row[len]
      /\ \A i \in 1 .. len : i # len => k[row[i]].next = row[i + 1]
      /\ \A i \in 1 .. len : i # 1 => k[row[i]].prev = row[i - 1]
  BY <1>4, <1>a
<1>7. Alone(k, B)
  BY <1>0, <1>3, <1>a, <1>b DEF Alone
<1>8. HasPlace(k, B)
  <2>1. ASSUME NEW i \in 1 .. len
        PROVE  /\ k[row[i]].prev # None /\ k[k[row[i]].prev].parent = a
               /\ k[k[row[i]].prev].next = IF row[1] = row[i] THEN None ELSE row[i]
    <3>1. CASE i = 1
      BY <3>1, <1>0, <1>a, <1>b, <1>c
    <3>2. CASE i # 1
      <4>1. i - 1 \in 1 .. len /\ i - 1 # len /\ (i - 1) + 1 = i
        BY <3>2
      <4>2. k[row[i - 1]].next = row[(i - 1) + 1] /\ k[row[i - 1]].parent = a
        BY <4>1, <1>b, <1>c
      <4>3. k[row[i]].prev = row[i - 1] /\ row[i - 1] # None /\ row[1] # row[i]
        BY <3>2, <4>1, <1>0, <1>a, <1>c
      <4> QED
        BY <4>1, <4>2, <4>3
    <3> QED
      BY <3>1, <3>2
  <2>2. ASSUME NEW n \in B, k[n].parent # None
        PROVE  /\ ~k[k[n].parent].ref /\ k[k[n].parent].child # None /\ k[n].prev # None
               /\ k[k[n].prev].parent = k[n].parent
               /\ k[k[n].prev].next = IF k[k[n].parent].child = n THEN None ELSE n
    <3>1. PICK i \in 1 .. len : n = row[i]
      BY <2>2, <1>3, <1>a
    <3>2. k[n].parent = a
      BY <3>1, <1>b
    <3>3. row[1] # None
      BY <1>0, <1>a
    <3> QED
      BY <3>1, <3>2, <3>3, <2>1, <1>3
  <2> QED
    BY <2>2 DEF HasPlace
<1>9. HasNext(k, B)
  <2>1. ASSUME NEW n \in B, k[n].next # None
        PROVE  /\ k[k[n].next].prev = n /\ k[k[n].next].parent = k[n].parent
               /\ k[k[n].parent].child # k[n].next
    <3>1. PICK i \in 1 .. len : n = row[i]
      BY <2>1, <1>3, <1>a
    <3>2. i # len /\ k[n].next = row[i + 1]
      BY <2>1, <3>1, <1>c
    <3>3. i + 1 \in 1 .. len /\ i + 1 # 1 /\ (i + 1) - 1 = i
      BY <3>2
    <3>4. k[row[i + 1]].prev = row[(i + 1) - 1] /\ k[row[i + 1]].parent = a /\ k[n].parent = a
      BY <3>1, <3>3, <1>b, <1>c
    <3>5. row[1] # row[i + 1]
      BY <3>3, <1>0, <1>a
    <3> QED
      BY <3>1, <3>2, <3>3, <3>4, <3>5, <1>3
  <2> QED
    BY <2>1 DEF HasNext
<1>10. HasChild(k, B)
  BY <1>3, <1>a, <1>b DEF HasChild
<1>11. Grounded(k, B)
  <2> SUFFICES ASSUME NEW S \in SUBSET B, \A n \in S : Up(k, n) \in S PROVE S = {}
    BY DEF Grounded
  <2>1. a \notin S
    <3>1. Up(k, a) = None
      BY <1>3 DEF Up
    <3> QED
      BY <3>1, <1>0
  <2> DEFINE T == {i \in Nat : i + 1 <= len => row[i + 1] \notin S}
  <2>2. 0 \in T
    <3>1. Up(k, row[1]) = a
      BY <1>0, <1>3, <1>a, <1>b DEF Up
    <3> QED
      BY <3>1, <2>1
  <2>3. ASSUME NEW i \in Nat, i \in T PROVE i + 1 \in T
    <3> SUFFICES ASSUME (i + 1) + 1 <= len PROVE row[(i + 1) + 1] \notin S
      OBVIOUS
    <3>1. (i + 1) + 1 \in 1 .. len /\ (i + 1) + 1 # 1 /\ ((i + 1) + 1) - 1 = i + 1 /\ i + 1 <= len
      OBVIOUS
    <3>2. row[i + 1] \notin S
      BY <3>1, <2>3
    <3>3. row[1] # row[(i + 1) + 1]
      BY <3>1, <1>0
    <3>4. k[row[(i + 1) + 1]].prev = row[i + 1] /\ k[row[(i + 1) + 1]].parent = a
      BY <3>1, <1>b, <1>c
    <3>5. Up(k, row[(i + 1) + 1]) = row[i + 1]
      BY <3>3, <3>4, <1>0, <1>3 DEF Up
    <3> QED
      BY <3>2, <3>5
  <2> HIDE DEF T
  <2>4. Nat \subseteq T
    BY <2>2, <2>3, SetInduction
  <2>5. ASSUME NEW i \in 1 .. len PROVE row[i] \notin S
    <3>1. i - 1 \in T /\ (i - 1) + 1 = i /\ i <= len
      BY <2>4
    <3> QED
      BY <3>1 DEF T
  <2> QED
    BY <2>1, <2>5, <1>0
<1>12. Shape(k, B)
  BY <1>6, <1>7, <1>8, <1>9, <1>10, <1>11 DEF Shape
<1>13. \A n \in Range(row) : /\ k[n].parent = a /\ ~k[n].ref
                              /\ k[n].value = value /\ k[n].string = None
  <2> SUFFICES ASSUME NEW n \in Range(row)
               PROVE  /\ k[n].parent = a /\ ~k[n].ref /\ k[n].value = value
                      /\ k[n].string = None
    OBVIOUS
  <2>1. PICK i \in 1 .. len : n = row[i]
    BY <1>0
  <2>2. /\ k[row[i]].parent = a /\ k[row[i]].ref = FALSE /\ k[row[i]].value = value
        /\ k[row[i]].string = None
    BY <1>4
  <2> QED
    BY <2>1, <2>2
<1> QED
  BY <1>2, <1>3, <1>5, <1>12, <1>13 DEF k, IsArray

\* A copy, in fresh blocks, of a tree or of one item without its children.
Copy(h, n, S, f) ==
  LET at(i) == IF i \in S THEN f[i] ELSE None
  IN [m \in Node |->
        IF m \notin Range(f) THEN h[m]
        ELSE LET i == CHOOSE j \in S : f[j] = m IN
             [h[i] EXCEPT
                !.next = IF i = n THEN None ELSE at(@),
                !.prev = IF i = n THEN None ELSE at(@),
                !.child = at(@), !.parent = IF i = n THEN None ELSE at(@)]]

\* Where the copy of x is; what was not copied has none.
Image(S, f, x) == IF x \in S THEN f[x] ELSE None

\* What a copy holds, field by field.
LEMMA CopyFields ==
  ASSUME NEW h \in [Node -> Item], NEW S \in SUBSET Node, NEW n \in S,
         NEW f \in [S -> Node], IsInjective(f)
  PROVE  LET k == Copy(h, n, S, f)
         IN /\ k \in [Node -> Item]
            /\ \A m \in Node \ Range(f) : k[m] = h[m]
            /\ \A i \in S :
                 /\ k[f[i]].next = IF i = n THEN None ELSE Image(S, f, h[i].next)
                 /\ k[f[i]].prev = IF i = n THEN None ELSE Image(S, f, h[i].prev)
                 /\ k[f[i]].child = Image(S, f, h[i].child)
                 /\ k[f[i]].parent = IF i = n THEN None ELSE Image(S, f, h[i].parent)
                 /\ k[f[i]].string = h[i].string /\ k[f[i]].const = h[i].const
                 /\ k[f[i]].ref = h[i].ref /\ k[f[i]].value = h[i].value
<1> DEFINE at(i) == IF i \in S THEN f[i] ELSE None
           k == Copy(h, n, S, f)
<1>1. /\ Range(f) = {f[i] : i \in S} /\ Range(f) \subseteq Node
      /\ \A i, j \in S : f[i] = f[j] => i = j
  BY DEF Range, IsInjective
<1>2. \A x : at(x) \in Ptr
  BY DEF Ptr
<1> DEFINE row(i) == [h[i] EXCEPT
                        !.next = IF i = n THEN None ELSE at(h[i].next),
                        !.prev = IF i = n THEN None ELSE at(h[i].prev),
                        !.child = at(h[i].child),
                        !.parent = IF i = n THEN None ELSE at(h[i].parent)]
<1>3. ASSUME NEW i \in S PROVE k[f[i]] = row(i)
  <2> DEFINE j == CHOOSE x \in S : f[x] = f[i]
  <2>1. j \in S /\ f[j] = f[i]
    OBVIOUS
  <2>2. j = i
    BY <2>1, <1>1
  <2>3. f[i] \in Node /\ f[i] \in Range(f)
    BY <1>1
  <2>4. k[f[i]] = row(j)
    BY <2>3 DEF Copy
  <2> QED
    BY <2>2, <2>4
<1>4. \A m \in Node \ Range(f) : k[m] = h[m]
  BY DEF Copy
<1>5. DOMAIN k = Node /\ k = [m \in Node |-> k[m]]
  BY DEF Copy
<1> HIDE DEF k
<1>6. ASSUME NEW i \in S
      PROVE  /\ k[f[i]].next = (IF i = n THEN None ELSE at(h[i].next))
             /\ k[f[i]].prev = (IF i = n THEN None ELSE at(h[i].prev))
             /\ k[f[i]].child = at(h[i].child)
             /\ k[f[i]].parent = (IF i = n THEN None ELSE at(h[i].parent))
             /\ k[f[i]].string = h[i].string /\ k[f[i]].const = h[i].const
             /\ k[f[i]].ref = h[i].ref /\ k[f[i]].value = h[i].value
             /\ k[f[i]] \in Item
  <2> DEFINE a == IF i = n THEN None ELSE at(h[i].next)
             b == IF i = n THEN None ELSE at(h[i].prev)
             c == at(h[i].child)
             d == IF i = n THEN None ELSE at(h[i].parent)
  <2>1. a \in Ptr /\ b \in Ptr /\ c \in Ptr /\ d \in Ptr
    BY <1>2 DEF Ptr
  <2>2. k[f[i]] = [h[i] EXCEPT !.next = a, !.prev = b, !.child = c, !.parent = d]
    BY <1>3
  <2>3. h[i] \in Item
    OBVIOUS
  <2> HIDE DEF a, b, c, d
  <2>4. /\ k[f[i]].next = a /\ k[f[i]].prev = b /\ k[f[i]].child = c /\ k[f[i]].parent = d
        /\ k[f[i]].string = h[i].string /\ k[f[i]].const = h[i].const
        /\ k[f[i]].ref = h[i].ref /\ k[f[i]].value = h[i].value
        /\ k[f[i]] \in Item
    BY <2>1, <2>2, <2>3 DEF Item
  <2> QED
    BY <2>4 DEF a, b, c, d
<1>7. \A m \in Node : k[m] \in Item
  <2> SUFFICES ASSUME NEW m \in Node PROVE k[m] \in Item
    OBVIOUS
  <2>1. CASE m \in Range(f)
    <3>1. PICK i \in S : m = f[i]
      BY <2>1, <1>1
    <3> QED
      BY <3>1, <1>6
  <2>2. CASE m \notin Range(f)
    <3>1. k[m] = h[m]
      BY <2>2, <1>4
    <3> QED
      BY <3>1
  <2> QED
    BY <2>1, <2>2
<1>8. k \in [Node -> Item]
  BY <1>5, <1>7
<1> QED
  BY <1>4, <1>6, <1>8 DEF k, Image

\* The copy has the shape of what was copied.
LEMMA CopyHasShape ==
  ASSUME NEW h \in [Node -> Item], NEW L \in SUBSET Node, Shape(h, L),
         NEW S \in SUBSET L, NEW n \in S, Subtree(h, L, S, n) \/ S = {n},
         \A i \in S : ~h[i].ref,
         NEW f \in [S -> Node], IsInjective(f)
  PROVE  LET k == Copy(h, n, S, f) IN
         /\ Shape(k, Range(f)) /\ k[f[n]].parent = None
         /\ \A m \in Range(f) : m # f[n] => k[m].parent # None
<1> DEFINE k == Copy(h, n, S, f)
           B == Range(f)
<1>0. None \notin Node /\ None \notin L /\ None \notin S
  BY NodesAreFinite
<1>1. \A i \in S : i # n => /\ h[i].parent \in S /\ h[i].parent # None
                            /\ h[i].next \in S \cup {None} /\ h[i].prev \in S
                            /\ h[h[i].parent].child \in S
  <2>1. CASE S = {n}
    BY <2>1
  <2>2. CASE Subtree(h, L, S, n)
    <3> SUFFICES ASSUME NEW i \in S, i # n
                 PROVE  /\ h[i].parent \in S /\ h[i].parent # None
                        /\ h[i].next \in S \cup {None} /\ h[i].prev \in S
                        /\ h[h[i].parent].child \in S
      OBVIOUS
    <3>1. h[i].parent \in S /\ h[i].parent # None
      BY <2>2, <1>0 DEF Subtree
    <3>2. h[i].next \in S \cup {None}
      <4>1. h[i].next # None => h[i].next \in L /\ h[h[i].next].parent = h[i].parent
        BY DEF Shape, HasNext, Inside
      <4> QED
        BY <4>1, <3>1, <2>2 DEF Subtree
    <3>3. h[i].prev \in S
      <4>1. h[i].prev \in L /\ h[h[i].prev].parent = h[i].parent
        BY <3>1, <1>0 DEF Shape, HasPlace, Inside
      <4> QED
        BY <4>1, <3>1, <2>2 DEF Subtree
    <3>4. h[h[i].parent].child \in S
      <4>1. ~h[h[i].parent].ref /\ h[h[i].parent].child # None
        BY <3>1 DEF Shape, HasPlace
      <4>2. h[h[i].parent].child \in L /\ h[h[h[i].parent].child].parent = h[i].parent
        BY <3>1, <4>1 DEF Shape, HasChild, Inside
      <4> QED
        BY <4>2, <3>1, <2>2 DEF Subtree
    <3> QED
      BY <3>1, <3>2, <3>3, <3>4
  <2> QED
    BY <2>1, <2>2
<1>2. h[n].parent \notin S
  <2>1. CASE S = {n}
    BY <2>1, <1>0, NotItself
  <2>2. CASE Subtree(h, L, S, n)
    BY <2>2, <1>0, ParentIsOutside
  <2> QED
    BY <2>1, <2>2
<1>3. \A i \in S : /\ k[f[i]].next = (IF i = n THEN None ELSE Image(S, f, h[i].next))
                   /\ k[f[i]].prev = (IF i = n THEN None ELSE Image(S, f, h[i].prev))
                   /\ k[f[i]].child = Image(S, f, h[i].child)
                   /\ k[f[i]].parent = (IF i = n THEN None ELSE Image(S, f, h[i].parent))
                   /\ k[f[i]].ref = h[i].ref
  <2>1. S \in SUBSET Node
    OBVIOUS
  <2> HIDE DEF k
  <2> QED
    BY <2>1, CopyFields DEF k
<1>4. /\ B = {f[i] : i \in S}
      /\ \A i \in S : f[i] \in Node /\ f[i] # None
      /\ \A i, j \in S : f[i] = f[j] => i = j
  BY <1>0 DEF Range, IsInjective
<1>5. \A x : /\ x \in S => Image(S, f, x) = f[x] /\ Image(S, f, x) \in B
             /\ x \notin S => Image(S, f, x) = None
  BY <1>4 DEF Image
<1> HIDE DEF k, B
<1>6. /\ k[f[n]].next = None /\ k[f[n]].prev = None /\ k[f[n]].parent = None
  BY <1>3
<1>7. \A i \in S : i # n => /\ k[f[i]].next = Image(S, f, h[i].next) /\ k[f[i]].prev = f[h[i].prev]
                            /\ k[f[i]].parent = f[h[i].parent]
  BY <1>1, <1>3, <1>5
<1>8. Inside(k, B)
  <2>1. ASSUME NEW i \in S
        PROVE  /\ k[f[i]].next \in B \cup {None} /\ k[f[i]].prev \in B \cup {None}
               /\ k[f[i]].child \in B \cup {None} /\ k[f[i]].parent \in B \cup {None}
    BY <1>3, <1>5
  <2> QED
    BY <2>1, <1>4 DEF Inside
<1>9. Alone(k, B)
  <2>1. ASSUME NEW i \in S, k[f[i]].parent = None PROVE i = n
    BY <2>1, <1>1, <1>4, <1>7
  <2> QED
    BY <2>1, <1>4, <1>6 DEF Alone
<1>10. HasPlace(k, B)
  <2>1. ASSUME NEW i \in S, i # n
        PROVE  /\ ~k[k[f[i]].parent].ref /\ k[k[f[i]].parent].child # None
               /\ k[f[i]].prev # None /\ k[k[f[i]].prev].parent = k[f[i]].parent
               /\ k[k[f[i]].prev].next = IF k[k[f[i]].parent].child = f[i] THEN None ELSE f[i]
    <3> DEFINE p == h[i].parent
               q == h[i].prev
               c == h[p].child
    <3>1. p \in S /\ q \in S /\ c \in S
      BY <2>1, <1>1
    <3>2. k[f[i]].parent = f[p] /\ k[f[i]].prev = f[q]
      BY <2>1, <1>7
    <3>3. h[q].parent = p /\ h[q].next = IF c = i THEN None ELSE i
      BY <2>1, <1>1 DEF Shape, HasPlace
    <3>4. q # n
      BY <3>1, <3>3, <1>2
    <3> HIDE DEF p, q
    <3>5. k[f[q]].parent = f[p] /\ k[f[q]].next = Image(S, f, h[q].next)
      BY <3>1, <3>3, <3>4, <1>7
    <3>6. k[f[p]].child = f[c] /\ ~k[f[p]].ref
      BY <3>1, <1>3, <1>5
    <3> HIDE DEF c
    <3>7. CASE c = i
      BY <3>1, <3>2, <3>3, <3>5, <3>6, <3>7, <1>0, <1>4, <1>5
    <3>8. CASE c # i
      BY <3>1, <3>2, <3>3, <3>5, <3>6, <3>8, <1>4, <1>5
    <3> QED
      BY <3>7, <3>8
  <2> QED
    BY <2>1, <1>4, <1>6 DEF HasPlace
<1>11. HasNext(k, B)
  <2>1. ASSUME NEW i \in S, k[f[i]].next # None
        PROVE  /\ k[k[f[i]].next].prev = f[i] /\ k[k[f[i]].next].parent = k[f[i]].parent
               /\ k[k[f[i]].parent].child # k[f[i]].next
    <3> DEFINE x == h[i].next
               p == h[i].parent
    <3>1. i # n
      BY <2>1, <1>6
    <3>2. x \in S /\ k[f[i]].next = f[x] /\ p \in S /\ k[f[i]].parent = f[p]
      BY <2>1, <3>1, <1>1, <1>5, <1>7
    <3>3. h[x].prev = i /\ h[x].parent = p /\ h[p].child # x
      BY <3>2, <1>0 DEF Shape, HasNext
    <3>4. x # n
      BY <3>2, <3>3, <1>2
    <3> HIDE DEF x, p
    <3>5. k[f[x]].prev = f[i] /\ k[f[x]].parent = f[p]
      BY <3>2, <3>3, <3>4, <1>7
    <3>6. k[f[p]].child = Image(S, f, h[p].child)
      BY <3>2, <1>3
    <3>7. Image(S, f, h[p].child) # f[x]
      BY <3>2, <3>3, <1>4, <1>5
    <3> QED
      BY <3>2, <3>5, <3>6, <3>7
  <2> QED
    BY <2>1, <1>4 DEF HasNext
<1>12. HasChild(k, B)
  <2>1. ASSUME NEW i \in S, k[f[i]].child # None PROVE k[k[f[i]].child].parent = f[i]
    <3> DEFINE c == h[i].child
    <3>1. c \in S /\ k[f[i]].child = f[c]
      BY <2>1, <1>3, <1>5
    <3>2. h[c].parent = i
      BY <3>1, <1>0 DEF Shape, HasChild
    <3>3. c # n
      BY <3>2, <1>2
    <3> HIDE DEF c
    <3> QED
      BY <3>1, <3>2, <3>3, <1>7
  <2> QED
    BY <2>1, <1>4 DEF HasChild
<1>13. Grounded(k, B)
  <2> SUFFICES ASSUME NEW T \in SUBSET B, \A m \in T : Up(k, m) \in T PROVE T = {}
    BY DEF Grounded
  <2> DEFINE U == {i \in S : f[i] \in T}
  <2>1. ASSUME NEW i \in U PROVE Up(h, i) \in U
    <3>1. i # n
      <4>1. Up(k, f[n]) = None
        BY <1>6 DEF Up
      <4>2. None \notin B
        BY <1>4
      <4> QED
        BY <4>1, <4>2
    <3>2. h[i].parent \in S /\ h[i].parent # None /\ h[i].prev \in S /\ h[h[i].parent].child \in S
      BY <3>1, <1>1
    <3>3. /\ k[f[i]].parent = f[h[i].parent] /\ k[f[i]].prev = f[h[i].prev]
          /\ k[f[h[i].parent]].child = f[h[h[i].parent].child]
      BY <3>1, <3>2, <1>3, <1>5, <1>7
    <3>4. Up(k, f[i]) = f[Up(h, i)] /\ Up(h, i) \in S
      BY <3>2, <3>3, <1>4 DEF Up
    <3> QED
      BY <3>4
  <2>2. U \in SUBSET L
    OBVIOUS
  <2> HIDE DEF U
  <2>3. U = {}
    BY <2>1, <2>2 DEF Shape, Grounded
  <2> QED
    BY <2>3, <1>4 DEF U
<1>14. \A m \in B : m # f[n] => k[m].parent # None
  <2>1. ASSUME NEW i \in S, i # n PROVE k[f[i]].parent # None
    BY <2>1, <1>1, <1>4, <1>7
  <2> QED
    BY <2>1, <1>4
<1>15. Shape(k, B)
  BY <1>8, <1>9, <1>10, <1>11, <1>12, <1>13 DEF Shape
<1> QED
  BY <1>6, <1>14, <1>15 DEF k, B

-----------------------------------------------------------------------------
(***************************************************************************)
(* Counting the strings that items own.                                    *)
(***************************************************************************)
NamesOwned(h, S)  == {i \in S : h[i].string # None /\ ~h[i].const}
ValuesOwned(h, S) == {i \in S : h[i].value /\ ~h[i].ref}
Owned(h, S)       == Cardinality(NamesOwned(h, S)) + Cardinality(ValuesOwned(h, S))

\* The count of CJsonTree, for the heap as it is.
LEMMA OwnedByIsOwned ==
  ASSUME NEW S
  PROVE  OwnedBy(S) = Owned(heap, S)
BY DEF OwnedBy, Owned, NamesOwned, ValuesOwned

LEMMA OwnedIsNat ==
  ASSUME NEW h, NEW S \in SUBSET Node
  PROVE  Owned(h, S) \in Nat
<1>1. NamesOwned(h, S) \in SUBSET Node /\ ValuesOwned(h, S) \in SUBSET Node
  BY DEF NamesOwned, ValuesOwned
<1>2. Cardinality(NamesOwned(h, S)) \in Nat /\ Cardinality(ValuesOwned(h, S)) \in Nat
  BY <1>1, NodesAreFinite
<1> QED
  BY <1>2 DEF Owned

\* Disjoint sets of blocks are counted apart.
LEMMA CardinalityOfUnion ==
  ASSUME NEW S \in SUBSET Node, NEW T \in SUBSET Node, S \cap T = {}
  PROVE  Cardinality(S \cup T) = Cardinality(S) + Cardinality(T)
<1>1. IsFiniteSet(S) /\ IsFiniteSet(T) /\ Cardinality(S) \in Nat /\ Cardinality(T) \in Nat
  BY NodesAreFinite
<1>2. Cardinality(S \cup T) = Cardinality(S) + Cardinality(T) - Cardinality(S \cap T)
  BY <1>1, FS_Union
<1>3. Cardinality(S \cap T) = 0
  BY FS_EmptySet
<1> QED
  BY <1>1, <1>2, <1>3

LEMMA OwnedOfUnion ==
  ASSUME NEW h, NEW S \in SUBSET Node, NEW T \in SUBSET Node, S \cap T = {}
  PROVE  Owned(h, S \cup T) = Owned(h, S) + Owned(h, T)
<1>1. /\ NamesOwned(h, S) \in SUBSET Node /\ NamesOwned(h, T) \in SUBSET Node
      /\ NamesOwned(h, S) \cap NamesOwned(h, T) = {}
      /\ NamesOwned(h, S \cup T) = NamesOwned(h, S) \cup NamesOwned(h, T)
  BY DEF NamesOwned
<1>2. /\ ValuesOwned(h, S) \in SUBSET Node /\ ValuesOwned(h, T) \in SUBSET Node
      /\ ValuesOwned(h, S) \cap ValuesOwned(h, T) = {}
      /\ ValuesOwned(h, S \cup T) = ValuesOwned(h, S) \cup ValuesOwned(h, T)
  BY DEF ValuesOwned
<1>3. Cardinality(NamesOwned(h, S \cup T))
        = Cardinality(NamesOwned(h, S)) + Cardinality(NamesOwned(h, T))
  BY <1>1, CardinalityOfUnion
<1>4. Cardinality(ValuesOwned(h, S \cup T))
        = Cardinality(ValuesOwned(h, S)) + Cardinality(ValuesOwned(h, T))
  BY <1>2, CardinalityOfUnion
<1>5. /\ Cardinality(NamesOwned(h, S)) \in Nat /\ Cardinality(NamesOwned(h, T)) \in Nat
      /\ Cardinality(ValuesOwned(h, S)) \in Nat /\ Cardinality(ValuesOwned(h, T)) \in Nat
  BY <1>1, <1>2, NodesAreFinite
<1> QED
  BY <1>3, <1>4, <1>5 DEF Owned

\* The count depends on what is owned only.
SameOwned(h, k, S) ==
  \A n \in S : /\ k[n].string = h[n].string /\ k[n].const = h[n].const
               /\ k[n].ref = h[n].ref /\ k[n].value = h[n].value

LEMMA OwnedSame ==
  ASSUME NEW h, NEW k, NEW S, SameOwned(h, k, S)
  PROVE  Owned(k, S) = Owned(h, S)
<1>1. NamesOwned(k, S) = NamesOwned(h, S) /\ ValuesOwned(k, S) = ValuesOwned(h, S)
  BY DEF NamesOwned, ValuesOwned, SameOwned
<1> QED
  BY <1>1 DEF Owned

\* One item owns at most its name and its value.
LEMMA OwnedOfOne ==
  ASSUME NEW h, NEW i
  PROVE  Owned(h, {i}) = (IF h[i].string # None /\ ~h[i].const THEN 1 ELSE 0)
                         + (IF h[i].value /\ ~h[i].ref THEN 1 ELSE 0)
<1>1. Cardinality({i}) = 1 /\ Cardinality({}) = 0
  BY FS_Singleton, FS_EmptySet
<1>2. Cardinality(NamesOwned(h, {i})) = IF h[i].string # None /\ ~h[i].const THEN 1 ELSE 0
  <2>1. NamesOwned(h, {i}) = IF h[i].string # None /\ ~h[i].const THEN {i} ELSE {}
    BY DEF NamesOwned
  <2> QED
    BY <1>1, <2>1
<1>3. Cardinality(ValuesOwned(h, {i})) = IF h[i].value /\ ~h[i].ref THEN 1 ELSE 0
  <2>1. ValuesOwned(h, {i}) = IF h[i].value /\ ~h[i].ref THEN {i} ELSE {}
    BY DEF ValuesOwned
  <2> QED
    BY <1>1, <2>1
<1> QED
  BY <1>2, <1>3 DEF Owned

\* An item that is changed changes the count by its own.
LEMMA OwnedAfterChange ==
  ASSUME NEW h, NEW k, NEW L \in SUBSET Node, NEW x \in L, SameOwned(h, k, L \ {x})
  PROVE  Owned(k, L) = Owned(h, L) - Owned(h, {x}) + Owned(k, {x})
<1>1. L \ {x} \in SUBSET Node /\ {x} \in SUBSET Node /\ (L \ {x}) \cap {x} = {}
      /\ L = (L \ {x}) \cup {x}
  OBVIOUS
<1>2. Owned(h, L) = Owned(h, L \ {x}) + Owned(h, {x})
  BY <1>1, OwnedOfUnion
<1>3. Owned(k, L) = Owned(k, L \ {x}) + Owned(k, {x})
  BY <1>1, OwnedOfUnion
<1>4. Owned(k, L \ {x}) = Owned(h, L \ {x})
  BY OwnedSame
<1>5. Owned(h, L \ {x}) \in Nat /\ Owned(h, {x}) \in Nat /\ Owned(k, {x}) \in Nat
  BY <1>1, OwnedIsNat
<1> QED
  BY <1>2, <1>3, <1>4, <1>5

\* A numbering loses nothing.
LEMMA CardinalityOfImage ==
  ASSUME NEW S \in SUBSET Node, NEW f \in [S -> Node], IsInjective(f), NEW T \in SUBSET S
  PROVE  Cardinality({f[i] : i \in T}) = Cardinality(T)
<1> DEFINE g == [i \in T |-> f[i]]
           U == {f[i] : i \in T}
<1>1. \A i, j \in S : f[i] = f[j] => i = j
  BY DEF IsInjective
<1>2. g \in Bijection(T, U)
  BY <1>1 DEF Bijection, Injection, Surjection, IsInjective
<1>3. IsFiniteSet(T)
  BY NodesAreFinite
<1> QED
  BY <1>2, <1>3, FS_Bijection DEF ExistsBijection

\* A copy owns as much as what was copied.
LEMMA OwnedByCopy ==
  ASSUME NEW h, NEW k, NEW S \in SUBSET Node, NEW f \in [S -> Node], IsInjective(f),
         \A i \in S : /\ k[f[i]].string = h[i].string /\ k[f[i]].const = h[i].const
                      /\ k[f[i]].ref = h[i].ref /\ k[f[i]].value = h[i].value
  PROVE  Owned(k, Range(f)) = Owned(h, S)
<1>1. Range(f) = {f[i] : i \in S}
  BY DEF Range
<1>2. NamesOwned(k, Range(f)) = {f[i] : i \in NamesOwned(h, S)}
  BY <1>1 DEF NamesOwned
<1>3. ValuesOwned(k, Range(f)) = {f[i] : i \in ValuesOwned(h, S)}
  BY <1>1 DEF ValuesOwned
<1>4. NamesOwned(h, S) \in SUBSET S /\ ValuesOwned(h, S) \in SUBSET S
  BY DEF NamesOwned, ValuesOwned
<1>5. Cardinality({f[i] : i \in NamesOwned(h, S)}) = Cardinality(NamesOwned(h, S))
  BY <1>4, CardinalityOfImage
<1>6. Cardinality({f[i] : i \in ValuesOwned(h, S)}) = Cardinality(ValuesOwned(h, S))
  BY <1>4, CardinalityOfImage
<1> QED
  BY <1>2, <1>3, <1>5, <1>6 DEF Owned

\* Nothing, or one string each, is owned by items without a name.
LEMMA OwnedByUnnamed ==
  ASSUME NEW h, NEW S \in SUBSET Node, NEW value \in BOOLEAN,
         \A n \in S : h[n].string = None /\ ~h[n].ref /\ h[n].value = value
  PROVE  Owned(h, S) = IF value THEN Cardinality(S) ELSE 0
<1>1. NamesOwned(h, S) = {} /\ ValuesOwned(h, S) = IF value THEN S ELSE {}
  BY DEF NamesOwned, ValuesOwned
<1>2. Cardinality({}) = 0 /\ Cardinality(S) \in Nat
  BY FS_EmptySet, NodesAreFinite
<1> QED
  BY <1>1, <1>2 DEF Owned

-----------------------------------------------------------------------------
(***************************************************************************)
(* The heap, its roots and its strings under each kind of step.  s counts  *)
(* the strings.                                                            *)
(***************************************************************************)
Good(h, L, R, s) ==
  /\ h \in [Node -> Item] /\ L \subseteq Node
  /\ Shape(h, L) /\ Owners(h, L, R)
  /\ s = Owned(h, L)

LEMMA GoodIsIInv == IInv <=> app \in App /\ Good(heap, live, roots, strings)
BY OwnedByIsOwned DEF IInv, Good

LEMMA GoodFacts ==
  ASSUME NEW h, NEW L, NEW R, NEW s, Good(h, L, R, s)
  PROVE  /\ h \in [Node -> Item] /\ L \in SUBSET Node /\ Shape(h, L) /\ None \notin L
         /\ R \subseteq L /\ s \in Nat /\ s = Owned(h, L)
         /\ \A n \in R : n \in L /\ h[n].parent = None
<1>1. None \notin L
  BY NodesAreFinite DEF Good
<1> QED
  BY <1>1, OwnedIsNat DEF Good, Owners

\* A new item is a root, or a reference that leaks.
LEMMA GoodNewItem ==
  ASSUME NEW h, NEW L, NEW R, NEW s, Good(h, L, R, s),
         NEW n \in Node \ L, NEW it \in Item,
         it.next = None, it.prev = None, it.parent = None, it.child \in L \cup {None},
         it.ref \/ it.child = None
  PROVE  LET k == [h EXCEPT ![n] = it]
             t == s + Owned(k, {n})
         IN /\ Good(k, L \cup {n}, R \cup {n}, t)
            /\ it.ref => Good(k, L \cup {n}, R, t)
            /\ Subtree(k, L \cup {n}, {n}, n)
<1> DEFINE k == [h EXCEPT ![n] = it]
           t == s + Owned(k, {n})
<1>1. /\ h \in [Node -> Item] /\ L \in SUBSET Node /\ Shape(h, L) /\ s = Owned(h, L)
      /\ R \subseteq L
  BY GoodFacts
<1>2. k \in [Node -> Item] /\ Shape(k, L \cup {n}) /\ Subtree(k, L \cup {n}, {n}, n)
  BY <1>1, NewItemKeepsShape
<1>3. k[n] = it /\ \A m \in L : k[m] = h[m]
  BY <1>1
<1> HIDE DEF k
<1>4. t = Owned(k, L \cup {n})
  <2>1. Owned(k, L \cup {n}) = Owned(k, L) + Owned(k, {n})
    BY <1>1, OwnedOfUnion
  <2>2. SameOwned(h, k, L)
    BY <1>3 DEF SameOwned
  <2> QED
    BY <2>1, <2>2, <1>1, OwnedSame
<1>5. Owners(k, L \cup {n}, R \cup {n})
  BY <1>1, <1>3 DEF Owners, Good
<1>6. it.ref => Owners(k, L \cup {n}, R)
  BY <1>1, <1>3 DEF Owners, Good
<1> HIDE DEF t
<1>7. /\ Good(k, L \cup {n}, R \cup {n}, t)
      /\ it.ref => Good(k, L \cup {n}, R, t)
  BY <1>1, <1>2, <1>4, <1>5, <1>6 DEF Good
<1> QED
  BY <1>2, <1>7 DEF k, t

\* Names and what is owned change, links do not.
LEMMA GoodRelabelled ==
  ASSUME NEW h, NEW L, NEW R, NEW s, Good(h, L, R, s), NEW k \in [Node -> Item],
         SameLinks(h, k, L), NEW x \in L, SameOwned(h, k, L \ {x})
  PROVE  /\ Good(k, L, R, s - Owned(h, {x}) + Owned(k, {x}))
         /\ \A D, i : Subtree(h, L, D, i) => Subtree(k, L, D, i)
<1>1. L \in SUBSET Node /\ Shape(h, L) /\ None \notin L /\ s = Owned(h, L)
  BY GoodFacts
<1>2. Shape(k, L) /\ \A D, i : Subtree(h, L, D, i) => Subtree(k, L, D, i)
  BY <1>1, SameLinksSameShape
<1>3. Owned(k, L) = s - Owned(h, {x}) + Owned(k, {x})
  BY <1>1, OwnedAfterChange
<1>4. Owners(k, L, R)
  BY DEF Good, Owners, SameLinks
<1> QED
  BY <1>1, <1>2, <1>3, <1>4 DEF Good

\* 1 if item i of h has a name of its own.
NameOf(h, i) == IF h[i].string # None /\ ~h[i].const THEN 1 ELSE 0

LEMMA GoodNamed ==
  ASSUME NEW h, NEW L, NEW R, NEW s, Good(h, L, R, s), NEW x \in L, NEW m \in Names
  PROVE  LET k == Named(h, x, m) IN
         /\ Good(k, L, R, s - NameOf(h, x) + Copied(m))
         /\ \A D, i : Subtree(h, L, D, i) => Subtree(k, L, D, i)
         /\ \A n \in Node : k[n].parent = h[n].parent /\ k[n].ref = h[n].ref /\ k[n].child = h[n].child
         /\ \A n \in Node \ {x} : k[n] = h[n]
<1> DEFINE k == Named(h, x, m)
           c == m \in ConstName
<1>1. h \in [Node -> Item] /\ x \in Node /\ L \in SUBSET Node /\ s \in Nat
  BY GoodFacts
<1>2. /\ \A n \in Node \ {x} : k[n] = h[n]
      /\ k[x] = [h[x] EXCEPT !.string = m, !.const = c]
      /\ k = [n \in Node |-> k[n]]
  BY <1>1 DEF Named, Item
<1>3. c \in BOOLEAN /\ h[x] \in Item
  BY <1>1
<1> HIDE DEF k, c
<1>4. /\ k[x] \in Item /\ k[x].string = m /\ k[x].const = c /\ k[x].next = h[x].next
      /\ k[x].prev = h[x].prev /\ k[x].child = h[x].child /\ k[x].parent = h[x].parent
      /\ k[x].ref = h[x].ref /\ k[x].value = h[x].value
  BY <1>2, <1>3 DEF Item
<1>5. k \in [Node -> Item]
  <2>1. \A n \in Node : k[n] \in Item
    BY <1>1, <1>2, <1>4
  <2> QED
    BY <2>1, <1>2
<1>6. SameLinks(h, k, L) /\ SameOwned(h, k, L \ {x})
  BY <1>1, <1>2, <1>4 DEF SameLinks, SameOwned
<1>7. /\ Good(k, L, R, s - Owned(h, {x}) + Owned(k, {x}))
      /\ \A D, i : Subtree(h, L, D, i) => Subtree(k, L, D, i)
  BY <1>5, <1>6, GoodRelabelled
<1>8. s - Owned(h, {x}) + Owned(k, {x}) = s - NameOf(h, x) + Copied(m)
  <2>1. m # None /\ (m \in Name <=> ~(m \in ConstName))
    BY TreeAssumption DEF Names
  <2> DEFINE v == IF h[x].value /\ ~h[x].ref THEN 1 ELSE 0
  <2>2. Owned(h, {x}) = NameOf(h, x) + v
    BY OwnedOfOne DEF NameOf
  <2>3. Owned(k, {x}) = Copied(m) + v
    <3>1. (IF k[x].string # None /\ ~k[x].const THEN 1 ELSE 0) = Copied(m)
      BY <1>4, <2>1 DEF Copied, c
    <3>2. (IF k[x].value /\ ~k[x].ref THEN 1 ELSE 0) = v
      BY <1>4
    <3>3. Owned(k, {x}) = (IF k[x].string # None /\ ~k[x].const THEN 1 ELSE 0)
                          + (IF k[x].value /\ ~k[x].ref THEN 1 ELSE 0)
      BY OwnedOfOne
    <3> QED
      BY <3>1, <3>2, <3>3
  <2>4. v \in Nat /\ NameOf(h, x) \in Nat /\ Copied(m) \in Nat
    BY DEF NameOf, Copied
  <2> HIDE DEF v
  <2> QED
    BY <2>2, <2>3, <2>4, <1>1
<1>9. \A n \in Node : k[n].parent = h[n].parent /\ k[n].ref = h[n].ref /\ k[n].child = h[n].child
  BY <1>2, <1>4
<1> QED
  BY <1>2, <1>7, <1>8, <1>9 DEF k

LEMMA GoodUnnamed ==
  ASSUME NEW h, NEW L, NEW R, NEW s, Good(h, L, R, s), NEW x \in L
  PROVE  Good([h EXCEPT ![x].string = None], L, R, s - NameOf(h, x))
<1> DEFINE k == [h EXCEPT ![x].string = None]
<1>1. h \in [Node -> Item] /\ x \in Node /\ L \in SUBSET Node /\ s \in Nat
  BY GoodFacts
<1>2. /\ \A n \in Node \ {x} : k[n] = h[n]
      /\ k[x] = [h[x] EXCEPT !.string = None]
      /\ k = [n \in Node |-> k[n]]
  BY <1>1 DEF Item
<1>3. h[x] \in Item
  BY <1>1
<1> HIDE DEF k
<1>4. /\ k[x] \in Item /\ k[x].string = None /\ k[x].next = h[x].next
      /\ k[x].prev = h[x].prev /\ k[x].child = h[x].child /\ k[x].parent = h[x].parent
      /\ k[x].ref = h[x].ref /\ k[x].value = h[x].value
  BY <1>2, <1>3 DEF Item
<1>5. k \in [Node -> Item]
  <2>1. \A n \in Node : k[n] \in Item
    BY <1>1, <1>2, <1>4
  <2> QED
    BY <2>1, <1>2
<1>6. SameLinks(h, k, L) /\ SameOwned(h, k, L \ {x})
  BY <1>1, <1>2, <1>4 DEF SameLinks, SameOwned
<1>7. Good(k, L, R, s - Owned(h, {x}) + Owned(k, {x}))
  BY <1>5, <1>6, GoodRelabelled
<1>8. s - Owned(h, {x}) + Owned(k, {x}) = s - NameOf(h, x)
  <2> DEFINE v == IF h[x].value /\ ~h[x].ref THEN 1 ELSE 0
  <2>1. Owned(h, {x}) = NameOf(h, x) + v
    BY OwnedOfOne DEF NameOf
  <2>2. Owned(k, {x}) = 0 + v
    BY <1>4, OwnedOfOne
  <2>3. v \in Nat /\ NameOf(h, x) \in Nat
    BY DEF NameOf
  <2> HIDE DEF v
  <2> QED
    BY <2>1, <2>2, <2>3, <1>1
<1> QED
  BY <1>7, <1>8 DEF k

\* An item goes to the end of the list of p.
LEMMA GoodAddItem ==
  ASSUME NEW h, NEW L, NEW R, NEW s, Good(h, L, R, s),
         NEW p \in L, ~h[p].ref, NEW x \in R, NEW D, Subtree(h, L, D, x), p \notin D
  PROVE  Good(AddItem(h, p, x), L, R \ {x}, s)
<1> DEFINE k == AddItem(h, p, x)
<1>1. /\ h \in [Node -> Item] /\ L \in SUBSET Node /\ Shape(h, L) /\ s = Owned(h, L)
      /\ None \notin L /\ x \in L /\ h[x].parent = None
  BY GoodFacts
<1>2. /\ k \in [Node -> Item] /\ Shape(k, L) /\ SameData(h, k)
      /\ \A n \in Node : k[n].parent = IF n = x THEN p ELSE h[n].parent
  BY <1>1, AddItemKeepsShape
<1> HIDE DEF k
<1>3. Owned(k, L) = s
  BY <1>1, <1>2, OwnedSame DEF SameData, SameOwned
<1>4. Owners(k, L, R \ {x})
  BY <1>1, <1>2 DEF Good, Owners, SameData
<1>5. Good(k, L, R \ {x}, s)
  BY <1>1, <1>2, <1>3, <1>4 DEF Good
<1> QED
  BY <1>5 DEF k

\* An item goes in front of item i of p.
LEMMA GoodInsert ==
  ASSUME NEW h, NEW L, NEW R, NEW s, Good(h, L, R, s),
         NEW p \in L, NEW i \in L, h[i].parent = p, NEW x \in R,
         NEW D, Subtree(h, L, D, x), p \notin D
  PROVE  Good(InsertBefore(h, p, i, x), L, R \ {x}, s)
<1> DEFINE k == InsertBefore(h, p, i, x)
<1>1. /\ h \in [Node -> Item] /\ L \in SUBSET Node /\ Shape(h, L) /\ s = Owned(h, L)
      /\ None \notin L /\ x \in L /\ h[x].parent = None
  BY GoodFacts
<1>2. /\ k \in [Node -> Item] /\ Shape(k, L) /\ SameData(h, k)
      /\ \A n \in Node : k[n].parent = IF n = x THEN p ELSE h[n].parent
  BY <1>1, InsertKeepsShape
<1> HIDE DEF k
<1>3. Owned(k, L) = s
  BY <1>1, <1>2, OwnedSame DEF SameData, SameOwned
<1>4. Owners(k, L, R \ {x})
  BY <1>1, <1>2 DEF Good, Owners, SameData
<1>5. Good(k, L, R \ {x}, s)
  BY <1>1, <1>2, <1>3, <1>4 DEF Good
<1> QED
  BY <1>5 DEF k

\* Item i of p is taken out, and is a root from then on.
LEMMA GoodDetach ==
  ASSUME NEW h, NEW L, NEW R, NEW s, Good(h, L, R, s),
         NEW p \in L, NEW i \in L, h[i].parent = p
  PROVE  Good(Detach(h, p, i), L, R \cup {i}, s)
<1> DEFINE k == Detach(h, p, i)
<1>1. /\ h \in [Node -> Item] /\ L \in SUBSET Node /\ Shape(h, L) /\ s = Owned(h, L)
      /\ None \notin L
  BY GoodFacts
<1>2. /\ k \in [Node -> Item] /\ Shape(k, L) /\ SameData(h, k)
      /\ \A n \in Node : k[n].parent = IF n = i THEN None ELSE h[n].parent
  BY <1>1, DetachKeepsShape
<1> HIDE DEF k
<1>3. Owned(k, L) = s
  BY <1>1, <1>2, OwnedSame DEF SameData, SameOwned
<1>4. Owners(k, L, R \cup {i})
  BY <1>1, <1>2 DEF Good, Owners, SameData
<1>5. Good(k, L, R \cup {i}, s)
  BY <1>1, <1>2, <1>3, <1>4 DEF Good
<1> QED
  BY <1>5 DEF k

\* Root x takes the place of item i of p.
LEMMA GoodReplace ==
  ASSUME NEW h, NEW L, NEW R, NEW s, Good(h, L, R, s),
         NEW p \in L, NEW i \in L, h[i].parent = p, NEW x \in R,
         NEW D, Subtree(h, L, D, x), p \notin D
  PROVE  Good(Replace(h, p, i, x), L, (R \ {x}) \cup {i}, s)
<1> DEFINE k == Replace(h, p, i, x)
<1>1. /\ h \in [Node -> Item] /\ L \in SUBSET Node /\ Shape(h, L) /\ s = Owned(h, L)
      /\ None \notin L /\ x \in L /\ h[x].parent = None
  BY GoodFacts
<1>2. /\ k \in [Node -> Item] /\ Shape(k, L) /\ SameData(h, k)
      /\ \A n \in Node : k[n].parent = IF n = i THEN None ELSE IF n = x THEN p ELSE h[n].parent
  BY <1>1, ReplaceKeepsShape
<1> HIDE DEF k
<1>3. Owned(k, L) = s
  BY <1>1, <1>2, OwnedSame DEF SameData, SameOwned
<1>4. i # x
  BY <1>1
<1>5. Owners(k, L, (R \ {x}) \cup {i})
  BY <1>1, <1>2, <1>4 DEF Good, Owners, SameData
<1>6. Good(k, L, (R \ {x}) \cup {i}, s)
  BY <1>1, <1>2, <1>3, <1>5 DEF Good
<1> QED
  BY <1>6 DEF k

\* Whole trees that nothing shows are given back.
LEMMA GoodRemove ==
  ASSUME NEW h, NEW L, NEW R, NEW s, Good(h, L, R, s), NEW D, Whole(h, L, D),
         \A n \in L \ D : ~(h[n].ref /\ h[n].child \in D)
  PROVE  Good([n \in Node |-> IF n \in D THEN Zero ELSE h[n]], L \ D, R \ D, s - Owned(h, D))
<1> DEFINE k == [n \in Node |-> IF n \in D THEN Zero ELSE h[n]]
<1>1. /\ h \in [Node -> Item] /\ L \in SUBSET Node /\ Shape(h, L) /\ s = Owned(h, L)
      /\ None \notin L /\ D \in SUBSET Node /\ D \subseteq L
  BY GoodFacts DEF Whole
<1>2. k \in [Node -> Item] /\ \A n \in L \ D : k[n] = h[n]
  <2>1. Zero \in Item
    BY DEF Zero, Item, Ptr
  <2> QED
    BY <2>1, <1>1
<1> HIDE DEF k
<1>3. Shape(k, L \ D)
  BY <1>1, <1>2, RemoveTrees
<1>4. Owned(k, L \ D) = s - Owned(h, D)
  <2>1. (L \ D) \in SUBSET Node /\ (L \ D) \cap D = {} /\ L = (L \ D) \cup D
    BY <1>1
  <2>2. Owned(h, L) = Owned(h, L \ D) + Owned(h, D)
    BY <1>1, <2>1, OwnedOfUnion
  <2>3. Owned(k, L \ D) = Owned(h, L \ D)
    <3>1. SameOwned(h, k, L \ D)
      BY <1>2 DEF SameOwned
    <3> QED
      BY <3>1, OwnedSame
  <2>4. Owned(h, L \ D) \in Nat /\ Owned(h, D) \in Nat
    BY <1>1, <2>1, OwnedIsNat
  <2> QED
    BY <1>1, <2>2, <2>3, <2>4
<1>5. Owners(k, L \ D, R \ D)
  BY <1>1, <1>2 DEF Good, Owners
<1>6. Good(k, L \ D, R \ D, s - Owned(h, D))
  BY <1>1, <1>2, <1>3, <1>4, <1>5 DEF Good
<1> QED
  BY <1>6 DEF k

\* A tree is built beside the others.
LEMMA GoodUnion ==
  ASSUME NEW h, NEW L, NEW R, NEW s, Good(h, L, R, s), NEW k \in [Node -> Item],
         NEW B \in SUBSET Node, L \cap B = {}, \A n \in L : k[n] = h[n], Shape(k, B),
         NEW a \in B, k[a].parent = None, \A n \in B : n # a => k[n].parent # None
  PROVE  Good(k, L \cup B, R \cup {a}, s + Owned(k, B))
<1>1. /\ h \in [Node -> Item] /\ L \in SUBSET Node /\ Shape(h, L) /\ s = Owned(h, L)
      /\ None \notin L /\ None \notin B
  BY GoodFacts, NodesAreFinite
<1>2. SameLinks(h, k, L) /\ SameOwned(h, k, L)
  BY DEF SameLinks, SameOwned
<1>3. Shape(k, L)
  BY <1>1, <1>2, SameLinksSameShape
<1>4. Shape(k, L \cup B)
  BY <1>1, <1>3, ShapeOfUnion
<1>5. Owned(k, L \cup B) = s + Owned(k, B)
  BY <1>1, <1>2, OwnedOfUnion, OwnedSame
<1>6. Owners(k, L \cup B, R \cup {a})
  BY <1>1 DEF Good, Owners
<1>7. L \cup B \subseteq Node
  BY <1>1
<1> QED
  BY <1>4, <1>5, <1>6, <1>7 DEF Good

-----------------------------------------------------------------------------
(***************************************************************************)
(* What the searches find.                                                 *)
(***************************************************************************)

LEMMA ListIsSequence ==
  ASSUME heap \in [Node -> Item], NEW n \in Ptr
  PROVE  List(n) \in Seq(Node)
BY ListIsChain DEF Chain

\* In an array or object both find a child.
LEMMA GetArrayItemFindsAChild ==
  ASSUME heap \in [Node -> Item], live \subseteq Node, Shape(heap, live),
         NEW p, Holds(p), NEW which, GetArrayItem(p, which) # None
  PROVE  GetArrayItem(p, which) \in live /\ heap[GetArrayItem(p, which)].parent = p
<1> DEFINE s == List(heap[p].child)
           i == GetArrayItem(p, which)
<1>1. p \in live /\ p \in Node /\ ~heap[p].ref /\ heap[p].child \in Ptr
  BY DEF Holds, Item
<1>2. s \in Seq(Node) /\ Len(s) \in Nat
  BY <1>1, ListIsSequence
<1>3. Items(p) = s
  BY <1>1 DEF Items
<1>4. which \in 0 .. Len(s) - 1 /\ i = s[which + 1]
  BY DEF GetArrayItem, GetArraySize
<1> HIDE DEF s, i
<1>5. which + 1 \in 1 .. Len(s) /\ DOMAIN s = 1 .. Len(s)
  BY <1>2, <1>4
<1>6. i \in Range(s)
  BY <1>4, <1>5 DEF Range
<1>7. i \in live /\ heap[i].parent = p
  BY <1>1, <1>3, <1>6, ItemsAreChildren
<1> QED
  BY <1>7 DEF i

\* A set of numbers with members has a least one.
LEMMA LeastNumber ==
  ASSUME NEW S \in SUBSET Nat, S # {}
  PROVE  \E i \in S : \A j \in S : i <= j
<1> SUFFICES ASSUME \A i \in S : \E j \in S : ~(i <= j) PROVE FALSE
  OBVIOUS
<1> DEFINE T == {n \in Nat : \A i \in S : n <= i}
<1>1. 0 \in T
  OBVIOUS
<1>2. ASSUME NEW n \in Nat, n \in T PROVE n + 1 \in T
  <2>1. ASSUME NEW i \in S PROVE n + 1 <= i
    <3>1. n <= i /\ i \in Nat
      BY <1>2
    <3>2. n # i
      <4>1. PICK j \in S : ~(i <= j)
        OBVIOUS
      <4>2. n <= j
        BY <1>2
      <4> QED
        BY <4>1, <4>2
    <3> QED
      BY <3>1, <3>2
  <2> QED
    BY <2>1
<1> HIDE DEF T
<1>3. Nat \subseteq T
  BY <1>1, <1>2, SetInduction
<1>4. PICK i \in S : TRUE
  OBVIOUS
<1>5. i + 1 \in T
  BY <1>3, <1>4
<1>6. i + 1 <= i
  BY <1>4, <1>5 DEF T
<1> QED
  BY <1>4, <1>6

LEMMA GetObjectItemFindsAChild ==
  ASSUME heap \in [Node -> Item], live \subseteq Node, Shape(heap, live),
         NEW p, Holds(p), NEW m, NEW sensitive, GetObjectItem(p, m, sensitive) # None
  PROVE  /\ GetObjectItem(p, m, sensitive) \in live
         /\ heap[GetObjectItem(p, m, sensitive)].parent = p
<1> DEFINE s == List(heap[p].child)
           n == GetObjectItem(p, m, sensitive)
           stops(i) == IF sensitive THEN heap[s[i]].string \in {None, m}
                       ELSE /\ heap[s[i]].string # None
                            /\ Lower[heap[s[i]].string] = Lower[m]
           found == {i \in DOMAIN s : stops(i)}
           first == CHOOSE j \in found : \A k \in found : j <= k
<1>1. p \in live /\ p \in Node /\ ~heap[p].ref /\ heap[p].child \in Ptr
  BY DEF Holds, Item
<1>2. s \in Seq(Node) /\ Len(s) \in Nat /\ DOMAIN s = 1 .. Len(s)
  BY <1>1, ListIsSequence
<1>3. Items(p) = s
  BY <1>1 DEF Items
<1>4. n = IF found = {} THEN None
          ELSE IF heap[s[first]].string = None THEN None ELSE s[first]
  BY DEF GetObjectItem
<1>5. found \in SUBSET Nat /\ found \subseteq DOMAIN s
  BY <1>2
<1>a. n # None
  OBVIOUS
<1> HIDE DEF s, n, found, first
<1>6. found # {} /\ n = s[first]
  BY <1>4, <1>a
<1>7. first \in found
  <2>1. \E j \in found : \A k \in found : j <= k
    BY <1>5, <1>6, LeastNumber
  <2> QED
    BY <2>1 DEF first
<1>8. n \in Range(s)
  BY <1>5, <1>6, <1>7 DEF Range
<1>9. n \in live /\ heap[n].parent = p
  BY <1>1, <1>3, <1>8, ItemsAreChildren
<1> QED
  BY <1>9 DEF n

-----------------------------------------------------------------------------
(***************************************************************************)
(* The calls.                                                              *)
(***************************************************************************)

\* Every step lands here, with app unchanged.
GoodNext == Good(heap', live', roots', strings')

\* A root can be added to what is not below it.
LEMMA LooseIsSubtree ==
  ASSUME IInv, NEW x, NEW p, Loose(x, p)
  PROVE  /\ x \in roots /\ x \in live /\ heap[x].parent = None
         /\ Subtree(heap, live, Deleted(x), x) /\ p \notin Deleted(x)
<1>1. Good(heap, live, roots, strings)
  BY GoodIsIInv
<1>2. x \in roots /\ x \in live /\ heap[x].parent = None /\ p \notin Deleted(x)
  BY <1>1, GoodFacts DEF Loose
<1>3. Subtree(heap, live, Deleted(x), x)
  BY <1>1, <1>2, DeletedIsSubtree DEF Good
<1> QED
  BY <1>2, <1>3

\* The fresh block is free.
LEMMA FreshBlock ==
  ASSUME IInv, CanAllocate(1)
  PROVE  Fresh \in Node \ live
BY FreshIsFree DEF IInv

LEMMA CreateItemStep ==
  ASSUME IInv, NEW value \in BOOLEAN, CreateItem(value)
  PROVE  GoodNext
<1> DEFINE n == Fresh
           it == [Zero EXCEPT !.value = value]
           k == [heap EXCEPT ![n] = it]
           t == strings + Owned(k, {n})
<1>1. Good(heap, live, roots, strings) /\ n \in Node \ live /\ heap \in [Node -> Item]
  BY GoodIsIInv, FreshBlock DEF CreateItem, IInv
<1>2. /\ it \in Item /\ it.next = None /\ it.prev = None /\ it.parent = None
      /\ it.child = None /\ it.value = value /\ it.string = None /\ it.ref = FALSE
  BY DEF Zero, Item, Ptr
<1>3. k[n] = it
  BY <1>1
<1>4. heap' = k /\ live' = live \cup {n} /\ roots' = roots \cup {n}
      /\ strings' = strings + IF value THEN 1 ELSE 0
  BY DEF CreateItem
<1> HIDE DEF n, it
<1>5. Good(k, live \cup {n}, roots \cup {n}, t)
  BY <1>1, <1>2, GoodNewItem
<1> HIDE DEF k
<1>6. Owned(k, {n}) = 0 + IF value THEN 1 ELSE 0
  BY <1>2, <1>3, OwnedOfOne
<1>7. strings' = t
  BY <1>4, <1>6
<1> QED
  BY <1>4, <1>5, <1>7 DEF GoodNext

LEMMA CreateReferenceStep ==
  ASSUME IInv, NEW c \in live, CreateReference(c)
  PROVE  GoodNext
<1> DEFINE n == Fresh
           it == [Zero EXCEPT !.ref = TRUE, !.child = c]
           k == [heap EXCEPT ![n] = it]
           t == strings + Owned(k, {n})
<1>1. /\ Good(heap, live, roots, strings) /\ n \in Node \ live /\ heap \in [Node -> Item]
      /\ live \subseteq Node /\ strings \in Nat
  BY GoodIsIInv, GoodFacts, FreshBlock DEF CreateReference
<1>2. /\ it \in Item /\ it.next = None /\ it.prev = None /\ it.parent = None
      /\ it.child = c /\ it.value = FALSE /\ it.string = None /\ it.ref = TRUE
  BY <1>1 DEF Zero, Item, Ptr
<1>3. k[n] = it
  BY <1>1
<1>4. heap' = k /\ live' = live \cup {n} /\ roots' = roots \cup {n} /\ strings' = strings
  BY DEF CreateReference
<1> HIDE DEF n, it
<1>5. Good(k, live \cup {n}, roots \cup {n}, t)
  BY <1>1, <1>2, GoodNewItem
<1> HIDE DEF k
<1>6. Owned(k, {n}) = 0 + 0
  BY <1>2, <1>3, OwnedOfOne
<1>7. strings' = t
  BY <1>1, <1>4, <1>6
<1> QED
  BY <1>4, <1>5, <1>7 DEF GoodNext

LEMMA CreateStringReferenceStep ==
  ASSUME IInv, CreateStringReference
  PROVE  GoodNext
<1> DEFINE n == Fresh
           it == [Zero EXCEPT !.ref = TRUE, !.value = TRUE]
           k == [heap EXCEPT ![n] = it]
           t == strings + Owned(k, {n})
<1>1. /\ Good(heap, live, roots, strings) /\ n \in Node \ live /\ heap \in [Node -> Item]
      /\ strings \in Nat
  BY GoodIsIInv, GoodFacts, FreshBlock DEF CreateStringReference
<1>2. /\ it \in Item /\ it.next = None /\ it.prev = None /\ it.parent = None
      /\ it.child = None /\ it.value = TRUE /\ it.string = None /\ it.ref = TRUE
  BY DEF Zero, Item, Ptr
<1>3. k[n] = it
  BY <1>1
<1>4. heap' = k /\ live' = live \cup {n} /\ roots' = roots \cup {n} /\ strings' = strings
  BY DEF CreateStringReference
<1> HIDE DEF n, it
<1>5. Good(k, live \cup {n}, roots \cup {n}, t)
  BY <1>1, <1>2, GoodNewItem
<1> HIDE DEF k
<1>6. Owned(k, {n}) = 0 + 0
  BY <1>2, <1>3, OwnedOfOne
<1>7. strings' = t
  BY <1>1, <1>4, <1>6
<1> QED
  BY <1>4, <1>5, <1>7 DEF GoodNext

\* The blocks of a new array: the array, and a row of items.
LEMMA FilledBlocks ==
  ASSUME IInv, NEW len \in Nat \ {0}, NEW value \in BOOLEAN, CreateFilledArray(len, value)
  PROVE  \E a \in Node, row \in [1 .. len -> Node] :
           /\ IsInjective(row) /\ a \notin Range(row)
           /\ live \cap ({a} \cup Range(row)) = {} /\ {a} \cup Range(row) \subseteq Node
           /\ IsArray(heap, a, row, value, heap')
           /\ live' = live \cup ({a} \cup Range(row)) /\ roots' = roots \cup {a}
           /\ strings' = strings + IF value THEN len ELSE 0
<1> DEFINE blocks == FreshRow(len + 1)
           a == blocks[1]
           row == Tail(blocks)
           k == Fill(heap, a, row, value)
           B == {a} \cup Range(row)
<1>1. /\ Good(heap, live, roots, strings) /\ heap \in [Node -> Item] /\ app \in App
      /\ live \subseteq Node
  BY GoodIsIInv, GoodFacts
<1>2. blocks \in [1 .. len + 1 -> Node \ live] /\ IsInjective(blocks)
  <2>1. CanAllocate(len + 1) /\ len + 1 \in Nat
    BY DEF CreateFilledArray
  <2> QED
    BY <2>1, <1>1, FreshRows
<1>3. /\ heap' = k /\ live' = live \cup Range(blocks) /\ roots' = roots \cup {a}
      /\ strings' = strings + IF value THEN len ELSE 0
  BY DEF CreateFilledArray
<1> HIDE DEF blocks
<1>4. /\ blocks \in Seq(Node \ live) /\ Len(blocks) = len + 1
      /\ \A i \in 1 .. len + 1 : blocks[i] \in Node \ live
      /\ \A i, j \in 1 .. len + 1 : blocks[i] = blocks[j] => i = j
      /\ Range(blocks) = {blocks[i] : i \in 1 .. len + 1}
  <2>1. DOMAIN blocks = 1 .. len + 1 /\ len + 1 \in Nat
    BY <1>2
  <2>2. blocks \in Seq(Node \ live) /\ Len(blocks) = len + 1
    BY <1>2, <2>1
  <2>3. \A i \in 1 .. len + 1 : blocks[i] \in Node \ live
    BY <1>2
  <2>4. \A i, j \in 1 .. len + 1 : blocks[i] = blocks[j] => i = j
    BY <1>2, <2>1 DEF IsInjective
  <2>5. Range(blocks) = {blocks[i] : i \in 1 .. len + 1}
    BY <2>1 DEF Range
  <2> QED
    BY <2>2, <2>3, <2>4, <2>5
<1>5. /\ row \in [1 .. len -> Node] /\ IsInjective(row) /\ a \in Node /\ a \notin Range(row)
      /\ B = Range(blocks) /\ Range(row) = {row[i] : i \in 1 .. len}
  <2>1. row \in Seq(Node \ live) /\ Len(row) = len /\ \A i \in 1 .. len : row[i] = blocks[i + 1]
    BY <1>4
  <2>2. DOMAIN row = 1 .. len
    BY <2>1
  <2>3. \A i \in 1 .. len : i + 1 \in 1 .. len + 1 /\ i + 1 # 1
    OBVIOUS
  <2>a. 1 \in 1 .. len + 1
    OBVIOUS
  <2>b. a \in Node /\ a = blocks[1]
    BY <2>a, <1>4
  <2> HIDE DEF row, a
  <2>4. \A i \in 1 .. len : row[i] \in Node /\ row[i] # a
    BY <2>1, <2>3, <2>a, <2>b, <1>4
  <2>5. row \in [1 .. len -> Node]
    BY <2>1, <2>2, <2>4
  <2>6. IsInjective(row)
    <3>1. ASSUME NEW i \in 1 .. len, NEW j \in 1 .. len, row[i] = row[j] PROVE i = j
      <4>1. i + 1 = j + 1
        BY <3>1, <2>1, <2>3, <1>4
      <4> QED
        BY <4>1
    <3> QED
      BY <3>1, <2>2 DEF IsInjective
  <2>7. Range(row) = {row[i] : i \in 1 .. len}
    BY <2>2 DEF Range
  <2>8. B = Range(blocks)
    <3>1. ASSUME NEW i \in 1 .. len + 1 PROVE blocks[i] \in B
      <4>1. CASE i = 1
        BY <4>1, <2>b
      <4>2. CASE i # 1
        <5>1. i - 1 \in 1 .. len /\ (i - 1) + 1 = i
          BY <4>2
        <5>2. row[i - 1] = blocks[(i - 1) + 1]
          BY <5>1, <2>1
        <5> QED
          BY <5>1, <5>2, <2>7
      <4> QED
        BY <4>1, <4>2
    <3>2. ASSUME NEW i \in 1 .. len PROVE row[i] \in Range(blocks)
      BY <2>1, <2>3, <1>4
    <3>3. a \in Range(blocks)
      BY <2>a, <2>b, <1>4
    <3> QED
      BY <3>1, <3>2, <3>3, <2>7, <1>4
  <2> QED
    BY <2>4, <2>5, <2>6, <2>7, <2>8, <2>b
<1> HIDE DEF a, row
<1>6. IsArray(heap, a, row, value, k)
  <2>1. row \in [1 .. len -> Node] /\ IsInjective(row) /\ a \in Node /\ a \notin Range(row)
    BY <1>5
  <2>2. heap \in [Node -> Item]
    BY <1>1
  <2> QED
    BY <2>1, <2>2, FillIsAnArray
<1>7. B \subseteq Node /\ live \cap B = {} /\ live' = live \cup B
  <2>1. Range(blocks) \subseteq Node /\ live \cap Range(blocks) = {}
    BY <1>4
  <2>2. B = Range(blocks) /\ live' = live \cup Range(blocks)
    BY <1>3, <1>5
  <2> HIDE DEF B
  <2> QED
    BY <2>1, <2>2
<1> HIDE DEF k
<1> QED
  BY <1>3, <1>5, <1>6, <1>7

LEMMA CreateFilledArrayStep ==
  ASSUME IInv, NEW len \in Nat \ {0}, NEW value \in BOOLEAN, CreateFilledArray(len, value)
  PROVE  GoodNext
<1>1. PICK a \in Node, row \in [1 .. len -> Node] :
        /\ IsInjective(row) /\ a \notin Range(row)
        /\ live \cap ({a} \cup Range(row)) = {} /\ {a} \cup Range(row) \subseteq Node
        /\ IsArray(heap, a, row, value, heap')
        /\ live' = live \cup ({a} \cup Range(row)) /\ roots' = roots \cup {a}
        /\ strings' = strings + IF value THEN len ELSE 0
  BY FilledBlocks
<1> DEFINE B == {a} \cup Range(row)
           t == strings + Owned(heap', B)
<1>2. /\ Good(heap, live, roots, strings) /\ live \subseteq Node /\ strings \in Nat
  BY GoodIsIInv, GoodFacts
<1>3. /\ heap' \in [Node -> Item] /\ Shape(heap', B)
      /\ \A n \in Node \ B : heap'[n] = heap[n]
      /\ heap'[a].parent = None /\ heap'[a].string = None /\ ~heap'[a].value
      /\ \A n \in Range(row) : /\ heap'[n].parent = a /\ ~heap'[n].ref
                               /\ heap'[n].value = value /\ heap'[n].string = None
  BY <1>1 DEF IsArray
<1>4. /\ B \in SUBSET Node /\ live \cap B = {} /\ a \in B /\ Range(row) \in SUBSET Node
      /\ {a} \cap Range(row) = {}
  BY <1>1
<1>5. Good(heap', live \cup B, roots \cup {a}, t)
  <2>1. \A n \in live : heap'[n] = heap[n]
    BY <1>2, <1>3, <1>4
  <2>2. \A n \in B : n # a => heap'[n].parent # None
    BY <1>3, NodesAreFinite
  <2> HIDE DEF B
  <2> QED
    BY <1>2, <1>3, <1>4, <2>1, <2>2, GoodUnion
<1>6. Owned(heap', B) = IF value THEN len ELSE 0
  <2>1. Owned(heap', {a}) = 0 + 0
    BY <1>3, OwnedOfOne
  <2>2. Owned(heap', Range(row)) = IF value THEN Cardinality(Range(row)) ELSE 0
    BY <1>3, <1>4, OwnedByUnnamed
  <2>3. Cardinality(Range(row)) = len
    <3>1. row \in Bijection(1 .. len, Range(row))
      <4>1. Range(row) = {row[i] : i \in 1 .. len}
        BY DEF Range
      <4> QED
        BY <4>1, <1>1 DEF Bijection, Injection, Surjection
    <3>2. IsFiniteSet(1 .. len) /\ Cardinality(1 .. len) = len
      BY FS_Interval
    <3> QED
      BY <3>1, <3>2, FS_Bijection DEF ExistsBijection
  <2>4. Owned(heap', B) = Owned(heap', {a}) + Owned(heap', Range(row))
    BY <1>4, OwnedOfUnion
  <2> QED
    BY <2>1, <2>2, <2>3, <2>4
<1>7. strings' = t
  BY <1>1, <1>6
<1> QED
  BY <1>1, <1>5, <1>7 DEF GoodNext

LEMMA AddItemToArrayStep ==
  ASSUME IInv, NEW p, NEW i, AddItemToArray(p, i)
  PROVE  GoodNext
<1>1. Good(heap, live, roots, strings) /\ p \in live /\ ~heap[p].ref
  BY GoodIsIInv DEF AddItemToArray, Holds
<1>2. i \in roots /\ Subtree(heap, live, Deleted(i), i) /\ p \notin Deleted(i)
  BY LooseIsSubtree DEF AddItemToArray
<1>3. Good(AddItem(heap, p, i), live, roots \ {i}, strings)
  BY <1>1, <1>2, GoodAddItem
<1> QED
  BY <1>3 DEF AddItemToArray, GoodNext

LEMMA AddItemToObjectStep ==
  ASSUME IInv, NEW p, NEW m \in Names, NEW i, AddItemToObject(p, m, i)
  PROVE  GoodNext
<1> DEFINE k == Named(heap, i, m)
           D == Deleted(i)
           t == strings - NameOf(heap, i) + Copied(m)
<1>1. Good(heap, live, roots, strings) /\ p \in live /\ p \in Node /\ ~heap[p].ref
  BY GoodIsIInv, GoodFacts DEF AddItemToObject, Holds
<1>2. i \in roots /\ i \in live /\ Subtree(heap, live, D, i) /\ p \notin D
  BY LooseIsSubtree DEF AddItemToObject
<1>3. /\ heap' = AddItem(k, p, i) /\ roots' = roots \ {i} /\ live' = live
      /\ strings' = t
  BY DEF AddItemToObject, AddNamed, NameOf, NameOwned
<1>4. /\ Good(k, live, roots, t)
      /\ \A E, j : Subtree(heap, live, E, j) => Subtree(k, live, E, j)
      /\ k[p].ref = heap[p].ref
  BY <1>1, <1>2, GoodNamed
<1>5. ~k[p].ref /\ Subtree(k, live, D, i)
  BY <1>1, <1>2, <1>4
<1> HIDE DEF k, t, D
<1>6. Good(AddItem(k, p, i), live, roots \ {i}, t)
  BY <1>1, <1>2, <1>4, <1>5, GoodAddItem
<1> QED
  BY <1>3, <1>6 DEF GoodNext

\* A new item, or a new reference, with a name or without one, is added to p.
LEMMA GoodAddNew ==
  ASSUME NEW h, NEW L, NEW R, NEW s, Good(h, L, R, s), NEW p \in L, ~h[p].ref,
         NEW n \in Node \ L, NEW it \in Item,
         it.next = None, it.prev = None, it.parent = None, it.child \in L \cup {None},
         it.ref \/ it.child = None, it.string = None
  PROVE  LET k == [h EXCEPT ![n] = it]
             v == IF it.value /\ ~it.ref THEN 1 ELSE 0
         IN /\ Good(AddItem(k, p, n), L \cup {n}, R, s + v)
            /\ \A m \in Names : Good(AddItem(Named(k, n, m), p, n), L \cup {n}, R, s + v + Copied(m))
            /\ it.ref => Good(k, L \cup {n}, R, s + v)
<1> DEFINE k == [h EXCEPT ![n] = it]
           v == IF it.value /\ ~it.ref THEN 1 ELSE 0
           M == L \cup {n}
<1>1. h \in [Node -> Item] /\ L \in SUBSET Node /\ R \subseteq L /\ s \in Nat
  BY GoodFacts
<1>2. k[n] = it /\ k[p] = h[p]
  BY <1>1
<1>3. /\ Good(k, M, R \cup {n}, s + Owned(k, {n}))
      /\ it.ref => Good(k, M, R, s + Owned(k, {n}))
      /\ Subtree(k, M, {n}, n)
  BY GoodNewItem
<1> HIDE DEF k
<1>4. Owned(k, {n}) = v
  <2>1. (IF k[n].string # None /\ ~k[n].const THEN 1 ELSE 0) = 0
    BY <1>2
  <2>2. (IF k[n].value /\ ~k[n].ref THEN 1 ELSE 0) = v
    BY <1>2
  <2>3. Owned(k, {n}) = (IF k[n].string # None /\ ~k[n].const THEN 1 ELSE 0)
                        + (IF k[n].value /\ ~k[n].ref THEN 1 ELSE 0)
    BY OwnedOfOne
  <2>4. v \in Nat
    OBVIOUS
  <2> HIDE DEF v
  <2> QED
    BY <2>1, <2>2, <2>3, <2>4
<1>5. v \in Nat
  OBVIOUS
<1> HIDE DEF v
<1>6. /\ Good(k, M, R \cup {n}, s + v) /\ Subtree(k, M, {n}, n)
      /\ p \in M /\ ~k[p].ref /\ p \notin {n} /\ n \in R \cup {n} /\ n \in M
      /\ (R \cup {n}) \ {n} = R
  BY <1>1, <1>2, <1>3, <1>4
<1> HIDE DEF M
<1>7. Good(AddItem(k, p, n), M, R, s + v)
  <2>1. Good(AddItem(k, p, n), M, (R \cup {n}) \ {n}, s + v)
    BY <1>6, GoodAddItem
  <2> QED
    BY <1>6, <2>1
<1>8. ASSUME NEW m \in Names
      PROVE  Good(AddItem(Named(k, n, m), p, n), M, R, s + v + Copied(m))
  <2> DEFINE g == Named(k, n, m)
             t == s + v - NameOf(k, n) + Copied(m)
  <2>1. /\ Good(g, M, R \cup {n}, t)
        /\ \A E, j : Subtree(k, M, E, j) => Subtree(g, M, E, j)
        /\ \A j \in Node : g[j].ref = k[j].ref
    <3> DEFINE Q == R \cup {n}
               u == s + v
    <3>1. Good(k, M, Q, u) /\ n \in M
      BY <1>6
    <3> HIDE DEF Q, u, g, t
    <3>a. g = Named(k, n, m)
      BY DEF g
    <3>b. NameOf(k, n) \in Nat /\ Copied(m) \in Nat
      BY DEF NameOf, Copied
    <3>c. t = u - NameOf(k, n) + Copied(m)
      BY <3>b, <1>1, <1>5 DEF t, u
    <3>2. /\ Good(Named(k, n, m), M, Q, u - NameOf(k, n) + Copied(m))
          /\ \A E, j : Subtree(k, M, E, j) => Subtree(Named(k, n, m), M, E, j)
      BY <3>1, GoodNamed
    <3>3. \A j \in Node : Named(k, n, m)[j].ref = k[j].ref
      BY <3>1, GoodNamed
    <3> QED
      BY <3>2, <3>3, <3>a, <3>c DEF Q
  <2>2. p \in Node
    BY <1>1
  <2>3. ~g[p].ref /\ Subtree(g, M, {n}, n)
    BY <1>6, <2>1, <2>2
  <2>4. NameOf(k, n) = 0
    BY <1>2 DEF NameOf
  <2>5. t = s + v + Copied(m)
    BY <2>4, <1>1, <1>5 DEF Copied
  <2> HIDE DEF g, t
  <2>6. Good(AddItem(g, p, n), M, (R \cup {n}) \ {n}, t)
    BY <1>6, <2>1, <2>3, GoodAddItem
  <2> QED
    BY <1>6, <2>5, <2>6 DEF g
<1>9. it.ref => Good(k, M, R, s + v)
  BY <1>3, <1>4 DEF M
<1> QED
  BY <1>7, <1>8, <1>9 DEF k, v, M

LEMMA AddNewToObjectStep ==
  ASSUME IInv, NEW p, NEW m \in Names, NEW value \in BOOLEAN, AddNewToObject(p, m, value)
  PROVE  GoodNext
<1> DEFINE n == Fresh
           it == [Zero EXCEPT !.value = value]
           k == [heap EXCEPT ![n] = it]
           v == IF value THEN 1 ELSE 0
           w == IF it.value /\ ~it.ref THEN 1 ELSE 0
<1>1. /\ Good(heap, live, roots, strings) /\ n \in Node \ live /\ p \in live /\ ~heap[p].ref
      /\ strings \in Nat
  BY GoodIsIInv, GoodFacts, FreshBlock DEF AddNewToObject, Holds
<1>2. /\ it \in Item /\ it.next = None /\ it.prev = None /\ it.parent = None
      /\ it.child = None /\ it.value = value /\ it.string = None /\ it.ref = FALSE
  BY DEF Zero, Item, Ptr
<1>3. /\ heap' = AddItem(Named(k, n, m), p, n) /\ live' = live \cup {n} /\ roots' = roots
      /\ strings' = strings + Copied(m) + v
  BY DEF AddNewToObject
<1> HIDE DEF n, it
<1>4. Good(AddItem(Named(k, n, m), p, n), live \cup {n}, roots, strings + w + Copied(m))
  BY <1>1, <1>2, GoodAddNew
<1>5. w = v /\ v \in Nat
  BY <1>2
<1>6. Copied(m) \in Nat
  BY DEF Copied
<1> HIDE DEF v, w, k
<1>7. strings' = strings + w + Copied(m)
  BY <1>1, <1>3, <1>5, <1>6
<1> QED
  BY <1>3, <1>4, <1>7 DEF GoodNext

\* A reference is an item without a name and neighbours, and owns nothing.
LEMMA ReferenceFields ==
  ASSUME heap \in [Node -> Item], NEW n \in Node
  PROVE  LET it == Reference(n) IN
         /\ it \in Item /\ it.next = None /\ it.prev = None /\ it.parent = None
         /\ it.child = heap[n].child /\ it.string = None /\ it.ref = TRUE
         /\ it.value = heap[n].value
<1>1. heap[n] \in Item
  OBVIOUS
<1> QED
  BY <1>1 DEF Reference, Item, Ptr

LEMMA AddItemReferenceToArrayStep ==
  ASSUME IInv, NEW p, NEW n \in live, AddItemReferenceToArray(p, n)
  PROVE  GoodNext
<1> DEFINE r == Fresh
           it == Reference(n)
           k == [heap EXCEPT ![r] = it]
           w == IF it.value /\ ~it.ref THEN 1 ELSE 0
<1>1. /\ Good(heap, live, roots, strings) /\ r \in Node \ live /\ p \in live /\ ~heap[p].ref
      /\ strings \in Nat /\ heap \in [Node -> Item] /\ n \in Node
      /\ heap[n].child \in live \cup {None}
  BY GoodIsIInv, GoodFacts, FreshBlock DEF AddItemReferenceToArray, Holds, IInv, Shape, Inside
<1>2. /\ it \in Item /\ it.next = None /\ it.prev = None /\ it.parent = None
      /\ it.child \in live \cup {None} /\ it.string = None /\ it.ref = TRUE
  BY <1>1, ReferenceFields
<1>3. /\ heap' = AddItem(k, p, r) /\ live' = live \cup {r} /\ roots' = roots
      /\ strings' = strings
  BY DEF AddItemReferenceToArray
<1> HIDE DEF r, it
<1>4. Good(AddItem(k, p, r), live \cup {r}, roots, strings + w)
  BY <1>1, <1>2, GoodAddNew
<1>5. strings' = strings + w
  BY <1>1, <1>2, <1>3
<1> HIDE DEF k, w
<1> QED
  BY <1>3, <1>4, <1>5 DEF GoodNext

LEMMA AddItemReferenceToObjectStep ==
  ASSUME IInv, NEW p, NEW m \in Name, NEW n \in live, AddItemReferenceToObject(p, m, n)
  PROVE  GoodNext
<1> DEFINE r == Fresh
           it == Reference(n)
           k == [heap EXCEPT ![r] = it]
           w == IF it.value /\ ~it.ref THEN 1 ELSE 0
<1>1. /\ Good(heap, live, roots, strings) /\ r \in Node \ live /\ p \in live /\ ~heap[p].ref
      /\ strings \in Nat /\ heap \in [Node -> Item] /\ n \in Node
      /\ heap[n].child \in live \cup {None}
  BY GoodIsIInv, GoodFacts, FreshBlock DEF AddItemReferenceToObject, Holds, IInv, Shape, Inside
<1>2. /\ it \in Item /\ it.next = None /\ it.prev = None /\ it.parent = None
      /\ it.child \in live \cup {None} /\ it.string = None /\ it.ref = TRUE
  BY <1>1, ReferenceFields
<1>3. /\ live' = live \cup {r} /\ roots' = roots
      /\ \/ heap' = AddItem(Named(k, r, m), p, r) /\ strings' = strings + 1
         \/ heap' = k /\ strings' = strings
  BY DEF AddItemReferenceToObject
<1>4. m \in Names /\ Copied(m) = 1
  BY DEF Names, Copied
<1> HIDE DEF r, it
<1>5. /\ Good(AddItem(Named(k, r, m), p, r), live \cup {r}, roots, strings + w + Copied(m))
      /\ Good(k, live \cup {r}, roots, strings + w)
  BY <1>1, <1>2, <1>4, GoodAddNew
<1>6. w = 0 /\ strings + w + Copied(m) = strings + 1 /\ strings + w = strings
  BY <1>1, <1>2, <1>4
<1> HIDE DEF k, w
<1>7. /\ Good(AddItem(Named(k, r, m), p, r), live \cup {r}, roots, strings + 1)
      /\ Good(k, live \cup {r}, roots, strings)
  BY <1>5, <1>6
<1> QED
  BY <1>3, <1>7 DEF GoodNext

LEMMA InsertItemInArrayStep ==
  ASSUME IInv, NEW p, NEW which, NEW x, InsertItemInArray(p, which, x)
  PROVE  GoodNext
<1> DEFINE i == GetArrayItem(p, which)
<1>1. /\ Good(heap, live, roots, strings) /\ p \in live /\ ~heap[p].ref
      /\ heap \in [Node -> Item] /\ live \subseteq Node /\ Shape(heap, live) /\ Holds(p)
  BY GoodIsIInv, GoodFacts DEF InsertItemInArray, Holds
<1>2. x \in roots /\ Subtree(heap, live, Deleted(x), x) /\ p \notin Deleted(x)
  BY LooseIsSubtree DEF InsertItemInArray
<1>3. /\ heap' = IF i = None THEN AddItem(heap, p, x) ELSE InsertBefore(heap, p, i, x)
      /\ live' = live /\ roots' = roots \ {x} /\ strings' = strings
  BY DEF InsertItemInArray
<1>4. CASE i = None
  <2>1. Good(AddItem(heap, p, x), live, roots \ {x}, strings)
    BY <1>1, <1>2, GoodAddItem
  <2> QED
    BY <2>1, <1>3, <1>4 DEF GoodNext
<1>5. CASE i # None
  <2>1. i \in live /\ heap[i].parent = p
    BY <1>1, <1>5, GetArrayItemFindsAChild
  <2> HIDE DEF i
  <2>2. Good(InsertBefore(heap, p, i, x), live, roots \ {x}, strings)
    BY <2>1, <1>1, <1>2, GoodInsert
  <2> QED
    BY <2>2, <1>3, <1>5 DEF GoodNext
<1> QED
  BY <1>4, <1>5

LEMMA DetachItemViaPointerStep ==
  ASSUME IInv, NEW p, NEW i, DetachItemViaPointer(p, i)
  PROVE  GoodNext
<1>1. /\ Good(heap, live, roots, strings) /\ p \in live
      /\ heap \in [Node -> Item] /\ live \subseteq Node /\ Shape(heap, live)
  BY GoodIsIInv, GoodFacts DEF DetachItemViaPointer, Holds
<1>2. i \in live /\ heap[i].parent = p
  BY <1>1, ItemsAreChildren DEF DetachItemViaPointer
<1>3. Good(Detach(heap, p, i), live, roots \cup {i}, strings)
  BY <1>1, <1>2, GoodDetach
<1> QED
  BY <1>3 DEF DetachItemViaPointer, GoodNext

LEMMA DeleteStep ==
  ASSUME IInv, NEW r, Delete(r)
  PROVE  GoodNext
<1> DEFINE D == Deleted(r)
<1>1. /\ Good(heap, live, roots, strings) /\ r \in live /\ r \in roots /\ heap[r].parent = None
      /\ heap \in [Node -> Item] /\ live \subseteq Node /\ Shape(heap, live) /\ None \notin live
      /\ \A n \in roots : n \in live /\ heap[n].parent = None
  BY GoodIsIInv, GoodFacts DEF Delete
<1>2. Subtree(heap, live, D, r)
  BY <1>1, DeletedIsSubtree
<1>3. Unseen(D) /\ roots' = roots \ {r} /\ live' = live \ D
      /\ heap' = [n \in Node |-> IF n \in D THEN Zero ELSE heap[n]]
      /\ strings' = strings - Owned(heap, D)
  BY OwnedByIsOwned DEF Delete, Free
<1> HIDE DEF D
<1>4. Whole(heap, live, D) /\ \A m \in D : heap[m].parent = None => m = r
  BY <1>1, <1>2, ParentIsOutside
<1>5. roots \ D = roots \ {r}
  BY <1>1, <1>2, <1>4 DEF Subtree
<1>6. Good([n \in Node |-> IF n \in D THEN Zero ELSE heap[n]], live \ D, roots \ D,
           strings - Owned(heap, D))
  BY <1>1, <1>3, <1>4, GoodRemove DEF Unseen
<1> QED
  BY <1>3, <1>5, <1>6 DEF GoodNext

\* Item i of p, taken out of h, is given back with what is below it; in k a root
\* may have its place.
LEMMA GoodCut ==
  ASSUME NEW h, NEW L, NEW R, NEW s, Good(h, L, R, s),
         NEW p \in L, NEW i \in L, h[i].parent = p, NEW D, Subtree(h, L, D, i),
         \A n \in L \ D : ~(h[n].ref /\ h[n].child \in D),
         NEW k, NEW Q \in SUBSET R, Good(k, L, Q \cup {i}, s), SameData(h, k),
         k[i].parent = None,
         \A n \in L \ {i} : \/ k[n].parent = h[n].parent
                            \/ h[n].parent = None /\ k[n].parent = p,
         \A n \in Node \ {p} : k[n].child = h[n].child
  PROVE  Good([n \in Node |-> IF n \in D THEN Zero ELSE k[n]], L \ D, Q, s - Owned(h, D))
<1>1. /\ L \in SUBSET Node /\ Shape(h, L) /\ None \notin L /\ D \subseteq L
      /\ \A n \in Q : n \in L /\ h[n].parent = None
  BY GoodFacts DEF Subtree
<1>2. ~h[p].ref
  BY <1>1 DEF Shape, HasPlace
<1>3. p \notin D /\ \A m \in D : h[m].parent = None => m = i
  BY <1>1, ParentIsOutside
<1>4. Whole(k, L, D)
  <2>1. \A m \in L : k[m].parent \in D => m \in D
    BY <1>3 DEF Subtree
  <2>2. \A m \in D : k[m].parent \in D \cup {None}
    BY <1>1 DEF Subtree
  <2> QED
    BY <1>1, <2>1, <2>2 DEF Whole
<1>5. \A n \in L \ D : ~(k[n].ref /\ k[n].child \in D)
  BY <1>1, <1>2 DEF SameData
<1>6. Good([n \in Node |-> IF n \in D THEN Zero ELSE k[n]], L \ D, (Q \cup {i}) \ D,
           s - Owned(k, D))
  BY <1>4, <1>5, GoodRemove
<1>7. Owned(k, D) = Owned(h, D)
  BY <1>1, OwnedSame DEF SameData, SameOwned
<1>8. (Q \cup {i}) \ D = Q
  BY <1>1, <1>3 DEF Subtree
<1> QED
  BY <1>6, <1>7, <1>8

LEMMA DeleteItemStep ==
  ASSUME IInv, NEW p, NEW i \in live, heap[i].parent = p, DeleteItem(p, i)
  PROVE  GoodNext
<1> DEFINE D == Below(i)
           k == Detach(heap, p, i)
<1>1. /\ Good(heap, live, roots, strings) /\ p \in live
      /\ heap \in [Node -> Item] /\ live \in SUBSET Node /\ Shape(heap, live)
  BY GoodIsIInv, GoodFacts DEF DeleteItem, Holds
<1>2. Subtree(heap, live, D, i)
  BY <1>1, BelowIsSubtree
<1>3. Unseen(D) /\ roots' = roots /\ live' = live \ D
      /\ heap' = [n \in Node |-> IF n \in D THEN Zero ELSE k[n]]
      /\ strings' = strings - Owned(heap, D)
  BY OwnedByIsOwned DEF DeleteItem, Free
<1>4. /\ SameData(heap, k)
      /\ \A n \in Node : k[n].parent = IF n = i THEN None ELSE heap[n].parent
      /\ \A n \in Node \ {p} : k[n].child = heap[n].child
  BY <1>1, DetachKeepsShape
<1>5. Good(k, live, roots \cup {i}, strings)
  BY <1>1, GoodDetach
<1> HIDE DEF k, D
<1>6. /\ k[i].parent = None
      /\ \A n \in live \ {i} : \/ k[n].parent = heap[n].parent
                               \/ heap[n].parent = None /\ k[n].parent = p
  BY <1>1, <1>4
<1>7. Good([n \in Node |-> IF n \in D THEN Zero ELSE k[n]], live \ D, roots,
           strings - Owned(heap, D))
  <2>1. \A n \in live \ D : ~(heap[n].ref /\ heap[n].child \in D)
    BY <1>3 DEF Unseen
  <2>2. roots \in SUBSET roots
    OBVIOUS
  <2> QED
    BY <2>1, <2>2, <1>1, <1>2, <1>4, <1>5, <1>6, GoodCut
<1> QED
  BY <1>3, <1>7 DEF GoodNext

\* In h, which is the heap with another name for x, root x takes the place of i.
LEMMA ReplaceItemStep ==
  ASSUME IInv, NEW p \in live, NEW i \in live, heap[i].parent = p, NEW x, Loose(x, p),
         NEW h, NEW renamed \in Int, Good(h, live, roots, strings + renamed),
         \A n \in Node \ {x} : h[n] = heap[n],
         \A n \in Node : h[n].parent = heap[n].parent /\ h[n].ref = heap[n].ref
                         /\ h[n].child = heap[n].child,
         \A E, j : Subtree(heap, live, E, j) => Subtree(h, live, E, j),
         ReplaceItem(h, p, i, x, renamed)
  PROVE  GoodNext
<1> DEFINE D == Below(i)
           k == Replace(h, p, i, x)
           s == strings + renamed
           E == Deleted(x)
<1>1. /\ h \in [Node -> Item] /\ heap \in [Node -> Item] /\ live \in SUBSET Node
      /\ Shape(heap, live) /\ Shape(h, live) /\ None \notin live
  BY GoodIsIInv, GoodFacts
<1>2. x \in roots /\ x \in live /\ heap[x].parent = None /\ p \notin E /\ Subtree(h, live, E, x)
  BY LooseIsSubtree
<1>3. Subtree(heap, live, D, i) /\ Subtree(h, live, D, i)
  BY <1>1, BelowIsSubtree
<1>4. /\ Unseen(D) /\ roots' = roots \ {x} /\ live' = live \ D
      /\ heap' = [n \in Node |-> IF n \in D THEN Zero ELSE k[n]]
      /\ strings' = s - Owned(heap, D)
  <2>1. OwnedBy(D) = Owned(heap, D)
    BY OwnedByIsOwned
  <2>2. Unseen(D) /\ roots' = roots \ {x} /\ live' = live \ D
    BY DEF ReplaceItem
  <2>3. heap' = [n \in Node |-> IF n \in D THEN Zero ELSE k[n]]
    BY DEF ReplaceItem
  <2>4. strings' = strings + (renamed - OwnedBy(D))
    BY DEF ReplaceItem
  <2>5. strings \in Nat /\ Owned(heap, D) \in Nat
    <3>1. D \in SUBSET Node
      BY <1>1, <1>3 DEF Subtree
    <3> HIDE DEF D
    <3> QED
      BY <3>1, GoodIsIInv, GoodFacts, OwnedIsNat
  <2>6. strings' = s - Owned(heap, D)
    <3> DEFINE o == Owned(heap, D)
    <3>1. strings' = strings + (renamed - o) /\ o \in Nat
      BY <2>1, <2>4, <2>5
    <3> HIDE DEF o
    <3>2. strings' = s - o
      BY <3>1, <2>5
    <3> QED
      BY <3>2 DEF o
  <2> QED
    BY <2>2, <2>3, <2>6
<1>5. h[i].parent = p /\ h[x].parent = None /\ i # x
  BY <1>1, <1>2
<1> HIDE DEF D, E, s
<1>6. /\ SameData(h, k)
      /\ \A n \in Node : k[n].parent = IF n = i THEN None ELSE IF n = x THEN p ELSE h[n].parent
      /\ \A n \in Node \ {p} : k[n].child = h[n].child
  BY <1>1, <1>2, <1>5, ReplaceKeepsShape
<1>7. Good(k, live, (roots \ {x}) \cup {i}, s)
  BY <1>1, <1>2, <1>5, GoodReplace DEF s
<1> HIDE DEF k
<1>8. /\ k[i].parent = None
      /\ \A n \in live \ {i} : \/ k[n].parent = h[n].parent
                               \/ h[n].parent = None /\ k[n].parent = p
  BY <1>1, <1>5, <1>6
<1>9. Owned(h, D) = Owned(heap, D)
  <2>1. x \notin D
    BY <1>1, <1>2, <1>3, <1>5, ParentIsOutside
  <2>2. SameOwned(heap, h, D)
    BY <2>1, <1>1, <1>3 DEF SameOwned, Subtree
  <2> QED
    BY <2>2, OwnedSame
<1>10. Good([n \in Node |-> IF n \in D THEN Zero ELSE k[n]], live \ D, roots \ {x},
            s - Owned(h, D))
  <2>1. \A n \in live \ D : ~(h[n].ref /\ h[n].child \in D)
    BY <1>1, <1>4 DEF Unseen
  <2>2. roots \ {x} \in SUBSET roots /\ Good(h, live, roots, s)
    BY DEF s
  <2> QED
    BY <2>1, <2>2, <1>3, <1>5, <1>6, <1>7, <1>8, GoodCut
<1> QED
  BY <1>4, <1>9, <1>10 DEF GoodNext

LEMMA ReplaceItemViaPointerStep ==
  ASSUME IInv, NEW p, NEW i, NEW x, ReplaceItemViaPointer(p, i, x)
  PROVE  GoodNext
<1>1. /\ Good(heap, live, roots, strings) /\ p \in live /\ strings \in Nat
      /\ heap \in [Node -> Item] /\ live \subseteq Node /\ Shape(heap, live)
  BY GoodIsIInv, GoodFacts DEF ReplaceItemViaPointer, Holds
<1>2. i \in live /\ heap[i].parent = p
  BY <1>1, ItemsAreChildren DEF ReplaceItemViaPointer
<1>3. Loose(x, p) /\ ReplaceItem(heap, p, i, x, 0)
  BY DEF ReplaceItemViaPointer
<1>4. strings + 0 = strings
  BY <1>1
<1> QED
  BY <1>1, <1>2, <1>3, <1>4, ReplaceItemStep

LEMMA ReplaceItemInObjectStep ==
  ASSUME IInv, NEW p, NEW m \in Name, NEW x, NEW sensitive,
         ReplaceItemInObject(p, m, x, sensitive)
  PROVE  GoodNext
<1> DEFINE i == GetObjectItem(p, m, sensitive)
           h == Named(heap, x, m)
           o == NameOf(heap, x)
<1>1. /\ Good(heap, live, roots, strings) /\ Holds(p) /\ p \in live /\ strings \in Nat
      /\ heap \in [Node -> Item] /\ live \subseteq Node /\ Shape(heap, live)
  BY GoodIsIInv, GoodFacts DEF ReplaceItemInObject, Holds
<1>2. Loose(x, p) /\ x \in live
  BY LooseIsSubtree DEF ReplaceItemInObject
<1>3. NameOwned(x) = o /\ o \in Nat /\ m \in Names /\ Copied(m) = 1
  BY DEF NameOwned, NameOf, Names, Copied
<1>4. \/ i = None /\ heap' = h /\ strings' = strings + 1 - NameOwned(x)
         /\ live' = live /\ roots' = roots
      \/ i # None /\ ReplaceItem(h, p, i, x, 1 - NameOwned(x))
      \/ heap' = [heap EXCEPT ![x].string = None] /\ strings' = strings - NameOwned(x)
         /\ live' = live /\ roots' = roots
  BY DEF ReplaceItemInObject
<1>5. i # None => i \in live /\ heap[i].parent = p
  BY <1>1, GetObjectItemFindsAChild
<1>6. /\ Good(h, live, roots, strings - o + Copied(m))
      /\ \A E, j : Subtree(heap, live, E, j) => Subtree(h, live, E, j)
      /\ \A n \in Node : h[n].parent = heap[n].parent /\ h[n].ref = heap[n].ref
                         /\ h[n].child = heap[n].child
      /\ \A n \in Node \ {x} : h[n] = heap[n]
  BY <1>1, <1>2, <1>3, GoodNamed
<1>7. Good([heap EXCEPT ![x].string = None], live, roots, strings - o)
  BY <1>1, <1>2, GoodUnnamed
<1> HIDE DEF i, h, o
<1>8. strings - o + Copied(m) = strings + (1 - o)
  BY <1>1, <1>3
<1>9. CASE i = None /\ heap' = h /\ strings' = strings + 1 - NameOwned(x)
           /\ live' = live /\ roots' = roots
  <2>1. strings' = strings - o + Copied(m)
    BY <1>3, <1>8, <1>9
  <2> QED
    BY <2>1, <1>6, <1>9 DEF GoodNext
<1>10. CASE i # None /\ ReplaceItem(h, p, i, x, 1 - NameOwned(x))
  <2>1. 1 - o \in Int /\ Good(h, live, roots, strings + (1 - o))
    BY <1>3, <1>6, <1>8
  <2>2. ReplaceItem(h, p, i, x, 1 - o)
    BY <1>3, <1>10
  <2>3. i \in live /\ heap[i].parent = p
    BY <1>5, <1>10
  <2> QED
    BY <2>1, <2>2, <2>3, <1>1, <1>2, <1>6, ReplaceItemStep
<1>11. CASE heap' = [heap EXCEPT ![x].string = None] /\ strings' = strings - NameOwned(x)
            /\ live' = live /\ roots' = roots
  BY <1>3, <1>7, <1>11 DEF GoodNext
<1> QED
  BY <1>4, <1>9, <1>10, <1>11

\* There are blocks enough for a copy.
LEMMA FreshCopies ==
  ASSUME app \in App, live \subseteq Node, NEW S \in SUBSET Node, CanAllocate(Cardinality(S))
  PROVE  \E g \in [S -> Node \ live] : IsInjective(g)
<1> DEFINE n == Cardinality(S)
<1>1. IsFiniteSet(S) /\ n \in Nat
  BY NodesAreFinite
<1>2. PICK b \in Bijection(1 .. n, S) : TRUE
  BY <1>1, FS_CardinalityType DEF ExistsBijection
<1>3. PICK row \in [1 .. n -> Node \ live] : IsInjective(row)
  BY <1>1, FreshRows
<1> HIDE DEF n
<1>4. /\ b \in [1 .. n -> S] /\ \A i \in S : \E j \in 1 .. n : b[j] = i
  BY <1>2 DEF Bijection, Injection, Surjection
<1>5. \A i, j \in 1 .. n : row[i] = row[j] => i = j
  BY <1>3 DEF IsInjective
<1> DEFINE at(i) == CHOOSE j \in 1 .. n : b[j] = i
           g == [i \in S |-> row[at(i)]]
<1>6. \A i \in S : at(i) \in 1 .. n /\ b[at(i)] = i
  BY <1>4
<1> HIDE DEF at
<1>7. g \in [S -> Node \ live]
  BY <1>3, <1>6
<1>8. \A i, j \in S : g[i] = g[j] => i = j
  BY <1>5, <1>6
<1>9. IsInjective(g)
  BY <1>7, <1>8 DEF IsInjective
<1> QED
  BY <1>7, <1>9

\* The blocks of a copy.
LEMMA CopiedBlocks ==
  ASSUME IInv, NEW n \in live, NEW recurse \in BOOLEAN, Duplicate(n, recurse)
  PROVE  \E B \in SUBSET Node, a \in Node :
           /\ a \in B /\ live \cap B = {} /\ heap' \in [Node -> Item] /\ Shape(heap', B)
           /\ \A m \in Node \ B : heap'[m] = heap[m]
           /\ heap'[a].parent = None /\ \A m \in B : m # a => heap'[m].parent # None
           /\ live' = live \cup B /\ roots' = roots \cup {a}
           /\ strings' = strings + Owned(heap', B)
<1> DEFINE S == IF recurse THEN Below(n) ELSE {n}
           f == CHOOSE g \in [S -> Node \ live] : IsInjective(g)
           k == Copy(heap, n, S, f)
           B == Range(f)
<1>1. /\ Good(heap, live, roots, strings) /\ app \in App /\ n \in Node
      /\ heap \in [Node -> Item] /\ live \in SUBSET Node /\ Shape(heap, live)
  BY GoodIsIInv, GoodFacts
<1>2. /\ CanAllocate(Cardinality(S)) /\ \A i \in S : ~heap[i].ref
      /\ live' = live \cup B /\ roots' = roots \cup {f[n]}
      /\ strings' = strings + OwnedBy(S)
  BY DEF Duplicate
<1>3. heap' = k
  BY DEF Duplicate, Copy
<1>4. /\ S \in SUBSET live /\ n \in S /\ S \in SUBSET Node
      /\ Subtree(heap, live, S, n) \/ S = {n}
  <2>1. Subtree(heap, live, Below(n), n)
    BY <1>1, BelowIsSubtree
  <2>2. CASE recurse
    BY <2>1, <2>2, <1>1 DEF Subtree
  <2>3. CASE ~recurse
    BY <2>3, <1>1
  <2> QED
    BY <2>2, <2>3
<1> HIDE DEF S
<1>5. f \in [S -> Node \ live] /\ IsInjective(f)
  <2>1. \E g \in [S -> Node \ live] : IsInjective(g)
    BY <1>1, <1>2, <1>4, FreshCopies
  <2> QED
    BY <2>1
<1> HIDE DEF f
<1>6. f \in [S -> Node] /\ B \in SUBSET Node /\ live \cap B = {} /\ f[n] \in B
  <2>1. B = {f[i] : i \in S}
    BY <1>5 DEF Range
  <2> QED
    BY <2>1, <1>4, <1>5
<1>7. /\ k \in [Node -> Item]
      /\ \A m \in Node \ B : k[m] = heap[m]
      /\ \A i \in S : /\ k[f[i]].string = heap[i].string /\ k[f[i]].const = heap[i].const
                      /\ k[f[i]].ref = heap[i].ref /\ k[f[i]].value = heap[i].value
  BY <1>1, <1>4, <1>5, <1>6, CopyFields
<1>8. /\ Shape(k, B) /\ k[f[n]].parent = None
      /\ \A m \in B : m # f[n] => k[m].parent # None
  BY <1>1, <1>2, <1>4, <1>5, <1>6, CopyHasShape
<1> HIDE DEF k
<1>9. Owned(k, B) = Owned(heap, S)
  BY <1>4, <1>5, <1>6, <1>7, OwnedByCopy
<1>10. strings' = strings + Owned(k, B)
  BY <1>2, <1>9, OwnedByIsOwned
<1> HIDE DEF B
<1> QED
  BY <1>2, <1>3, <1>6, <1>7, <1>8, <1>10

LEMMA DuplicateStep ==
  ASSUME IInv, NEW n \in live, NEW recurse \in BOOLEAN, Duplicate(n, recurse)
  PROVE  GoodNext
<1>1. PICK B \in SUBSET Node, a \in Node :
        /\ a \in B /\ live \cap B = {} /\ heap' \in [Node -> Item] /\ Shape(heap', B)
        /\ \A m \in Node \ B : heap'[m] = heap[m]
        /\ heap'[a].parent = None /\ \A m \in B : m # a => heap'[m].parent # None
        /\ live' = live \cup B /\ roots' = roots \cup {a}
        /\ strings' = strings + Owned(heap', B)
  BY CopiedBlocks
<1>2. Good(heap, live, roots, strings) /\ \A m \in live : heap'[m] = heap[m]
  BY <1>1, GoodIsIInv, GoodFacts
<1>3. Good(heap', live \cup B, roots \cup {a}, strings + Owned(heap', B))
  BY <1>1, <1>2, GoodUnion
<1> QED
  BY <1>1, <1>3 DEF GoodNext

-----------------------------------------------------------------------------
(***************************************************************************)
(* The invariant is inductive.                                             *)
(***************************************************************************)

LEMMA CreationStep ==
  ASSUME IInv, Creation
  PROVE  GoodNext
<1>1. app.values \subseteq BOOLEAN
  BY AppAssumption DEF IInv, Application
<1>2. ASSUME NEW value \in app.values, CreateItem(value) PROVE GoodNext
  BY <1>1, <1>2, CreateItemStep
<1>3. ASSUME NEW p \in live, heap[p].child # None, CreateReference(heap[p].child) PROVE GoodNext
  <2>1. heap[p].child \in live
    BY <1>3 DEF IInv, Shape, Inside
  <2> QED
    BY <2>1, <1>3, CreateReferenceStep
<1>4. ASSUME NEW k \in 1 .. MaxArray, NEW value \in BOOLEAN, CreateFilledArray(k, value)
      PROVE  GoodNext
  <2>1. k \in Nat \ {0}
    BY TreeAssumption
  <2> QED
    BY <2>1, <1>4, CreateFilledArrayStep
<1>5. ASSUME NEW n \in live, NEW recurse \in BOOLEAN, Duplicate(n, recurse) PROVE GoodNext
  BY <1>5, DuplicateStep
<1> QED
  BY <1>2, <1>3, <1>4, <1>5, CreateStringReferenceStep DEF Creation, CreateNumberArray, CreateStringArray

\* The names an application uses are names.
LEMMA NamesOfApp ==
  ASSUME IInv
  PROVE  app.names \subseteq Names /\ app.names \cap Name \subseteq Name
         /\ app.values \subseteq BOOLEAN
BY AppAssumption DEF IInv, Application

LEMMA AddingStep ==
  ASSUME IInv, NEW p, Adding(p)
  PROVE  GoodNext
<1>1. app.names \subseteq Names /\ app.values \subseteq BOOLEAN /\ Name \subseteq Names
  BY NamesOfApp DEF Names
<1>2. ASSUME NEW i, AddItemToArray(p, i) PROVE GoodNext
  BY <1>2, AddItemToArrayStep
<1>3. ASSUME NEW i, NEW m \in app.names, AddItemToObject(p, m, i) PROVE GoodNext
  BY <1>1, <1>3, AddItemToObjectStep
<1>4. ASSUME NEW i, NEW which, InsertItemInArray(p, which, i) PROVE GoodNext
  BY <1>4, InsertItemInArrayStep
<1>5. ASSUME NEW m \in app.names \cap Name, NEW value \in app.values, AddNewToObject(p, m, value)
      PROVE  GoodNext
  BY <1>1, <1>5, AddNewToObjectStep
<1>6. ASSUME NEW n \in live, AddItemReferenceToArray(p, n) PROVE GoodNext
  BY <1>6, AddItemReferenceToArrayStep
<1>7. ASSUME NEW n \in live, NEW m \in app.names \cap Name, AddItemReferenceToObject(p, m, n)
      PROVE  GoodNext
  BY <1>7, AddItemReferenceToObjectStep
<1> QED
  BY <1>2, <1>3, <1>4, <1>5, <1>6, <1>7 DEF Adding, insert_item_in_array

LEMMA RemovingStep ==
  ASSUME IInv, NEW p, Removing(p)
  PROVE  GoodNext
<1>1. heap \in [Node -> Item] /\ live \subseteq Node /\ Shape(heap, live)
  BY DEF IInv
<1>2. ASSUME NEW i, DetachItemViaPointer(p, i) PROVE GoodNext
  BY <1>2, DetachItemViaPointerStep
<1>3. ASSUME NEW which, DeleteItemFromArray(p, which) PROVE GoodNext
  <2>1. /\ GetArrayItem(p, which) \in live /\ heap[GetArrayItem(p, which)].parent = p
        /\ DeleteItem(p, GetArrayItem(p, which))
    BY <1>1, <1>3, GetArrayItemFindsAChild DEF DeleteItemFromArray, DeleteItem
  <2> QED
    BY <2>1, DeleteItemStep
<1>4. ASSUME NEW m, NEW sensitive, DeleteItemFromObject(p, m, sensitive) PROVE GoodNext
  <2>1. /\ GetObjectItem(p, m, sensitive) \in live
        /\ heap[GetObjectItem(p, m, sensitive)].parent = p
        /\ DeleteItem(p, GetObjectItem(p, m, sensitive))
    BY <1>1, <1>4, GetObjectItemFindsAChild DEF DeleteItemFromObject, DeleteItem
  <2> QED
    BY <2>1, DeleteItemStep
<1> QED
  BY <1>2, <1>3, <1>4 DEF Removing, DetachItemFromArray, DetachItemFromObject

LEMMA ReplacingStep ==
  ASSUME IInv, NEW p, Replacing(p)
  PROVE  GoodNext
<1>1. ASSUME NEW x, NEW which, ReplaceItemInArray(p, which, x) PROVE GoodNext
  BY <1>1, ReplaceItemViaPointerStep DEF ReplaceItemInArray
<1>2. ASSUME NEW x, NEW m \in Name, NEW sensitive, ReplaceItemInObject(p, m, x, sensitive)
      PROVE  GoodNext
  BY <1>2, ReplaceItemInObjectStep
<1> QED
  BY <1>1, <1>2 DEF Replacing

LEMMA NextStep ==
  ASSUME IInv, Next
  PROVE  IInv'
<1>1. GoodNext
  BY CreationStep, DeleteStep, AddingStep, RemovingStep, ReplacingStep DEF Next
<1>2. app' \in App
  BY DEF Next, IInv
<1>3. /\ heap' \in [Node -> Item] /\ live' \subseteq Node
      /\ Shape(heap', live') /\ Owners(heap', live', roots')
      /\ strings' = Owned(heap', live')
  BY <1>1 DEF GoodNext, Good
<1>4. strings' = OwnedBy(live)'
  BY <1>3 DEF Owned, OwnedBy, NamesOwned, ValuesOwned
<1> QED
  BY <1>2, <1>3, <1>4 DEF IInv

LEMMA InitHasIInv ==
  ASSUME Init
  PROVE  IInv
<1>1. Zero \in Item
  BY DEF Zero, Item, Ptr
<1>2. heap \in [Node -> Item] /\ live = {} /\ roots = {} /\ strings = 0 /\ app \in App
  BY <1>1 DEF Init
<1>3. Shape(heap, live)
  BY <1>2 DEF Shape, Inside, Alone, HasPlace, HasNext, HasChild, Grounded
<1>4. Owners(heap, live, roots)
  BY <1>2 DEF Owners
<1>5. Owned(heap, live) = 0
  <2>1. NamesOwned(heap, live) = {} /\ ValuesOwned(heap, live) = {}
    BY <1>2 DEF NamesOwned, ValuesOwned
  <2>2. Cardinality({}) = 0
    BY FS_EmptySet
  <2> QED
    BY <2>1, <2>2 DEF Owned
<1> QED
  BY <1>2, <1>3, <1>4, <1>5, OwnedByIsOwned DEF IInv

\* Every reachable heap has the shape, owners and strings that IInv describes.
THEOREM IInvHolds == Spec => []IInv
<1>1. ASSUME IInv, [Next]_vars PROVE IInv'
  <2>1. CASE Next
    BY <1>1, <2>1, NextStep
  <2>2. CASE UNCHANGED vars
    BY <1>1, <2>2 DEF vars, IInv, Owners, OwnedBy
  <2> QED
    BY <1>1, <2>1, <2>2
<1> QED
  BY <1>1, InitHasIInv, PTL DEF Spec

-----------------------------------------------------------------------------
(***************************************************************************)
(* What follows.                                                           *)
(***************************************************************************)

\* Every variable has its type, and no item that is allocated points to one that
\* was freed: cJSON_Delete, the list operations and references leave no pointer
\* behind.
THEOREM HeapIsOK == Spec => []HeapOK
<1>1. ASSUME IInv PROVE HeapOK
  <2>1. Good(heap, live, roots, strings) /\ app \in App
    BY <1>1, GoodIsIInv
  <2>2. roots \subseteq live /\ strings \in Nat
    BY <2>1, GoodFacts
  <2>3. TypeOK
    BY <1>1, <2>2 DEF TypeOK, IInv
  <2>4. NoDanglingPointer
    BY <1>1 DEF NoDanglingPointer, IInv, Shape, Inside
  <2> QED
    BY <2>3, <2>4 DEF HeapOK
<1> QED
  BY <1>1, IInvHolds, PTL

\* The children of every item are one list linked both ways, each of them once,
\* and the prev of the first is the last: add_item_to_array finds the end.
THEOREM ListsStayLinked == Spec => []ListsAreLinked
<1>1. ASSUME IInv PROVE ListsAreLinked
  <2>1. heap \in [Node -> Item] /\ live \subseteq Node /\ Shape(heap, live)
    BY <1>1 DEF IInv
  <2> SUFFICES ASSUME NEW p \in live, ~heap[p].ref
               PROVE  LET s == Items(p) IN
                      /\ IsInjective(s)
                      /\ \A i \in DOMAIN s :
                           /\ heap[s[i]].prev = IF i = 1 THEN s[Len(s)] ELSE s[i - 1]
                           /\ heap[s[i]].next = IF i = Len(s) THEN None ELSE s[i + 1]
    BY DEF ListsAreLinked
  <2> DEFINE s == List(heap[p].child)
  <2>2. Items(p) = s
    BY DEF Items
  <2>3. CASE heap[p].child = None
    <3>1. Chain(N, None, List(None))
      BY <2>1, ListIsChain DEF Ptr
    <3>2. s = <<>>
      BY <2>3, <3>1 DEF Chain
    <3>3. DOMAIN <<>> = {}
      OBVIOUS
    <3> HIDE DEF s
    <3> QED
      BY <2>2, <3>2, <3>3 DEF IsInjective
  <2>4. CASE heap[p].child # None
    <3>1. /\ s \in Seq(Node) /\ Len(s) \in Nat \ {0}
          /\ \A i, j \in 1 .. Len(s) : s[i] = s[j] => i = j
          /\ \A i \in 1 .. Len(s) :
               /\ heap[s[i]].prev = IF i = 1 THEN s[Len(s)] ELSE s[i - 1]
               /\ heap[s[i]].next = IF i = Len(s) THEN None ELSE s[i + 1]
      BY <2>1, <2>4, ListOfChildren
    <3> HIDE DEF s
    <3>2. DOMAIN s = 1 .. Len(s)
      BY <3>1
    <3>3. IsInjective(s)
      BY <3>1, <3>2 DEF IsInjective
    <3> QED
      BY <2>2, <3>1, <3>2, <3>3
  <2> QED
    BY <2>3, <2>4
<1> QED
  BY <1>1, IInvHolds, PTL

\* Every item is held by the application or has one place in one tree, except the
\* reference that cJSON_AddItemReferenceToObject leaks; every string that is
\* allocated is owned by one item, and is freed with it.
THEOREM NothingIsLeaked == Spec => []NothingLeaks
<1>1. ASSUME IInv PROVE NothingLeaks
  <2>1. heap \in [Node -> Item] /\ live \subseteq Node /\ Shape(heap, live)
    BY <1>1 DEF IInv
  <2>2. StringsAreOwned
    BY <1>1 DEF StringsAreOwned, IInv
  <2>3. ASSUME NEW n \in live
        PROVE  LET above == {p \in live : n \in Range(Items(p))} IN
               \/ n \in roots /\ above = {} /\ heap[n].next = None
               \/ n \notin roots /\ Cardinality(above) = 1
               \/ heap[n].ref /\ n \notin roots /\ above = {}
    <3> DEFINE above == {p \in live : n \in Range(Items(p))}
    <3>1. above = {p \in live : heap[n].parent = p}
      <4>1. \A p \in live : n \in Range(Items(p)) <=> heap[n].parent = p
        BY <2>1, ItemsAreChildren
      <4> QED
        BY <4>1
    <3> HIDE DEF above
    <3>2. None \notin live
      BY <2>1, NodesAreFinite
    <3>3. CASE heap[n].parent = None
      <4>1. above = {}
        BY <3>1, <3>2, <3>3
      <4>2. heap[n].next = None
        BY <2>1, <3>3 DEF Shape, Alone
      <4>3. n \notin roots => heap[n].ref
        BY <1>1, <3>3 DEF IInv, Owners
      <4> QED
        BY <4>1, <4>2, <4>3 DEF above
    <3>4. CASE heap[n].parent # None
      <4>1. heap[n].parent \in live
        BY <2>1, <3>4 DEF Shape, Inside
      <4>2. above = {heap[n].parent}
        BY <3>1, <4>1
      <4>3. Cardinality(above) = 1
        BY <4>2, FS_Singleton
      <4>4. n \notin roots
        BY <1>1, <3>4 DEF IInv, Owners
      <4> QED
        BY <4>3, <4>4 DEF above
    <3> QED
      BY <3>3, <3>4
  <2> QED
    BY <2>2, <2>3 DEF NothingLeaks, OnePlaceEach
<1> QED
  BY <1>1, IInvHolds, PTL
=============================================================================
