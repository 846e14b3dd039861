------------------------------ MODULE CJsonTree ------------------------------
(***************************************************************************)
(* Items of cJSON on the heap: cJSON.c (creation, lists, objects,          *)
(* references, copies, deletion) and the list operations of cJSON_Utils.c. *)
(*                                                                         *)
(* The children of an item are a list linked by `next` and `prev`; `child` *)
(* is the first, and the `prev` of the first is the last, which is how     *)
(* add_item_to_array finds the end.  Values are left out: an item owns a   *)
(* string value or it does not.                                            *)
(*                                                                         *)
(* One action is one call of the application, which keeps the rules of     *)
(* README.md of cJSON: it adds an item to one place only, and not below    *)
(* itself; it adds to arrays and objects; what a reference shows outlives  *)
(* it.  Every allocation can fail.                                         *)
(***************************************************************************)
EXTENDS Integers, Sequences, FiniteSets, Functions

CONSTANTS
  N,              \* blocks of memory for items
  Name,           \* names, copied when an item is added to an object
  ConstName,      \* names passed to cJSON_AddItemToObjectCS, never copied
  Lower,          \* case_insensitive_strcmp compares Lower[name]
  App,            \* applications: the memory they have, and what they use
  MaxArray,       \* bound: numbers or strings given to Create...Array
  CircularLimit,  \* CJSON_CIRCULAR_LIMIT
  None            \* NULL

Node   == 1 .. N
Names  == Name \cup ConstName
Ptr    == Node \cup {None}

ASSUME TreeAssumption ==
  /\ N \in Nat /\ MaxArray \in Nat /\ CircularLimit \in Nat
  /\ None \notin Node /\ None \notin Names /\ Name \cap ConstName = {}
  /\ Lower \in [Names -> Names]


Application == [blocks : 0 .. N, names : SUBSET Names, values : SUBSET BOOLEAN,
                refs : BOOLEAN]
ASSUME AppAssumption == App \subseteq Application

\* const is cJSON_StringIsConst, ref cJSON_IsReference; value: it owns or shows
\* a string.  parent is a history variable of the model, not a field of cJSON.
Item == [next : Ptr, prev : Ptr, child : Ptr, string : Names \cup {None},
         const : BOOLEAN, ref : BOOLEAN, value : BOOLEAN, parent : Ptr]

Zero == [next |-> None, prev |-> None, child |-> None, string |-> None,
         const |-> FALSE, ref |-> FALSE, value |-> FALSE, parent |-> None]

VARIABLES
  app,      \* the application
  heap,     \* the contents of every block
  live,     \* the blocks that are allocated
  roots,    \* the items the application holds
  strings   \* how many strings are allocated

vars == <<app, heap, live, roots, strings>>

Init ==
  /\ app \in App
  /\ heap = [n \in Node |-> Zero]
  /\ live = {} /\ roots = {} /\ strings = 0

-----------------------------------------------------------------------------
(***************************************************************************)
(* Reading.                                                                *)
(***************************************************************************)

\* The list that begins at n, by `next`.
List(n) ==
  LET L[k \in 0 .. N] ==
        [m \in Ptr |-> IF k = 0 \/ m = None THEN <<>> ELSE <<m>> \o L[k - 1][heap[m].next]]
  IN L[N][n]

\* What an item has below it; a reference only shows it.
Items(p) == IF heap[p].ref THEN <<>> ELSE List(heap[p].child)

GetArraySize(p)    == Len(List(heap[p].child))
GetArrayItem(p, i) ==
  IF i \in 0 .. GetArraySize(p) - 1 THEN List(heap[p].child)[i + 1] ELSE None

\* The comparison of names, as get_object_item has it: without a name an item
\* ends the search that minds the case, and is passed over by the other.
GetObjectItem(p, m, sensitive) ==
  LET s == List(heap[p].child)
      stops(i) == IF sensitive THEN heap[s[i]].string \in {None, m}
                  ELSE /\ heap[s[i]].string # None
                       /\ Lower[heap[s[i]].string] = Lower[m]
      found == {i \in DOMAIN s : stops(i)}
  IN IF found = {} THEN None
     ELSE LET i == CHOOSE j \in found : \A k \in found : j <= k
          IN IF heap[s[i]].string = None THEN None ELSE s[i]

-----------------------------------------------------------------------------
(***************************************************************************)
(* Memory.  h is a heap.                                                   *)
(***************************************************************************)

\* malloc: which free block does not matter.
Fresh == CHOOSE n \in Node : n \notin live
CanAllocate(k) == Cardinality(live) + k <= app.blocks

\* The strings cJSON_Delete frees with the items in S.
OwnedBy(S) ==
  Cardinality({i \in S : heap[i].string # None /\ ~heap[i].const})
  + Cardinality({i \in S : heap[i].value /\ ~heap[i].ref})

\* Mutants: the children are not freed, or those a reference shows are too.
DeletedFlat(r) == {r}
DeletedThrough(r) ==
  LET closed == {S \in SUBSET Node :
                   r \in S /\ \A i \in S : {heap[i].next, heap[i].child} \subseteq S \cup {None}}
  IN {n \in Node : \A S \in closed : n \in S}

\* What cJSON_Delete(r) frees: r, what follows it, and what is below, except
\* below a reference.  It is the least set closed under the function's steps.
Deleted(r) ==
  LET closed == {S \in SUBSET Node :
                   /\ r \in S
                   /\ \A i \in S : /\ heap[i].next \in S \cup {None}
                                   /\ heap[i].ref \/ heap[i].child \in S \cup {None}}
  IN {n \in Node : \A S \in closed : n \in S}

\* What it frees when i has been taken out of its list.
Below(i) ==
  {i} \cup IF heap[i].ref \/ heap[i].child = None THEN {} ELSE Deleted(heap[i].child)

\* The application's rule: no reference is left that shows something deleted.
Unseen(S) == \A i \in live \ S : ~(heap[i].ref /\ heap[i].child \in S)

-----------------------------------------------------------------------------
(***************************************************************************)
(* Lists.                                                                  *)
(***************************************************************************)

\* i->next = n, and so on.  A parent is the model's own.
SetNext(h, i, n)   == [h EXCEPT ![i].next = n]
SetPrev(h, i, n)   == [h EXCEPT ![i].prev = n]
SetChild(h, i, n)  == [h EXCEPT ![i].child = n]
SetParent(h, i, n) == [h EXCEPT ![i].parent = n]

Unlinked(h, i) == SetParent(SetPrev(SetNext(h, i, None), i, None), i, None)

SuffixObject(h, prev, item) == SetPrev(SetNext(h, prev, item), item, prev)

\* add_item_to_array: without a prev in the first item, nothing is linked, and
\* the answer is true all the same.
AddItem(h, p, i) ==
  LET first == h[p].child IN
  IF first = None
  THEN SetParent(SetNext(SetPrev(SetChild(h, p, i), i, i), i, None), i, p)
  ELSE IF h[first].prev = None THEN h
  ELSE SetPrev(SuffixObject(SetParent(h, i, p), h[first].prev, i), first, i)

\* Mutant: the last item's place in the first is not updated.
DetachKeepsTail(h, p, i) ==
  LET next == h[i].next  prev == h[i].prev
      a == IF i # h[p].child THEN SetNext(h, prev, next) ELSE h
      b == IF next # None THEN SetPrev(a, next, prev) ELSE a
  IN Unlinked(IF i = h[p].child THEN SetChild(b, p, next) ELSE b, i)

Detach(h, p, i) ==
  LET next == h[i].next  prev == h[i].prev  first == h[p].child
      a == IF i # first THEN SetNext(h, prev, next) ELSE h
      b == IF next # None THEN SetPrev(a, next, prev) ELSE a
      c == IF i = first THEN SetChild(b, p, next)
           ELSE IF next = None THEN SetPrev(b, first, prev)
           ELSE b
  IN Unlinked(c, i)

\* Item x goes in front of item i of p.
InsertBefore(h, p, i, x) ==
  LET prev == h[i].prev
      a == SetParent(SetPrev(SetPrev(SetNext(h, x, i), x, prev), i, x), x, p)
  IN IF i = h[p].child THEN SetChild(a, p, x) ELSE SetNext(a, prev, x)

\* Item x takes the place of item i of p: its links, and those of the item after.
TakeLinks(h, p, i, x) ==
  LET next == h[i].next
      a == SetParent(SetPrev(SetNext(h, x, next), x, h[i].prev), x, p)
  IN IF next # None THEN SetPrev(a, next, x) ELSE a

\* Then those of the item before and of the first; h is the heap before.
ReplaceLater(h, b, p, i, x) ==
  LET prev == h[i].prev
      d == IF prev # None THEN SetNext(b, prev, x) ELSE b
  IN IF h[i].next = None THEN SetPrev(d, h[p].child, x) ELSE d

ReplaceFirst(h, b, p, i, x) ==
  SetChild(IF h[i].prev = i THEN SetPrev(b, x, x) ELSE b, p, x)

\* Mutant: replacing an only child leaves its prev at the old item.
ReplaceOnly(h, p, i, x) ==
  LET b == TakeLinks(h, p, i, x) IN
  Unlinked(IF h[p].child = i THEN SetChild(b, p, x) ELSE ReplaceLater(h, b, p, i, x), i)

Replace(h, p, i, x) ==
  LET b == TakeLinks(h, p, i, x) IN
  Unlinked(IF h[p].child = i THEN ReplaceFirst(h, b, p, i, x)
           ELSE ReplaceLater(h, b, p, i, x), i)

-----------------------------------------------------------------------------
(***************************************************************************)
(* Calls.  A call that fails and leaves everything as it was is a stutter  *)
(* and has no action.                                                      *)
(***************************************************************************)

\* What items are added to: arrays and objects.
Holds(p)  == p \in live /\ ~heap[p].value /\ ~heap[p].ref
\* r can be added to p: the application holds it, and p is not below it.
Loose(r, p) == r \in roots /\ p \notin Deleted(r)

NameOwned(i) == IF heap[i].string # None /\ ~heap[i].const THEN 1 ELSE 0
Copied(m)    == IF m \in Name THEN 1 ELSE 0
Named(h, i, m) == [h EXCEPT ![i].string = m, ![i].const = m \in ConstName]

\* cJSON_CreateNull, True, False, Bool, Number, Array, Object, and with a value
\* cJSON_CreateString and Raw.
CreateItem(value) ==
  /\ CanAllocate(1)
  /\ heap' = [heap EXCEPT ![Fresh] = [Zero EXCEPT !.value = value]]
  /\ live' = live \cup {Fresh} /\ roots' = roots \cup {Fresh}
  /\ strings' = strings + (IF value THEN 1 ELSE 0)

\* cJSON_CreateObjectReference and ArrayReference: n is the first of a list.
CreateReference(n) ==
  /\ CanAllocate(1)
  /\ heap' = [heap EXCEPT ![Fresh] = [Zero EXCEPT !.ref = TRUE, !.child = n]]
  /\ live' = live \cup {Fresh} /\ roots' = roots \cup {Fresh}
  /\ UNCHANGED strings

\* cJSON_CreateStringReference: the string is the application's.
CreateStringReference ==
  /\ CanAllocate(1)
  /\ heap' = [heap EXCEPT ![Fresh] = [Zero EXCEPT !.ref = TRUE, !.value = TRUE]]
  /\ live' = live \cup {Fresh} /\ roots' = roots \cup {Fresh}
  /\ UNCHANGED strings

\* Blocks for a row of new items.
FreshRow(k) == CHOOSE row \in [1 .. k -> Node \ live] : IsInjective(row)

\* The loops of the Create...Array functions: a new item linked behind the last.
Fill(h, a, row, value) ==
  [n \in Node |->
     IF n = a THEN [Zero EXCEPT !.child = row[1]]
     ELSE IF n \notin Range(row) THEN h[n]
     ELSE LET i == CHOOSE j \in DOMAIN row : row[j] = n IN
          [Zero EXCEPT !.value = value, !.parent = a,
             !.next = IF i = Len(row) THEN None ELSE row[i + 1],
             !.prev = IF i = 1 THEN row[Len(row)] ELSE row[i - 1]]]

CreateFilledArray(k, value) ==
  LET blocks == FreshRow(k + 1) IN
  /\ CanAllocate(k + 1)
  /\ heap' = Fill(heap, blocks[1], Tail(blocks), value)
  /\ live' = live \cup Range(blocks) /\ roots' = roots \cup {blocks[1]}
  /\ strings' = strings + (IF value THEN k ELSE 0)

CreateNumberArray(k) == CreateFilledArray(k, FALSE)
CreateStringArray(k) == CreateFilledArray(k, TRUE)

AddItemToArray(p, i) ==
  /\ Holds(p) /\ Loose(i, p)
  /\ heap' = AddItem(heap, p, i)
  /\ roots' = roots \ {i}
  /\ UNCHANGED <<live, strings>>

AddNamed(p, m, i) ==
  /\ heap' = AddItem(Named(heap, i, m), p, i)
  /\ roots' = roots \ {i}
  /\ strings' = strings - NameOwned(i) + Copied(m)

AddItemToObject(p, m, i) ==
  /\ Holds(p) /\ Loose(i, p)
  /\ AddNamed(p, m, i)
  /\ UNCHANGED live

\* cJSON_AddNullToObject and its like: create, add, and delete if that fails.
AddNewToObject(p, m, value) ==
  /\ Holds(p) /\ CanAllocate(1)
  /\ heap' = AddItem(Named([heap EXCEPT ![Fresh] = [Zero EXCEPT !.value = value]],
                           Fresh, m), p, Fresh)
  /\ live' = live \cup {Fresh}
  /\ strings' = strings + Copied(m) + (IF value THEN 1 ELSE 0)
  /\ UNCHANGED roots

\* create_reference copies the item, without its name and its neighbours; of an item
\* that owns a string it shows the same one, which no call here reads.
Reference(n) == [heap[n] EXCEPT !.string = None, !.ref = TRUE, !.next = None,
                                !.prev = None, !.parent = None]

AddItemReferenceToArray(p, n) ==
  /\ Holds(p) /\ CanAllocate(1)
  /\ heap' = AddItem([heap EXCEPT ![Fresh] = Reference(n)], p, Fresh)
  /\ live' = live \cup {Fresh}
  /\ UNCHANGED <<roots, strings>>

\* When the name cannot be copied, nobody frees the reference.
AddItemReferenceToObject(p, m, n) ==
  /\ Holds(p) /\ CanAllocate(1)
  /\ LET h == [heap EXCEPT ![Fresh] = Reference(n)] IN
     \/ /\ heap' = AddItem(Named(h, Fresh, m), p, Fresh)
        /\ strings' = strings + 1
     \/ /\ heap' = h
        /\ UNCHANGED strings
  /\ live' = live \cup {Fresh}
  /\ UNCHANGED roots

DetachItemViaPointer(p, i) ==
  /\ Holds(p) /\ i \in Range(Items(p))
  /\ heap' = Detach(heap, p, i)
  /\ roots' = roots \cup {i}
  /\ UNCHANGED <<live, strings>>

DetachItemFromArray(p, which) ==
  GetArrayItem(p, which) # None /\ DetachItemViaPointer(p, GetArrayItem(p, which))

DetachItemFromObject(p, m, sensitive) ==
  LET i == GetObjectItem(p, m, sensitive) IN i # None /\ DetachItemViaPointer(p, i)

\* The blocks of S are given back; what they hold no longer matters.
Free(h, S) ==
  /\ heap' = [n \in Node |-> IF n \in S THEN Zero ELSE h[n]]
  /\ live' = live \ S
  /\ strings' = strings - OwnedBy(S)

Delete(r) ==
  /\ r \in roots /\ Unseen(Deleted(r))
  /\ Free(heap, Deleted(r))
  /\ roots' = roots \ {r}

\* cJSON_DeleteItemFromArray and FromObject.
DeleteItem(p, i) ==
  /\ Holds(p) /\ Unseen(Below(i)) /\ Free(Detach(heap, p, i), Below(i))
  /\ UNCHANGED roots

DeleteItemFromArray(p, which) ==
  GetArrayItem(p, which) # None /\ DeleteItem(p, GetArrayItem(p, which))

DeleteItemFromObject(p, m, sensitive) ==
  LET i == GetObjectItem(p, m, sensitive) IN i # None /\ DeleteItem(p, i)

\* Past the end, the item is added at the end.
InsertItemInArray(p, which, x) ==
  /\ Holds(p) /\ Loose(x, p)
  /\ LET i == GetArrayItem(p, which) IN
     heap' = IF i = None THEN AddItem(heap, p, x) ELSE InsertBefore(heap, p, i, x)
  /\ roots' = roots \ {x}
  /\ UNCHANGED <<live, strings>>

\* cJSON_Utils.c has its own, which refuses to insert past the end.
insert_item_in_array(p, which, x) ==
  /\ which <= GetArraySize(p)
  /\ InsertItemInArray(p, which, x)

\* In h, item i of p gives way to x, and is deleted.
ReplaceItem(h, p, i, x, renamed) ==
  /\ Unseen(Below(i))
  /\ heap' = [n \in Node |-> IF n \in Below(i) THEN Zero ELSE Replace(h, p, i, x)[n]]
  /\ live' = live \ Below(i)
  /\ strings' = strings + renamed - OwnedBy(Below(i))
  /\ roots' = roots \ {x}

ReplaceItemViaPointer(p, i, x) ==
  /\ Holds(p) /\ i \in Range(Items(p)) /\ Loose(x, p)
  /\ ReplaceItem(heap, p, i, x, 0)

ReplaceItemInArray(p, which, x) ==
  GetArrayItem(p, which) # None /\ ReplaceItemViaPointer(p, GetArrayItem(p, which), x)

\* The new item gets the name first, also when there is nothing to replace, and
\* loses its own when the name cannot be copied.
ReplaceItemInObject(p, m, x, sensitive) ==
  /\ Holds(p) /\ Loose(x, p)
  /\ \/ LET i == GetObjectItem(p, m, sensitive)
            h == Named(heap, x, m)
        IN IF i = None
           THEN /\ heap' = h /\ strings' = strings + 1 - NameOwned(x)
                /\ UNCHANGED <<live, roots>>
           ELSE ReplaceItem(h, p, i, x, 1 - NameOwned(x))
     \/ /\ heap' = [heap EXCEPT ![x].string = None]
        /\ strings' = strings - NameOwned(x)
        /\ UNCHANGED <<live, roots>>

Depth(n) ==
  LET D[k \in 0 .. N] ==
        IF k = 0 THEN {n} ELSE UNION {Range(Items(i)) : i \in D[k - 1]}
  IN Cardinality({k \in 1 .. N : D[k] # {}})

\* The whole tree, or the item alone; no deeper than CircularLimit.  A bound: the
\* application copies no references (cJSON copies what they show).
Duplicate(n, recurse) ==
  LET S    == IF recurse THEN Below(n) ELSE {n}
      f    == CHOOSE g \in [S -> Node \ live] : IsInjective(g)
      at(i) == IF i \in S THEN f[i] ELSE None
  IN /\ CanAllocate(Cardinality(S))
     /\ \A i \in S : ~heap[i].ref
     /\ recurse => Depth(n) <= CircularLimit
     /\ heap' = [m \in Node |->
          IF m \notin Range(f) THEN heap[m]
          ELSE LET i == CHOOSE j \in S : f[j] = m IN
               [heap[i] EXCEPT
                  !.next = IF i = n THEN None ELSE at(@),
                  !.prev = IF i = n THEN None ELSE at(@),
                  !.child = at(@), !.parent = IF i = n THEN None ELSE at(@)]]
     /\ live' = live \cup Range(f)
     /\ roots' = roots \cup {f[n]}
     /\ strings' = strings + OwnedBy(S)

-----------------------------------------------------------------------------

Creation ==
  \/ \E value \in app.values : CreateItem(value)
  \/ \E p \in live : /\ app.refs /\ Holds(p) /\ heap[p].child # None
                     /\ CreateReference(heap[p].child)
  \/ app.refs /\ CreateStringReference
  \/ \E k \in 1 .. MaxArray : CreateNumberArray(k)
  \/ \E k \in 1 .. MaxArray : TRUE \in app.values /\ CreateStringArray(k)
  \/ \E n \in live, recurse \in BOOLEAN : Duplicate(n, recurse)

Adding(p) ==
  \/ \E i \in roots :
       \/ AddItemToArray(p, i)
       \/ \E m \in app.names : AddItemToObject(p, m, i)
       \/ \E which \in 0 .. GetArraySize(p) + 1 :
            InsertItemInArray(p, which, i) \/ insert_item_in_array(p, which, i)
  \/ \E m \in app.names \cap Name, value \in app.values : AddNewToObject(p, m, value)
  \/ \E n \in live :
       /\ app.refs
       /\ \/ AddItemReferenceToArray(p, n)
          \/ \E m \in app.names \cap Name : AddItemReferenceToObject(p, m, n)

Removing(p) ==
  \/ \E which \in 0 .. GetArraySize(p) : DetachItemFromArray(p, which) \/ DeleteItemFromArray(p, which)
  \/ \E m \in app.names, sensitive \in BOOLEAN :
       DetachItemFromObject(p, m, sensitive) \/ DeleteItemFromObject(p, m, sensitive)

Replacing(p) ==
  \E x \in roots :
    \/ \E which \in 0 .. GetArraySize(p) : ReplaceItemInArray(p, which, x)
    \/ \E m \in app.names \cap Name, sensitive \in BOOLEAN : ReplaceItemInObject(p, m, x, sensitive)

Next ==
  /\ \/ Creation
     \/ \E r \in roots : Delete(r)
     \/ \E p \in live : Holds(p) /\ (Adding(p) \/ Removing(p) \/ Replacing(p))
  /\ UNCHANGED app

Spec == Init /\ [][Next]_vars

-----------------------------------------------------------------------------
(***************************************************************************)
(* Properties.                                                             *)
(***************************************************************************)

\* Every variable has its type.
TypeOK ==
  /\ app \in App
  /\ heap \in [Node -> Item]
  /\ live \subseteq Node /\ roots \subseteq live /\ strings \in Nat

\* No item that is allocated points to one that was freed, as a neighbour, as a
\* child, or as what a reference shows.
NoDanglingPointer ==
  \A n \in live : {heap[n].next, heap[n].prev, heap[n].child} \subseteq live \cup {None}

\* The heap: the types, and no pointer into what was freed.
HeapOK == TypeOK /\ NoDanglingPointer

\* The children of every item form one list: each is linked both ways, the
\* last has no next, and the prev of the first is the last, on which
\* add_item_to_array relies ("To find the last item in array quickly, we use
\* prev in array", cJSON.c:1995).
ListsAreLinked ==
  \A p \in live : ~heap[p].ref =>
    LET s == Items(p) IN
    /\ IsInjective(s)
    /\ \A i \in DOMAIN s :
         /\ heap[s[i]].prev = IF i = 1 THEN s[Len(s)] ELSE s[i - 1]
         /\ heap[s[i]].next = IF i = Len(s) THEN None ELSE s[i + 1]

\* What was allocated and neither deleted nor given away is reached from the
\* application's roots, each item along one way only: nothing leaks, and nothing
\* is in two places.  The one exception is in the code: the reference that
\* cJSON_AddItemReferenceToObject made when it could not copy the name.
OnePlaceEach ==
  \A n \in live :
    LET above == {p \in live : n \in Range(Items(p))} IN
    \/ n \in roots /\ above = {} /\ heap[n].next = None
    \/ n \notin roots /\ Cardinality(above) = 1
    \/ heap[n].ref /\ n \notin roots /\ above = {}

\* As many strings are allocated as the items own: none leaks, none is freed
\* twice.
StringsAreOwned == strings = OwnedBy(live)

\* Neither items nor strings leak, and nothing is owned twice.
NothingLeaks == OnePlaceEach /\ StringsAreOwned

\* The calls do what they say: seen as ordered trees, nothing else changes.
\* The name of a reference that leaked is nobody's.
AllItems == [n \in Node |-> Items(n)]
AllNames == [n \in Node |-> heap[n].string]
Forest == INSTANCE JsonForest WITH Name <- Names, kids <- AllItems, name <- AllNames
ImplementsForest == Forest!Spec
=============================================================================
