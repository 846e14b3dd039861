------------------------------ MODULE CJsonPatch ------------------------------
(***************************************************************************)
(* cJSON_Utils.c: JSON pointers, patches and merge patches.  A patch array *)
(* generated from two documents, or given, is applied to a copy of the     *)
(* first, one operation after the other; merge patches are operators.      *)
(*                                                                         *)
(* A name is a sequence of characters; a pointer is a sequence of such     *)
(* tokens, as they are between its slashes.  An item is a value here, with *)
(* its children in order; the heap below it is CJsonTree's.  What is kept  *)
(* of the links is `tail`: where the prev of the first child points, which *)
(* sorting leaves behind.  Allocations succeed.                            *)
(***************************************************************************)
EXTENDS Integers, Sequences, SequencesExt, FiniteSets, FiniteSetsExt, Functions

CONSTANTS
  Document,   \* bound: the documents from and to
  Given,      \* bound: patch arrays of the application,
  Target,     \*        and the documents they are applied to
  None        \* NULL

VARIABLES
  sensitive,  \* case_sensitive
  from, to,   \* the documents a patch array is made of
  doc,        \* what it is applied to
  patches,    \* the operations that are left
  status      \* what apply_patch returned; 0 is success

vars == <<sensitive, from, to, doc, patches, status>>

\* ASCII.
Code == [c \in {"-", "/", "0", "1", "2", "3", "A", "B", "a", "b", "c", "~"} |->
  CASE c = "-" -> 45 [] c = "/" -> 47 [] c = "0" -> 48 [] c = "1" -> 49 [] c = "2" -> 50 [] c = "3" -> 51
    [] c = "A" -> 65 [] c = "B" -> 66 [] c = "a" -> 97 [] c = "b" -> 98 [] c = "c" -> 99 [] OTHER -> 126]

tolower(c) == CASE c = "A" -> "a" [] c = "B" -> "b" [] OTHER -> c
Folded(n, s) == IF s THEN n ELSE [i \in DOMAIN n |-> tolower(n[i])]

\* compare_strings(m, n) < 0
Smaller(m, n, s) ==
  LET a == Folded(m, s)  b == Folded(n, s)
      differ == {i \in 1 .. Len(a) : i > Len(b) \/ a[i] # b[i]}
  IN IF differ = {} THEN Len(a) < Len(b)
     ELSE LET i == Min(differ) IN i <= Len(b) /\ Code[a[i]] < Code[b[i]]

SameName(m, n, s) == Folded(m, s) = Folded(n, s)

-----------------------------------------------------------------------------
(***************************************************************************)
(* Items.                                                                  *)
(***************************************************************************)

Child(n, v)      == [name |-> n, value |-> v]
Parent(kind, kids) == [kind |-> kind, kids |-> kids, tail |-> Len(kids)]
Leaf(kind, v)    == [kind |-> kind, value |-> v]

IsParent(v) == v.kind \in {"array", "object"}

\* cJSON_Duplicate links the copy anew.
RECURSIVE Duplicate(_)
Duplicate(v) ==
  IF ~IsParent(v) THEN v
  ELSE Parent(v.kind, [i \in DOMAIN v.kids |->
                         Child(v.kids[i].name, Duplicate(v.kids[i].value))])

\* cJSON_AddItemToArray, add_item_to_object: after the prev of the first child.
\* If that is NULL, or an item that was freed, the new one is in no list.
AddItem(v, child) ==
  IF v.kids = <<>> THEN Parent(v.kind, <<child>>)
  ELSE IF v.tail = 0 THEN v
  ELSE [v EXCEPT !.kids = Append(SubSeq(@, 1, v.tail), child), !.tail = v.tail + 1]

\* cJSON_DetachItemViaPointer and detach_item_from_array.  Without the last
\* child, the prev of the first is right again.
Detach(v, i) ==
  [v EXCEPT
     !.kids = RemoveAt(@, i),
     !.tail = IF i > 1 /\ i = Len(v.kids) THEN i - 1
              ELSE IF @ = i THEN 0 ELSE IF @ > i THEN @ - 1 ELSE @]

\* The child of that name, 0 if there is none.
GetObjectItem(v, n, s) ==
  LET found == {i \in DOMAIN v.kids : SameName(v.kids[i].name, n, s)} IN
  IF found = {} THEN 0 ELSE Min(found)

\* Mutant: a member is not deleted.
KeepItem(v, n, s) == v

DeleteItemFromObject(v, n, s) ==
  LET i == GetObjectItem(v, n, s) IN IF i = 0 THEN v ELSE Detach(v, i)

\* insert_item_in_array; index counts from 0 and is not beyond the end.
InsertItem(v, index, x) ==
  IF index = Len(v.kids) THEN AddItem(v, Child(None, x))
  ELSE [v EXCEPT !.kids = InsertAt(@, index + 1, Child(None, x)), !.tail = @ + 1]

InOrder(kids, s) ==
  \A i \in 1 .. Len(kids) - 1 : Smaller(kids[i].name, kids[i + 1].name, s)

RECURSIVE Merge(_, _, _)
Merge(a, b, s) ==
  IF a = <<>> THEN b ELSE IF b = <<>> THEN a
  ELSE IF Smaller(Head(a).name, Head(b).name, s)
  THEN <<Head(a)>> \o Merge(Tail(a), b, s) ELSE <<Head(b)>> \o Merge(a, Tail(b), s)

\* Mutant: a list that is out of order only at its end counts as sorted.
RECURSIVE sort_list_early(_, _)
sort_list_early(kids, s) ==
  IF Len(kids) <= 2 THEN kids
  ELSE LET half == (Len(kids) + 1) \div 2 IN
       Merge(sort_list_early(SubSeq(kids, 1, half), s),
             sort_list_early(SubSeq(kids, half + 1, Len(kids)), s), s)

RECURSIVE sort_list(_, _)
sort_list(kids, s) ==
  IF InOrder(kids, s) THEN kids
  ELSE LET half == (Len(kids) + 1) \div 2 IN
       Merge(sort_list(SubSeq(kids, 1, half), s),
             sort_list(SubSeq(kids, half + 1, Len(kids)), s), s)

\* The first child keeps its prev if it was the first; otherwise a split of the
\* list has set it to NULL.
sort_object(v, s) ==
  IF v.kids = <<>> \/ InOrder(v.kids, s) THEN v
  ELSE LET new == sort_list(v.kids, s) IN
       [v EXCEPT !.kids = new,
                 !.tail = IF Head(new) = Head(v.kids) /\ @ # 0
                          THEN CHOOSE j \in DOMAIN new : new[j] = v.kids[@] ELSE 0]

\* compare_json, and a as it leaves it: sorted as far as the comparison went.
RECURSIVE compare_json(_, _, _)
compare_json(a, b, s) ==
  LET Children(x, y) ==   \* a, with the children before the first difference
        LET R[i \in Nat] ==
              IF i > Len(x.kids) \/ i > Len(y.kids)
              THEN [same |-> Len(x.kids) = Len(y.kids), a |-> x]
              ELSE IF x.kind = "object" /\ ~SameName(x.kids[i].name, y.kids[i].name, s)
              THEN [same |-> FALSE, a |-> x]
              ELSE LET c == compare_json(x.kids[i].value, y.kids[i].value, s)
                       rest == R[i + 1]
                   IN IF c.same
                      THEN [rest EXCEPT !.a.kids[i].value = c.a]
                      ELSE [same |-> FALSE, a |-> [x EXCEPT !.kids[i].value = c.a]]
        IN R[1]
  IN IF a.kind # b.kind THEN [same |-> FALSE, a |-> a]
     ELSE CASE a.kind = "array" -> Children(a, b)
            [] a.kind = "object" -> Children(sort_object(a, s), sort_object(b, s))
            [] OTHER -> [same |-> a = b, a |-> a]

-----------------------------------------------------------------------------
(***************************************************************************)
(* Pointers.                                                               *)
(***************************************************************************)

encode_string_as_pointer(n) ==
  FlattenSeq([i \in DOMAIN n |->
    CASE n[i] = "/" -> <<"~", "1">> [] n[i] = "~" -> <<"~", "0">> [] OTHER -> <<n[i]>>])

\* compare_pointers: whether a name is what the token t stands for.
RECURSIVE compare_pointers(_, _, _)
compare_pointers(n, t, s) ==
  IF n = <<>> \/ t = <<>> THEN n = t
  ELSE IF Head(t) = "~"
  THEN /\ Len(t) > 1 /\ <<t[2], Head(n)>> \in {<<"0", "~">>, <<"1", "/">>}
       /\ compare_pointers(Tail(n), SubSeq(t, 3, Len(t)), s)
  ELSE SameName(<<Head(n)>>, <<Head(t)>>, s) /\ compare_pointers(Tail(n), Tail(t), s)

\* decode_pointer_inplace: d is where it writes, r where it reads.  What is no
\* escape is not written; the / of ~1 is written one place too far.
RECURSIVE Decoded(_, _, _)
Decoded(t, d, r) ==
  IF r > Len(t) THEN SubSeq(t, 1, d - 1)
  ELSE IF t[r] # "~" THEN Decoded(t, d + 1, r + 1)
  ELSE IF r = Len(t) THEN t
  ELSE CASE t[r + 1] = "0" -> Decoded([t EXCEPT ![d] = "~"], d + 1, r + 2)
         [] t[r + 1] = "1" -> Decoded([t EXCEPT ![d + 1] = "/"], d + 1, r + 2)
         [] OTHER -> t
decode_pointer_inplace(t) == Decoded(t, 1, 1)

\* decode_array_index_from_pointer: the index, or -1.  The loop tests the upper
\* bound of the first character only.
decode_array_index(t) ==
  LET C(i) == IF i \in DOMAIN t THEN Code[t[i]] ELSE 0
      stops == {i \in 1 .. Len(t) + 1 : C(i) < 48 \/ C(1) > 57}
      end == Min(stops)
  IN IF (C(1) = 48 /\ Len(t) > 1) \/ end <= Len(t) THEN -1
     ELSE FoldLeft(LAMBDA n, c : 10 * n + (Code[c] - 48), 0, t)

\* get_item_from_pointer: the item, as the positions that lead to it, or NULL.
RECURSIVE get_item_from_pointer(_, _, _)
get_item_from_pointer(v, pointer, s) ==
  IF pointer = <<>> THEN <<>>
  ELSE IF ~IsParent(v) THEN None
  ELSE LET t == Head(pointer)
           named == {j \in DOMAIN v.kids : compare_pointers(v.kids[j].name, t, s)}
           i == IF v.kind = "array" THEN decode_array_index(t) + 1
                ELSE IF named = {} THEN 0 ELSE Min(named)
           below == get_item_from_pointer(v.kids[i].value, Tail(pointer), s)
       IN IF i \notin DOMAIN v.kids \/ below = None THEN None ELSE <<i>> \o below

RECURSIVE At(_, _)
At(v, where) == IF where = <<>> THEN v ELSE At(v.kids[Head(where)].value, Tail(where))

RECURSIVE With(_, _, _)
With(v, where, x) ==
  IF where = <<>> THEN x
  ELSE [v EXCEPT !.kids[Head(where)].value = With(@, Tail(where), x)]

\* The index of an array element as a token; the bounds stay below 10.
Digits(n) == <<<<"0", "1", "2", "3">>[n + 1]>>

-----------------------------------------------------------------------------
(***************************************************************************)
(* Applying patches.                                                       *)
(***************************************************************************)

Patch(op, path, value) == [op |-> op, path |-> path, from |-> None, value |-> value]
Result(d, s) == [doc |-> d, status |-> s]

\* detach_path: the document without the item, and the item or NULL.  The name
\* is looked up without minding the case, whatever case_sensitive is.
detach_path(d, path, s) ==
  LET where == get_item_from_pointer(d, Front(path), s)
      parent == At(d, where)
      t == decode_pointer_inplace(Last(path))
      i == CASE parent.kind = "array" -> decode_array_index(t) + 1
             [] parent.kind = "object" -> GetObjectItem(parent, t, FALSE)
             [] OTHER -> 0
  IN IF path = <<>> \/ where = None THEN [doc |-> d, item |-> None]
     ELSE IF ~IsParent(parent) \/ i \notin DOMAIN parent.kids
     THEN [doc |-> d, item |-> None]
     ELSE [doc |-> With(d, where, Detach(parent, i)), item |-> parent.kids[i].value]

\* The end of apply_patch: value goes to path.
AddAt(d, path, value, s) ==
  LET where == get_item_from_pointer(d, Front(path), s)
      parent == At(d, where)
      t == decode_pointer_inplace(Last(path))
      index == decode_array_index(t)
      Put(v) == Result(With(d, where, v), 0)
  IN IF path = <<>> \/ where = None THEN Result(d, 9)
     ELSE CASE parent.kind = "object" ->
                 Put(AddItem(DeleteItemFromObject(parent, t, s), Child(t, value)))
            [] parent.kind = "array" ->
                 IF t = <<"-">> THEN Put(AddItem(parent, Child(None, value)))
                 ELSE IF index < 0 THEN Result(d, 11)
                 ELSE IF index > Len(parent.kids) THEN Result(d, 10)
                 ELSE Put(InsertItem(parent, index, value))
            [] OTHER -> Result(d, 9)

Test(d, x, s) ==
  LET where == get_item_from_pointer(d, x.path, s)
      c == compare_json(At(d, where), x.value, s)
  IN IF where = None \/ x.value = None THEN Result(d, 1)
     ELSE Result(With(d, where, c.a), IF c.same THEN 0 ELSE 1)

\* The value of an operation, with what is left of the document.
Source(d, x, s) ==
  LET moved == detach_path(d, x.from, s)
      where == get_item_from_pointer(d, x.from, s)
      Item(e, v, missing) == [doc |-> e, value |-> v,
                              status |-> IF v = None THEN missing ELSE 0]
  IN CASE x.op \in {"move", "copy"} /\ x.from = None -> Item(d, None, 4)
       [] x.op = "move" /\ x.from # None -> Item(moved.doc, moved.item, 5)
       [] x.op = "copy" /\ x.from # None ->
            Item(d, IF where = None THEN None ELSE Duplicate(At(d, where)), 5)
       [] OTHER -> Item(d, IF x.value = None THEN None ELSE Duplicate(x.value), 7)

\* The value goes where the operation says, if there is one.
Place(source, x, s) ==
  IF source.status # 0 THEN Result(source.doc, source.status)
  ELSE AddAt(source.doc, x.path, source.value, s)

\* remove and replace have detached what was at the path.
Detached(old, x, s) ==
  CASE old.item = None -> Result(old.doc, 13)
    [] old.item # None /\ x.op = "remove" -> Result(old.doc, 0)
    [] OTHER -> Place(Source(old.doc, x, s), x, s)

apply_patch(d, x, s) ==
  CASE x.path = None -> Result(d, 2)
    [] x.path # None /\ x.op = "invalid" -> Result(d, 3)
    [] x.path # None /\ x.op = "test" -> Test(d, x, s)
    [] x.path = <<>> /\ x.op = "remove" -> Result(Leaf("invalid", 0), 0)
    [] x.path = <<>> /\ x.op \in {"replace", "add"} ->
         IF x.value = None THEN Result(d, 7) ELSE Result(Duplicate(x.value), 0)
    [] x.path \notin {None, <<>>} /\ x.op \in {"remove", "replace"} ->
         Detached(detach_path(d, x.path, s), x, s)
    [] OTHER -> Place(Source(d, x, s), x, s)

\* One turn of the loop of cJSONUtils_ApplyPatches.
Apply ==
  /\ patches # <<>> /\ status = 0
  /\ \E r \in {apply_patch(doc, Head(patches), sensitive)} :
       doc' = r.doc /\ status' = r.status
  /\ patches' = Tail(patches)
  /\ UNCHANGED <<sensitive, from, to>>

-----------------------------------------------------------------------------
(***************************************************************************)
(* Making patches.                                                         *)
(***************************************************************************)

\* compose_patch with a suffix: an item below path.
Below(path, name) == Append(path, encode_string_as_pointer(name))

\* The operations that turn v into w, in the order create_patches adds them.
RECURSIVE create_patches(_, _, _, _)
create_patches(path, v, w, s) ==
  LET Elements ==
        LET both == Min({Len(v.kids), Len(w.kids)}) IN
        FlattenSeq([i \in 1 .. both |->
          create_patches(Append(path, Digits(i - 1)), v.kids[i].value, w.kids[i].value, s)])
        \o [i \in 1 .. Len(v.kids) - both |-> Patch("remove", Append(path, Digits(both)), None)]
        \o [i \in 1 .. Len(w.kids) - both |->
              Patch("add", Append(path, <<"-">>), Duplicate(w.kids[both + i].value))]
      Members[i \in Nat, j \in Nat] ==
        LET a == sort_list(v.kids, s)
            b == sort_list(w.kids, s)
            Gone == <<Patch("remove", Below(path, a[i].name), None)>> \o Members[i + 1, j]
            New == <<Patch("add", Below(path, b[j].name), Duplicate(b[j].value))>>
                   \o Members[i, j + 1]
        IN IF i > Len(a) /\ j > Len(b) THEN <<>>
           ELSE IF i > Len(a) THEN New
           ELSE IF j > Len(b) THEN Gone
           ELSE IF SameName(a[i].name, b[j].name, s)
           THEN create_patches(Below(path, a[i].name), a[i].value, b[j].value, s)
                \o Members[i + 1, j + 1]
           ELSE IF Smaller(a[i].name, b[j].name, s) THEN Gone ELSE New
  IN CASE v.kind # w.kind -> <<Patch("replace", path, Duplicate(w))>>
       [] v.kind = w.kind /\ v.kind = "array" -> Elements
       [] v.kind = w.kind /\ v.kind = "object" -> Members[1, 1]
       [] OTHER -> IF v = w THEN <<>> ELSE <<Patch("replace", path, w)>>

-----------------------------------------------------------------------------
(***************************************************************************)
(* Merge patches.                                                          *)
(***************************************************************************)

\* merge_patch; v may be NULL.
RECURSIVE merge_patch(_, _, _)
merge_patch(v, patch, s) ==
  LET Member(target, child) ==
        LET i == GetObjectItem(target, child.name, s)
            old == IF i = 0 THEN None ELSE target.kids[i].value
            rest == DeleteItemFromObject(target, child.name, s)
        IN IF child.value.kind = "null" THEN rest
           ELSE AddItem(rest, Child(child.name, merge_patch(old, child.value, s)))
      target == IF v = None THEN Parent("object", <<>>)
                ELSE IF v.kind = "object" THEN v ELSE Parent("object", <<>>)
  IN IF patch.kind # "object" THEN Duplicate(patch)
     ELSE FoldLeft(Member, target, patch.kids)

\* generate_merge_patch: the patch, or NULL if there is nothing to do.  The
\* members are sorted as s says, but compared by strcmp, and below the first
\* level nothing minds the case.
RECURSIVE generate_merge_patch(_, _, _)
generate_merge_patch(v, w, s) ==
  LET Members[i \in Nat, j \in Nat] ==
        LET a == sort_list(v.kids, s)
            b == sort_list(w.kids, s)
            Gone == <<Child(a[i].name, Leaf("null", 0))>> \o Members[i + 1, j]
            New == <<Child(b[j].name, Duplicate(b[j].value))>> \o Members[i, j + 1]
            change == generate_merge_patch(a[i].value, b[j].value, FALSE)
            Changed == IF compare_json(a[i].value, b[j].value, s).same \/ change = None
                       THEN <<>> ELSE <<Child(b[j].name, change)>>
        IN IF i > Len(a) /\ j > Len(b) THEN <<>>
           ELSE IF i > Len(a) THEN New
           ELSE IF j > Len(b) THEN Gone
           ELSE IF a[i].name = b[j].name THEN Changed \o Members[i + 1, j + 1]
           ELSE IF Smaller(a[i].name, b[j].name, TRUE) THEN Gone ELSE New
  IN IF v.kind # "object" \/ w.kind # "object" THEN Duplicate(w)
     ELSE LET members == Members[1, 1] IN
          IF members = <<>> THEN None ELSE Parent("object", members)

-----------------------------------------------------------------------------

\* Patches are applied to a copy, as in tests/json_patch_tests.c: making them
\* has sorted `from` itself.
Init ==
  /\ sensitive \in BOOLEAN /\ status = 0
  /\ \/ /\ from \in Document /\ to \in Document
        /\ patches = create_patches(<<>>, from, to, sensitive)
     \/ /\ from \in Target /\ to = None
        /\ patches \in Given
  /\ doc = from

Spec == Init /\ [][Apply]_vars

-----------------------------------------------------------------------------
(***************************************************************************)
(* Properties.                                                             *)
(***************************************************************************)

RECURSIVE Names(_)
Names(v) ==
  IF ~IsParent(v) THEN {}
  ELSE UNION {Names(v.kids[i].value) : i \in DOMAIN v.kids}
       \cup (IF v.kind = "object" THEN {v.kids[i].name : i \in DOMAIN v.kids} ELSE {})

\* No two names differ in case alone.
Apart(S) == \A m, n \in S : SameName(m, n, FALSE) => m = n

\* A name decode_pointer_inplace can decode: nothing follows an escape, and no
\* slash is in it.
Plain(n) == \A i \in DOMAIN n : n[i] # "/" /\ (n[i] = "~" => i = Len(n))

\* cJSON_Compare: the same members, in any order.
RECURSIVE Compare(_, _, _)
Compare(v, w, s) ==
  LET In(x, y) ==
        \A i \in DOMAIN x.kids :
          LET j == GetObjectItem(y, x.kids[i].name, s) IN
          j # 0 /\ Compare(x.kids[i].value, y.kids[j].value, s)
  IN /\ v.kind = w.kind
     /\ CASE v.kind = "array" ->
               /\ Len(v.kids) = Len(w.kids)
               /\ \A i \in DOMAIN v.kids : Compare(v.kids[i].value, w.kids[i].value, s)
          [] v.kind = "object" -> In(v, w) /\ In(w, v)
          [] OTHER -> v = w

RECURSIVE Positions(_)
Positions(v) ==
  {<<>>} \cup
  IF ~IsParent(v) THEN {}
  ELSE UNION {{<<i>> \o q : q \in Positions(v.kids[i].value)} : i \in DOMAIN v.kids}

\* No object has two members of one name.
Distinct(v, s) ==
  \A q \in Positions(v) :
    LET u == At(v, q) IN
    u.kind = "object" =>
      \A i, j \in DOMAIN u.kids : SameName(u.kids[i].name, u.kids[j].name, s) => i = j

\* Every item is one, and the prev of its first child is a child or NULL.
DocumentOK ==
  /\ sensitive \in BOOLEAN
  /\ status \in {0, 1, 2, 3, 4, 5, 7, 9, 10, 11, 13}
  /\ \A q \in Positions(doc) :
       LET v == At(doc, q) IN
       IF IsParent(v)
       THEN v.tail \in 0 .. Len(v.kids) /\ (v.kind = "array" => v.tail = Len(v.kids))
       ELSE v.kind \in {"null", "number", "invalid"}

\* The patches generated from two documents all apply, and lead from the one
\* to the other ("cJSONUtils_GeneratePatches", checked that way in
\* tests/json_patch_tests.c), if names differ in more than case and can be decoded.
PatchesLeadThere ==
  /\ DocumentOK
  /\ (to # None /\ Apart(Names(from) \cup Names(to))
      /\ \A n \in Names(from) \cup Names(to) : Plain(n)) =>
       status = 0 /\ (patches = <<>> => Compare(doc, to, TRUE))

\* The merge patch generated from two documents leads from the one to the other
\* (cJSON_Utils.h:71 "generates a patch to move from -> to"), if all names are
\* in lower case; null stands for a removal.
RECURSIVE HasNull(_)
HasNull(v) ==
  v.kind = "object" /\ \E i \in DOMAIN v.kids :
    v.kids[i].value.kind = "null" \/ HasNull(v.kids[i].value)

MergePatchesLeadThere ==
  (/\ to # None /\ doc = from /\ ~HasNull(to)
   /\ \A n \in Names(from) \cup Names(to) : Folded(n, FALSE) = n) =>
    LET patch == generate_merge_patch(from, to, sensitive) IN
    Compare(IF patch = None THEN from ELSE merge_patch(from, patch, sensitive), to, TRUE)

\* What an operation puts somewhere, its value or what "from" names, is found
\* there when it has succeeded ("cJSONUtils_ApplyPatches", tests/json_patch_tests.c),
\* and in an object nothing else has that name.  Set aside: a document a test has
\* sorted before, whose stale prev may lose what is added (cJSON_Utils.c:601);
\* objects that had two members of one name already, of which one is deleted;
\* for a move, whose "from" is looked up without minding the case, also two that
\* differ in case; and names that are not decoded right.
Linked(v) == \A q \in Positions(v) :
  LET u == At(v, q) IN IsParent(u) => u.tail = Len(u.kids)

Readable(path) == encode_string_as_pointer(decode_pointer_inplace(Last(path))) = Last(path)

\* Whether x is found in d at path, alone under its name.
FoundAt(d, path, x, s) ==
  LET parent == At(d, get_item_from_pointer(d, Front(path), s))
      last == Last(path)
      i == IF parent.kind = "object" THEN GetObjectItem(parent, decode_pointer_inplace(last), s)
           ELSE IF last = <<"-">> THEN Len(parent.kids) ELSE decode_array_index(last) + 1
  IN /\ i \in DOMAIN parent.kids /\ Compare(parent.kids[i].value, x, TRUE)
     /\ parent.kind = "object" =>
          \A j \in DOMAIN parent.kids : SameName(parent.kids[j].name, parent.kids[i].name, s) => j = i

AddedIsFound ==
  [][LET x == Head(patches)
         where == get_item_from_pointer(doc, x.from, sensitive) IN
     (/\ status' = 0 /\ Linked(doc) /\ Distinct(doc, sensitive)
      /\ x.op \in {"add", "replace", "move", "copy"} /\ x.path # <<>> /\ Readable(x.path)
      /\ x.op = "move" => where # None /\ Distinct(doc, FALSE) /\ Readable(x.from)) =>
       FoundAt(doc', x.path,
               IF x.op \in {"add", "replace"} THEN x.value ELSE At(doc, where), sensitive)]_vars
=============================================================================
