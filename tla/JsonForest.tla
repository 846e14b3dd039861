------------------------------ MODULE JsonForest ------------------------------
(***************************************************************************)
(* What the item interface of cJSON promises: a forest of ordered trees.   *)
(* The application holds the roots; every call makes, moves, replaces or   *)
(* drops whole trees, and changes no other children and no other names.    *)
(* What a reference shows is not part of it: a reference is a leaf.        *)
(***************************************************************************)
EXTENDS Integers, Sequences, FiniteSets, SequencesExt

CONSTANTS Node, Name, None

VARIABLES
  roots,  \* the trees the application holds
  kids,   \* the children of every item, in order
  name    \* the name of every item, if it has one

vars == <<roots, kids, name>>

Init ==
  /\ roots = {}
  /\ kids = [n \in Node |-> <<>>]
  /\ name = [n \in Node |-> None]

\* The items of the tree at r, in the forest k: the least set that has r, and with
\* an item its children.
Tree(k, r) ==
  LET child  == UNION {{n} \X Range(k[n]) : n \in Node}
      closed == {S \in SUBSET Node : r \in S /\ \A e \in child : e[1] \in S => e[2] \in S}
  IN {n \in Node : \A S \in closed : n \in S}

Items(k, R) == UNION {Tree(k, r) : r \in R}

\* Without the items in S, which have no children and no name any more.
Emptied(k, S, empty) == [n \in Node |-> IF n \in S THEN empty ELSE k[n]]

\* A new tree: one item, or one with a row of children, named or not.
Make(k, k2) ==
  \E r \in roots' \ roots :
    LET made == Tree(k2, r) IN
    /\ roots' = roots \cup {r}
    /\ made \cap Items(k, roots) = {}
    /\ k2 = [n \in Node |-> IF n \in made THEN k2[n] ELSE k[n]]
    /\ name' = [n \in Node |-> IF n \in made THEN name'[n] ELSE name[n]]

Rename(k, k2) ==
  \E r \in roots : /\ name' = [name EXCEPT ![r] = name'[r]]
                   /\ roots' = roots /\ k2 = k

\* A root, or a new item, becomes a child of p, with a name or without.
Give(k, k2) ==
  \E p \in Node : \E i \in DOMAIN k2[p] :
    LET r == k2[p][i] IN
    /\ roots' = roots \ {r}
    /\ k2 = [k EXCEPT ![p] = InsertAt(@, i, r)]
    /\ p \in Items(k, roots)
    /\ r \in roots \/ r \notin Items(k, roots)
    /\ name' = [name EXCEPT ![r] = name'[r]]

\* A child becomes a root.
Take(k, k2) ==
  \E p \in Node : \E i \in DOMAIN k[p] :
    /\ roots' = roots \cup {k[p][i]}
    /\ k2 = [k EXCEPT ![p] = RemoveAt(@, i)]
    /\ p \in Items(k, roots)
    /\ name' = name

\* A child is dropped with its tree, or a root takes its place, under a new
\* name or its own.
Cut(k, k2) ==
  \E p \in Node : \E i \in DOMAIN k[p] :
    LET gone == Tree(k, k[p][i]) IN
    /\ \/ /\ roots' = roots
          /\ k2 = Emptied([k EXCEPT ![p] = RemoveAt(@, i)], gone, <<>>)
          /\ name' = Emptied(name, gone, None)
       \/ \E r \in roots \ roots' :
            /\ k2[p] = [k[p] EXCEPT ![i] = r]
            /\ k2 = Emptied([k EXCEPT ![p] = k2[p]], gone, <<>>)
            /\ roots' = roots \ {r}
            /\ name' = Emptied([name EXCEPT ![r] = name'[r]], gone, None)
    /\ p \in Items(k, roots)

Drop(k, k2) ==
  \E r \in roots :
    /\ roots' = roots \ {r}
    /\ k2 = Emptied(k, Tree(k, r), <<>>)
    /\ name' = Emptied(name, Tree(k, r), None)

Next ==
  LET k == kids  k2 == kids' IN
  \/ Make(k, k2) \/ Rename(k, k2) \/ Give(k, k2) \/ Take(k, k2) \/ Cut(k, k2) \/ Drop(k, k2)

Spec == Init /\ [][Next]_vars
=============================================================================
