----------------------------- MODULE MCCJsonPatch -----------------------------
(***************************************************************************)
(* Instances of CJsonPatch for TLC.                                        *)
(***************************************************************************)
EXTENDS CJsonPatch

One  == Leaf("number", 1)
Null == Leaf("null", 0)
Arr(values) == Parent("array", [i \in DOMAIN values |-> Child(None, values[i])])
Obj(kids) == Parent("object", kids)

Lists(S, n) == UNION {[1 .. k -> S] : k \in 0 .. n}

\* Objects of up to k members, whose names are of N, in any order, and values of S.
Objects(N, S, k) ==
  {Obj(kids) : kids \in {f \in Lists({Child(n, v) : n \in N, v \in S}, k) :
                           Cardinality({f[i].name : i \in DOMAIN f}) = Len(f)}}

Flat(N) == {One, Null} \cup {Arr(a) : a \in Lists({One, Null}, 3)} \cup Objects(N, {One, Null}, 2) \cup Objects(N, {One}, 3)

\* Names that need an escape, that differ in case, and both.
Documents ==
  LET A == {<<"a">>}  N == {<<"a">>, <<"~">>, <<"B">>} IN
  Flat(N) \cup {Obj(<<Child(<<"a">>, v)>>) : v \in Flat(N)}
  \cup {Arr(<<v>>) : v \in Objects(A, {One, Null}, 1)}
  \cup {Obj(<<Child(<<"b">>, One), Child(n, v)>>) : n \in {<<"a">>, <<"a", "/", "b">>},
                                                  v \in {Obj(<<>>), Arr(<<One>>)}}

Paths == {<<>>, <<<<"a">>>>, <<<<"b">>>>, <<<<"a">>, <<"0">>>>, <<<<"a">>, <<"-">>>>}

Targets ==
  {Obj(<<Child(<<"b">>, One), Child(<<"a">>, v)>>) : v \in {One, Arr(<<>>), Arr(<<Null, One>>)}}
  \cup {Obj(<<Child(<<"a">>, Arr(<<One>>)), Child(<<"c">>, Null), Child(<<"b">>, Arr(<<One>>))>>),
        Obj(<<Child(<<"A">>, One), Child(<<"a">>, Arr(<<One>>))>>), Arr(<<One>>)}

Operations ==
  {Patch(op, path, v) : op \in {"add", "replace", "test"}, path \in Paths,
                        v \in {Arr(<<One>>)}}
  \cup {Patch("test", <<>>, v) : v \in Targets}
  \cup {Patch("remove", path, None) : path \in Paths}
  \cup {[Patch(op, path, None) EXCEPT !.from = path2] :
          op \in {"move", "copy"}, path \in Paths, path2 \in Paths}
  \cup {Patch("add", None, One), Patch("invalid", <<>>, One), Patch("copy", <<>>, None),
        Patch("add", <<<<"a">>>>, None)}

PatchArrays == Lists(Operations, 2)
=============================================================================
