----------------------------- MODULE MCCJsonText -----------------------------
(***************************************************************************)
(* Instances of CJsonText for TLC.                                         *)
(***************************************************************************)
EXTENDS CJsonText

\* A token and its bytes; "none" is a name that is NULL, and printed as "".
Sizes == [t \in {"null", "1", "str"} |-> CASE t = "null" -> 4 [] t = "1" -> 1 [] OTHER -> 2]

\* Every input up to three symbols, and longer ones of brackets, odd symbols or digits.
Inputs == SeqOf(Symbol, 3)
          \cup SeqOf({"[", "]", "{", "}", ",", ":", "str"}, 5)
          \cup SeqOf({"BOM", "[", "]", "1", "NUL"}, 4)
          \cup SeqOf({"[", "]", "1", ","}, 5)

\* Pieces of literals: signs, a control character, \u, digits (of A, of an
\* accented letter, of the euro, of both halves of a pair), x, and a space.
Pieces == {<<34>>, <<92>>, <<47>>, <<110>>, <<1>>, <<32>>, <<120>>, <<92, 117>>,
           <<48, 48, 52, 49>>, <<48, 48, 101, 57>>, <<50, 48, 65, 67>>,
           <<68, 56, 51, 68>>, <<68, 69, 48, 48>>}
Bodies == {FlattenSeq(s) : s \in SeqOf(Pieces, 4)}
=============================================================================
