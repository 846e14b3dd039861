-------------------------- MODULE CJsonParseProofs --------------------------
(***************************************************************************)
(* Proofs about CJsonParse, for every input and every nesting limit: the   *)
(* parser reads nothing behind the end of its input and does not recurse   *)
(* deeper than the limit; a failure gives everything back; what it accepts *)
(* is JSON, and it accepts all that is, but for want of memory.            *)
(***************************************************************************)
EXTENDS CJsonParse, SequenceTheorems, WellFoundedInduction, TLAPS

-----------------------------------------------------------------------------
(***************************************************************************)
(* Sequences of whatever elements.                                         *)
(***************************************************************************)

IsSeq(f) == \E S : f \in Seq(S)

LEMMA LongerSeq ==
  ASSUME NEW f, IsSeq(f), NEW x
  PROVE  IsSeq(Append(f, x)) /\ Len(Append(f, x)) = Len(f) + 1
<1>1. PICK S : f \in Seq(S)
  BY DEF IsSeq
<1>2. f \in Seq(S \cup {x}) /\ x \in S \cup {x}
  BY <1>1, SeqMonotonic
<1>3. Append(f, x) \in Seq(S \cup {x}) /\ Len(Append(f, x)) = Len(f) + 1
  BY <1>2, AppendProperties
<1> QED BY <1>3 DEF IsSeq

LEMMA ChangedSeq ==
  ASSUME NEW f, IsSeq(f), f # <<>>, NEW x
  PROVE  LET g == [f EXCEPT ![Len(f)] = x] IN
         IsSeq(g) /\ Len(g) = Len(f) /\ g # <<>>
<1>1. PICK S : f \in Seq(S)
  BY DEF IsSeq
<1>2. f \in Seq(S \cup {x}) /\ x \in S \cup {x}
  BY <1>1, SeqMonotonic
<1>3. Len(f) \in Nat \ {0}
  BY <1>2, EmptySeq
<1>4. Len(f) \in 1 .. Len(f)
  BY <1>3
<1>5. /\ [f EXCEPT ![Len(f)] = x] \in Seq(S \cup {x})
      /\ Len([f EXCEPT ![Len(f)] = x]) = Len(f)
  BY <1>2, <1>4, ExceptSeq
<1>6. [f EXCEPT ![Len(f)] = x] # <<>>
  BY <1>3, <1>5, EmptySeq
<1> QED BY <1>5, <1>6 DEF IsSeq

LEMMA ShorterSeq ==
  ASSUME NEW f, IsSeq(f), f # <<>>
  PROVE  /\ IsSeq(SubSeq(f, 1, Len(f) - 1)) /\ Len(SubSeq(f, 1, Len(f) - 1)) = Len(f) - 1
         /\ Len(f) \in Nat \ {0}
<1>1. PICK S : f \in Seq(S)
  BY DEF IsSeq
<1>2. Len(f) \in Nat \ {0}
  BY <1>1, EmptySeq
<1>3. PICK n \in Nat : n = Len(f) - 1
  BY <1>2
<1>4. n \in Int /\ 1 \in Int /\ \A i \in 1 .. n : f[i] \in S
  <2>1. \A i \in 1 .. n : i \in 1 .. Len(f)
    BY <1>2, <1>3
  <2> QED BY <1>1, <2>1, ElementOfSeq
<1>5. SubSeq(f, 1, n) \in Seq(S) /\ Len(SubSeq(f, 1, n)) = IF 1 <= n THEN n - 1 + 1 ELSE 0
  BY <1>4, SubSeqProperties
<1>6. (IF 1 <= n THEN n - 1 + 1 ELSE 0) = n
  OBVIOUS
<1> QED BY <1>2, <1>3, <1>5, <1>6 DEF IsSeq

-----------------------------------------------------------------------------
(***************************************************************************)
(* Where skipping ends.                                                    *)
(***************************************************************************)

\* Every set of numbers that is not empty has a least one.
LEMMA Least ==
  ASSUME NEW T, T \subseteq Nat, T # {}
  PROVE  \E k \in T : \A m \in T : k <= m
<1> DEFINE R == OpToRel(<, Nat)
<1>1. IsWellFoundedOn(R, Nat)
  BY NatLessThanWellFounded
<1>2. \A x, y \in Nat : x < y => <<x, y>> \in R
  BY DEF OpToRel
<1> HIDE DEF R
<1>3. PICK k \in T : \A m \in T : <<m, k>> \notin R
  BY <1>1, WFMin
<1>4. \A m \in T : ~(m < k)
  BY <1>2, <1>3
<1> QED BY <1>3, <1>4

\* From o on there is a first place whose symbol is not in S, or the end.
LEMMA FirstPlace ==
  ASSUME NEW c, NEW S, NEW o \in Nat, NEW n \in Nat, o <= n
  PROVE  \E k \in o .. n : /\ \A j \in o .. k - 1 : c[j + 1] \in S
                           /\ k < n => c[k + 1] \notin S
<1> DEFINE T == {k \in o .. n : k < n => c[k + 1] \notin S}
<1>1. n \in T /\ T \in SUBSET Nat
  OBVIOUS
<1>2. PICK k \in T : \A m \in T : k <= m
  <2>1. T \subseteq Nat /\ T # {}
    BY <1>1
  <2> HIDE DEF T
  <2> QED BY <2>1, Least
<1>3. \A j \in o .. k - 1 : c[j + 1] \in S
  <2> SUFFICES ASSUME NEW j \in o .. k - 1 PROVE c[j + 1] \in S
    OBVIOUS
  <2>1. k \in Nat /\ k <= n /\ j \in o .. n /\ j < n /\ j < k
    BY <1>1, <1>2
  <2>2. j \notin T
    BY <1>2, <2>1
  <2> QED BY <2>1, <2>2
<1> QED BY <1>2, <1>3

LEMMA SkipStaysInside ==
  ASSUME NEW o \in Nat, o <= Length, Length \in Nat
  PROVE  /\ Skip(o) \in Nat /\ Skip(o) <= Length
         /\ Access(o) => Access(Skip(o))
<1>1. CASE ~Access(o)
  BY <1>1 DEF Skip
<1>2. CASE Access(o)
  <2> DEFINE Stops(q) == /\ \A j \in o .. q - 1 : Sym(j) \in Skipped
                         /\ q < Length => Sym(q) \notin Skipped
             m == CHOOSE q \in o .. Length : Stops(q)
  <2>1. \E q \in o .. Length : Stops(q)
    <3>1. \E q \in o .. Length : /\ \A j \in o .. q - 1 : content[j + 1] \in Skipped
                                 /\ q < Length => content[q + 1] \notin Skipped
      BY FirstPlace
    <3>2. \A j : Sym(j) = content[j + 1]
      BY DEF Sym
    <3> QED BY <3>1, <3>2
  <2>2. m \in o .. Length /\ Stops(m)
    BY <2>1
  <2>3. Skip(o) = IF m = Length THEN m - 1 ELSE m
    BY <1>2 DEF Skip
  <2> HIDE DEF m
  <2>4. o < Length
    BY <1>2 DEF Access
  <2> QED BY <2>2, <2>3, <2>4 DEF Access
<1> QED BY <1>1, <1>2

LEMMA DigitsEndInside ==
  ASSUME NEW o \in Nat, o < Length, Length \in Nat, Sym(o) = "1"
  PROVE  EndOfDigits(o) \in Nat /\ EndOfDigits(o) <= Length
<1> DEFINE Ends(q) == /\ \A j \in o .. q - 1 : Sym(j) = "1"
                      /\ q < Length => Sym(q) # "1"
<1>1. PICK k \in o + 1 .. Length : /\ \A j \in o + 1 .. k - 1 : content[j + 1] \in {"1"}
                                   /\ k < Length => content[k + 1] \notin {"1"}
  <2>1. o + 1 \in Nat /\ o + 1 <= Length
    OBVIOUS
  <2> QED BY <2>1, FirstPlace
<1>2. Ends(k)
  <2>1. \A j : Sym(j) = content[j + 1]
    BY DEF Sym
  <2>2. ASSUME NEW j \in o .. k - 1 PROVE Sym(j) = "1"
    <3>1. CASE j = o
      BY <3>1
    <3>2. CASE j # o
      <4>1. j \in o + 1 .. k - 1
        BY <3>2
      <4>2. content[j + 1] = "1"
        BY <4>1, <1>1
      <4> QED BY <4>2, <2>1
    <3> QED BY <3>1, <3>2
  <2>3. k < Length => Sym(k) # "1"
    BY <1>1, <2>1
  <2> QED BY <2>2, <2>3
<1>3. EndOfDigits(o) = CHOOSE q \in o + 1 .. Length : Ends(q)
  BY DEF EndOfDigits
<1>4. EndOfDigits(o) \in o + 1 .. Length
  <2> HIDE DEF Ends
  <2> QED BY <1>2, <1>3
<1> QED BY <1>4

LEMMA NumberEndsInside ==
  ASSUME NEW o \in Nat, o < Length, Length \in Nat, Sym(o) = "1"
  PROVE  EndOfNumber(o) \in Nat /\ EndOfNumber(o) <= Length
<1> DEFINE d == EndOfDigits(o)
<1>1. d \in Nat /\ d <= Length
  BY DigitsEndInside
<1>2. EndOfNumber(o) = IF d > o + NumberCap THEN o + NumberCap ELSE d
  BY DEF EndOfNumber
<1> HIDE DEF d
<1> QED
  BY <1>1, <1>2, ParseAssumption

-----------------------------------------------------------------------------
(***************************************************************************)
(* The invariant.  A name is only read where something is left to read: it *)
(* is what parse_object tests before it steps over the comma.              *)
(***************************************************************************)

OffsetInside == content \in Seq(Symbol) /\ offset \in Nat /\ offset <= Length
FramesBounded == IsSeq(frames) /\ Len(frames) <= Limit
ParseInv ==
  /\ OffsetInside /\ FramesBounded /\ stray = FALSE
  /\ at = "name" => Access(offset)
  /\ at \in {"begin", "behind", "name"} => frames # <<>>

LEMMA LengthIsNat ==
  ASSUME content \in Seq(Symbol)
  PROVE  Length \in Nat
BY LenProperties DEF Length

\* Length is that of the content, which no step changes.
LEMMA LengthIsConstant ==
  ASSUME content' = content
  PROVE  Length' = Length
BY DEF Length

\* Giving the current item its value changes no frame's place.
LEMMA ValueKeepsDepth ==
  ASSUME NEW v, NEW n, NEW s, NEW f, IsSeq(f), Value(v, n, s, f)
  PROVE  IsSeq(frames') /\ Len(frames') = Len(f)
<1>1. CASE f = <<>>
  BY <1>1 DEF Value
<1>2. CASE f # <<>>
  <2>1. PICK x : frames' = [f EXCEPT ![Len(f)] = x]
    BY <1>2 DEF Value
  <2> QED BY <1>2, <2>1, ChangedSeq
<1> QED BY <1>1, <1>2

LEMMA LinkedKeepsDepth ==
  ASSUME IsSeq(frames), frames # <<>>
  PROVE  IsSeq(Linked) /\ Len(Linked) = Len(frames) /\ Linked # <<>>
<1>1. PICK x : Linked = [frames EXCEPT ![Len(frames)] = x]
  BY DEF Linked
<1> QED BY <1>1, ChangedSeq

\* What the steps below have in common.
LEMMA StepKeepsParseInv ==
  ASSUME ParseInv, content' = content, stray' = stray,
         offset' \in Nat, offset' <= Length,
         IsSeq(frames'), Len(frames') <= Limit,
         at' = "name" => offset' < Length,
         at' \in {"begin", "behind", "name"} => frames' # <<>>
  PROVE  ParseInv'
BY LengthIsConstant DEF ParseInv, OffsetInside, FramesBounded, Access

\* The inductive invariant of the parser: along every parse of every input the
\* offset never passes the end of the buffer, no byte behind it is read, and the
\* frames stay within the nesting limit; a member's name is read inside the
\* buffer, and what is read as an element is inside of a list (parse_value,
\* parse_array and parse_object of cJSON.c).
THEOREM ParseInvariant == ParseSpec => []ParseInv
<1>1. (\E input \in Input, require \in BOOLEAN : ParseInit(input, require)) => ParseInv
  <2> SUFFICES ASSUME NEW input \in Input, NEW require \in BOOLEAN, ParseInit(input, require)
               PROVE  ParseInv
    OBVIOUS
  <2>1. content \in Seq(Symbol) /\ frames = <<>> /\ offset = 0 /\ stray = FALSE /\ at = "start"
    BY ParseAssumption DEF ParseInit
  <2>2. Length \in Nat
    BY <2>1, LengthIsNat
  <2>3. IsSeq(frames) /\ Len(frames) = 0
    BY <2>1, EmptySeq DEF IsSeq
  <2> QED BY <2>1, <2>2, <2>3, ParseAssumption DEF ParseInv, OffsetInside, FramesBounded
<1>2. ParseInv /\ [ParseNext]_parseVars => ParseInv'
  <2> SUFFICES ASSUME ParseInv, [ParseNext]_parseVars PROVE ParseInv'
    OBVIOUS
  <2>0. /\ Length \in Nat /\ offset \in Nat /\ offset <= Length /\ content \in Seq(Symbol)
        /\ IsSeq(frames) /\ Len(frames) <= Limit /\ Limit \in Nat /\ stray = FALSE
        /\ at = "name" => Access(offset)
        /\ at \in {"begin", "behind", "name"} => frames # <<>>
    BY LengthIsNat, ParseAssumption DEF ParseInv, OffsetInside, FramesBounded
  <2>1. CASE ParseStart
    <3>1. skip_utf8_bom \in Nat /\ (Length > 0 => skip_utf8_bom <= Length)
      BY <2>0 DEF skip_utf8_bom, Is, Access
    <3>2. offset' \in Nat /\ offset' <= Length
      BY <2>0, <2>1, <3>1, SkipStaysInside DEF ParseStart
    <3> QED BY <2>0, <2>1, <3>2, StepKeepsParseInv DEF ParseStart
  <2>2. CASE ParseWord
    <3>1. offset' \in Nat /\ offset' <= Length
      BY <2>0, <2>2 DEF ParseWord, Is, Access
    <3>2. IsSeq(frames') /\ Len(frames') = Len(frames)
      BY <2>0, <2>2, ValueKeepsDepth DEF ParseWord
    <3> QED BY <2>0, <2>2, <3>1, <3>2, StepKeepsParseInv DEF ParseWord
  <2>3. CASE ParseNumber
    <3>1. offset < Length /\ Sym(offset) = "1"
      BY <2>3 DEF ParseNumber, Is, Access
    <3>2. offset' \in Nat /\ offset' <= Length
      BY <2>0, <2>3, <3>1, NumberEndsInside DEF ParseNumber
    <3>3. IsSeq(frames') /\ Len(frames') = Len(frames)
      BY <2>0, <2>3, ValueKeepsDepth DEF ParseNumber
    <3> QED BY <2>0, <2>3, <3>2, <3>3, StepKeepsParseInv DEF ParseNumber
  <2>4. CASE ParseString
    <3>1. CASE NoMemory
      BY <2>0, <2>4, <3>1, StepKeepsParseInv DEF ParseString, NoMemory, Fail
    <3>2. CASE ~NoMemory
      <4>1. offset' \in Nat /\ offset' <= Length
        BY <2>0, <2>4, <3>2 DEF ParseString, Is, Access
      <4>2. IsSeq(frames') /\ Len(frames') = Len(frames)
        BY <2>0, <2>4, <3>2, ValueKeepsDepth DEF ParseString
      <4> QED BY <2>0, <2>4, <3>2, <4>1, <4>2, StepKeepsParseInv DEF ParseString
    <3> QED BY <3>1, <3>2
  <2>5. CASE NoValue
    BY <2>0, <2>5, StepKeepsParseInv DEF NoValue, Fail
  <2>6. ASSUME NEW symbol, NEW kind, ParseOpen(symbol, kind) PROVE ParseInv'
    <3>1. CASE Deep
      BY <2>0, <2>6, <3>1, StepKeepsParseInv DEF ParseOpen, Fail
    <3>2. CASE ~Deep
      <4>1. frames' = Append(frames, NewFrame(kind)) /\ at' = "begin"
            /\ offset' = Skip(offset + 1) /\ content' = content /\ stray' = stray
        BY <2>6, <3>2 DEF ParseOpen
      <4>2. offset + 1 \in Nat /\ offset + 1 <= Length
        BY <2>0, <2>6 DEF ParseOpen, Is, Access
      <4>3. offset' \in Nat /\ offset' <= Length
        BY <2>0, <4>1, <4>2, SkipStaysInside
      <4>4. IsSeq(frames') /\ Len(frames') = Len(frames) + 1
        BY <2>0, <4>1, LongerSeq
      <4>5. Len(frames) \in Nat
        BY <2>0, LenProperties DEF IsSeq
      <4>6. Len(frames') <= Limit /\ frames' # <<>>
        <5>1. Len(frames) < Limit
          BY <2>0, <3>2, <4>5 DEF Deep
        <5> QED BY <2>0, <4>4, <4>5, <5>1, EmptySeq
      <4> QED BY <2>0, <4>1, <4>3, <4>4, <4>6, StepKeepsParseInv
    <3> QED BY <3>1, <3>2
  <2>7. CASE ParseClose
    <3>1. frames # <<>>
      BY <2>0, <2>7 DEF ParseClose
    <3>2. IsSeq(Outer) /\ Len(Outer) <= Limit
      BY <2>0, <3>1, ShorterSeq DEF Outer
    <3>3. IsSeq(frames') /\ Len(frames') = Len(Outer)
      BY <2>7, <3>2, ValueKeepsDepth DEF ParseClose
    <3>4. offset' \in Nat /\ offset' <= Length
      BY <2>0, <2>7 DEF ParseClose, Is, Access
    <3> QED BY <2>0, <2>7, <3>2, <3>3, <3>4, StepKeepsParseInv DEF ParseClose
  <2>8. ASSUME NEW kind, NextRound(kind)
        PROVE  From \in Nat /\ From <= Length /\ frames # <<>>
    <3>1. CASE at = "begin"
      BY <2>0, <2>8, <3>1 DEF NextRound, From
    <3>2. CASE at # "begin"
      <4>1. From = offset + 1 /\ offset < Length /\ frames # <<>>
        BY <2>8, <3>2 DEF NextRound, From, Is, Access
      <4> QED BY <2>0, <4>1
    <3> QED BY <3>1, <3>2
  <2>9. CASE ParseElement
    <3>1. CASE NoMemory
      BY <2>0, <2>9, <3>1, StepKeepsParseInv DEF ParseElement, NoMemory, Fail
    <3>2. CASE ~NoMemory
      <4>1. frames' = Linked /\ offset' = Skip(From) /\ at' = "value" /\ NextRound("array")
            /\ content' = content /\ stray' = stray
        BY <2>9, <3>2 DEF ParseElement
      <4>2. offset' \in Nat /\ offset' <= Length
        BY <2>0, <2>8, <4>1, SkipStaysInside
      <4>3. IsSeq(frames') /\ Len(frames') = Len(frames)
        BY <2>0, <2>8, <4>1, LinkedKeepsDepth
      <4> QED BY <2>0, <4>1, <4>2, <4>3, StepKeepsParseInv
    <3> QED BY <3>1, <3>2
  <2>10. CASE ParseMember
    <3>1. CASE NoMemory
      BY <2>0, <2>10, <3>1, StepKeepsParseInv DEF ParseMember, NoMemory, Fail
    <3>2. CASE ~NoMemory
      <4>1. /\ frames' = Linked /\ NextRound("object") /\ content' = content /\ stray' = stray
            /\ IF Access(From) THEN offset' = Skip(From) /\ at' = "name"
                               ELSE at' = "failing" /\ offset' = offset
        BY <2>10, <3>2 DEF ParseMember
      <4>2. /\ offset' \in Nat /\ offset' <= Length /\ at' \in {"name", "failing"}
            /\ at' = "name" => offset' < Length
        BY <2>0, <2>8, <4>1, SkipStaysInside DEF Access
      <4>3. IsSeq(frames') /\ Len(frames') = Len(frames) /\ frames' # <<>>
        BY <2>0, <2>8, <4>1, LinkedKeepsDepth
      <4> QED BY <2>0, <4>1, <4>2, <4>3, StepKeepsParseInv
    <3> QED BY <3>1, <3>2
  <2>11. CASE ParseName
    <3>1. stray' = stray /\ frames # <<>> /\ content' = content
      BY <2>0, <2>11 DEF ParseName
    <3>2. CASE Fail /\ offset' = offset
      BY <2>0, <2>11, <3>1, <3>2, StepKeepsParseInv DEF ParseName, Fail, NoMemory
    <3>3. CASE ~(Fail /\ offset' = offset)
      <4> DEFINE o == Skip(offset + 1)
      <4>1. /\ frames' = [frames EXCEPT ![Len(frames)].strings = @ + 1] /\ Is(offset, "str")
            /\ IF Is(o, ":") THEN offset' = Skip(o + 1) /\ at' = "value"
                             ELSE offset' = o /\ at' = "failing"
        BY <2>11, <3>3 DEF ParseName, NoMemory
      <4>2. o \in Nat /\ o <= Length
        <5>1. offset + 1 \in Nat /\ offset + 1 <= Length
          BY <2>0, <4>1 DEF Is, Access
        <5> QED BY <2>0, <5>1, SkipStaysInside
      <4> HIDE DEF o
      <4>3. offset' \in Nat /\ offset' <= Length /\ at' \in {"value", "failing"}
        <5>1. Is(o, ":") => (o + 1 \in Nat /\ o + 1 <= Length)
          BY <2>0, <4>2 DEF Is, Access
        <5> QED BY <2>0, <4>1, <4>2, <5>1, SkipStaysInside
      <4>4. IsSeq(frames') /\ Len(frames') = Len(frames)
        <5>1. PICK x : frames' = [frames EXCEPT ![Len(frames)] = x]
          BY <4>1
        <5> QED BY <2>0, <3>1, <5>1, ChangedSeq
      <4> QED BY <2>0, <3>1, <4>3, <4>4, StepKeepsParseInv
    <3> QED BY <3>2, <3>3
  <2>12. CASE Behind
    BY <2>0, <2>12, SkipStaysInside, StepKeepsParseInv DEF Behind
  <2>13. CASE Broken
    BY <2>0, <2>13, StepKeepsParseInv DEF Broken, Fail
  <2>14. CASE ParseComplete
    <3>1. offset' \in Nat /\ offset' <= Length /\ at' \in {"parsed", "failing"}
      BY <2>0, <2>14, SkipStaysInside DEF ParseComplete
    <3> QED BY <2>0, <2>14, <3>1, StepKeepsParseInv DEF ParseComplete
  <2>15. CASE Unwind
    <3>1. IsSeq(Outer) /\ Len(Outer) <= Limit
      BY <2>0, <2>15, ShorterSeq DEF Outer, Unwind
    <3> QED BY <2>0, <2>15, <3>1, StepKeepsParseInv DEF Unwind
  <2>16. CASE DeleteRoot
    BY <2>0, <2>16, StepKeepsParseInv DEF DeleteRoot
  <2>17. CASE UNCHANGED parseVars
    BY <2>0, <2>17, StepKeepsParseInv DEF parseVars, Access
  <2> QED BY <2>1, <2>2, <2>3, <2>4, <2>5, <2>6, <2>7, <2>9, <2>10, <2>11, <2>12, <2>13, <2>14,
             <2>15, <2>16, <2>17 DEF ParseNext, ParseArray, ParseObject
<1> QED BY <1>1, <1>2, PTL DEF ParseSpec

\* The parser reads no byte behind the end of its input, its offset never leaves
\* the input, and it does not recurse deeper than CJSON_NESTING_LIMIT.
THEOREM ParsingStaysInside == ParseSpec => []ReadsInside
<1>1. ParseInv => ReadsInside
  BY DEF ParseInv, OffsetInside, FramesBounded, ReadsInside
<1> QED BY <1>1, ParseInvariant, PTL
-----------------------------------------------------------------------------
(***************************************************************************)
(* What the open frames hold.                                              *)
(***************************************************************************)

Frame(K) == [kind : {"array", "object"}, kids : K, items : Nat, strings : Nat]
Framed(f) == \E K : f \in Seq(Frame(K))

Items(f)   == [i \in 1 .. Len(f) |-> f[i].items]
Strings(f) == [i \in 1 .. Len(f) |-> f[i].strings]

\* The first n entries of a add to base, one by one, and make total.
AddsUp(base, a, n, total) ==
  \E c \in [0 .. n -> Nat] :
    c[0] = base /\ c[n] = total /\ \A i \in 1 .. n : c[i] = c[i - 1] + a[i]

LEMMA AddsNothing ==
  ASSUME NEW base \in Nat, NEW a
  PROVE  \A total : AddsUp(base, a, 0, total) <=> total = base
<1>1. AddsUp(base, a, 0, base)
  <2> DEFINE c == [i \in 0 .. 0 |-> base]
  <2>1. c \in [0 .. 0 -> Nat] /\ c[0] = base /\ \A i \in 1 .. 0 : c[i] = c[i - 1] + a[i]
    OBVIOUS
  <2> QED BY <2>1 DEF AddsUp
<1> QED BY <1>1 DEF AddsUp

LEMMA AddsOneMore ==
  ASSUME NEW base, NEW n \in Nat, NEW total, NEW a, AddsUp(base, a, n, total),
         NEW b, \A i \in 1 .. n : b[i] = a[i], b[n + 1] \in Nat
  PROVE  AddsUp(base, b, n + 1, total + b[n + 1])
<1>1. PICK c \in [0 .. n -> Nat] :
        c[0] = base /\ c[n] = total /\ \A i \in 1 .. n : c[i] = c[i - 1] + a[i]
  BY DEF AddsUp
<1> DEFINE d == [i \in 0 .. n + 1 |-> IF i <= n THEN c[i] ELSE total + b[n + 1]]
<1>2. total \in Nat
  BY <1>1
<1>3. d \in [0 .. n + 1 -> Nat]
  BY <1>1, <1>2
<1>4. d[0] = base /\ d[n + 1] = total + b[n + 1]
  BY <1>1
<1>5. ASSUME NEW i \in 1 .. n + 1 PROVE d[i] = d[i - 1] + b[i]
  <2>1. CASE i <= n
    BY <1>1, <2>1
  <2>2. CASE i = n + 1
    BY <1>1, <2>2
  <2> QED BY <2>1, <2>2
<1> HIDE DEF d
<1> QED BY <1>3, <1>4, <1>5 DEF AddsUp

LEMMA AddsOneLess ==
  ASSUME NEW base, NEW n \in Nat \ {0}, NEW total, NEW a, AddsUp(base, a, n, total),
         NEW b, \A i \in 1 .. n - 1 : b[i] = a[i], a[n] \in Nat
  PROVE  AddsUp(base, b, n - 1, total - a[n])
<1>1. PICK c \in [0 .. n -> Nat] :
        c[0] = base /\ c[n] = total /\ \A i \in 1 .. n : c[i] = c[i - 1] + a[i]
  BY DEF AddsUp
<1> DEFINE d == [i \in 0 .. n - 1 |-> c[i]]
<1>2. d \in [0 .. n - 1 -> Nat] /\ d[0] = base
  BY <1>1
<1>3. d[n - 1] = total - a[n]
  <2>1. n \in 1 .. n /\ n - 1 \in 0 .. n /\ c[n - 1] \in Nat
    BY <1>1
  <2> QED BY <1>1, <2>1
<1>4. ASSUME NEW i \in 1 .. n - 1 PROVE d[i] = d[i - 1] + b[i]
  BY <1>1
<1> HIDE DEF d
<1> QED BY <1>2, <1>3, <1>4 DEF AddsUp

\* A frame more, a frame less, and another one on top.
LEMMA FramePushed ==
  ASSUME NEW f, Framed(f), NEW K, NEW x \in Frame(K)
  PROVE  LET g == Append(f, x) IN
         /\ Framed(g) /\ Len(f) \in Nat /\ Len(g) = Len(f) + 1 /\ g # <<>>
         /\ \A i \in 1 .. Len(f) : g[i] = f[i]
         /\ g[Len(f) + 1] = x
<1>1. PICK L : f \in Seq(Frame(L))
  BY DEF Framed
<1>2. Frame(L) \subseteq Frame(K \cup L) /\ Frame(K) \subseteq Frame(K \cup L)
  BY DEF Frame
<1>3. f \in Seq(Frame(K \cup L)) /\ x \in Frame(K \cup L)
  BY <1>1, <1>2, SeqMonotonic
<1>4. PICK g : g = Append(f, x)
  OBVIOUS
<1>5. /\ g \in Seq(Frame(K \cup L)) /\ Len(g) = Len(f) + 1
      /\ \A i \in 1 .. Len(f) : g[i] = f[i]
      /\ g[Len(f) + 1] = x
  BY <1>3, <1>4, AppendProperties
<1>6. Len(f) \in Nat /\ g # <<>>
  BY <1>3, <1>4, LenProperties, AppendProperties
<1> QED BY <1>4, <1>5, <1>6 DEF Framed

LEMMA FramePopped ==
  ASSUME NEW f, Framed(f), f # <<>>
  PROVE  LET g == SubSeq(f, 1, Len(f) - 1) IN
         /\ Framed(g) /\ Len(f) \in Nat \ {0} /\ Len(g) = Len(f) - 1
         /\ \A i \in 1 .. Len(f) - 1 : g[i] = f[i]
         /\ \A i \in 1 .. Len(f) : \E K : f[i] \in Frame(K)
<1>1. PICK L : f \in Seq(Frame(L))
  BY DEF Framed
<1>2. Len(f) \in Nat \ {0}
  BY <1>1, EmptySeq
<1>3. PICK n \in Nat : n = Len(f) - 1
  BY <1>2
<1>4. \A i \in 1 .. Len(f) : f[i] \in Frame(L)
  BY <1>1, ElementOfSeq
<1>5. \A i \in 1 .. n : f[i] \in Frame(L)
  BY <1>2, <1>3, <1>4
<1>6. /\ SubSeq(f, 1, n) \in Seq(Frame(L)) /\ Len(SubSeq(f, 1, n)) = IF 1 <= n THEN n - 1 + 1 ELSE 0
      /\ \A i \in 1 .. n - 1 + 1 : SubSeq(f, 1, n)[i] = f[1 + i - 1]
  BY <1>5, SubSeqProperties
<1>7. Len(SubSeq(f, 1, n)) = n /\ \A i \in 1 .. n : SubSeq(f, 1, n)[i] = f[i]
  BY <1>6
<1> QED BY <1>2, <1>3, <1>4, <1>6, <1>7 DEF Framed

LEMMA FrameChanged ==
  ASSUME NEW f, Framed(f), f # <<>>, NEW K, NEW x \in Frame(K)
  PROVE  LET g == [f EXCEPT ![Len(f)] = x] IN
         /\ Framed(g) /\ Len(g) = Len(f) /\ Len(f) \in Nat \ {0} /\ g # <<>>
         /\ \A i \in 1 .. Len(f) - 1 : g[i] = f[i]
         /\ g[Len(f)] = x
<1>1. PICK L : f \in Seq(Frame(L))
  BY DEF Framed
<1>2. Frame(L) \subseteq Frame(K \cup L) /\ Frame(K) \subseteq Frame(K \cup L)
  BY DEF Frame
<1>3. f \in Seq(Frame(K \cup L)) /\ x \in Frame(K \cup L)
  BY <1>1, <1>2, SeqMonotonic
<1>4. Len(f) \in Nat \ {0} /\ Len(f) \in 1 .. Len(f) /\ DOMAIN f = 1 .. Len(f)
  BY <1>1, EmptySeq, LenProperties
<1>5. PICK g : g = [f EXCEPT ![Len(f)] = x]
  OBVIOUS
<1>6. g \in Seq(Frame(K \cup L)) /\ Len(g) = Len(f)
  BY <1>3, <1>4, <1>5, ExceptSeq
<1>7. (\A i \in 1 .. Len(f) - 1 : g[i] = f[i]) /\ g[Len(f)] = x
  BY <1>4, <1>5
<1>8. g # <<>>
  BY <1>4, <1>6, EmptySeq
<1> QED BY <1>4, <1>5, <1>6, <1>7, <1>8 DEF Framed

\* From base items, and as many strings, the frames f make n items and s strings.
Holds(base, sbase, f, n, s) ==
  AddsUp(base, Items(f), Len(f), n) /\ AddsUp(sbase, Strings(f), Len(f), s)

LEMMA HoldsInNoFrame ==
  ASSUME NEW b \in Nat, NEW sb \in Nat
  PROVE  \A n, s : Holds(b, sb, <<>>, n, s) <=> n = b /\ s = sb
<1>1. Len(<<>>) = 0
  BY EmptySeq
<1> QED BY <1>1, AddsNothing DEF Holds

LEMMA HoldsCounts ==
  ASSUME NEW f, Framed(f), NEW b, NEW sb, NEW n, NEW s, Holds(b, sb, f, n, s)
  PROVE  n \in Nat /\ s \in Nat
<1>1. Len(f) \in Nat
  BY LenProperties DEF Framed
<1> QED BY <1>1 DEF Holds, AddsUp

LEMMA HoldsPushed ==
  ASSUME NEW f, Framed(f), NEW K, NEW x \in Frame(K),
         NEW b, NEW sb, NEW n, NEW s, Holds(b, sb, f, n, s)
  PROVE  Holds(b, sb, Append(f, x), n + x.items, s + x.strings)
<1>1. PICK g : g = Append(f, x)
  OBVIOUS
<1>2. /\ Len(f) \in Nat /\ Len(g) = Len(f) + 1
      /\ \A i \in 1 .. Len(f) : g[i] = f[i]
      /\ g[Len(f) + 1] = x
  BY <1>1, FramePushed
<1>3. x.items \in Nat /\ x.strings \in Nat
  BY DEF Frame
<1>4. /\ \A i \in 1 .. Len(f) : Items(g)[i] = Items(f)[i] /\ Strings(g)[i] = Strings(f)[i]
      /\ Items(g)[Len(f) + 1] = x.items /\ Strings(g)[Len(f) + 1] = x.strings
  BY <1>2 DEF Items, Strings
<1> DEFINE ig == Items(g)
           sg == Strings(g)
           l == Len(f)
<1>5. AddsUp(b, ig, l + 1, n + ig[l + 1]) /\ AddsUp(sb, sg, l + 1, s + sg[l + 1])
  <2>1. AddsUp(b, Items(f), l, n) /\ AddsUp(sb, Strings(f), l, s) /\ l \in Nat
    BY <1>2 DEF Holds
  <2>2. /\ \A i \in 1 .. l : ig[i] = Items(f)[i] /\ sg[i] = Strings(f)[i]
        /\ ig[l + 1] \in Nat /\ sg[l + 1] \in Nat
    BY <1>3, <1>4
  <2> HIDE DEF ig, sg, l
  <2> QED BY <2>1, <2>2, AddsOneMore
<1>6. AddsUp(b, Items(g), Len(f) + 1, n + x.items) /\ AddsUp(sb, Strings(g), Len(f) + 1, s + x.strings)
  BY <1>4, <1>5
<1> QED BY <1>1, <1>2, <1>5, <1>6 DEF Holds

LEMMA HoldsPopped ==
  ASSUME NEW f, Framed(f), f # <<>>, NEW b, NEW sb, NEW n, NEW s, Holds(b, sb, f, n, s)
  PROVE  Holds(b, sb, SubSeq(f, 1, Len(f) - 1), n - f[Len(f)].items, s - f[Len(f)].strings)
<1>1. PICK g : g = SubSeq(f, 1, Len(f) - 1)
  OBVIOUS
<1>2. /\ Len(f) \in Nat \ {0} /\ Len(g) = Len(f) - 1
      /\ \A i \in 1 .. Len(f) - 1 : g[i] = f[i]
      /\ \A i \in 1 .. Len(f) : \E K : f[i] \in Frame(K)
  BY <1>1, FramePopped
<1>3. f[Len(f)].items \in Nat /\ f[Len(f)].strings \in Nat
  <2>1. Len(f) \in 1 .. Len(f)
    BY <1>2
  <2>2. PICK K : f[Len(f)] \in Frame(K)
    BY <1>2, <2>1
  <2> QED BY <2>2 DEF Frame
<1>4. /\ \A i \in 1 .. Len(f) - 1 : Items(g)[i] = Items(f)[i] /\ Strings(g)[i] = Strings(f)[i]
      /\ Items(f)[Len(f)] = f[Len(f)].items /\ Strings(f)[Len(f)] = f[Len(f)].strings
  BY <1>2 DEF Items, Strings
<1>5. AddsUp(b, Items(g), Len(f) - 1, n - f[Len(f)].items)
  BY <1>2, <1>3, <1>4, AddsOneLess DEF Holds
<1>6. AddsUp(sb, Strings(g), Len(f) - 1, s - f[Len(f)].strings)
  BY <1>2, <1>3, <1>4, AddsOneLess DEF Holds
<1> QED BY <1>1, <1>2, <1>5, <1>6 DEF Holds

\* Changing the top frame is taking it away and adding the new one.
LEMMA HoldsChanged ==
  ASSUME NEW f, Framed(f), f # <<>>, NEW K, NEW x \in Frame(K),
         NEW b, NEW sb, NEW n, NEW s, Holds(b, sb, f, n, s)
  PROVE  Holds(b, sb, [f EXCEPT ![Len(f)] = x],
               n - f[Len(f)].items + x.items, s - f[Len(f)].strings + x.strings)
<1>1. PICK g : g = SubSeq(f, 1, Len(f) - 1)
  OBVIOUS
<1>2. PICK h : h = Append(g, x)
  OBVIOUS
<1>3. PICK k : k = [f EXCEPT ![Len(f)] = x]
  OBVIOUS
<1>4. /\ Framed(g) /\ Len(f) \in Nat \ {0} /\ Len(g) = Len(f) - 1
      /\ \A i \in 1 .. Len(f) - 1 : g[i] = f[i]
  BY <1>1, FramePopped
<1>5. Holds(b, sb, h, n - f[Len(f)].items + x.items, s - f[Len(f)].strings + x.strings)
  BY <1>1, <1>2, <1>4, HoldsPopped, HoldsPushed
<1>6. /\ Len(h) = Len(g) + 1 /\ \A i \in 1 .. Len(g) : h[i] = g[i]
      /\ h[Len(g) + 1] = x
  BY <1>2, <1>4, FramePushed
<1>7. /\ Len(k) = Len(f) /\ \A i \in 1 .. Len(f) - 1 : k[i] = f[i]
      /\ k[Len(f)] = x
  BY <1>3, FrameChanged
<1>8. Len(h) = Len(k) /\ \A i \in 1 .. Len(k) : h[i] = k[i]
  BY <1>4, <1>6, <1>7
<1>9. Items(h) = Items(k) /\ Strings(h) = Strings(k)
  BY <1>8 DEF Items, Strings
<1> QED BY <1>3, <1>5, <1>8, <1>9 DEF Holds

\* The value of the current item brings along what hangs on it.
LEMMA ValueHolds ==
  ASSUME NEW v, NEW n \in Nat, NEW s \in Nat, NEW f, Framed(f), root = Bare, Value(v, n, s, f),
         NEW m, NEW t, Holds(1, 0, f, m, t)
  PROVE  /\ Framed(frames') /\ root'.items \in Nat /\ root'.strings \in Nat
         /\ Len(frames') = Len(f) /\ (frames' = <<>> <=> f = <<>>)
         /\ f # <<>> => root' = root
         /\ Holds(root'.items + 1, root'.strings, frames', m + n, t + s)
<1>1. CASE f = <<>>
  <2>1. frames' = f /\ root' = [value |-> v, items |-> n, strings |-> s]
    BY <1>1 DEF Value
  <2>2. m = 1 /\ t = 0
    BY <1>1, HoldsInNoFrame
  <2>3. Holds(n + 1, s, f, m + n, t + s)
    BY <1>1, <2>2, HoldsInNoFrame
  <2> QED BY <1>1, <2>1, <2>3
<1>2. CASE f # <<>>
  <2> DEFINE l == Len(f)
             x == WithValue(f[l], v, n, s)
  <2>2. PICK K : f[l] \in Frame(K)
    <3>1. l \in Nat \ {0} /\ \A i \in 1 .. l : \E K : f[i] \in Frame(K)
      BY <1>2, FramePopped
    <3> QED BY <3>1
  <2>1. frames' = [f EXCEPT ![l] = x] /\ root' = root
    BY <1>2 DEF Value
  <2>3. /\ x \in Frame({Append(f[l].kids, v)})
        /\ x.items = f[l].items + n /\ x.strings = f[l].strings + s
        /\ f[l].items \in Nat /\ f[l].strings \in Nat
    BY <2>2 DEF Frame, WithValue
  <2> HIDE DEF x
  <2>4. Framed(frames') /\ Len(frames') = l /\ frames' # <<>>
    BY <1>2, <2>1, <2>3, FrameChanged
  <2>5. Holds(1, 0, frames', m - f[l].items + x.items, t - f[l].strings + x.strings)
    BY <1>2, <2>1, <2>3, HoldsChanged
  <2>6. m \in Nat /\ t \in Nat
    BY HoldsCounts
  <2>7. m - f[l].items + x.items = m + n /\ t - f[l].strings + x.strings = t + s
    BY <2>3, <2>6
  <2>8. root'.items = 0 /\ root'.strings = 0
    BY <2>1 DEF Bare
  <2>9. Holds(root'.items + 1, root'.strings, frames', m + n, t + s)
    <3>1. root'.items + 1 = 1
      BY <2>8
    <3> QED BY <2>5, <2>7, <2>8, <3>1
  <2> QED BY <1>2, <2>1, <2>4, <2>8, <2>9
<1> QED BY <1>1, <1>2

\* A frame with n items more, and s strings.
More(frame, n, s) ==
  [kind |-> frame.kind, kids |-> frame.kids, items |-> frame.items + n, strings |-> frame.strings + s]

LEMMA TopHolds ==
  ASSUME NEW f, Framed(f), f # <<>>, NEW m, NEW t, Holds(1, 0, f, m, t),
         NEW n \in Nat, NEW s \in Nat, NEW g,
         g = [f EXCEPT ![Len(f)] = More(f[Len(f)], n, s)]
  PROVE  Framed(g) /\ Len(g) = Len(f) /\ g # <<>> /\ Holds(1, 0, g, m + n, t + s)
<1> DEFINE l == Len(f)
           x == More(f[l], n, s)
<1>1. PICK K : f[l] \in Frame(K)
  <2>1. l \in Nat \ {0} /\ \A i \in 1 .. l : \E K : f[i] \in Frame(K)
    BY FramePopped
  <2> QED BY <2>1
<1>2. /\ x \in Frame(K)
      /\ x.items = f[l].items + n /\ x.strings = f[l].strings + s
      /\ f[l].items \in Nat /\ f[l].strings \in Nat
  BY <1>1 DEF Frame, More
<1>3. g = [f EXCEPT ![l] = x]
  OBVIOUS
<1> HIDE DEF x
<1>4. Framed(g) /\ Len(g) = l /\ g # <<>>
  <2>1. LET h == [f EXCEPT ![Len(f)] = x] IN Framed(h) /\ Len(h) = Len(f) /\ h # <<>>
    BY <1>2, FrameChanged
  <2> QED BY <1>3, <2>1
<1>5. Holds(1, 0, g, m - f[l].items + x.items, t - f[l].strings + x.strings)
  <2>1. Holds(1, 0, [f EXCEPT ![Len(f)] = x],
               m - f[Len(f)].items + x.items, t - f[Len(f)].strings + x.strings)
    BY <1>2, HoldsChanged
  <2> QED BY <1>3, <2>1
<1>6. m \in Nat /\ t \in Nat
  BY HoldsCounts
<1>7. m - f[l].items + x.items = m + n /\ t - f[l].strings + x.strings = t + s
  BY <1>2, <1>6
<1> QED BY <1>4, <1>5, <1>7

\* A frame's fields are those of a frame.
LEMMA TopIsFrame ==
  ASSUME Framed(frames), frames # <<>>
  PROVE  /\ \E K : Top \in Frame(K)
         /\ Top.items \in Nat /\ Top.strings \in Nat
         /\ Linked = [frames EXCEPT ![Len(frames)] = More(frames[Len(frames)], 1, 0)]
         /\ [frames EXCEPT ![Len(frames)].strings = @ + 1] =
              [frames EXCEPT ![Len(frames)] = More(frames[Len(frames)], 0, 1)]
<1> DEFINE l == Len(frames)
<1>1. PICK K : frames[l] \in Frame(K)
  <2>1. l \in Nat \ {0} /\ \A i \in 1 .. l : \E K : frames[i] \in Frame(K)
    BY FramePopped
  <2> QED BY <2>1
<1>2. frames[l].items \in Nat /\ frames[l].strings \in Nat
  BY <1>1 DEF Frame
<1>3. More(frames[l], 1, 0) = [frames[l] EXCEPT !.items = frames[l].items + 1]
  BY <1>1, <1>2 DEF Frame, More
<1>4. More(frames[l], 0, 1) = [frames[l] EXCEPT !.strings = frames[l].strings + 1]
  BY <1>1, <1>2 DEF Frame, More
<1>5. Linked = [frames EXCEPT ![l] = [frames[l] EXCEPT !.items = frames[l].items + 1]]
  BY DEF Linked
<1>6. [frames EXCEPT ![l].strings = @ + 1]
        = [frames EXCEPT ![l] = [frames[l] EXCEPT !.strings = frames[l].strings + 1]]
  OBVIOUS
<1> QED BY <1>1, <1>2, <1>3, <1>4, <1>5, <1>6 DEF Top

-----------------------------------------------------------------------------
(***************************************************************************)
(* Nothing leaks.  What is allocated is the root, what hangs on it, and    *)
(* what the lists of the open frames hold; while a value is read, the root *)
(* has none.                                                               *)
(***************************************************************************)

Reading == {"value", "begin", "name", "behind"}
ParseHeld ==
  /\ at \in At /\ terminated \in BOOLEAN /\ starved \in BOOLEAN
  /\ Framed(frames) /\ root.items \in Nat /\ root.strings \in Nat
  /\ at \in {"start", "failed"} => items = 0 /\ strings = 0 /\ frames = <<>> /\ root = Bare
  /\ at \notin {"start", "failed"} => Holds(root.items + 1, root.strings, frames, items, strings)
  /\ frames # <<>> \/ at \in Reading => root = Bare
  /\ at = "parsed" => frames = <<>>

LEMMA EmptyFramed == Framed(<<>>)
BY EmptySeq DEF Framed

\* A step to a failure, or onwards, that allocates nothing.
LEMMA NothingTaken ==
  ASSUME ParseHeld, UNCHANGED <<terminated, frames, items, strings, root>>,
         starved' \in BOOLEAN, at' \in At, at \notin {"start", "failed"},
         at' \notin {"start", "failed"},
         at' \in Reading => root = Bare, at' = "parsed" => frames = <<>>
  PROVE  ParseHeld'
BY DEF ParseHeld

\* A step that gives the current item of the frames f a value of n items and s strings.
LEMMA ValueTaken ==
  ASSUME ParseHeld, root = Bare, NEW v, NEW n \in Nat, NEW s \in Nat, NEW f, Framed(f),
         Value(v, n, s, f), NEW m, NEW t, Holds(1, 0, f, m, t),
         items' = m + n, strings' = t + s, at' = "after", UNCHANGED <<terminated, starved>>
  PROVE  ParseHeld'
<1>1. /\ Framed(frames') /\ root'.items \in Nat /\ root'.strings \in Nat
      /\ frames' # <<>> => root' = root
      /\ Holds(root'.items + 1, root'.strings, frames', items', strings')
  BY ValueHolds
<1> QED BY <1>1 DEF ParseHeld, At, Reading

\* A step that puts n items and s strings on top of the frames.
LEMMA MoreTaken ==
  ASSUME ParseHeld, frames # <<>>, at \in Reading, NEW n \in Nat, NEW s \in Nat,
         frames' = [frames EXCEPT ![Len(frames)] = More(frames[Len(frames)], n, s)],
         items' = items + n, strings' = strings + s, at' \in Reading \cup {"failing"},
         UNCHANGED <<terminated, starved, root>>
  PROVE  ParseHeld'
<1>1. root = Bare /\ Framed(frames) /\ Holds(1, 0, frames, items, strings)
  BY DEF ParseHeld, Reading, Bare
<1>2. Framed(frames') /\ frames' # <<>> /\ Holds(1, 0, frames', items', strings')
  BY <1>1, TopHolds
<1> QED BY <1>1, <1>2 DEF ParseHeld, At, Reading, Bare

LEMMA ParseHeldStep == ASSUME ParseInv, ParseHeld, [ParseNext]_parseVars PROVE ParseHeld'
<1>0. /\ at \in At /\ terminated \in BOOLEAN /\ starved \in BOOLEAN /\ Framed(frames)
      /\ at \in Reading => root = Bare
      /\ at \in {"begin", "behind", "name"} => frames # <<>>
  BY DEF ParseHeld, ParseInv
<1>1. ASSUME at \in Reading PROVE Holds(1, 0, frames, items, strings) /\ root = Bare
  BY <1>0, <1>1 DEF ParseHeld, Bare, Reading
<1>2. ASSUME NoMemory, at \in Reading, UNCHANGED terminated PROVE ParseHeld'
  BY <1>0, <1>2, NothingTaken DEF NoMemory, Fail, At, Reading
<1>3. ASSUME Fail, at \in Reading, UNCHANGED <<terminated, starved>> PROVE ParseHeld'
  BY <1>0, <1>3, NothingTaken DEF Fail, At, Reading
<1>4. ASSUME ParseStart PROVE ParseHeld'
  <2>1. at = "start" /\ items = 0 /\ strings = 0 /\ frames = <<>> /\ root = Bare
    BY <1>4 DEF ParseStart, ParseHeld
  <2>2. strings' = 0 /\ frames' = <<>> /\ root' = Bare /\ terminated' \in BOOLEAN
    BY <1>0, <1>4, <2>1 DEF ParseStart
  <2>3. Framed(frames') /\ root'.items = 0 /\ root'.strings = 0
    BY <2>2, EmptyFramed DEF Bare
  <2>4. CASE at' = "failed"
    BY <1>4, <2>1, <2>2, <2>3, <2>4 DEF ParseStart, ParseHeld, At
  <2>5. CASE at' # "failed"
    <3>1. at' = "value" /\ items' = 1 /\ starved' \in BOOLEAN
      BY <1>0, <1>4, <2>5 DEF ParseStart
    <3>2. Holds(1, 0, <<>>, 1, 0)
      BY HoldsInNoFrame
    <3> QED BY <2>2, <2>3, <3>1, <3>2 DEF ParseHeld, At
  <2> QED BY <2>4, <2>5
<1>5. ASSUME ParseWord \/ ParseNumber PROVE ParseHeld'
  <2>1. at = "value" /\ at' = "after" /\ UNCHANGED <<terminated, items, strings, starved>>
        /\ \E v : Value(v, 0, 0, frames)
    BY <1>5 DEF ParseWord, ParseNumber
  <2>2. Holds(1, 0, frames, items, strings) /\ root = Bare
    BY <1>1, <2>1 DEF Reading
  <2>3. items' = items + 0 /\ strings' = strings + 0
    BY <1>0, <2>1, <2>2, HoldsCounts
  <2> QED BY <1>0, <2>1, <2>2, <2>3, ValueTaken
<1>6. ASSUME ParseString PROVE ParseHeld'
  <2>1. CASE NoMemory
    BY <1>2, <1>6, <2>1 DEF ParseString, Reading
  <2>2. CASE ~NoMemory
    <3>1. /\ at = "value" /\ at' = "after" /\ UNCHANGED <<terminated, items, starved>>
          /\ strings' = strings + 1 /\ Value(Node("str", <<>>), 0, 1, frames)
      BY <1>6, <2>2 DEF ParseString
    <3>2. Holds(1, 0, frames, items, strings) /\ root = Bare
      BY <1>1, <3>1 DEF Reading
    <3>3. items' = items + 0
      BY <1>0, <3>1, <3>2, HoldsCounts
    <3> QED BY <1>0, <3>1, <3>2, <3>3, ValueTaken
  <2> QED BY <2>1, <2>2
<1>7. ASSUME NoValue \/ Broken PROVE ParseHeld'
  BY <1>3, <1>7 DEF NoValue, Broken, Reading
<1>8. ASSUME NEW symbol, NEW kind \in {"array", "object"}, ParseOpen(symbol, kind) PROVE ParseHeld'
  <2>1. CASE Deep
    BY <1>3, <1>8, <2>1 DEF ParseOpen, Reading
  <2>2. CASE ~Deep
    <3>1. /\ frames' = Append(frames, NewFrame(kind)) /\ at = "value" /\ at' = "begin"
          /\ UNCHANGED <<items, strings, root, terminated, starved>>
      BY <1>8, <2>2 DEF ParseOpen
    <3>2. /\ NewFrame(kind) \in Frame({<<>>})
          /\ NewFrame(kind).items = 0 /\ NewFrame(kind).strings = 0
      BY DEF NewFrame, Frame
    <3>3. Holds(1, 0, frames, items, strings) /\ root = Bare
      BY <1>1, <3>1 DEF Reading
    <3>4. Framed(frames') /\ Holds(1, 0, frames', items + 0, strings + 0)
      <4> DEFINE x == NewFrame(kind)
      <4>1. x \in Frame({<<>>}) /\ x.items = 0 /\ x.strings = 0 /\ frames' = Append(frames, x)
        BY <3>1, <3>2
      <4> HIDE DEF x
      <4>2. Holds(1, 0, frames', items + x.items, strings + x.strings) /\ Framed(frames')
        BY <1>0, <3>3, <4>1, FramePushed, HoldsPushed
      <4> QED BY <4>1, <4>2
    <3>5. items + 0 = items /\ strings + 0 = strings
      BY <1>0, <3>3, HoldsCounts
    <3> QED BY <1>0, <3>1, <3>3, <3>4, <3>5 DEF ParseHeld, At, Reading, Bare
  <2> QED BY <2>1, <2>2
<1>9. ASSUME ParseClose PROVE ParseHeld'
  <2>1. /\ at \in {"begin", "behind"} /\ at' = "after"
        /\ Value(Node(Top.kind, Top.kids), Top.items, Top.strings, Outer)
        /\ UNCHANGED <<terminated, items, strings, starved>>
    BY <1>9 DEF ParseClose
  <2>2. Holds(1, 0, frames, items, strings) /\ root = Bare /\ frames # <<>>
    BY <1>0, <1>1, <2>1 DEF Reading
  <2>3. Top.items \in Nat /\ Top.strings \in Nat
    BY <1>0, <2>2, TopIsFrame
  <2>4. Framed(Outer) /\ Holds(1, 0, Outer, items - Top.items, strings - Top.strings)
    BY <1>0, <2>2, FramePopped, HoldsPopped DEF Outer, Top
  <2>5. items \in Nat /\ strings \in Nat
    BY <1>0, <2>2, HoldsCounts
  <2>6. items' = items - Top.items + Top.items /\ strings' = strings - Top.strings + Top.strings
    BY <2>1, <2>3, <2>5
  <2> QED BY <2>1, <2>2, <2>3, <2>4, <2>6, ValueTaken
<1>10. ASSUME ParseElement \/ ParseMember PROVE ParseHeld'
  <2>1. at \in {"begin", "behind"} /\ frames # <<>>
    BY <1>10 DEF ParseElement, ParseMember, NextRound
  <2>2. CASE NoMemory
    BY <1>2, <1>10, <2>1, <2>2 DEF ParseElement, ParseMember, Reading
  <2>3. CASE ~NoMemory
    <3>1. /\ items' = items + 1 /\ frames' = Linked /\ at' \in {"value", "name", "failing"}
          /\ UNCHANGED <<terminated, strings, root, starved>>
      BY <1>10, <2>3 DEF ParseElement, ParseMember
    <3>2. strings' = strings + 0
      BY <1>0, <1>1, <2>1, <3>1, HoldsCounts DEF Reading
    <3>3. frames' = [frames EXCEPT ![Len(frames)] = More(frames[Len(frames)], 1, 0)]
      BY <1>0, <2>1, <3>1, TopIsFrame
    <3> QED BY <2>1, <3>1, <3>2, <3>3, MoreTaken DEF Reading
  <2> QED BY <2>2, <2>3
<1>11. ASSUME ParseName PROVE ParseHeld'
  <2>1. at = "name" /\ frames # <<>> /\ UNCHANGED terminated
    BY <1>0, <1>11 DEF ParseName
  <2>2. CASE NoMemory
    BY <1>2, <2>1, <2>2 DEF Reading
  <2>3. CASE Fail /\ UNCHANGED starved
    BY <1>3, <2>1, <2>3 DEF Reading
  <2>4. CASE ~NoMemory /\ ~(Fail /\ UNCHANGED starved)
    <3>1. /\ strings' = strings + 1 /\ at' \in {"value", "failing"}
          /\ frames' = [frames EXCEPT ![Len(frames)].strings = @ + 1]
          /\ UNCHANGED <<items, root, starved>>
      BY <1>11, <2>4 DEF ParseName
    <3>2. items' = items + 0
      BY <1>0, <1>1, <2>1, <3>1, HoldsCounts DEF Reading
    <3>3. frames' = [frames EXCEPT ![Len(frames)] = More(frames[Len(frames)], 0, 1)]
      BY <1>0, <2>1, <3>1, TopIsFrame
    <3> QED BY <2>1, <3>1, <3>2, <3>3, MoreTaken DEF Reading
  <2> QED BY <2>2, <2>3, <2>4
<1>12. ASSUME Behind PROVE ParseHeld'
  <2>1. at = "after" /\ frames # <<>> /\ at' = "behind" /\ root = Bare
        /\ UNCHANGED <<terminated, frames, items, strings, root, starved>>
    BY <1>12 DEF Behind, ParseHeld
  <2> QED BY <1>0, <2>1, NothingTaken DEF At
<1>13. ASSUME ParseComplete PROVE ParseHeld'
  <2>1. at = "after" /\ frames = <<>> /\ at' \in {"parsed", "failing"}
        /\ UNCHANGED <<terminated, frames, items, strings, root, starved>>
    BY <1>13 DEF ParseComplete
  <2> QED BY <1>0, <2>1, NothingTaken DEF At, Reading
<1>14. ASSUME Unwind PROVE ParseHeld'
  <2>1. /\ at = "failing" /\ frames # <<>> /\ at' = "failing"
        /\ items' = items - Top.items /\ strings' = strings - Top.strings /\ frames' = Outer
        /\ UNCHANGED <<terminated, root, starved>>
    BY <1>14 DEF Unwind
  <2>2. Holds(root.items + 1, root.strings, frames, items, strings) /\ root = Bare
    BY <2>1 DEF ParseHeld
  <2>3. Framed(frames') /\ Holds(root.items + 1, root.strings, frames', items', strings')
    BY <1>0, <2>1, <2>2, FramePopped, HoldsPopped DEF Outer, Top
  <2> QED BY <1>0, <2>1, <2>2, <2>3 DEF ParseHeld, Reading
<1>15. ASSUME DeleteRoot PROVE ParseHeld'
  <2>1. /\ at = "failing" /\ frames = <<>> /\ at' = "failed" /\ root' = Bare
        /\ items' = items - root.items - 1 /\ strings' = strings - root.strings
        /\ UNCHANGED <<terminated, frames, starved>>
    BY <1>15 DEF DeleteRoot
  <2>2. /\ Holds(root.items + 1, root.strings, <<>>, items, strings)
        /\ root.items \in Nat /\ root.strings \in Nat
    BY <2>1 DEF ParseHeld
  <2>3. items = root.items + 1 /\ strings = root.strings
    <3>1. root.items + 1 \in Nat
      BY <2>2
    <3> QED BY <2>2, <3>1, HoldsInNoFrame
  <2>4. items' = 0 /\ strings' = 0
    BY <2>1, <2>2, <2>3
  <2> QED BY <1>0, <2>1, <2>4 DEF ParseHeld, Reading, Bare, At
<1>16. ASSUME UNCHANGED parseVars PROVE ParseHeld'
  BY <1>16 DEF parseVars, ParseHeld
<1> QED BY <1>4, <1>5, <1>6, <1>7, <1>8, <1>9, <1>10, <1>11, <1>12, <1>13, <1>14, <1>15, <1>16
        DEF ParseNext, ParseArray, ParseObject

\* The inductive invariant of the allocations: along every parse what is
\* allocated is the root, what hangs on it and what the open frames hold
\* (cJSON_New_Item and parse_string of cJSON.c against the exits of the parser).
THEOREM ParseHoldsAll == ParseSpec => []ParseHeld
<1>1. (\E input \in Input, require \in BOOLEAN : ParseInit(input, require)) => ParseHeld
  <2> SUFFICES ASSUME NEW input \in Input, NEW require \in BOOLEAN, ParseInit(input, require)
               PROVE  ParseHeld
    OBVIOUS
  <2>1. /\ terminated \in BOOLEAN /\ at = "start" /\ frames = <<>> /\ items = 0 /\ strings = 0
        /\ root = Bare /\ starved \in BOOLEAN
    BY DEF ParseInit
  <2>2. Framed(frames) /\ root.items \in Nat /\ root.strings \in Nat
    BY <2>1, EmptyFramed DEF Bare
  <2> QED BY <2>1, <2>2 DEF ParseHeld, At, Reading
<1>2. ParseInv /\ ParseHeld /\ [ParseNext]_parseVars => ParseHeld'
  BY ParseHeldStep
<1> QED BY <1>1, <1>2, ParseInvariant, PTL DEF ParseSpec

\* The parser never leaves its state space; the counts of what is allocated
\* never go below zero, so that nothing is given back twice.
THEOREM ParseTypes == ParseSpec => []ParseTypeOK
<1>1. ParseInv /\ ParseHeld => ParseTypeOK
  <2> SUFFICES ASSUME ParseInv, ParseHeld PROVE ParseTypeOK
    OBVIOUS
  <2>1. items \in Nat /\ strings \in Nat
    BY HoldsCounts DEF ParseHeld
  <2>2. PICK K : frames \in Seq(Frame(K))
    BY DEF ParseHeld, Framed
  <2>3. \A i \in DOMAIN frames : frames[i] \in Frame(K)
    BY <2>2
  <2>4. \A i \in DOMAIN frames : /\ frames[i].kind \in {"array", "object"}
                                 /\ frames[i].items \in Nat /\ frames[i].strings \in Nat
    BY <2>3 DEF Frame
  <2> QED BY <2>1, <2>4 DEF ParseTypeOK, ParseInv, ParseHeld, OffsetInside
<1> QED BY <1>1, ParseInvariant, ParseHoldsAll, PTL

\* Wherever a parse fails, for lack of memory or on the text, every item and every
\* string has been given back when it returns; when it succeeds, all of them hang
\* on the root (the "fail" labels of parse_array, parse_object and
\* cJSON_ParseWithLengthOpts).
THEOREM NothingLeaksFromParsing == ParseSpec => []FailureFreesAll
<1>1. ParseHeld => FailureFreesAll
  <2> SUFFICES ASSUME ParseHeld PROVE FailureFreesAll
    OBVIOUS
  <2>1. CASE at = "parsed"
    <3>1. Holds(root.items + 1, root.strings, <<>>, items, strings)
          /\ root.items + 1 \in Nat /\ root.strings \in Nat
      BY <2>1 DEF ParseHeld
    <3>2. items = root.items + 1 /\ strings = root.strings
      BY <3>1, HoldsInNoFrame
    <3> QED BY <2>1, <3>2 DEF FailureFreesAll
  <2>2. CASE at # "parsed"
    BY <2>2 DEF ParseHeld, FailureFreesAll
  <2> QED BY <2>1, <2>2
<1> QED BY <1>1, ParseHoldsAll, PTL

-----------------------------------------------------------------------------
(***************************************************************************)
(* The grammar.                                                            *)
(***************************************************************************)

LEMMA SpanIs ==
  ASSUME NEW c, NEW w, NEW i, NEW j, NEW d
  PROVE  <<w, i, j, d>> \in Span(c) <=> /\ w \in {"value", "elements", "members"}
                                        /\ i \in 1 .. Len(c) + 1
                                        /\ j \in 0 .. Len(c) /\ d \in 0 .. Limit
BY DEF Span

\* Who knows more spans derives more.
Below(c, G, H) == \A s \in Span(c) : G[s] => H[s]

LEMMA DerivesIsMonotone ==
  ASSUME NEW c \in Seq(Symbol), NEW G, NEW H, Below(c, G, H), NEW s \in Span(c), Derives(c, G, s)
  PROVE  Derives(c, H, s)
<1>0. PICK w \in {"value", "elements", "members"}, i \in 1 .. Len(c) + 1, j \in 0 .. Len(c),
           d \in 0 .. Limit : s = <<w, i, j, d>>
  BY DEF Span
<1>1. Limit \in Nat /\ Len(c) \in Nat
  BY ParseAssumption, LenProperties
<1>2. ASSUME NEW u \in {"value", "elements", "members"}, NEW x \in Int, NEW y \in Int, NEW e \in Int,
             1 <= x, x <= Len(c) + 1, 0 <= y, y <= Len(c), 0 <= e, e <= Limit
      PROVE  G[<<u, x, y, e>>] => H[<<u, x, y, e>>]
  <2>1. <<u, x, y, e>> \in Span(c)
    BY <1>1, <1>2, SpanIs
  <2> QED
    BY <2>1 DEF Below
<1>3. CASE w = "value"
  <2>1. IsValue(c, G, i, j, d) /\ i <= j
    BY <1>0, <1>3 DEF Derives, IsValue
  <2>2. /\ G[<<"value", i + 1, j, d>>] => H[<<"value", i + 1, j, d>>]
        /\ G[<<"value", i, j - 1, d>>] => H[<<"value", i, j - 1, d>>]
    <3>1. /\ i + 1 \in Int /\ 1 <= i + 1 /\ i + 1 <= Len(c) + 1 /\ 0 <= j - 1 /\ j - 1 <= Len(c)
          /\ i \in Int /\ j \in Int /\ d \in Int /\ j - 1 \in Int
      BY <1>1, <2>1
    <3> QED
      BY <1>1, <1>2, <3>1
  <2>3. ASSUME d > 0, i < j
        PROVE  /\ G[<<"elements", i + 1, j - 1, d - 1>>] => H[<<"elements", i + 1, j - 1, d - 1>>]
               /\ G[<<"members", i + 1, j - 1, d - 1>>] => H[<<"members", i + 1, j - 1, d - 1>>]
    BY <1>1, <1>2, <2>3
  <2>4. IsValue(c, H, i, j, d)
    BY <2>1, <2>2, <2>3 DEF IsValue
  <2> QED
    BY <1>0, <1>3, <2>4 DEF Derives
<1>4. CASE w = "elements"
  <2>1. AreElements(c, G, i, j, d) /\ i <= j
    BY <1>0, <1>4 DEF Derives, AreElements
  <2>2. G[<<"value", i, j, d>>] => H[<<"value", i, j, d>>]
    BY <1>1, <1>2, <2>1
  <2>3. ASSUME NEW k \in i .. j
        PROVE  /\ G[<<"value", i, k - 1, d>>] => H[<<"value", i, k - 1, d>>]
               /\ G[<<"elements", k + 1, j, d>>] => H[<<"elements", k + 1, j, d>>]
    BY <1>1, <1>2, <2>3
  <2>4. AreElements(c, H, i, j, d)
    BY <2>1, <2>2, <2>3 DEF AreElements
  <2> QED
    BY <1>0, <1>4, <2>4 DEF Derives
<1>5. CASE w = "members"
  <2>1. AreMembers(c, G, i, j, d)
    BY <1>0, <1>5 DEF Derives
  <2>2. PICK k \in i .. j, n \in i .. j :
          /\ c[n] = "str" /\ c[k] = ":" /\ n < k
          /\ Blank(c, i, n - 1) /\ Blank(c, n + 1, k - 1)
          /\ \/ G[<<"value", k + 1, j, d>>]
             \/ \E m \in k .. j : /\ c[m] = ","
                                  /\ G[<<"value", k + 1, m - 1, d>>]
                                  /\ G[<<"members", m + 1, j, d>>]
    BY <2>1 DEF AreMembers
  <2>3. G[<<"value", k + 1, j, d>>] => H[<<"value", k + 1, j, d>>]
    <3>1. k + 1 \in Int /\ 1 <= k + 1 /\ k + 1 <= Len(c) + 1
      BY <1>1
    <3> QED
      BY <1>1, <1>2, <3>1
  <2>4. ASSUME NEW m \in k .. j
        PROVE  /\ G[<<"value", k + 1, m - 1, d>>] => H[<<"value", k + 1, m - 1, d>>]
               /\ G[<<"members", m + 1, j, d>>] => H[<<"members", m + 1, j, d>>]
    BY <1>1, <1>2, <2>4
  <2>5. AreMembers(c, H, i, j, d)
    BY <2>2, <2>3, <2>4 DEF AreMembers
  <2> QED
    BY <1>0, <1>5, <2>5 DEF Derives
<1> QED
  BY <1>3, <1>4, <1>5

\* The grammar is well defined: the least spans that it derives are a solution.
LEMMA GrammarExists ==
  ASSUME NEW c \in Seq(Symbol)
  PROVE  \E G : G = [s \in Span(c) |-> Derives(c, G, s)]
<1> DEFINE Closed(S) == \A s \in Span(c) : Derives(c, S, s) => S[s]
           G == [s \in Span(c) |-> \A S : Closed(S) => S[s]]
           H == [s \in Span(c) |-> G[s] /\ Derives(c, G, s)]
<1>1. ASSUME NEW S, Closed(S) PROVE Below(c, G, S)
  BY <1>1 DEF Below
<1>2. \A s \in Span(c) : (\A S : Closed(S) => S[s]) => G[s]
  OBVIOUS
<1>3. Below(c, H, G)
  BY DEF Below
<1>4. \A s \in Span(c) : G[s] /\ Derives(c, G, s) => H[s]
  OBVIOUS
<1>5. \A s \in Span(c) : G[s] \in BOOLEAN
  OBVIOUS
<1>6. G = [s \in Span(c) |-> G[s]]
  OBVIOUS
<1>7. Below(c, G, H) => \A s \in Span(c) : G[s] => Derives(c, G, s)
  BY DEF Below
<1> HIDE DEF G, H
<1>8. Closed(G)
  <2> SUFFICES ASSUME NEW s \in Span(c), Derives(c, G, s) PROVE G[s]
    OBVIOUS
  <2>1. ASSUME NEW S, Closed(S) PROVE S[s]
    BY <1>1, <2>1, DerivesIsMonotone
  <2> HIDE DEF Closed
  <2> QED
    BY <1>2, <2>1
<1>9. Closed(H)
  <2> SUFFICES ASSUME NEW s \in Span(c), Derives(c, H, s) PROVE H[s]
    OBVIOUS
  <2>1. Derives(c, G, s)
    BY <1>3, DerivesIsMonotone
  <2> QED
    BY <1>4, <1>8, <2>1
<1>10. \A s \in Span(c) : G[s] <=> Derives(c, G, s)
  BY <1>1, <1>7, <1>8, <1>9
<1>11. \A s : Derives(c, G, s) \in BOOLEAN
  BY DEF Derives, IsValue, AreElements, AreMembers
<1>12. \A s \in Span(c) : G[s] = Derives(c, G, s)
  BY <1>5, <1>10, <1>11
<1> QED
  BY <1>6, <1>12

\* The grammar as a rule for every span.
LEMMA GrammarRule ==
  ASSUME NEW c \in Seq(Symbol), NEW s \in Span(c)
  PROVE  Grammar(c)[s] <=> Derives(c, Grammar(c), s)
<1> DEFINE Rec(G) == G = [u \in Span(c) |-> Derives(c, G, u)]
<1>1. \E G : Rec(G)
  BY GrammarExists
<1>2. Grammar(c) = CHOOSE G : Rec(G)
  BY DEF Grammar
<1> HIDE DEF Rec
<1>3. Rec(Grammar(c))
  BY <1>1, <1>2
<1> QED
  BY <1>3 DEF Rec

\* A value, and what is inside a bracket, on the symbols i to j of c.
ValueOn(c, i, j, d) == Grammar(c)[<<"value", i, j, d>>]
ListOn(kind, c, i, j, d) ==
  IF kind = "array" THEN Grammar(c)[<<"elements", i, j, d>>] ELSE Grammar(c)[<<"members", i, j, d>>]

Opener(kind) == IF kind = "array" THEN "[" ELSE "{"
Closer(kind) == IF kind = "array" THEN "]" ELSE "}"
Kind == {"array", "object"}
Comma == ","

\* A value without blanks around it.
Core(c, i, j, d) ==
  \/ i = j /\ c[i] \in {"null", "str"}
  \/ j - i < NumberCap /\ \A k \in i .. j : c[k] = "1"
  \/ \E kind \in Kind :
       /\ d > 0 /\ c[i] = Opener(kind) /\ c[j] = Closer(kind) /\ i < j
       /\ Blank(c, i + 1, j - 1) \/ ListOn(kind, c, i + 1, j - 1, d - 1)

LEMMA ValueRule ==
  ASSUME NEW c \in Seq(Symbol), NEW i \in 1 .. Len(c) + 1, NEW j \in 0 .. Len(c), NEW d \in 0 .. Limit
  PROVE  ValueOn(c, i, j, d) <=>
           /\ i <= j
           /\ \/ c[i] \in Skipped /\ ValueOn(c, i + 1, j, d)
              \/ c[j] \in Skipped /\ ValueOn(c, i, j - 1, d)
              \/ Core(c, i, j, d)
<1>1. <<"value", i, j, d>> \in Span(c)
  BY SpanIs
<1>2. ValueOn(c, i, j, d) <=> IsValue(c, Grammar(c), i, j, d)
  BY <1>1, GrammarRule DEF Derives, ValueOn
<1> QED
  BY <1>2 DEF IsValue, ValueOn, ListOn, Core, Kind, Opener, Closer

LEMMA ElementsRule ==
  ASSUME NEW c \in Seq(Symbol), NEW i \in 1 .. Len(c) + 1, NEW j \in 0 .. Len(c), NEW d \in 0 .. Limit
  PROVE  ListOn("array", c, i, j, d) <=>
           /\ i <= j
           /\ \/ ValueOn(c, i, j, d)
              \/ \E k \in i .. j : /\ c[k] = Comma /\ ValueOn(c, i, k - 1, d)
                                   /\ ListOn("array", c, k + 1, j, d)
<1>1. <<"elements", i, j, d>> \in Span(c)
  BY SpanIs
<1>2. ListOn("array", c, i, j, d) <=> AreElements(c, Grammar(c), i, j, d)
  BY <1>1, GrammarRule DEF Derives, ListOn
<1> QED
  BY <1>2 DEF Comma, AreElements, ValueOn, ListOn

LEMMA MembersRule ==
  ASSUME NEW c \in Seq(Symbol), NEW i \in 1 .. Len(c) + 1, NEW j \in 0 .. Len(c), NEW d \in 0 .. Limit
  PROVE  ListOn("object", c, i, j, d) <=>
           \E k \in i .. j, n \in i .. j :
             /\ c[n] = "str" /\ c[k] = ":" /\ n < k
             /\ Blank(c, i, n - 1) /\ Blank(c, n + 1, k - 1)
             /\ \/ ValueOn(c, k + 1, j, d)
                \/ \E m \in k .. j : /\ c[m] = Comma /\ ValueOn(c, k + 1, m - 1, d)
                                     /\ ListOn("object", c, m + 1, j, d)
<1>1. <<"members", i, j, d>> \in Span(c)
  BY SpanIs
<1>2. ListOn("object", c, i, j, d) <=> AreMembers(c, Grammar(c), i, j, d)
  BY <1>1, GrammarRule DEF Derives, ListOn
<1> QED
  BY <1>2 DEF Comma, AreMembers, ValueOn, ListOn

\* Blanks in front of a value and behind it belong to it.
LEMMA Leading ==
  ASSUME NEW c \in Seq(Symbol), NEW p \in 1 .. Len(c) + 1, NEW i \in 1 .. p, NEW j \in 0 .. Len(c),
         NEW d \in 0 .. Limit, Blank(c, i, p - 1), ValueOn(c, p, j, d)
  PROVE  ValueOn(c, i, j, d)
<1> DEFINE T == {q \in i .. p : ValueOn(c, q, j, d)}
<1>0. Len(c) \in Nat
  BY LenProperties
<1>1. p \in T /\ T \subseteq Nat
  BY <1>0
<1>2. PICK q \in T : \A m \in T : q <= m
  <2> HIDE DEF T
  <2> QED
    BY <1>1, Least
<1>3. q = i
  <2> SUFFICES ASSUME q # i PROVE FALSE
    OBVIOUS
  <2>1. q - 1 \in i .. p - 1 /\ q - 1 \in 1 .. Len(c) + 1 /\ q - 1 <= j /\ ValueOn(c, q, j, d)
    <3>1. q \in 1 .. Len(c) + 1 /\ ValueOn(c, q, j, d)
      BY <1>0
    <3>2. q <= j
      BY <3>1, ValueRule
    <3> QED
      BY <3>1, <3>2, <1>0
  <2>2. c[q - 1] \in Skipped
    BY <2>1 DEF Blank
  <2>3. q - 1 + 1 = q
    BY <1>0
  <2>4. ValueOn(c, q - 1, j, d)
    BY <2>1, <2>2, <2>3, ValueRule
  <2>5. q - 1 \in T
    BY <2>1, <2>4, <1>0
  <2> QED
    BY <2>5, <1>2, <1>0
<1> QED
  BY <1>2, <1>3

LEMMA Trailing ==
  ASSUME NEW c \in Seq(Symbol), NEW i \in 1 .. Len(c) + 1, NEW j \in 0 .. Len(c), NEW e \in 0 .. j,
         NEW d \in 0 .. Limit, Blank(c, e + 1, j), ValueOn(c, i, e, d)
  PROVE  ValueOn(c, i, j, d)
<1> DEFINE T == {q \in 0 .. j - e : ValueOn(c, i, j - q, d)}
<1>0. Len(c) \in Nat /\ j - (j - e) = e
  BY LenProperties
<1>1. j - e \in T /\ T \subseteq Nat
  BY <1>0
<1>2. PICK q \in T : \A m \in T : q <= m
  <2> HIDE DEF T
  <2> QED
    BY <1>1, Least
<1>3. q = 0
  <2> SUFFICES ASSUME q # 0 PROVE FALSE
    OBVIOUS
  <2> DEFINE r == j - (q - 1)
  <2>1. r \in e + 1 .. j /\ r \in 0 .. Len(c) /\ r - 1 = j - q /\ j - q \in 0 .. Len(c)
    BY <1>0
  <2>2. i <= j - q
    BY <2>1, ValueRule
  <2>3. ValueOn(c, i, r, d)
    <3>1. c[r] \in Skipped
      BY <2>1 DEF Blank
    <3>2. i <= r
      BY <2>1, <2>2
    <3>3. ValueOn(c, i, r - 1, d)
      BY <2>1
    <3> HIDE DEF r
    <3> QED
      BY <2>1, <3>1, <3>2, <3>3, ValueRule
  <2>4. q - 1 \in T
    BY <2>1, <2>3, <1>0
  <2> QED
    BY <2>4, <1>2, <1>0
<1> QED
  BY <1>2, <1>3

\* The blanks at the end of a value are set aside.
LEMMA TrimEnd ==
  ASSUME NEW c \in Seq(Symbol), NEW i \in 1 .. Len(c) + 1, NEW j \in 0 .. Len(c), NEW d \in 0 .. Limit,
         ValueOn(c, i, j, d)
  PROVE  \E e \in i .. j : /\ Blank(c, e + 1, j) /\ ValueOn(c, i, e, d)
                           /\ \/ c[i] \in Skipped /\ ValueOn(c, i + 1, e, d)
                              \/ Core(c, i, e, d)
<1> DEFINE T == {q \in i .. j : Blank(c, q + 1, j) /\ ValueOn(c, i, q, d)}
<1>0. Len(c) \in Nat /\ i <= j
  BY LenProperties, ValueRule
<1>1. j \in T /\ T \subseteq Nat
  BY <1>0 DEF Blank
<1>2. PICK e \in T : \A m \in T : e <= m
  <2> HIDE DEF T
  <2> QED
    BY <1>1, Least
<1>3. ~(c[e] \in Skipped /\ ValueOn(c, i, e - 1, d))
  <2> SUFFICES ASSUME c[e] \in Skipped, ValueOn(c, i, e - 1, d) PROVE FALSE
    OBVIOUS
  <2>1. i <= e - 1
    <3>1. e - 1 \in 0 .. Len(c)
      BY <1>0
    <3> QED
      BY <3>1, ValueRule
  <2>2. Blank(c, e - 1 + 1, j)
    <3>1. Blank(c, e + 1, j)
      BY <1>2
    <3> QED
      BY <3>1, <1>0 DEF Blank
  <2>3. e - 1 \in T
    BY <2>1, <2>2, <1>0
  <2> QED
    BY <2>3, <1>2, <1>0
<1>4. e \in i .. j /\ Blank(c, e + 1, j) /\ ValueOn(c, i, e, d) /\ e \in 0 .. Len(c)
  BY <1>0, <1>2
<1> QED
  BY <1>3, <1>4, ValueRule

\* The blanks in front of a value are skipped.
LEMMA TrimStart ==
  ASSUME NEW c \in Seq(Symbol), NEW i \in 1 .. Len(c) + 1, NEW p \in i .. Len(c) + 1, NEW j \in 0 .. Len(c),
         NEW d \in 0 .. Limit, Blank(c, i, p - 1), ValueOn(c, i, j, d)
  PROVE  ValueOn(c, p, j, d) /\ p <= j
<1> DEFINE T == {q \in 0 .. p - i : ValueOn(c, p - q, j, d)}
<1>0. Len(c) \in Nat
  BY LenProperties
<1>1. p - i \in T /\ T \subseteq Nat
  <2>1. p - (p - i) = i /\ p - i \in Nat
    BY <1>0
  <2> QED
    BY <2>1
<1>2. PICK q \in T : \A m \in T : q <= m
  <2> HIDE DEF T
  <2> QED
    BY <1>1, Least
<1>3. q = 0
  <2> SUFFICES ASSUME q # 0 PROVE FALSE
    OBVIOUS
  <2> DEFINE r == p - q
  <2>1. r \in i .. p - 1 /\ r \in 1 .. Len(c) + 1 /\ p - (q - 1) = r + 1 /\ ValueOn(c, r, j, d)
        /\ r + 1 \in 1 .. Len(c) + 1
    BY <1>0
  <2> HIDE DEF r
  <2>2. PICK e \in r .. j : /\ Blank(c, e + 1, j)
                            /\ \/ c[r] \in Skipped /\ ValueOn(c, r + 1, e, d)
                               \/ Core(c, r, e, d)
    BY <2>1, TrimEnd
  <2>3. c[r] \in Skipped
    BY <2>1 DEF Blank
  <2>4. ~Core(c, r, e, d)
    <3>1. r \in r .. e
      BY <2>1, <2>2
    <3> QED
      BY <2>3, <3>1 DEF Core, Skipped, Opener
  <2>5. ValueOn(c, r + 1, j, d)
    BY <2>1, <2>2, <2>4, Trailing
  <2>6. q - 1 \in T
    BY <2>1, <2>5, <1>0
  <2>7. q <= q - 1
    BY <2>6, <1>2
  <2> QED
    BY <2>7, <1>0
<1>4. ValueOn(c, p, j, d)
  BY <1>2, <1>3
<1> QED
  BY <1>4, ValueRule

-----------------------------------------------------------------------------
(***************************************************************************)
(* What was read is JSON so far.  v[m] is where the value begins that is   *)
(* read within m frames, b[m] what follows the bracket that opened frame m.*)
(***************************************************************************)

KindOf(F, m) == F[m].kind

\* o is just before x.
Before(o, x) == x = o + 1

\* The symbol at i.
Shows(c, i, symbol) == c[i] = symbol

\* Frame m was opened in the place of the value before it.
Begun(c, F, v, b, m) ==
  /\ b[m] \in 2 .. Len(c) + 1 /\ v[m - 1] \in 1 .. b[m] - 1
  /\ Shows(c, b[m] - 1, Opener(KindOf(F, m))) /\ Blank(c, v[m - 1], b[m] - 2)

\* A value from v[m] on, alone or with more behind a comma, completes the list of
\* frame m.
Leads(c, F, v, b, m) ==
  /\ v[m] \in b[m] .. Len(c) + 1
  /\ \A j \in 0 .. Len(c) :
       ValueOn(c, v[m], j, Limit - m) => ListOn(KindOf(F, m), c, b[m], j, Limit - m)
  /\ \A j \in 0 .. Len(c) : \A k \in v[m] .. j :
       /\ c[k] = Comma /\ ValueOn(c, v[m], k - 1, Limit - m)
       /\ ListOn(KindOf(F, m), c, k + 1, j, Limit - m)
       => ListOn(KindOf(F, m), c, b[m], j, Limit - m)

\* The list from i on completes that of frame m.
Completes(c, F, b, m, i) ==
  /\ i \in b[m] .. Len(c) + 1
  /\ \A j \in 0 .. Len(c) : ListOn(KindOf(F, m), c, i, j, Limit - m)
                              => ListOn(KindOf(F, m), c, b[m], j, Limit - m)

Path(c, F, n, v, b) ==
  /\ v[0] \in 1 .. Len(c) + 1
  /\ \A m \in 1 .. n : Begun(c, F, v, b, m) /\ KindOf(F, m) \in Kind
  /\ \A m \in 1 .. n - 1 : Leads(c, F, v, b, m)

\* The symbol o ends a value, whatever follows.
Ended(c, o) ==
  /\ o \in 1 .. Len(c) /\ c[o] \notin Skipped
  /\ (c[o] = "1" /\ o < Len(c) /\ c[o + 1] = "1") => Full(c, o)

\* What was read up to o, within n frames, at each place of the parser.
Located(a, c, F, n, v, b, o) ==
  /\ a = "value" => /\ n # 0 => Leads(c, F, v, b, n)
                    /\ v[n] <= o + 1 /\ Blank(c, v[n], o)
  /\ a = "begin" => b[n] <= o + 1 /\ Blank(c, b[n], o)
  /\ a = "name"  => /\ KindOf(F, n) = "object"
                    /\ v[n] <= o + 1 /\ Blank(c, v[n], o) /\ Completes(c, F, b, n, v[n])
  /\ a \in {"after", "behind"} => /\ n # 0 => Leads(c, F, v, b, n)
                                  /\ ValueOn(c, v[n], o, Limit - n)
  /\ a = "after" => Ended(c, o)

\* The kinds of frames are all that counts.
LEMMA SameKinds ==
  ASSUME NEW c, NEW F, NEW G, NEW n \in Nat, \A m \in 1 .. n : KindOf(F, m) = KindOf(G, m), NEW v, NEW b
  PROVE  /\ Path(c, F, n, v, b) => Path(c, G, n, v, b)
         /\ n # 0 => (Leads(c, F, v, b, n) => Leads(c, G, v, b, n))
<1>1. \A m \in 1 .. n : Begun(c, F, v, b, m) => Begun(c, G, v, b, m)
  BY DEF Begun
<1>2. \A m \in 1 .. n : Leads(c, F, v, b, m) => Leads(c, G, v, b, m)
  BY DEF Leads
<1>3. \A m \in 1 .. n - 1 : m \in 1 .. n
  OBVIOUS
<1> QED
  BY <1>1, <1>2, <1>3 DEF Path

LEMMA SizesAre ==
  ASSUME NEW c \in Seq(Symbol), NEW n \in Nat, n <= Limit
  PROVE  Len(c) \in Nat /\ Limit \in Nat /\ n \in Nat /\ n <= Limit /\ Limit - n \in 0 .. Limit
BY LenProperties, ParseAssumption

LEMMA FrameBegins ==
  ASSUME NEW c \in Seq(Symbol), NEW F, NEW n \in Nat, n <= Limit, n # 0, NEW v, NEW b, Path(c, F, n, v, b)
  PROVE  /\ KindOf(F, n) \in Kind /\ b[n] \in Nat /\ 2 <= b[n] /\ b[n] <= Len(c) + 1
         /\ \A l \in Nat, t \in Nat, u \in Nat : l + 1 = n /\ t + 1 = b[n] /\ u + 1 = t =>
              /\ Shows(c, t, Opener(KindOf(F, n))) /\ Blank(c, v[l], u)
              /\ v[l] \in Nat /\ 1 <= v[l] /\ v[l] <= t
<1>0. Len(c) \in Nat /\ n \in 1 .. n
  BY SizesAre
<1>1. Begun(c, F, v, b, n) /\ KindOf(F, n) \in Kind
  BY <1>0 DEF Path
<1>2. b[n] \in 2 .. Len(c) + 1
  BY <1>1 DEF Begun
<1>3. b[n] \in Nat /\ 2 <= b[n] /\ b[n] <= Len(c) + 1
  BY <1>0, <1>2
<1>4. ASSUME NEW l \in Nat, NEW t \in Nat, NEW u \in Nat, l + 1 = n, t + 1 = b[n], u + 1 = t
      PROVE  /\ Shows(c, t, Opener(KindOf(F, n))) /\ Blank(c, v[l], u)
             /\ v[l] \in Nat /\ 1 <= v[l] /\ v[l] <= t
  <2>1. l = n - 1 /\ t = b[n] - 1 /\ u = b[n] - 2
    BY <1>3, <1>4
  <2>2. v[l] \in 1 .. t /\ Shows(c, t, Opener(KindOf(F, n))) /\ Blank(c, v[l], u)
    BY <1>1, <2>1 DEF Begun
  <2> QED
    BY <2>2
<1> QED
  BY <1>1, <1>3, <1>4

\* Where the current value begins.
LEMMA ValueBegins ==
  ASSUME NEW c \in Seq(Symbol), NEW F, NEW n \in Nat, n <= Limit, NEW v, NEW b, Path(c, F, n, v, b),
         n # 0 => Leads(c, F, v, b, n)
  PROVE  v[n] \in 1 .. Len(c) + 1
<1>1. CASE n = 0
  BY <1>1 DEF Path
<1>2. CASE n # 0
  <2>1. v[n] \in b[n] .. Len(c) + 1
    BY <1>2 DEF Leads
  <2>2. b[n] \in Nat /\ 2 <= b[n]
    BY <1>2, FrameBegins
  <2>3. Len(c) \in Nat
    BY SizesAre
  <2> QED
    BY <2>1, <2>2, <2>3
<1> QED
  BY <1>1, <1>2

\* A value of its own was read, up to e.
LEMMA ReadsValue ==
  ASSUME NEW c \in Seq(Symbol), NEW F, NEW n \in Nat, n <= Limit, NEW v, NEW b, Path(c, F, n, v, b),
         NEW o \in Nat, o <= Len(c), Located("value", c, F, n, v, b, o),
         NEW e \in Nat, o + 1 <= e, e <= Len(c), Core(c, o + 1, e, Limit - n), Ended(c, e)
  PROVE  Located("after", c, F, n, v, b, e)
<1>0. Len(c) \in Nat /\ Limit \in Nat
  BY SizesAre
<1>1. /\ n # 0 => Leads(c, F, v, b, n)
      /\ v[n] <= o + 1 /\ Blank(c, v[n], o)
  BY DEF Located
<1>2. v[n] \in 1 .. Len(c) + 1
  BY <1>1, ValueBegins
<1>3. /\ o + 1 \in 1 .. Len(c) + 1 /\ v[n] \in 1 .. o + 1 /\ e \in 0 .. Len(c) /\ Limit - n \in 0 .. Limit
      /\ o + 1 <= e /\ o + 1 - 1 = o
  BY <1>0, <1>1, <1>2
<1>4. ValueOn(c, o + 1, e, Limit - n)
  BY <1>3, ValueRule
<1>5. ValueOn(c, v[n], e, Limit - n)
  <2> DEFINE p == o + 1
  <2>1. p \in 1 .. Len(c) + 1 /\ v[n] \in 1 .. p /\ Blank(c, v[n], p - 1) /\ ValueOn(c, p, e, Limit - n)
    BY <1>1, <1>3, <1>4
  <2> HIDE DEF p
  <2> QED
    BY <2>1, <1>3, Leading
<1> QED
  BY <1>1, <1>5 DEF Located

\* w is v with x at n.
Puts(w, v, n, x) == w = [v EXCEPT ![n] = x]

LEMMA PutIs ==
  ASSUME NEW v \in [Nat -> Nat], NEW n \in Nat, NEW x \in Nat, NEW w, Puts(w, v, n, x)
  PROVE  w \in [Nat -> Nat] /\ w[n] = x /\ \A m \in Nat : m # n => w[m] = v[m]
BY DEF Puts

\* A bracket opens, at x.
LEMMA ReadsOpening ==
  ASSUME NEW c \in Seq(Symbol), NEW F, NEW n \in Nat, n < Limit, NEW v \in [Nat -> Nat],
         NEW b \in [Nat -> Nat], Path(c, F, n, v, b),
         NEW o \in Nat, o <= Len(c), Located("value", c, F, n, v, b, o),
         NEW x \in Nat, Before(o, x), x <= Len(c), NEW k \in Kind, Shows(c, x, Opener(k)),
         NEW G, \A m \in 1 .. n : KindOf(G, m) = KindOf(F, m), NEW z \in Nat, Before(n, z), KindOf(G, z) = k,
         NEW y \in Nat, Before(x, y), NEW p \in Nat, x <= p, p <= Len(c), Blank(c, y, p)
  PROVE  \E a \in [Nat -> Nat] : Path(c, G, z, v, a) /\ Located("begin", c, G, z, v, a, p)
<1>0. Len(c) \in Nat /\ Limit \in Nat /\ n <= Limit
  BY ParseAssumption, LenProperties
<1> DEFINE a == [b EXCEPT ![z] = y]
<1>puts. Puts(a, b, z, y)
  BY DEF Puts
<1> HIDE DEF a
<1>after. a \in [Nat -> Nat] /\ a[z] = y /\ \A m \in Nat : m # z => a[m] = b[m]
  BY <1>puts DEF Puts
<1>below. \A m \in 1 .. n : m \in Nat /\ m # z
  BY DEF Before
<1>1. \A m \in 1 .. n : a[m] = b[m]
  BY <1>after, <1>below
<1>2. /\ n # 0 => Leads(c, F, v, b, n)
      /\ v[n] <= o + 1 /\ Blank(c, v[n], o)
  BY DEF Located
<1>3. v[n] \in 1 .. Len(c) + 1
  BY <1>0, <1>2, ValueBegins
<1>4. ASSUME NEW m \in 1 .. z PROVE Begun(c, G, v, a, m) /\ KindOf(G, m) \in Kind
  <2>1. CASE m = z
    <3>1. z - 1 = n /\ y - 1 = x /\ y - 2 = o
      BY DEF Before
    <3>2. y \in 2 .. Len(c) + 1
      BY <1>0 DEF Before
    <3>3. v[n] \in 1 .. x
      BY <1>0, <1>2, <1>3 DEF Before
    <3>4. y \in 2 .. Len(c) + 1 /\ v[z - 1] \in 1 .. y - 1 /\ Blank(c, v[z - 1], y - 2)
          /\ Shows(c, y - 1, Opener(KindOf(G, z)))
      BY <1>2, <3>1, <3>2, <3>3
    <3>5. Begun(c, G, v, a, z)
      BY <1>after, <3>4 DEF Begun
    <3> QED
      BY <2>1, <3>5
  <2>2. CASE m # z
    <3>1. m \in 1 .. n
      BY <2>2 DEF Before
    <3>2. a[m] = b[m] /\ KindOf(G, m) = KindOf(F, m)
      BY <1>1, <3>1
    <3> QED
      BY <3>1, <3>2 DEF Begun, Path
  <2> QED
    BY <2>1, <2>2
<1>5. ASSUME NEW m \in 1 .. n PROVE Leads(c, G, v, a, m)
  <2>1. Leads(c, F, v, b, m)
    <3>1. CASE m = n
      BY <1>2, <3>1
    <3>2. CASE m # n
      <4>1. m \in 1 .. n - 1
        BY <3>2
      <4> QED
        BY <4>1 DEF Path
    <3> QED
      BY <3>1, <3>2
  <2>2. a[m] = b[m] /\ KindOf(G, m) = KindOf(F, m)
    BY <1>1
  <2> QED
    BY <2>1, <2>2 DEF Leads
<1>6. Path(c, G, z, v, a)
  <2>1. z - 1 = n
    BY DEF Before
  <2>2. v[0] \in 1 .. Len(c) + 1
    BY DEF Path
  <2> QED
    BY <1>4, <1>5, <2>1, <2>2 DEF Path
<1>7. Located("begin", c, G, z, v, a, p)
  <2>1. a[z] <= p + 1
    BY <1>after DEF Before
  <2>2. Blank(c, a[z], p)
    BY <1>after
  <2> QED
    BY <2>1, <2>2 DEF Located
<1> QED
  BY <1>after, <1>6, <1>7

\* A list was read up to o.
LEMMA ListWasRead ==
  ASSUME NEW c \in Seq(Symbol), NEW F, NEW n \in Nat, n <= Limit, n # 0, NEW v, NEW b, Path(c, F, n, v, b),
         NEW o \in Nat, o <= Len(c), Located("behind", c, F, n, v, b, o)
  PROVE  b[n] <= v[n] /\ v[n] <= o /\ ListOn(KindOf(F, n), c, b[n], o, Limit - n)
<1>1. Leads(c, F, v, b, n) /\ ValueOn(c, v[n], o, Limit - n)
  BY DEF Located
<1>2. v[n] \in 1 .. Len(c) + 1
  BY <1>1, ValueBegins
<1>3. Limit - n \in 0 .. Limit /\ Len(c) \in Nat
  BY SizesAre
<1>4. v[n] <= o
  BY <1>1, <1>2, <1>3, ValueRule
<1>5. v[n] \in b[n] .. Len(c) + 1 /\ ListOn(KindOf(F, n), c, b[n], o, Limit - n)
  BY <1>1 DEF Leads
<1>6. b[n] \in Nat
  BY FrameBegins
<1> QED
  BY <1>3, <1>4, <1>5, <1>6

LEMMA ClosersAreNoBlanks ==
  ASSUME NEW kind
  PROVE  Closer(kind) \notin Skipped /\ Closer(kind) # "1"
BY Zenon DEF Closer, Skipped

\* A bracket closes at x, behind nothing or behind a list; l frames are left.
LEMMA ReadsClosing ==
  ASSUME NEW c \in Seq(Symbol), NEW F, NEW n \in Nat, n <= Limit, n # 0, NEW v, NEW b, Path(c, F, n, v, b),
         NEW o \in Nat, o <= Len(c),
         NEW x \in Nat, Before(o, x), x <= Len(c), Shows(c, x, Closer(KindOf(F, n))),
         Located("begin", c, F, n, v, b, o) \/ Located("behind", c, F, n, v, b, o),
         NEW l \in Nat, Before(l, n)
  PROVE  Path(c, F, l, v, b) /\ Located("after", c, F, l, v, b, x)
<1>0. Len(c) \in Nat /\ Limit \in Nat
  BY SizesAre
<1>1. KindOf(F, n) \in Kind /\ b[n] \in Nat /\ 2 <= b[n] /\ b[n] <= Len(c) + 1
  BY FrameBegins
<1>2. b[n] <= x /\ (Blank(c, b[n], o) \/ ListOn(KindOf(F, n), c, b[n], o, Limit - n))
  <2>1. CASE Located("begin", c, F, n, v, b, o)
    BY <2>1 DEF Located, Before
  <2>2. CASE Located("behind", c, F, n, v, b, o)
    <3>1. v[n] \in 1 .. Len(c) + 1
      BY <2>2, ValueBegins DEF Located
    <3>2. b[n] <= v[n] /\ v[n] <= o /\ ListOn(KindOf(F, n), c, b[n], o, Limit - n)
      BY <2>2, ListWasRead
    <3>3. v[n] \in Nat
      BY <1>0, <3>1
    <3> QED
      BY <1>1, <3>2, <3>3 DEF Before
  <2> QED
    BY <2>1, <2>2
<1>3. PICK i \in Nat : i + 1 = b[n]
  <2> DEFINE q == b[n]
  <2>1. q \in Nat /\ 2 <= q
    BY <1>1
  <2> HIDE DEF q
  <2>2. q - 1 \in Nat /\ (q - 1) + 1 = q
    BY <2>1
  <2>3. \E i \in Nat : i + 1 = q
    BY <2>2
  <2> QED
    BY <2>3 DEF q
<1>4. PICK u \in Nat : u + 1 = i
  BY <1>1, <1>3
<1>5. /\ Shows(c, i, Opener(KindOf(F, n))) /\ Blank(c, v[l], u)
      /\ v[l] \in Nat /\ 1 <= v[l] /\ v[l] <= i
  BY <1>3, <1>4, FrameBegins DEF Before
<1>6. PICK d \in Nat : d + l = Limit
  BY <1>0 DEF Before
<1>7. /\ i \in 1 .. Len(c) + 1 /\ x \in 0 .. Len(c) /\ d \in 0 .. Limit /\ i < x /\ d > 0 /\ i <= x
      /\ v[l] \in 1 .. i
  BY <1>0, <1>1, <1>2, <1>3, <1>4, <1>5, <1>6 DEF Before
<1>8. d - 1 = Limit - n /\ x - 1 = o /\ i - 1 = u /\ d = Limit - l
  BY <1>0, <1>4, <1>6 DEF Before
<1>9. ValueOn(c, v[l], x, d)
  <2>1. c[i] = Opener(KindOf(F, n)) /\ c[x] = Closer(KindOf(F, n))
    BY <1>5 DEF Shows
  <2>2. Blank(c, i + 1, x - 1) \/ ListOn(KindOf(F, n), c, i + 1, x - 1, d - 1)
    BY <1>2, <1>3, <1>8
  <2>3. Core(c, i, x, d)
    BY <1>1, <1>7, <2>1, <2>2 DEF Core
  <2>4. ValueOn(c, i, x, d)
    BY <1>7, <2>3, ValueRule
  <2>5. Blank(c, v[l], i - 1)
    BY <1>5, <1>8
  <2> QED
    BY <1>7, <2>4, <2>5, Leading
<1>10. Path(c, F, l, v, b) /\ (l # 0 => Leads(c, F, v, b, l))
  <2>1. /\ \A m \in 1 .. l : m \in 1 .. n
        /\ \A m \in 1 .. l - 1 : m \in 1 .. l
        /\ l # 0 => l \in 1 .. l
        /\ l = n - 1
    BY DEF Before
  <2> QED
    BY <2>1 DEF Path
<1>11. Ended(c, x)
  <2>1. c[x] = Closer(KindOf(F, n))
    BY DEF Shows
  <2>2. c[x] \notin Skipped /\ c[x] # "1"
    BY <2>1, ClosersAreNoBlanks, Zenon
  <2> QED
    BY <1>0, <1>7, <2>2 DEF Ended
<1> QED
  BY <1>8, <1>9, <1>10, <1>11 DEF Located

\* The current value is no part of the path.
LEMMA OtherValue ==
  ASSUME NEW c, NEW F, NEW n \in Nat, n # 0, NEW v \in [Nat -> Nat], NEW b, Path(c, F, n, v, b),
         NEW x \in Nat, NEW w, Puts(w, v, n, x)
  PROVE  w \in [Nat -> Nat] /\ w[n] = x /\ w[0] = v[0] /\ Path(c, F, n, w, b)
<1>0. w \in [Nat -> Nat] /\ w[n] = x /\ \A m \in Nat : m # n => w[m] = v[m]
  BY DEF Puts
<1>1. w[0] = v[0] /\ \A m \in 0 .. n - 1 : w[m] = v[m]
  <2>1. \A m \in 0 .. n - 1 : m \in Nat /\ m # n
    OBVIOUS
  <2> QED
    BY <1>0, <2>1
<1>2. ASSUME NEW m \in 1 .. n PROVE Begun(c, F, w, b, m)
  <2>1. m - 1 \in 0 .. n - 1
    OBVIOUS
  <2>2. w[m - 1] = v[m - 1]
    BY <1>1, <2>1
  <2> QED
    BY <2>2 DEF Begun, Path
<1>3. ASSUME NEW m \in 1 .. n - 1 PROVE Leads(c, F, w, b, m)
  <2>1. w[m] = v[m]
    BY <1>1
  <2> QED
    BY <2>1 DEF Leads, Path
<1>4. Path(c, F, n, w, b)
  BY <1>1, <1>2, <1>3 DEF Path
<1> QED
  BY <1>0, <1>1, <1>4

\* The list goes on behind the bracket ...
LEMMA GoesOnBehindBracket ==
  ASSUME NEW c \in Seq(Symbol), NEW F, NEW n \in Nat, n <= Limit, n # 0, NEW v, NEW b, Path(c, F, n, v, b)
  PROVE  Completes(c, F, b, n, b[n])
<1>1. Len(c) \in Nat /\ b[n] \in Nat /\ b[n] <= Len(c) + 1
  BY SizesAre, FrameBegins
<1> QED
  BY <1>1 DEF Completes

LEMMA ListIsNotEmpty ==
  ASSUME NEW c \in Seq(Symbol), NEW i \in 1 .. Len(c) + 1, NEW j \in 0 .. Len(c), NEW d \in 0 .. Limit,
         NEW kind \in Kind, ListOn(kind, c, i, j, d)
  PROVE  i <= j
<1>1. CASE kind = "array"
  BY <1>1, ElementsRule
<1>2. CASE kind = "object"
  <2>1. \E k \in i .. j : TRUE
    BY <1>2, MembersRule
  <2>2. Len(c) \in Nat
    BY LenProperties
  <2> QED
    BY <2>1, <2>2
<1> QED
  BY <1>1, <1>2 DEF Kind

\* ... and behind a comma at x.
LEMMA GoesOnBehindComma ==
  ASSUME NEW c \in Seq(Symbol), NEW F, NEW n \in Nat, n <= Limit, n # 0, NEW v, NEW b, Path(c, F, n, v, b),
         NEW o \in Nat, o <= Len(c), Located("behind", c, F, n, v, b, o),
         NEW x \in Nat, x = o + 1, x <= Len(c), Shows(c, x, Comma), NEW y \in Nat, y = x + 1
  PROVE  Completes(c, F, b, n, y)
<1>0. Len(c) \in Nat /\ Limit - n \in 0 .. Limit
  BY SizesAre
<1>1. b[n] \in Nat /\ KindOf(F, n) \in Kind
  BY FrameBegins
<1>2. b[n] <= v[n] /\ v[n] <= o
  BY ListWasRead
<1>3. Leads(c, F, v, b, n) /\ ValueOn(c, v[n], o, Limit - n)
  BY DEF Located
<1>4. v[n] \in Nat
  <2>1. v[n] \in 1 .. Len(c) + 1
    BY <1>3, ValueBegins
  <2> QED
    BY <1>0, <2>1
<1>5. y \in 1 .. Len(c) + 1
  BY <1>0
<1>6. ASSUME NEW j \in 0 .. Len(c), ListOn(KindOf(F, n), c, y, j, Limit - n)
      PROVE  ListOn(KindOf(F, n), c, b[n], j, Limit - n)
  <2>1. y <= j
    BY <1>0, <1>1, <1>5, <1>6, ListIsNotEmpty
  <2>2. x \in v[n] .. j
    BY <1>0, <1>2, <1>4, <2>1
  <2>3. c[x] = Comma /\ x - 1 = o /\ x + 1 = y
    BY DEF Shows
  <2> QED
    BY <1>3, <1>6, <2>2, <2>3 DEF Leads
<1>7. y \in b[n] .. Len(c) + 1
  BY <1>1, <1>2, <1>4, <1>5
<1> QED
  BY <1>6, <1>7 DEF Completes

\* An element begins.
LEMMA ReadsElement ==
  ASSUME NEW c \in Seq(Symbol), NEW F, NEW n \in Nat, n <= Limit, n # 0, NEW v \in [Nat -> Nat], NEW b,
         Path(c, F, n, v, b), KindOf(F, n) = "array", NEW o \in Nat, o <= Len(c), NEW i \in Nat,
         Completes(c, F, b, n, i), i <= o + 1, Blank(c, i, o)
  PROVE  \E w \in [Nat -> Nat] : /\ w[0] = v[0] /\ Path(c, F, n, w, b)
                                 /\ Located("value", c, F, n, w, b, o)
<1>0. Len(c) \in Nat /\ Limit - n \in 0 .. Limit /\ n \in Nat
  BY SizesAre
<1> DEFINE w == [v EXCEPT ![n] = i]
<1>puts. Puts(w, v, n, i)
  BY DEF Puts
<1> HIDE DEF w
<1>1. w \in [Nat -> Nat] /\ w[n] = i /\ w[0] = v[0] /\ Path(c, F, n, w, b)
  BY <1>puts, OtherValue
<1>2. i \in b[n] .. Len(c) + 1 /\ b[n] \in Nat /\ 2 <= b[n]
  BY FrameBegins DEF Completes
<1>3. i \in 1 .. Len(c) + 1
  <2> DEFINE q == b[n]
  <2>1. q \in Nat /\ 2 <= q /\ i \in q .. Len(c) + 1
    BY <1>2
  <2> HIDE DEF q
  <2> QED
    BY <1>0, <2>1
<1>4. ASSUME NEW j \in 0 .. Len(c)
      PROVE  /\ ValueOn(c, i, j, Limit - n) => ListOn("array", c, i, j, Limit - n)
             /\ \A k \in i .. j : /\ c[k] = Comma /\ ValueOn(c, i, k - 1, Limit - n)
                                  /\ ListOn("array", c, k + 1, j, Limit - n)
                                  => ListOn("array", c, i, j, Limit - n)
  <2> DEFINE d == Limit - n
  <2>0. d \in 0 .. Limit
    BY <1>0
  <2> HIDE DEF d
  <2>1. ValueOn(c, i, j, d) => i <= j
    BY <1>3, <2>0, ValueRule
  <2>2. ListOn("array", c, i, j, d) <=>
           /\ i <= j
           /\ \/ ValueOn(c, i, j, d)
              \/ \E k \in i .. j : /\ c[k] = Comma /\ ValueOn(c, i, k - 1, d)
                                   /\ ListOn("array", c, k + 1, j, d)
    BY <1>3, <2>0, ElementsRule
  <2>3. \A k \in i .. j : i <= j
    BY <1>0, <1>3
  <2> QED
    BY <2>1, <2>2, <2>3 DEF d
<1>5. \A j \in 0 .. Len(c) : ListOn("array", c, i, j, Limit - n) => ListOn("array", c, b[n], j, Limit - n)
  BY DEF Completes
<1>6. Leads(c, F, w, b, n)
  <2>1. \A j \in 0 .. Len(c) : ValueOn(c, i, j, Limit - n) => ListOn("array", c, b[n], j, Limit - n)
    BY <1>4, <1>5
  <2>2. \A j \in 0 .. Len(c) : \A k \in i .. j :
          /\ c[k] = Comma /\ ValueOn(c, i, k - 1, Limit - n) /\ ListOn("array", c, k + 1, j, Limit - n)
          => ListOn("array", c, b[n], j, Limit - n)
    BY <1>4, <1>5
  <2> QED
    BY <1>1, <1>2, <2>1, <2>2 DEF Leads
<1> QED
  BY <1>1, <1>6 DEF Located

\* A member begins.
LEMMA ReadsMember ==
  ASSUME NEW c \in Seq(Symbol), NEW F, NEW n \in Nat, n <= Limit, n # 0, NEW v \in [Nat -> Nat], NEW b,
         Path(c, F, n, v, b), KindOf(F, n) = "object", NEW o \in Nat, o <= Len(c), NEW i \in Nat,
         Completes(c, F, b, n, i), i <= o + 1, Blank(c, i, o)
  PROVE  \E w \in [Nat -> Nat] : /\ w[0] = v[0] /\ Path(c, F, n, w, b)
                                 /\ Located("name", c, F, n, w, b, o)
<1>0. n \in Nat
  BY SizesAre
<1> DEFINE w == [v EXCEPT ![n] = i]
<1>puts. Puts(w, v, n, i)
  BY DEF Puts
<1> HIDE DEF w
<1>1. w \in [Nat -> Nat] /\ w[n] = i /\ w[0] = v[0] /\ Path(c, F, n, w, b)
  BY <1>puts, OtherValue
<1> QED
  BY <1>1 DEF Located

\* The name of a member at x, and its colon at q.
LEMMA ReadsName ==
  ASSUME NEW c \in Seq(Symbol), NEW F, NEW n \in Nat, n <= Limit, n # 0, NEW v \in [Nat -> Nat], NEW b,
         Path(c, F, n, v, b), NEW o \in Nat, o <= Len(c), Located("name", c, F, n, v, b, o),
         NEW x \in Nat, Before(o, x), Shows(c, x, "str"), NEW q \in Nat, x < q, q <= Len(c), Shows(c, q, ":"),
         NEW y \in Nat, Before(x, y), NEW t \in Nat, Before(t, q), Blank(c, y, t),
         NEW z \in Nat, Before(q, z), NEW p \in Nat, q <= p, p <= Len(c), Blank(c, z, p)
  PROVE  \E w \in [Nat -> Nat] : /\ w[0] = v[0] /\ Path(c, F, n, w, b)
                                 /\ Located("value", c, F, n, w, b, p)
<1>0. Len(c) \in Nat /\ Limit - n \in 0 .. Limit
  BY SizesAre
<1> DEFINE w == [v EXCEPT ![n] = z]
<1>puts. Puts(w, v, n, z)
  BY DEF Puts
<1> HIDE DEF w
<1>1. w \in [Nat -> Nat] /\ w[n] = z /\ w[0] = v[0] /\ Path(c, F, n, w, b)
  BY <1>puts, OtherValue
<1>2. KindOf(F, n) = "object" /\ v[n] <= o + 1 /\ Blank(c, v[n], o) /\ Completes(c, F, b, n, v[n])
  BY DEF Located
<1>3. v[n] \in b[n] .. Len(c) + 1 /\ b[n] \in Nat /\ 2 <= b[n]
  BY <1>2, FrameBegins DEF Completes
<1>4. v[n] \in 1 .. Len(c) + 1 /\ z \in b[n] .. Len(c) + 1 /\ z \in 1 .. Len(c) + 1
        /\ v[n] <= x
  <2> DEFINE h == b[n]  i == v[n]
  <2>1. h \in Nat /\ 2 <= h /\ i \in h .. Len(c) + 1 /\ i <= o + 1
    BY <1>2, <1>3
  <2> HIDE DEF h, i
  <2>2. i \in 1 .. Len(c) + 1 /\ z \in h .. Len(c) + 1 /\ z \in 1 .. Len(c) + 1 /\ i <= x
    BY <1>0, <2>1 DEF Before
  <2> QED
    BY <2>2 DEF h, i
<1>5. ASSUME NEW j \in 0 .. Len(c), z <= j,
             \/ ValueOn(c, z, j, Limit - n)
             \/ \E m \in q .. j : /\ c[m] = Comma /\ ValueOn(c, z, m - 1, Limit - n)
                                  /\ ListOn("object", c, m + 1, j, Limit - n)
      PROVE  ListOn("object", c, b[n], j, Limit - n)
  <2> DEFINE d == Limit - n
  <2>1. q \in v[n] .. j /\ x \in v[n] .. j
    <3> DEFINE i == v[n]
    <3>1. i \in 1 .. Len(c) + 1 /\ i <= x
      BY <1>4
    <3> HIDE DEF i
    <3>2. q \in i .. j /\ x \in i .. j
      BY <1>0, <1>5, <3>1 DEF Before
    <3> QED
      BY <3>2 DEF i
  <2>2. x - 1 = o /\ x + 1 = y /\ q - 1 = t /\ q + 1 = z
    BY DEF Before
  <2>3. d \in 0 .. Limit
    BY <1>0
  <2>4. c[x] = "str" /\ c[q] = ":"
    BY DEF Shows
  <2>5. Blank(c, v[n], x - 1) /\ Blank(c, x + 1, q - 1)
    BY <1>2, <2>2
  <2>6. \/ ValueOn(c, q + 1, j, d)
        \/ \E m \in q .. j : /\ c[m] = Comma /\ ValueOn(c, q + 1, m - 1, d)
                             /\ ListOn("object", c, m + 1, j, d)
    BY <1>5, <2>2
  <2> HIDE DEF d
  <2>7. ListOn("object", c, v[n], j, d)
    BY <1>4, <2>1, <2>3, <2>4, <2>5, <2>6, MembersRule
  <2> QED
    BY <1>2, <2>7 DEF Completes, d
<1>6. Leads(c, F, w, b, n)
  <2>1. ASSUME NEW j \in 0 .. Len(c), ValueOn(c, z, j, Limit - n)
        PROVE  ListOn("object", c, b[n], j, Limit - n)
    <3>1. z <= j
      BY <1>0, <1>4, <2>1, ValueRule
    <3> QED
      BY <3>1, <2>1, <1>5
  <2>2. ASSUME NEW j \in 0 .. Len(c), NEW k \in z .. j, c[k] = Comma,
               ValueOn(c, z, k - 1, Limit - n), ListOn("object", c, k + 1, j, Limit - n)
        PROVE  ListOn("object", c, b[n], j, Limit - n)
    <3>1. k \in q .. j /\ z <= j
      BY <1>0 DEF Before
    <3> QED
      BY <3>1, <2>2, <1>5
  <2> QED
    BY <1>1, <1>2, <1>4, <2>1, <2>2 DEF Leads
<1>7. w[n] <= p + 1 /\ Blank(c, w[n], p)
  <2>1. z <= p + 1
    BY DEF Before
  <2> QED
    BY <1>1, <2>1
<1> QED
  BY <1>1, <1>6, <1>7 DEF Located

\* Blanks behind a value.
LEMMA ReadsBlanks ==
  ASSUME NEW c \in Seq(Symbol), NEW F, NEW n \in Nat, n <= Limit, NEW v, NEW b, Path(c, F, n, v, b),
         NEW o \in Nat, o <= Len(c), Located("after", c, F, n, v, b, o),
         NEW p \in Nat, o <= p, p <= Len(c), Blank(c, o + 1, p)
  PROVE  Located("behind", c, F, n, v, b, p)
<1>0. Len(c) \in Nat /\ Limit - n \in 0 .. Limit /\ p \in 0 .. Len(c) /\ o \in 0 .. p
  BY SizesAre
<1>1. (n # 0 => Leads(c, F, v, b, n)) /\ ValueOn(c, v[n], o, Limit - n)
  BY DEF Located
<1>2. v[n] \in 1 .. Len(c) + 1
  BY <1>1, ValueBegins
<1>3. ValueOn(c, v[n], p, Limit - n)
  BY <1>0, <1>1, <1>2, Trailing
<1> QED
  BY <1>1, <1>3 DEF Located

-----------------------------------------------------------------------------
(***************************************************************************)
(* How the parser moves, and what is known where it is.                    *)
(***************************************************************************)

LEMMA SymIs ==
  ASSUME NEW j
  PROVE  Sym(j) = content[j + 1]
BY DEF Sym

\* What is skipped from o on: blanks, and from the end back to the last symbol.
LEMMA SkipReads ==
  ASSUME NEW o \in Nat, o <= Length, Length \in Nat
  PROVE  /\ Skip(o) \in Nat /\ o <= Skip(o) /\ Skip(o) <= Length
         /\ Access(o) => Access(Skip(o))
         /\ Blank(content, o + 1, Skip(o))
         /\ Access(o) /\ Sym(Skip(o)) \in Skipped =>
              Skip(o) + 1 = Length /\ Blank(content, o + 1, Length)
<1>1. CASE ~Access(o)
  <2>1. Skip(o) = o
    BY <1>1 DEF Skip
  <2>2. Blank(content, o + 1, o)
    BY DEF Blank
  <2> QED
    BY <1>1, <2>1, <2>2
<1>2. CASE Access(o)
  <2> DEFINE Stops(q) == /\ \A j \in o .. q - 1 : Sym(j) \in Skipped
                         /\ q < Length => Sym(q) \notin Skipped
             m == CHOOSE q \in o .. Length : Stops(q)
  <2>1. \E q \in o .. Length : Stops(q)
    <3>1. \E q \in o .. Length : /\ \A j \in o .. q - 1 : content[j + 1] \in Skipped
                                 /\ q < Length => content[q + 1] \notin Skipped
      BY FirstPlace
    <3> QED BY <3>1, SymIs
  <2>2. m \in o .. Length /\ Stops(m)
    BY <2>1
  <2>3. Skip(o) = IF m = Length THEN m - 1 ELSE m
    BY <1>2 DEF Skip
  <2>4. o < Length
    BY <1>2 DEF Access
  <2>5. ASSUME NEW k \in Nat, o + 1 <= k, k <= m PROVE content[k] \in Skipped
    <3>1. k - 1 \in o .. m - 1 /\ k - 1 + 1 = k
      BY <2>2, <2>5
    <3>2. Sym(k - 1) \in Skipped
      BY <2>2, <3>1
    <3> QED
      BY <3>1, <3>2 DEF Sym
  <2>6. m \in Nat /\ o <= m /\ m <= Length /\ (m < Length => Sym(m) \notin Skipped)
    BY <2>2
  <2> HIDE DEF m, Stops
  <2>7. CASE m = Length
    <3>1. Skip(o) \in Nat /\ Skip(o) + 1 = Length /\ o <= Skip(o) /\ Skip(o) < Length
      BY <2>3, <2>4, <2>6, <2>7
    <3>2. Blank(content, o + 1, Length)
      BY <2>5, <2>7 DEF Blank
    <3>3. Blank(content, o + 1, Skip(o))
      BY <3>1, <3>2 DEF Blank
    <3> QED
      BY <3>1, <3>2, <3>3 DEF Access
  <2>8. CASE m # Length
    <3>1. Skip(o) = m /\ m < Length
      BY <2>3, <2>6, <2>8
    <3>2. Blank(content, o + 1, m)
      BY <2>5, <2>6 DEF Blank
    <3> QED
      BY <2>6, <3>1, <3>2 DEF Access
  <2> QED
    BY <2>7, <2>8
<1> QED
  BY <1>1, <1>2

\* The digits that follow one another, and what does not follow them.
LEMMA DigitsRead ==
  ASSUME NEW o \in Nat, o < Length, Length \in Nat, Sym(o) = "1"
  PROVE  /\ EndOfDigits(o) \in o + 1 .. Length
         /\ \A k \in o + 1 .. EndOfDigits(o) : content[k] = "1"
         /\ EndOfDigits(o) < Length => content[EndOfDigits(o) + 1] # "1"
<1> DEFINE Ends(q) == /\ \A j \in o .. q - 1 : Sym(j) = "1"
                      /\ q < Length => Sym(q) # "1"
<1>1. PICK k \in o + 1 .. Length : /\ \A j \in o + 1 .. k - 1 : content[j + 1] \in {"1"}
                                   /\ k < Length => content[k + 1] \notin {"1"}
  <2>1. o + 1 \in Nat /\ o + 1 <= Length
    OBVIOUS
  <2> QED BY <2>1, FirstPlace
<1>2. Ends(k)
  <2>1. \A j : Sym(j) = content[j + 1]
    BY SymIs
  <2>2. ASSUME NEW j \in o .. k - 1 PROVE Sym(j) = "1"
    <3>1. CASE j = o
      BY <3>1
    <3>2. CASE j # o
      <4>1. j \in o + 1 .. k - 1
        BY <3>2
      <4>2. content[j + 1] = "1"
        BY <4>1, <1>1
      <4> QED BY <4>2, <2>1
    <3> QED BY <3>1, <3>2
  <2>3. k < Length => Sym(k) # "1"
    BY <1>1, <2>1
  <2> QED BY <2>2, <2>3
<1>3. EndOfDigits(o) = CHOOSE q \in o + 1 .. Length : Ends(q)
  BY DEF EndOfDigits
<1>4. EndOfDigits(o) \in o + 1 .. Length /\ Ends(EndOfDigits(o))
  <2> HIDE DEF Ends
  <2> QED BY <1>2, <1>3
<1> DEFINE e == EndOfDigits(o)
<1>5. e \in o + 1 .. Length /\ Ends(e)
  BY <1>4
<1> HIDE DEF e
<1>6. ASSUME NEW q \in o + 1 .. e PROVE content[q] = "1"
  <2>1. q - 1 \in o .. e - 1 /\ q - 1 + 1 = q
    BY <1>5
  <2>2. Sym(q - 1) = "1"
    BY <1>5, <2>1
  <2> QED
    BY <2>1, <2>2 DEF Sym
<1>7. e < Length => content[e + 1] # "1"
  BY <1>5, SymIs
<1> QED
  BY <1>5, <1>6, <1>7 DEF e

\* The digits of a number: all of them, or as many as number_c_string holds.
LEMMA NumberReads ==
  ASSUME NEW o \in Nat, o < Length, Length \in Nat, Sym(o) = "1"
  PROVE  /\ EndOfNumber(o) \in o + 1 .. Length /\ EndOfNumber(o) - o <= NumberCap
         /\ \A k \in o + 1 .. EndOfNumber(o) : content[k] = "1"
         /\ (EndOfNumber(o) < Length /\ content[EndOfNumber(o) + 1] = "1") => EndOfNumber(o) - o = NumberCap
<1> DEFINE d == EndOfDigits(o)  e == EndOfNumber(o)
<1>1. /\ d \in o + 1 .. Length
      /\ \A k \in o + 1 .. d : content[k] = "1"
      /\ d < Length => content[d + 1] # "1"
  BY DigitsRead
<1>2. e = IF d > o + NumberCap THEN o + NumberCap ELSE d
  BY DEF EndOfNumber
<1> HIDE DEF d, e
<1>3. e \in o + 1 .. Length /\ e - o <= NumberCap /\ e <= d /\ (e # d => e - o = NumberCap)
  BY <1>1, <1>2, ParseAssumption
<1>4. ASSUME NEW k \in o + 1 .. e PROVE content[k] = "1"
  <2>1. k \in o + 1 .. d
    BY <1>1, <1>3
  <2> QED
    BY <1>1, <2>1
<1>5. ASSUME e < Length, content[e + 1] = "1" PROVE e - o = NumberCap
  BY <1>1, <1>3, <1>5
<1> QED
  BY <1>3, <1>4, <1>5 DEF e

-----------------------------------------------------------------------------
\* Only the kinds of the frames count.
Alike(F, G) == Len(G) = Len(F) /\ \A m \in 1 .. Len(F) : KindOf(F, m) = KindOf(G, m)

LEMMA SameFrames ==
  ASSUME NEW F, Framed(F), F # <<>>, NEW K, NEW x \in Frame(K), NEW G, G = [F EXCEPT ![Len(F)] = x],
         x.kind = F[Len(F)].kind
  PROVE  Framed(G) /\ Alike(F, G)
<1>1. /\ Framed(G) /\ Len(G) = Len(F) /\ Len(F) \in Nat \ {0}
      /\ \A i \in 1 .. Len(F) - 1 : G[i] = F[i]
      /\ G[Len(F)] = x
  <2>1. LET g == [F EXCEPT ![Len(F)] = x] IN
        /\ Framed(g) /\ Len(g) = Len(F) /\ Len(F) \in Nat \ {0} /\ g # <<>>
        /\ \A i \in 1 .. Len(F) - 1 : g[i] = F[i]
        /\ g[Len(F)] = x
    BY FrameChanged
  <2> QED
    BY <2>1
<1>2. ASSUME NEW m \in 1 .. Len(F) PROVE KindOf(F, m) = KindOf(G, m)
  <2>1. CASE m = Len(F)
    BY <1>1, <2>1 DEF KindOf
  <2>2. CASE m # Len(F)
    <3>1. m \in 1 .. Len(F) - 1
      BY <1>1, <2>2
    <3> QED
      BY <1>1, <3>1 DEF KindOf
  <2> QED
    BY <2>1, <2>2
<1> QED
  BY <1>1, <1>2 DEF Alike

LEMMA ValueKeepsKinds ==
  ASSUME NEW v, NEW n \in Nat, NEW s \in Nat, NEW f, Framed(f), Value(v, n, s, f)
  PROVE  Framed(frames') /\ Alike(f, frames')
<1>1. CASE f = <<>>
  <2>1. frames' = f
    BY <1>1 DEF Value
  <2> QED
    BY <2>1 DEF Alike
<1>2. CASE f # <<>>
  <2> DEFINE l == Len(f)
             x == WithValue(f[l], v, n, s)
  <2>1. PICK K : f[l] \in Frame(K)
    <3>1. l \in Nat \ {0} /\ \A i \in 1 .. l : \E K : f[i] \in Frame(K)
      BY <1>2, FramePopped
    <3> QED BY <3>1
  <2>2. frames' = [f EXCEPT ![l] = x]
    BY <1>2 DEF Value
  <2>3. x \in Frame({Append(f[l].kids, v)}) /\ x.kind = f[l].kind
    BY <2>1 DEF Frame, WithValue
  <2> HIDE DEF x
  <2> QED
    BY <1>2, <2>2, <2>3, SameFrames
<1> QED
  BY <1>1, <1>2

LEMMA MoreKeepsKinds ==
  ASSUME NEW f, Framed(f), f # <<>>, NEW n \in Nat, NEW s \in Nat, NEW g,
         g = [f EXCEPT ![Len(f)] = More(f[Len(f)], n, s)]
  PROVE  Framed(g) /\ Alike(f, g)
<1> DEFINE l == Len(f)
           x == More(f[l], n, s)
<1>1. PICK K : f[l] \in Frame(K)
  <2>1. l \in Nat \ {0} /\ \A i \in 1 .. l : \E K : f[i] \in Frame(K)
    BY FramePopped
  <2> QED BY <2>1
<1>2. x \in Frame(K) /\ x.kind = f[l].kind
  BY <1>1 DEF Frame, More
<1>3. g = [f EXCEPT ![l] = x]
  OBVIOUS
<1> HIDE DEF x
<1> QED
  BY <1>2, <1>3, SameFrames

\* Where the parser is at, s is where the text begins.
Known(s, a, c, F, o) ==
  \E v \in [Nat -> Nat], b \in [Nat -> Nat] :
    v[0] = s /\ Path(c, F, Len(F), v, b) /\ Located(a, c, F, Len(F), v, b, o)

LEMMA AlikeIsKnown ==
  ASSUME NEW s, NEW a, NEW c, NEW F, NEW o, Known(s, a, c, F, o), Len(F) \in Nat,
         a = "name" => F # <<>> /\ Len(F) # 0,
         NEW G, Alike(F, G)
  PROVE  Known(s, a, c, G, o)
<1>1. PICK v \in [Nat -> Nat], b \in [Nat -> Nat] :
        v[0] = s /\ Path(c, F, Len(F), v, b) /\ Located(a, c, F, Len(F), v, b, o)
  BY DEF Known
<1> DEFINE n == Len(F)
<1>2. n \in Nat /\ Len(G) = n /\ \A m \in 1 .. n : KindOf(F, m) = KindOf(G, m)
  BY DEF Alike
<1>3. Path(c, F, n, v, b) /\ Located(a, c, F, n, v, b, o) /\ (a = "name" => n # 0)
  BY <1>1
<1> HIDE DEF n
<1>4. Path(c, G, n, v, b) /\ (n # 0 => (Leads(c, F, v, b, n) => Leads(c, G, v, b, n)))
  BY <1>2, <1>3, SameKinds
<1>5. a = "name" => KindOf(F, n) = KindOf(G, n)
  BY <1>2, <1>3
<1>6. a = "name" => /\ KindOf(G, n) = "object"
                    /\ v[n] <= o + 1 /\ Blank(c, v[n], o) /\ Completes(c, G, b, n, v[n])
  <2> SUFFICES ASSUME a = "name"
               PROVE  /\ KindOf(G, n) = "object"
                      /\ v[n] <= o + 1 /\ Blank(c, v[n], o) /\ Completes(c, G, b, n, v[n])
    OBVIOUS
  <2>1. /\ KindOf(F, n) = "object"
        /\ v[n] <= o + 1 /\ Blank(c, v[n], o) /\ Completes(c, F, b, n, v[n])
    BY <1>3 DEF Located
  <2> QED
    BY <1>5, <2>1 DEF Completes
<1>7. Located(a, c, G, n, v, b, o)
  BY <1>3, <1>4, <1>6 DEF Located
<1> QED
  BY <1>1, <1>2, <1>4, <1>7 DEF Known

-----------------------------------------------------------------------------
Texts == {"value", "begin", "name", "after", "behind"}

First == 1 + skip_utf8_bom

\* What is read is JSON so far, and what was accepted is.
Understood ==
  /\ at \in Texts => Known(First, at, content, frames, offset)
  /\ at = "parsed" => IF terminated THEN \E k \in 1 .. Length : IsInput(k) ELSE IsText(offset)

LEMMA NextInside ==
  ASSUME NEW o \in Nat, NEW n \in Nat, o < n
  PROVE  o + 1 <= n /\ o <= n
OBVIOUS

\* What the steps have in common.
LEMMA UnderstoodAgain ==
  ASSUME content' = content, at' \in Texts => Known(First, at', content, frames', offset'),
         at' # "parsed"
  PROVE  Understood'
<1>1. First' = First
  BY DEF First, skip_utf8_bom, Is, Access, Sym, Length
<1> QED
  BY <1>1 DEF Understood

\* A value of its own is read.
LEMMA ValueIsKnown ==
  ASSUME NEW s, NEW c \in Seq(Symbol), NEW F, Len(F) \in Nat, Len(F) <= Limit, NEW o \in Nat, o <= Len(c),
         Known(s, "value", c, F, o),
         NEW e \in Nat, o + 1 <= e, e <= Len(c), Core(c, o + 1, e, Limit - Len(F)), Ended(c, e),
         NEW G, Alike(F, G)
  PROVE  Known(s, "after", c, G, e)
<1>1. PICK v \in [Nat -> Nat], b \in [Nat -> Nat] :
        v[0] = s /\ Path(c, F, Len(F), v, b) /\ Located("value", c, F, Len(F), v, b, o)
  BY DEF Known
<1>2. Located("after", c, F, Len(F), v, b, e)
  BY <1>1, ReadsValue
<1>3. Known(s, "after", c, F, e)
  BY <1>1, <1>2 DEF Known
<1> QED
  BY <1>3, AlikeIsKnown

\* A bracket opens a frame.
LEMMA OpeningIsKnown ==
  ASSUME NEW s, NEW c \in Seq(Symbol), NEW F, Framed(F), Len(F) < Limit, NEW o \in Nat, o < Len(c),
         Known(s, "value", c, F, o), NEW kind \in Kind, c[o + 1] = Opener(kind),
         NEW p \in Nat, o + 1 <= p, p <= Len(c), Blank(c, o + 2, p),
         NEW G, G = Append(F, NewFrame(kind))
  PROVE  Known(s, "begin", c, G, p)
<1>1. PICK v \in [Nat -> Nat], b \in [Nat -> Nat] :
        v[0] = s /\ Path(c, F, Len(F), v, b) /\ Located("value", c, F, Len(F), v, b, o)
  BY DEF Known
<1>2. NewFrame(kind) \in Frame({<<>>}) /\ NewFrame(kind).kind = kind
  BY DEF NewFrame, Frame, Kind
<1>3. Len(F) \in Nat /\ Len(G) = Len(F) + 1 /\ (\A i \in 1 .. Len(F) : G[i] = F[i])
      /\ G[Len(F) + 1] = NewFrame(kind)
  <2>1. LET g == Append(F, NewFrame(kind)) IN
        /\ Framed(g) /\ Len(F) \in Nat /\ Len(g) = Len(F) + 1 /\ g # <<>>
        /\ \A i \in 1 .. Len(F) : g[i] = F[i]
        /\ g[Len(F) + 1] = NewFrame(kind)
    BY <1>2, FramePushed
  <2> QED
    BY <2>1
<1> DEFINE n == Len(F)  z == n + 1  x == o + 1  y == x + 1
<1>4. /\ n \in Nat /\ z \in Nat /\ x \in Nat /\ y \in Nat
      /\ Before(o, x) /\ Before(n, z) /\ Before(x, y) /\ x <= Len(c) /\ o <= Len(c) /\ x <= p
  <2>1. Len(c) \in Nat /\ n \in Nat
    BY <1>3, LenProperties
  <2>2. z \in Nat
    BY <2>1
  <2>4. x \in Nat /\ y \in Nat /\ x <= p
    OBVIOUS
  <2>5. x <= Len(c) /\ o <= Len(c)
    BY <2>1, NextInside
  <2>3. Before(o, x) /\ Before(n, z) /\ Before(x, y)
    BY DEF Before
  <2> QED
    BY <2>1, <2>2, <2>3, <2>4, <2>5
<1>5. Shows(c, x, Opener(kind)) /\ Blank(c, y, p)
  BY DEF Shows
<1>6. KindOf(G, z) = kind /\ \A m \in 1 .. n : KindOf(G, m) = KindOf(F, m)
  BY <1>2, <1>3 DEF KindOf
<1>7. n < Limit /\ Path(c, F, n, v, b) /\ Located("value", c, F, n, v, b, o)
  BY <1>1
<1>8. Len(G) = z
  BY <1>3
<1> HIDE DEF x, y, z, n
<1>9. \E a \in [Nat -> Nat] : Path(c, G, z, v, a) /\ Located("begin", c, G, z, v, a, p)
  BY <1>4, <1>5, <1>6, <1>7, ReadsOpening
<1> QED
  BY <1>1, <1>8, <1>9 DEF Known

\* A bracket closes a frame.
LEMMA ClosingIsKnown ==
  ASSUME NEW s, NEW a \in {"begin", "behind"}, NEW c \in Seq(Symbol), NEW F, Framed(F), F # <<>>,
         Len(F) <= Limit, NEW o \in Nat, o < Len(c), Known(s, a, c, F, o),
         c[o + 1] = Closer(KindOf(F, Len(F))),
         NEW G, Alike(SubSeq(F, 1, Len(F) - 1), G)
  PROVE  Known(s, "after", c, G, o + 1)
<1>1. PICK v \in [Nat -> Nat], b \in [Nat -> Nat] :
        v[0] = s /\ Path(c, F, Len(F), v, b) /\ Located(a, c, F, Len(F), v, b, o)
  BY DEF Known
<1> DEFINE n == Len(F)  l == n - 1  x == o + 1  H == SubSeq(F, 1, n - 1)
<1>2. n \in Nat \ {0} /\ Len(H) = n - 1 /\ \A i \in 1 .. n - 1 : H[i] = F[i]
  BY FramePopped
<1>3. n \in Nat /\ n # 0 /\ l \in Nat /\ Before(l, n) /\ x \in Nat /\ Before(o, x)
      /\ x <= Len(c) /\ o <= Len(c)
  <2>1. Len(c) \in Nat /\ n \in Nat \ {0}
    BY <1>2, LenProperties
  <2> HIDE DEF n
  <2>2. l \in Nat
    BY <2>1
  <2>3. Before(l, n)
    BY <2>1 DEF Before
  <2>4. x \in Nat /\ Before(o, x)
    BY DEF Before
  <2>5. x <= Len(c) /\ o <= Len(c)
    BY <2>1, NextInside
  <2> QED
    BY <2>1, <2>2, <2>3, <2>4, <2>5
<1>4. Len(H) = l /\ \A i \in 1 .. l : KindOf(H, i) = KindOf(F, i)
  BY <1>2 DEF KindOf
<1>5. n <= Limit /\ Shows(c, x, Closer(KindOf(F, n))) /\ Path(c, F, n, v, b)
      /\ (Located("begin", c, F, n, v, b, o) \/ Located("behind", c, F, n, v, b, o))
  BY <1>1 DEF Shows
<1>6. Alike(H, G)
  OBVIOUS
<1> HIDE DEF n, l, x, H
<1>7. Path(c, F, l, v, b) /\ Located("after", c, F, l, v, b, x)
  BY <1>3, <1>5, ReadsClosing
<1>8. Path(c, H, l, v, b) /\ (l # 0 => (Leads(c, F, v, b, l) => Leads(c, H, v, b, l)))
  BY <1>3, <1>4, <1>7, SameKinds
<1>9. Located("after", c, H, l, v, b, x)
  BY <1>7, <1>8 DEF Located
<1>10. Known(s, "after", c, H, x)
  BY <1>1, <1>4, <1>8, <1>9 DEF Known
<1>11. Known(s, "after", c, G, x)
  BY <1>3, <1>4, <1>6, <1>10, AlikeIsKnown
<1> QED
  BY <1>11 DEF x

\* The list of the current frame goes on, behind its bracket or a comma, and
\* blanks up to p are skipped.
GoesOn(s, c, F, p) ==
  \E v \in [Nat -> Nat], b \in [Nat -> Nat] :
    /\ v[0] = s /\ Path(c, F, Len(F), v, b)
    /\ \E i \in Nat : Completes(c, F, b, Len(F), i) /\ i <= p + 1 /\ Blank(c, i, p)

LEMMA BracketIsKnown ==
  ASSUME NEW s, NEW c \in Seq(Symbol), NEW F, Len(F) \in Nat, Len(F) # 0, Len(F) <= Limit,
         NEW o \in Nat, Known(s, "begin", c, F, o),
         NEW p \in Nat, o <= p, Blank(c, o + 1, p)
  PROVE  GoesOn(s, c, F, p)
<1>1. PICK v \in [Nat -> Nat], b \in [Nat -> Nat] :
        v[0] = s /\ Path(c, F, Len(F), v, b) /\ Located("begin", c, F, Len(F), v, b, o)
  BY DEF Known
<1>2. Completes(c, F, b, Len(F), b[Len(F)])
  BY <1>1, GoesOnBehindBracket
<1>3. b[Len(F)] \in Nat /\ b[Len(F)] <= o + 1 /\ Blank(c, b[Len(F)], o)
  BY <1>1 DEF Located
<1>4. PICK i \in Nat : i = b[Len(F)]
  BY <1>3
<1>5. i <= o + 1 /\ Blank(c, i, o) /\ Completes(c, F, b, Len(F), i)
  BY <1>2, <1>3, <1>4
<1>6. Blank(c, i, p)
  <2>1. \A k \in i .. p : k \in i .. o \/ k \in o + 1 .. p
    OBVIOUS
  <2> QED
    BY <1>5, <2>1 DEF Blank
<1>7. i <= p + 1
  BY <1>5
<1> QED
  BY <1>1, <1>5, <1>6, <1>7 DEF GoesOn

LEMMA CommaIsKnown ==
  ASSUME NEW s, NEW c \in Seq(Symbol), NEW F, Len(F) \in Nat, Len(F) # 0, Len(F) <= Limit,
         NEW o \in Nat, o < Len(c), Known(s, "behind", c, F, o), c[o + 1] = Comma,
         NEW p \in Nat, o + 1 <= p, Blank(c, o + 2, p)
  PROVE  GoesOn(s, c, F, p)
<1>1. PICK v \in [Nat -> Nat], b \in [Nat -> Nat] :
        v[0] = s /\ Path(c, F, Len(F), v, b) /\ Located("behind", c, F, Len(F), v, b, o)
  BY DEF Known
<1> DEFINE n == Len(F)  x == o + 1  y == o + 2
<1>2. n \in Nat /\ n <= Limit /\ n # 0 /\ Path(c, F, n, v, b) /\ Located("behind", c, F, n, v, b, o)
  BY <1>1
<1>3. x \in Nat /\ x = o + 1 /\ Shows(c, x, Comma) /\ y \in Nat /\ y = x + 1
  BY DEF Shows
<1>4. x <= Len(c) /\ o <= Len(c)
  BY LenProperties, NextInside
<1>5. y <= p + 1 /\ Blank(c, y, p)
  OBVIOUS
<1> HIDE DEF n, x, y
<1>6. Completes(c, F, b, n, y)
  BY <1>2, <1>3, <1>4, GoesOnBehindComma
<1> QED
  BY <1>1, <1>3, <1>5, <1>6 DEF GoesOn, n

\* An element begins, or a member.
LEMMA ElementIsKnown ==
  ASSUME NEW s, NEW c \in Seq(Symbol), NEW F, Len(F) \in Nat, Len(F) # 0, Len(F) <= Limit,
         NEW p \in Nat, p <= Len(c), GoesOn(s, c, F, p), KindOf(F, Len(F)) = "array", NEW G, Alike(F, G)
  PROVE  Known(s, "value", c, G, p)
<1>1. PICK v \in [Nat -> Nat], b \in [Nat -> Nat] :
        /\ v[0] = s /\ Path(c, F, Len(F), v, b)
        /\ \E i \in Nat : Completes(c, F, b, Len(F), i) /\ i <= p + 1 /\ Blank(c, i, p)
  BY DEF GoesOn
<1>2. \E w \in [Nat -> Nat] : /\ w[0] = v[0] /\ Path(c, F, Len(F), w, b)
                              /\ Located("value", c, F, Len(F), w, b, p)
  BY <1>1, ReadsElement
<1>3. Known(s, "value", c, F, p)
  BY <1>1, <1>2 DEF Known
<1> QED
  BY <1>3, AlikeIsKnown

LEMMA MemberIsKnown ==
  ASSUME NEW s, NEW c \in Seq(Symbol), NEW F, Len(F) \in Nat, Len(F) # 0, F # <<>>, Len(F) <= Limit,
         NEW p \in Nat, p <= Len(c), GoesOn(s, c, F, p), KindOf(F, Len(F)) = "object", NEW G, Alike(F, G)
  PROVE  Known(s, "name", c, G, p)
<1>1. PICK v \in [Nat -> Nat], b \in [Nat -> Nat] :
        /\ v[0] = s /\ Path(c, F, Len(F), v, b)
        /\ \E i \in Nat : Completes(c, F, b, Len(F), i) /\ i <= p + 1 /\ Blank(c, i, p)
  BY DEF GoesOn
<1>2. \E w \in [Nat -> Nat] : /\ w[0] = v[0] /\ Path(c, F, Len(F), w, b)
                              /\ Located("name", c, F, Len(F), w, b, p)
  BY <1>1, ReadsMember
<1>3. Known(s, "name", c, F, p)
  BY <1>1, <1>2 DEF Known
<1> QED
  BY <1>3, AlikeIsKnown

\* A name and its colon, at q.
LEMMA NameIsKnown ==
  ASSUME NEW s, NEW c \in Seq(Symbol), NEW F, Len(F) \in Nat, Len(F) # 0, Len(F) <= Limit,
         NEW o \in Nat, o <= Len(c), Known(s, "name", c, F, o), c[o + 1] = "str",
         NEW q \in Nat, o + 1 <= q, q < Len(c), Blank(c, o + 2, q), c[q + 1] = ":",
         NEW p \in Nat, q + 1 <= p, p <= Len(c), Blank(c, q + 2, p),
         NEW G, Alike(F, G)
  PROVE  Known(s, "value", c, G, p)
<1>1. PICK v \in [Nat -> Nat], b \in [Nat -> Nat] :
        v[0] = s /\ Path(c, F, Len(F), v, b) /\ Located("name", c, F, Len(F), v, b, o)
  BY DEF Known
<1> DEFINE n == Len(F)  x == o + 1  y == o + 2  t == q  r == q + 1  z == q + 2
<1>2. n \in Nat /\ n <= Limit /\ n # 0 /\ Path(c, F, n, v, b) /\ Located("name", c, F, n, v, b, o)
  BY <1>1
<1>3. x \in Nat /\ y \in Nat /\ r \in Nat /\ z \in Nat /\ x < r /\ r <= p
  OBVIOUS
<1>4. Before(o, x) /\ Before(x, y) /\ Before(q, r) /\ Before(r, z)
  BY DEF Before
<1>5. r <= Len(c)
  BY LenProperties, NextInside
<1>6. Shows(c, x, "str") /\ Shows(c, r, ":") /\ Blank(c, y, q) /\ Blank(c, z, p)
  BY DEF Shows
<1> HIDE DEF n, x, y, r, z
<1>7. \E w \in [Nat -> Nat] : /\ w[0] = v[0] /\ Path(c, F, n, w, b)
                              /\ Located("value", c, F, n, w, b, p)
  BY <1>2, <1>3, <1>4, <1>5, <1>6, ReadsName
<1>8. Known(s, "value", c, F, p)
  BY <1>1, <1>7 DEF Known, n
<1> QED
  BY <1>8, AlikeIsKnown

LEMMA BlanksAreKnown ==
  ASSUME NEW s, NEW c \in Seq(Symbol), NEW F, Len(F) \in Nat, Len(F) <= Limit,
         NEW o \in Nat, o <= Len(c), Known(s, "after", c, F, o),
         NEW p \in Nat, o <= p, p <= Len(c), Blank(c, o + 1, p)
  PROVE  Known(s, "behind", c, F, p)
<1>1. PICK v \in [Nat -> Nat], b \in [Nat -> Nat] :
        v[0] = s /\ Path(c, F, Len(F), v, b) /\ Located("after", c, F, Len(F), v, b, o)
  BY DEF Known
<1>2. Located("behind", c, F, Len(F), v, b, p)
  BY <1>1, ReadsBlanks
<1> QED
  BY <1>1, <1>2 DEF Known

-----------------------------------------------------------------------------
(***************************************************************************)
(* What is accepted is JSON.                                               *)
(***************************************************************************)

LEMMA LiteralsAreNoBlanks == "null" \notin Skipped /\ "str" \notin Skipped /\ "1" \notin Skipped
BY Zenon DEF Skipped

\* A text begins behind its byte order mark.
LEMMA TextIsKnown ==
  ASSUME NEW s, NEW c \in Seq(Symbol), s \in 1 .. Len(c) + 1, NEW p \in Nat, s <= p + 1, Blank(c, s, p)
  PROVE  Known(s, "value", c, <<>>, p)
<1> DEFINE v == [m \in Nat |-> s]
<1>0. Len(c) \in Nat /\ Len(<<>>) = 0
  BY LenProperties, EmptySeq
<1>1. v \in [Nat -> Nat] /\ v[0] = s
  BY <1>0
<1> HIDE DEF v
<1>2. Path(c, <<>>, 0, v, v)
  BY <1>1 DEF Path
<1>3. Located("value", c, <<>>, 0, v, v, p)
  BY <1>1 DEF Located
<1> QED
  BY <1>0, <1>1, <1>2, <1>3 DEF Known

LEMMA UnderstoodStep ==
  ASSUME ParseInv, ParseHeld, Understood, [ParseNext]_parseVars
  PROVE  Understood'
<1> DEFINE c == content  n == Len(frames)
<1>0. /\ Length \in Nat /\ Length = Len(c) /\ offset \in Nat /\ offset <= Length /\ c \in Seq(Symbol)
      /\ Framed(frames) /\ n \in Nat /\ n <= Limit /\ Limit \in Nat
      /\ at \in {"begin", "behind", "name"} => frames # <<>> /\ n # 0
  <2>1. /\ Length \in Nat /\ Length = Len(c) /\ offset \in Nat /\ offset <= Length /\ c \in Seq(Symbol)
        /\ Framed(frames) /\ n <= Limit /\ Limit \in Nat
    BY LengthIsNat, ParseAssumption DEF ParseInv, ParseHeld, OffsetInside, FramesBounded, Length
  <2>2. at \in {"begin", "behind", "name"} => frames # <<>>
    BY DEF ParseInv
  <2>3. n \in Nat
    BY <2>1, LenProperties DEF Framed
  <2>4. frames # <<>> => n # 0
    BY <2>1, FramePopped
  <2> QED
    BY <2>1, <2>2, <2>3, <2>4
<1>1. at \in Texts => Known(First, at, c, frames, offset)
  BY DEF Understood
<1>2. ASSUME content' = c, at' \notin Texts, at' # "parsed" PROVE Understood'
  BY <1>2, UnderstoodAgain
<1>3. ASSUME Fail, content' = c PROVE Understood'
  BY <1>2, <1>3 DEF Fail, Texts
<1>4. ASSUME Is(offset, "null") \/ Is(offset, "1") \/ Is(offset, "str"), at = "value", at' = "after", content' = c,
             NEW v, NEW k \in Nat, Value(v, 0, k, frames),
             offset' = IF Is(offset, "1") THEN EndOfNumber(offset) ELSE offset + 1
      PROVE  Understood'
  <2>1. Alike(frames, frames')
    BY <1>0, <1>4, ValueKeepsKinds
  <2>2. offset < Length /\ Sym(offset) = c[offset + 1]
    BY <1>4 DEF Is, Access, Sym
  <2>3. /\ offset' \in Nat /\ offset + 1 <= offset' /\ offset' <= Len(c)
        /\ Core(c, offset + 1, offset', Limit - n) /\ Ended(c, offset')
    <3>1. CASE Is(offset, "1")
      <4> DEFINE e == EndOfNumber(offset)
      <4>1. Sym(offset) = "1"
        BY <3>1 DEF Is
      <4>2. /\ e \in offset + 1 .. Length /\ (\A m \in offset + 1 .. e : content[m] = "1")
            /\ e - offset <= NumberCap
            /\ (e < Length /\ content[e + 1] = "1") => e - offset = NumberCap
        BY <1>0, <2>2, <4>1, NumberReads
      <4>3. offset' = e
        BY <1>4, <3>1
      <4> HIDE DEF e
      <4>4. e \in Nat /\ offset + 1 <= e /\ e <= Len(c) /\ e \in 1 .. Len(c) /\ e \in offset + 1 .. e
        BY <1>0, <4>2
      <4>5. Core(c, offset + 1, e, Limit - n)
        <5>1. e - (offset + 1) < NumberCap
          BY <1>0, <4>2, <4>4, ParseAssumption
        <5> QED
          BY <4>2, <5>1 DEF Core
      <4>6. c[e] = "1"
        BY <4>2, <4>4
      <4>7. ASSUME e < Len(c), c[e + 1] = "1" PROVE Full(c, e)
        <5>1. e - offset = NumberCap
          BY <1>0, <4>2, <4>7
        <5>2. e >= NumberCap /\ e - NumberCap + 1 = offset + 1
          BY <1>0, <4>4, <5>1, ParseAssumption
        <5> QED
          BY <4>2, <5>2 DEF Full
      <4>8. Ended(c, e)
        BY <4>4, <4>6, <4>7, LiteralsAreNoBlanks DEF Ended
      <4> QED
        BY <4>3, <4>4, <4>5, <4>8
    <3>2. CASE ~Is(offset, "1")
      <4> DEFINE e == offset + 1
      <4>1. offset' = e
        BY <1>4, <3>2
      <4>2. c[e] \in {"null", "str"}
        BY <1>4, <2>2, <3>2 DEF Is
      <4>3. e \in Nat /\ offset + 1 <= e /\ e <= Len(c) /\ e \in 1 .. Len(c)
        BY <1>0, <2>2
      <4>4. Core(c, e, e, Limit - n)
        BY <4>2 DEF Core
      <4> HIDE DEF e
      <4>5. Ended(c, e)
        BY <4>2, <4>3, LiteralsAreNoBlanks DEF Ended
      <4> QED
        BY <4>1, <4>3, <4>4, <4>5 DEF e
    <3> QED
      BY <3>1, <3>2
  <2>4. Known(First, "value", c, frames, offset) /\ offset <= Len(c)
    BY <1>0, <1>1, <1>4 DEF Texts
  <2>5. Known(First, "after", c, frames', offset')
    BY <1>0, <2>1, <2>3, <2>4, ValueIsKnown
  <2> QED
    BY <1>4, <2>5, UnderstoodAgain
<1>5. CASE ParseStart
  <2>1. CASE at' = "failed"
    BY <1>2, <1>5, <2>1 DEF ParseStart, Texts
  <2>2. CASE at' # "failed"
    <3>1. Length > 0 /\ offset' = Skip(skip_utf8_bom) /\ at' = "value" /\ frames' = frames /\ content' = c
      BY <1>5, <2>2 DEF ParseStart
    <3>2. frames = <<>>
      BY <1>5 DEF ParseStart, ParseHeld
    <3>3. skip_utf8_bom \in Nat /\ skip_utf8_bom <= Length
      BY <1>0, <3>1 DEF skip_utf8_bom
    <3>4. /\ Skip(skip_utf8_bom) \in Nat /\ skip_utf8_bom <= Skip(skip_utf8_bom)
          /\ Blank(content, skip_utf8_bom + 1, Skip(skip_utf8_bom))
      BY <1>0, <3>3, SkipReads
    <3>5. First \in 1 .. Len(c) + 1 /\ First <= Skip(skip_utf8_bom) + 1 /\ First = skip_utf8_bom + 1
      BY <1>0, <3>3, <3>4 DEF First
    <3>6. Known(First, "value", c, <<>>, Skip(skip_utf8_bom))
      BY <1>0, <3>4, <3>5, TextIsKnown
    <3> QED
      BY <3>1, <3>2, <3>6, UnderstoodAgain
  <2> QED
    BY <2>1, <2>2
<1>6. CASE ParseWord
  BY <1>4, <1>6 DEF ParseWord, Is
<1>7. CASE ParseNumber
  BY <1>4, <1>7 DEF ParseNumber, Is
<1>8. CASE ParseString
  <2>1. CASE NoMemory
    BY <1>3, <1>8, <2>1 DEF ParseString, NoMemory
  <2>2. CASE ~NoMemory
    <3>1. /\ at = "value" /\ at' = "after" /\ content' = c /\ offset' = offset + 1
          /\ Value(Node("str", <<>>), 0, 1, frames) /\ Is(offset, "str")
      BY <1>8, <2>2 DEF ParseString
    <3> QED
      BY <1>4, <3>1 DEF Is
  <2> QED
    BY <2>1, <2>2
<1>9. CASE NoValue \/ Broken
  BY <1>3, <1>9 DEF NoValue, Broken
<1>10. ASSUME NEW kind \in Kind, ParseOpen(Opener(kind), kind) PROVE Understood'
  <2>1. CASE Deep
    BY <1>3, <1>10, <2>1 DEF ParseOpen
  <2>2. CASE ~Deep
    <3>1. /\ frames' = Append(frames, NewFrame(kind)) /\ at = "value" /\ at' = "begin"
          /\ offset' = Skip(offset + 1) /\ content' = c
          /\ offset < Length /\ c[offset + 1] = Opener(kind)
      BY <1>10, <2>2 DEF ParseOpen, Is, Access, Sym
    <3>2. n < Limit
      BY <1>0, <2>2 DEF Deep
    <3>3. offset + 1 \in Nat /\ offset + 1 <= Length
      BY <1>0, <3>1
    <3>4. /\ offset' \in Nat /\ offset + 1 <= offset' /\ offset' <= Len(c)
          /\ Blank(c, offset + 1 + 1, offset')
      BY <1>0, <3>1, <3>3, SkipReads
    <3>5. Blank(c, offset + 2, offset')
      <4>1. offset + 1 + 1 = offset + 2
        BY <1>0
      <4> QED
        BY <3>4, <4>1
    <3>6. Known(First, "value", c, frames, offset) /\ offset < Len(c)
      BY <1>0, <1>1, <3>1 DEF Texts
    <3>7. Known(First, "begin", c, frames', offset')
      BY <1>0, <1>10, <3>1, <3>2, <3>4, <3>5, <3>6, OpeningIsKnown
    <3> QED
      BY <3>1, <3>7, UnderstoodAgain
  <2> QED
    BY <2>1, <2>2
<1>11. CASE ParseArray
  <2>1. ParseOpen(Opener("array"), "array")
    BY <1>11, Zenon DEF ParseArray, Opener
  <2> QED
    BY <1>10, <2>1 DEF Kind
<1>12. CASE ParseObject
  <2>1. ParseOpen(Opener("object"), "object")
    BY <1>12, Zenon DEF ParseObject, Opener
  <2> QED
    BY <1>10, <2>1 DEF Kind
<1>13. CASE ParseClose
  <2>1. /\ at \in {"begin", "behind"} /\ at' = "after" /\ content' = c /\ offset' = offset + 1
        /\ Is(offset, Closing) /\ Value(Node(Top.kind, Top.kids), Top.items, Top.strings, Outer)
    BY <1>13 DEF ParseClose
  <2>2. frames # <<>>
    BY <1>0, <2>1
  <2>3. Top.items \in Nat /\ Top.strings \in Nat
    BY <1>0, <2>2, TopIsFrame
  <2>4. Framed(Outer)
    BY <1>0, <2>2, FramePopped DEF Outer
  <2>5. Alike(SubSeq(frames, 1, n - 1), frames')
    BY <2>1, <2>3, <2>4, ValueKeepsKinds DEF Outer
  <2>6. Closing = Closer(KindOf(frames, n))
    BY Zenon DEF Closing, Closer, KindOf, Top
  <2>7. offset < Len(c) /\ c[offset + 1] = Closer(KindOf(frames, n))
    BY <1>0, <2>1, <2>6 DEF Is, Access, Sym
  <2>8. Known(First, at, c, frames, offset)
    BY <1>1, <2>1 DEF Texts
  <2>9. Known(First, "after", c, frames', offset + 1)
    BY <1>0, <2>1, <2>2, <2>5, <2>7, <2>8, ClosingIsKnown
  <2> QED
    BY <2>1, <2>9, UnderstoodAgain
<1>14. ASSUME NEW kind, NextRound(kind)
       PROVE  /\ From \in Nat /\ From <= Length /\ KindOf(frames, n) = kind /\ frames # <<>> /\ n # 0
              /\ \A p \in Nat : From <= p /\ Blank(c, From + 1, p) => GoesOn(First, c, frames, p)
  <2>0. frames # <<>> /\ n # 0 /\ KindOf(frames, n) = kind
    BY <1>0, <1>14 DEF NextRound, KindOf, Top
  <2>1. CASE at = "begin"
    <3>1. From = offset /\ Known(First, "begin", c, frames, offset)
      BY <1>1, <2>1 DEF From, Texts
    <3> QED
      BY <1>0, <2>0, <3>1, BracketIsKnown
  <2>2. CASE at # "begin"
    <3>1. at = "behind" /\ Access(offset) /\ Sym(offset) = Comma
      BY <1>14, <2>2, Zenon DEF NextRound, Is, Comma
    <3>2. From = offset + 1 /\ Known(First, "behind", c, frames, offset) /\ offset < Len(c) /\ c[offset + 1] = Comma
      BY <1>0, <1>1, <3>1 DEF From, Texts, Access, Sym
    <3>3. offset + 1 + 1 = offset + 2
      BY <1>0
    <3>4. ASSUME NEW p \in Nat, offset + 1 <= p, Blank(c, offset + 2, p) PROVE GoesOn(First, c, frames, p)
      BY <1>0, <2>0, <3>2, <3>4, CommaIsKnown
    <3>5. From \in Nat /\ From <= Length
      BY <1>0, <3>2
    <3> QED
      BY <2>0, <3>2, <3>3, <3>4, <3>5
  <2> QED
    BY <2>1, <2>2
<1>15. ASSUME NEW kind \in Kind, NextRound(kind), frames' = Linked, offset' = Skip(From), content' = c,
              at' = IF kind = "array" THEN "value" ELSE "name"
       PROVE  Understood'
  <2>1. /\ From \in Nat /\ From <= Length /\ KindOf(frames, n) = kind /\ frames # <<>> /\ n # 0
        /\ \A p \in Nat : From <= p /\ Blank(c, From + 1, p) => GoesOn(First, c, frames, p)
    BY <1>14, <1>15
  <2>2. offset' \in Nat /\ From <= offset' /\ offset' <= Len(c) /\ Blank(c, From + 1, offset')
    BY <1>0, <1>15, <2>1, SkipReads
  <2>3. GoesOn(First, c, frames, offset')
    BY <2>1, <2>2
  <2>4. Alike(frames, frames')
    <3>1. frames' = [frames EXCEPT ![Len(frames)] = More(frames[Len(frames)], 1, 0)]
      BY <1>0, <1>15, <2>1, TopIsFrame
    <3> QED
      BY <1>0, <2>1, <3>1, MoreKeepsKinds
  <2>5. CASE kind = "array"
    <3>1. Known(First, "value", c, frames', offset')
      BY <1>0, <2>1, <2>2, <2>3, <2>4, <2>5, ElementIsKnown
    <3> QED
      BY <1>15, <2>5, <3>1, UnderstoodAgain
  <2>6. CASE kind = "object"
    <3>1. Known(First, "name", c, frames', offset')
      BY <1>0, <2>1, <2>2, <2>3, <2>4, <2>6, MemberIsKnown
    <3> QED
      BY <1>15, <2>6, <3>1, UnderstoodAgain
  <2> QED
    BY <2>5, <2>6 DEF Kind
<1>16. CASE ParseElement
  <2>1. CASE NoMemory
    BY <1>3, <1>16, <2>1 DEF ParseElement, NoMemory
  <2>2. CASE ~NoMemory
    BY <1>15, <1>16, <2>2 DEF ParseElement, Kind
  <2> QED
    BY <2>1, <2>2
<1>17. CASE ParseMember
  <2>1. CASE NoMemory
    BY <1>3, <1>17, <2>1 DEF ParseMember, NoMemory
  <2>2. CASE ~NoMemory /\ ~Access(From)
    BY <1>2, <1>17, <2>2 DEF ParseMember, Texts
  <2>3. CASE ~NoMemory /\ Access(From)
    BY <1>15, <1>17, <2>3 DEF ParseMember, Kind
  <2> QED
    BY <2>1, <2>2, <2>3
<1>18. CASE ParseName
  <2>1. at = "name" /\ content' = c /\ frames # <<>> /\ n # 0
    BY <1>0, <1>18 DEF ParseName
  <2>2. CASE Fail
    BY <1>3, <2>1, <2>2
  <2>3. CASE ~Fail
    <3> DEFINE q == Skip(offset + 1)
    <3>1. /\ frames' = [frames EXCEPT ![Len(frames)].strings = @ + 1] /\ Is(offset, "str")
          /\ IF Is(q, ":") THEN offset' = Skip(q + 1) /\ at' = "value"
                           ELSE offset' = q /\ at' = "failing"
      BY <1>18, <2>3 DEF ParseName, NoMemory
    <3>2. CASE ~Is(q, ":")
      BY <1>2, <2>1, <3>1, <3>2 DEF Texts
    <3>3. CASE Is(q, ":")
      <4>1. offset < Len(c) /\ c[offset + 1] = "str" /\ offset + 1 \in Nat /\ offset + 1 <= Length
        BY <1>0, <3>1 DEF Is, Access, Sym
      <4>2. q \in Nat /\ offset + 1 <= q /\ q <= Len(c) /\ Blank(c, offset + 1 + 1, q)
        BY <1>0, <4>1, SkipReads
      <4> HIDE DEF q
      <4>3. q < Len(c) /\ c[q + 1] = ":" /\ q + 1 \in Nat /\ q + 1 <= Length
        BY <1>0, <3>3, <4>2 DEF Is, Access, Sym
      <4>4. offset' \in Nat /\ q + 1 <= offset' /\ offset' <= Len(c) /\ Blank(c, q + 1 + 1, offset')
        BY <1>0, <3>1, <3>3, <4>3, SkipReads
      <4>5. offset + 1 + 1 = offset + 2 /\ q + 1 + 1 = q + 2
        BY <1>0, <4>2
      <4>6. Blank(c, offset + 2, q) /\ Blank(c, q + 2, offset')
        BY <4>2, <4>4, <4>5
      <4>7. Alike(frames, frames')
        <5>1. frames' = [frames EXCEPT ![Len(frames)] = More(frames[Len(frames)], 0, 1)]
          BY <1>0, <2>1, <3>1, TopIsFrame
        <5> QED
          BY <1>0, <2>1, <5>1, MoreKeepsKinds
      <4>8. Known(First, "name", c, frames, offset) /\ offset <= Len(c)
        BY <1>0, <1>1, <2>1 DEF Texts
      <4>9. Known(First, "value", c, frames', offset')
        BY <1>0, <2>1, <4>1, <4>2, <4>3, <4>4, <4>6, <4>7, <4>8, NameIsKnown
      <4> QED
        BY <2>1, <3>1, <3>3, <4>9, UnderstoodAgain
    <3> QED
      BY <3>2, <3>3
  <2> QED
    BY <2>2, <2>3
<1>19. CASE Behind
  <2>1. at = "after" /\ at' = "behind" /\ offset' = Skip(offset) /\ content' = c /\ frames' = frames
    BY <1>19 DEF Behind
  <2>2. offset' \in Nat /\ offset <= offset' /\ offset' <= Len(c) /\ Blank(c, offset + 1, offset')
    BY <1>0, <2>1, SkipReads
  <2>3. Known(First, "after", c, frames, offset) /\ offset <= Len(c)
    BY <1>0, <1>1, <2>1 DEF Texts
  <2>4. Known(First, "behind", c, frames, offset')
    BY <1>0, <2>2, <2>3, BlanksAreKnown
  <2> QED
    BY <2>1, <2>4, UnderstoodAgain
<1>20. CASE ParseComplete
  <2>1. at = "after" /\ frames = <<>> /\ content' = c /\ terminated' = terminated
        /\ IF terminated THEN at' = IF Is(Skip(offset), "NUL") THEN "parsed" ELSE "failing"
                         ELSE at' = "parsed" /\ offset' = offset
    BY <1>20 DEF ParseComplete
  <2>2. PICK v \in [Nat -> Nat], b \in [Nat -> Nat] :
          v[0] = First /\ Path(c, <<>>, Len(<<>>), v, b) /\ Located("after", c, <<>>, Len(<<>>), v, b, offset)
    BY <1>1, <2>1 DEF Texts, Known
  <2>3. ValueOn(c, First, offset, Limit) /\ Ended(c, offset)
    <3>1. Len(<<>>) = 0 /\ Limit - 0 = Limit
      BY <1>0, EmptySeq
    <3> QED
      BY <2>2, <3>1 DEF Located
  <2>4. IsText(offset) /\ offset \in 1 .. Length
    BY <1>0, <2>3 DEF IsText, ValueOn, Ended, First
  <2>5. ASSUME Is(Skip(offset), "NUL")
        PROVE  Blank(content, offset + 1, Length) /\ offset < Length /\ content[Length] = "NUL"
    <3> DEFINE p == Skip(offset)
    <3>1. /\ p \in Nat /\ offset <= p /\ p <= Length
          /\ Access(offset) /\ Sym(p) \in Skipped => p + 1 = Length /\ Blank(content, offset + 1, Length)
      BY <1>0, SkipReads
    <3>2. Access(p) /\ Sym(p) = "NUL"
      BY <2>5 DEF Is
    <3> HIDE DEF p
    <3>3. Sym(p) \in Skipped
      BY <3>2, Zenon DEF Skipped
    <3>4. Access(offset) /\ offset < Length
      BY <1>0, <3>1, <3>2 DEF Access
    <3>5. p + 1 = Length /\ Blank(content, offset + 1, Length)
      BY <3>1, <3>3, <3>4
    <3>6. content[Length] = "NUL"
      BY <3>2, <3>5 DEF Sym
    <3> QED
      BY <3>4, <3>5, <3>6
  <2>6. at' = "parsed" => IF terminated THEN \E k \in 1 .. Length : IsInput(k)
                                        ELSE IsText(offset) /\ offset' = offset
    <3>1. CASE terminated
      BY <2>1, <2>4, <2>5, <3>1 DEF IsInput
    <3>2. CASE ~terminated
      BY <2>1, <2>4, <3>2
    <3> QED
      BY <3>1, <3>2
  <2>7. /\ Length' = Length /\ (\A k : IsInput(k)' = IsInput(k))
        /\ offset' = offset => IsText(offset)' = IsText(offset)
    <3>1. skip_utf8_bom' = skip_utf8_bom /\ Length' = Length
      BY <2>1 DEF skip_utf8_bom, Is, Access, Sym, Length
    <3> QED
      BY <2>1, <3>1 DEF IsInput, IsText
  <2>8. at' \notin Texts
    BY <2>1 DEF Texts
  <2> QED
    BY <2>1, <2>6, <2>7, <2>8 DEF Understood
<1>21. CASE Unwind \/ DeleteRoot
  BY <1>2, <1>21 DEF Unwind, DeleteRoot, Texts
<1>22. CASE UNCHANGED parseVars
  <2>1. UNCHANGED <<content, at, frames, offset, terminated>>
    BY <1>22 DEF parseVars
  <2>2. First' = First /\ Length' = Length /\ (\A k : IsInput(k)' = IsInput(k)) /\ IsText(offset)' = IsText(offset)
    BY <2>1 DEF First, skip_utf8_bom, Is, Access, Sym, Length, IsInput, IsText
  <2> QED
    BY <2>1, <2>2 DEF Understood
<1> QED
  BY <1>5, <1>6, <1>7, <1>8, <1>9, <1>11, <1>12, <1>13, <1>16, <1>17, <1>18, <1>19, <1>20, <1>21, <1>22
  DEF ParseNext

\* What cJSON_ParseWithLengthOpts has read is JSON so far, wherever the parser is, and
\* what it returns as parsed is a value of the grammar, up to the place it returns and,
\* with require_null_terminated, with nothing but blanks behind it.
THEOREM OnlyJsonIsAccepted == ParseSpec => []Understood
<1>1. (\E input \in Input, require \in BOOLEAN : ParseInit(input, require)) => Understood
  BY DEF ParseInit, Understood, Texts
<1>2. ParseInv /\ ParseHeld /\ Understood /\ [ParseNext]_parseVars => Understood'
  BY UnderstoodStep
<1> QED BY <1>1, <1>2, ParseInvariant, ParseHoldsAll, PTL DEF ParseSpec

-----------------------------------------------------------------------------
(***************************************************************************)
(* What is left to read.  The value within m frames is followed by the     *)
(* rest of its list and by the bracket at x[m]; the text ends before x[0]. *)
(***************************************************************************)

\* What a value may begin with.
Begins(s) == s \in {"null", "str", "1"} \/ \E kind \in Kind : s = Opener(kind)

LEMMA BeginnersDiffer ==
  ASSUME NEW s, Begins(s)
  PROVE  s \notin Skipped /\ s # Comma /\ \A kind : s # Closer(kind)
BY Zenon DEF Begins, Skipped, Comma, Closer, Opener, Kind

LEMMA OpenersAreNoWords ==
  ASSUME NEW kind
  PROVE  Opener(kind) \notin {"null", "str"} /\ Opener(kind) # "1"
BY Zenon DEF Opener

LEMMA OpenersDiffer ==
  ASSUME NEW kind \in Kind, NEW k \in Kind, Opener(k) = Opener(kind)
  PROVE  k = kind
<1>1. "array" # "object" /\ Opener("array") # Opener("object")
  BY Zenon DEF Opener
<1> QED
  BY <1>1 DEF Kind

LEMMA SeparatorsDiffer ==
  ASSUME NEW kind
  PROVE  /\ Comma \notin Skipped /\ ":" \notin Skipped /\ Comma # "1" /\ Comma # Closer(kind)
BY Zenon DEF Comma, Skipped, Closer

LEMMA ColonIsNoComma == ":" # Comma
BY Zenon DEF Comma

LEMMA DigitsAreNoBlanks == \A s \in Skipped : s # "1"
BY Zenon DEF Skipped

LEMMA CoreBegins ==
  ASSUME NEW c, NEW p \in Nat, NEW e \in Nat, NEW d, p <= e, Core(c, p, e, d)
  PROVE  Begins(c[p])
<1>1. CASE p = e /\ c[p] \in {"null", "str"}
  BY <1>1 DEF Begins
<1>2. CASE \A k \in p .. e : c[k] = "1"
  <2>1. p \in p .. e
    OBVIOUS
  <2> QED
    BY <1>2, <2>1 DEF Begins
<1>3. CASE \E kind \in Kind : c[p] = Opener(kind)
  BY <1>3 DEF Begins
<1> QED
  BY <1>1, <1>2, <1>3 DEF Core

\* The rest of a list from f on, up to the bracket at y.
Goes(kind, c, f, y, d) ==
  \/ Blank(c, f, y - 1)
  \/ \E q \in f .. y - 1 :
       Blank(c, f, q - 1) /\ Shows(c, q, Comma) /\ ListOn(kind, c, q + 1, y - 1, d)

\* From p on there is a value, and the rest of a list up to y.
Goal(kind, c, p, y, d) ==
  \E e \in p .. y - 1 : Core(c, p, e, d) /\ Goes(kind, c, e + 1, y, d)

\* The first symbol of the text from i on that is no blank is at p.
FirstAt(c, i, p) == i <= p /\ Blank(c, i, p - 1) /\ c[p] \notin Skipped

LEMMA FirstIsOne ==
  ASSUME NEW c, NEW i \in Nat, NEW p \in Nat, NEW r \in Nat, FirstAt(c, i, p), FirstAt(c, i, r)
  PROVE  p = r
<1>1. CASE p < r
  <2>1. p \in i .. r - 1
    BY <1>1 DEF FirstAt
  <2> QED
    BY <2>1 DEF FirstAt, Blank
<1>2. CASE r < p
  <2>1. r \in i .. p - 1
    BY <1>2 DEF FirstAt
  <2> QED
    BY <2>1 DEF FirstAt, Blank
<1> QED
  BY <1>1, <1>2

LEMMA FindsValue ==
  ASSUME NEW c \in Seq(Symbol), NEW i \in 1 .. Len(c) + 1, NEW j \in 0 .. Len(c), NEW d \in 0 .. Limit,
         ValueOn(c, i, j, d)
  PROVE  \E p \in i .. j : FirstAt(c, i, p) /\ \E e \in p .. j : Core(c, p, e, d) /\ Blank(c, e + 1, j)
<1>0. Len(c) \in Nat /\ i \in Nat /\ j \in Nat /\ 1 <= i /\ i <= j
  <2>1. Len(c) \in Nat
    BY LenProperties
  <2> QED
    BY <2>1, ValueRule
<1>1. PICK t \in i - 1 .. j : /\ \A m \in i - 1 .. t - 1 : c[m + 1] \in Skipped
                              /\ t < j => c[t + 1] \notin Skipped
  <2>1. i - 1 \in Nat /\ i - 1 <= j
    BY <1>0
  <2> QED
    BY <1>0, <2>1, FirstPlace
<1> DEFINE p == t + 1
<1>2. p \in i .. j + 1 /\ p \in i .. Len(c) + 1 /\ p \in Nat /\ p - 1 = t
  BY <1>0, <1>1
<1>3. Blank(c, i, p - 1)
  <2> SUFFICES ASSUME NEW k \in i .. t PROVE c[k] \in Skipped
    BY <1>2 DEF Blank
  <2>1. k - 1 \in i - 1 .. t - 1 /\ k - 1 + 1 = k
    BY <1>0, <1>1
  <2> QED
    BY <1>1, <2>1
<1>4. t < j => c[p] \notin Skipped
  BY <1>1
<1> HIDE DEF p
<1>5. ValueOn(c, p, j, d) /\ p <= j
  BY <1>2, <1>3, TrimStart
<1>6. p \in 1 .. Len(c) + 1 /\ p \in i .. j /\ c[p] \notin Skipped
  <2>1. t < j
    BY <1>1, <1>2, <1>5, <1>0
  <2> QED
    BY <1>0, <1>2, <1>4, <1>5, <2>1
<1>7. \E e \in p .. j : Core(c, p, e, d) /\ Blank(c, e + 1, j)
  <2>1. PICK e \in p .. j : /\ Blank(c, e + 1, j)
                            /\ \/ c[p] \in Skipped /\ ValueOn(c, p + 1, e, d)
                               \/ Core(c, p, e, d)
    BY <1>5, <1>6, TrimEnd
  <2> QED
    BY <1>6, <2>1
<1> QED
  BY <1>3, <1>6, <1>7 DEF FirstAt

\* Where a value begins, and the rest of the list it is in.
LEMMA FindsGoal ==
  ASSUME NEW c \in Seq(Symbol), NEW i \in 1 .. Len(c) + 1, NEW y \in 1 .. Len(c), NEW d \in 0 .. Limit,
         NEW kind,
         \/ ValueOn(c, i, y - 1, d)
         \/ \E q \in i .. y - 1 : /\ c[q] = Comma /\ ValueOn(c, i, q - 1, d)
                                  /\ ListOn(kind, c, q + 1, y - 1, d)
  PROVE  \E p \in i .. y - 1 : FirstAt(c, i, p) /\ Goal(kind, c, p, y, d)
<1>0. Len(c) \in Nat
  BY LenProperties
<1>1. CASE ValueOn(c, i, y - 1, d)
  <2> DEFINE j == y - 1
  <2>1. j \in 0 .. Len(c) /\ ValueOn(c, i, j, d)
    BY <1>0, <1>1
  <2> HIDE DEF j
  <2>2. \E p \in i .. j : FirstAt(c, i, p) /\ \E e \in p .. j : Core(c, p, e, d) /\ Blank(c, e + 1, j)
    BY <2>1, FindsValue
  <2> QED
    BY <2>2 DEF Goal, Goes, j
<1>2. CASE \E q \in i .. y - 1 : /\ c[q] = Comma /\ ValueOn(c, i, q - 1, d)
                                 /\ ListOn(kind, c, q + 1, y - 1, d)
  <2>1. PICK q \in i .. y - 1 : /\ c[q] = Comma /\ ValueOn(c, i, q - 1, d)
                                /\ ListOn(kind, c, q + 1, y - 1, d)
    BY <1>2
  <2> DEFINE j == q - 1
  <2>2. j \in 0 .. Len(c) /\ ValueOn(c, i, j, d) /\ j <= y - 1 /\ j \in Nat
    BY <1>0, <2>1
  <2>3. q \in Nat /\ q <= y - 1 /\ j = q - 1
    BY <1>0
  <2> HIDE DEF j
  <2>4. PICK p \in i .. j : FirstAt(c, i, p) /\ \E e \in p .. j : Core(c, p, e, d) /\ Blank(c, e + 1, j)
    BY <2>2, FindsValue
  <2>5. PICK e \in p .. j : Core(c, p, e, d) /\ Blank(c, e + 1, j)
    BY <2>4
  <2>6. Blank(c, e + 1, q - 1) /\ q \in e + 1 .. y - 1 /\ e \in p .. y - 1 /\ p \in i .. y - 1
    BY <2>2, <2>3, <2>4, <2>5
  <2>7. Goes(kind, c, e + 1, y, d)
    BY <2>1, <2>6 DEF Goes, Shows
  <2> QED
    BY <2>4, <2>5, <2>6, <2>7 DEF Goal
<1> QED
  BY <1>1, <1>2

LEMMA FindsElement ==
  ASSUME NEW c \in Seq(Symbol), NEW i \in 1 .. Len(c) + 1, NEW y \in 1 .. Len(c), NEW d \in 0 .. Limit,
         ListOn("array", c, i, y - 1, d)
  PROVE  \E p \in i .. y - 1 : FirstAt(c, i, p) /\ Goal("array", c, p, y, d)
<1>1. y - 1 \in 0 .. Len(c)
  BY LenProperties
<1> QED
  BY <1>1, ElementsRule, FindsGoal

\* A name at p, its colon at q, and the value behind it.
LEMMA FindsMember ==
  ASSUME NEW c \in Seq(Symbol), NEW i \in 1 .. Len(c) + 1, NEW y \in 1 .. Len(c), NEW d \in 0 .. Limit,
         ListOn("object", c, i, y - 1, d)
  PROVE  \E p \in i .. y - 1, q \in i .. y - 1 :
           /\ p < q /\ FirstAt(c, i, p) /\ c[p] = "str" /\ FirstAt(c, p + 1, q) /\ c[q] = ":"
           /\ \E r \in q + 1 .. y - 1 : FirstAt(c, q + 1, r) /\ Goal("object", c, r, y, d)
<1>0. Len(c) \in Nat /\ y - 1 \in 0 .. Len(c)
  BY LenProperties
<1>1. PICK q \in i .. y - 1, p \in i .. y - 1 :
        /\ c[p] = "str" /\ c[q] = ":" /\ p < q
        /\ Blank(c, i, p - 1) /\ Blank(c, p + 1, q - 1)
        /\ \/ ValueOn(c, q + 1, y - 1, d)
           \/ \E m \in q .. y - 1 : /\ c[m] = Comma /\ ValueOn(c, q + 1, m - 1, d)
                                    /\ ListOn("object", c, m + 1, y - 1, d)
  BY <1>0, MembersRule
<1>2. q + 1 \in 1 .. Len(c) + 1 /\ q \in Nat /\ p \in Nat /\ i <= p /\ p + 1 <= q
  BY <1>0, <1>1
<1>3. \/ ValueOn(c, q + 1, y - 1, d)
      \/ \E m \in q + 1 .. y - 1 : /\ c[m] = Comma /\ ValueOn(c, q + 1, m - 1, d)
                                   /\ ListOn("object", c, m + 1, y - 1, d)
  <2>1. ASSUME NEW m \in q .. y - 1, c[m] = Comma PROVE m \in q + 1 .. y - 1
    <3>1. m # q
      BY <1>1, <2>1, ColonIsNoComma
    <3> QED
      BY <1>0, <1>2, <3>1
  <2> QED
    BY <1>1, <2>1
<1>4. \E r \in q + 1 .. y - 1 : FirstAt(c, q + 1, r) /\ Goal("object", c, r, y, d)
  <2> DEFINE z == q + 1
  <2>1. z \in 1 .. Len(c) + 1
    BY <1>2
  <2>2. \/ ValueOn(c, z, y - 1, d)
        \/ \E m \in z .. y - 1 : /\ c[m] = Comma /\ ValueOn(c, z, m - 1, d)
                                 /\ ListOn("object", c, m + 1, y - 1, d)
    BY <1>3
  <2> HIDE DEF z
  <2>3. \E r \in z .. y - 1 : FirstAt(c, z, r) /\ Goal("object", c, r, y, d)
    BY <2>1, <2>2, FindsGoal
  <2> QED
    BY <2>3 DEF z
<1>5. FirstAt(c, i, p)
  BY <1>1, <1>2, LiteralsAreNoBlanks DEF FirstAt
<1>6. FirstAt(c, p + 1, q)
  BY <1>1, <1>2, SeparatorsDiffer DEF FirstAt
<1> QED
  BY <1>1, <1>4, <1>5, <1>6

-----------------------------------------------------------------------------
\* What follows a value within m frames that ends just before f.
Follows(c, F, x, m, f) ==
  /\ m = 0 => f = x[0]
  /\ m # 0 => /\ x[m] \in f .. Len(c) /\ Shows(c, x[m], Closer(KindOf(F, m)))
              /\ Goes(KindOf(F, m), c, f, x[m], Limit - m)

\* Behind the bracket of every frame the frame around it goes on.
Pending(c, F, n, x) == \A m \in 1 .. n : KindOf(F, m) \in Kind /\ Follows(c, F, x, m - 1, x[m] + 1)

\* The list of which p is the first symbol that is no blank.
Inside(kind, c, p, y, d) == \E i \in 1 .. p : FirstAt(c, i, p) /\ ListOn(kind, c, i, y - 1, d)

\* The bracket of the current frame is ahead.
Closes(c, F, n, x, p) == n # 0 /\ x[n] \in p .. Len(c) /\ Shows(c, x[n], Closer(KindOf(F, n)))

\* What is left from p on, at each place of the parser.
Ahead(a, c, F, n, x, p) ==
  /\ a = "value"  => \E e \in p .. Len(c) : Core(c, p, e, Limit - n) /\ Follows(c, F, x, n, e + 1)
  /\ a = "after"  => Follows(c, F, x, n, p)
  /\ a = "begin"  => /\ Closes(c, F, n, x, p)
                     /\ p = x[n] \/ Inside(KindOf(F, n), c, p, x[n], Limit - n)
  /\ a = "name"   => /\ Closes(c, F, n, x, p) /\ KindOf(F, n) = "object"
                     /\ Inside("object", c, p, x[n], Limit - n)
  /\ a = "behind" => /\ Closes(c, F, n, x, p)
                     /\ p = x[n] \/ (Shows(c, p, Comma) /\ ListOn(KindOf(F, n), c, p + 1, x[n] - 1, Limit - n))

\* The same, when the text ends just before t, whatever the places of the brackets are.
Remains(t, a, c, F, n, p) == \E x \in [Nat -> Nat] : x[0] = t /\ Pending(c, F, n, x) /\ Ahead(a, c, F, n, x, p)

LEMMA SameKindsAhead ==
  ASSUME NEW c, NEW F, NEW G, NEW n \in Nat, \A m \in 1 .. n : KindOf(F, m) = KindOf(G, m), NEW x,
         NEW a, NEW p
  PROVE  /\ Pending(c, F, n, x) => Pending(c, G, n, x)
         /\ \A f : Follows(c, F, x, n, f) => Follows(c, G, x, n, f)
         /\ Ahead(a, c, F, n, x, p) => Ahead(a, c, G, n, x, p)
<1>1. ASSUME NEW m \in 0 .. n, NEW f, Follows(c, F, x, m, f) PROVE Follows(c, G, x, m, f)
  <2>1. CASE m = 0
    BY <1>1, <2>1 DEF Follows
  <2>2. CASE m # 0
    <3>1. KindOf(F, m) = KindOf(G, m)
      BY <2>2
    <3> QED
      BY <1>1, <2>2, <3>1 DEF Follows
  <2> QED
    BY <2>1, <2>2
<1>2. Pending(c, F, n, x) => Pending(c, G, n, x)
  <2> SUFFICES ASSUME Pending(c, F, n, x), NEW m \in 1 .. n
               PROVE  KindOf(G, m) \in Kind /\ Follows(c, G, x, m - 1, x[m] + 1)
    BY DEF Pending
  <2>1. m - 1 \in 0 .. n /\ KindOf(F, m) = KindOf(G, m)
    OBVIOUS
  <2>2. KindOf(F, m) \in Kind /\ Follows(c, F, x, m - 1, x[m] + 1)
    BY DEF Pending
  <2> QED
    BY <2>1, <2>2, <1>1
<1>3. n \in 0 .. n
  OBVIOUS
<1>4. n # 0 => KindOf(F, n) = KindOf(G, n)
  OBVIOUS
<1>5. \A f : Follows(c, F, x, n, f) => Follows(c, G, x, n, f)
  BY <1>1, <1>3
<1>6. Closes(c, F, n, x, p) => Closes(c, G, n, x, p) /\ KindOf(F, n) = KindOf(G, n)
  BY <1>4 DEF Closes
<1>7. Ahead(a, c, F, n, x, p) => Ahead(a, c, G, n, x, p)
  BY <1>5, <1>6 DEF Ahead
<1> QED
  BY <1>2, <1>5, <1>7

\* The bracket is ahead, behind what it closes.
LEMMA ClosesIs ==
  ASSUME NEW c \in Seq(Symbol), NEW F, NEW n \in Nat, n <= Limit, NEW x, NEW p \in Nat, p # 0, Closes(c, F, n, x, p)
  PROVE  /\ n # 0 /\ x[n] \in 1 .. Len(c) /\ p <= x[n] /\ p \in 1 .. Len(c) /\ p \in 1 .. Len(c) + 1
         /\ Limit - n \in 0 .. Limit /\ Len(c) \in Nat
         /\ Shows(c, x[n], Closer(KindOf(F, n)))
<1>1. Len(c) \in Nat /\ Limit - n \in 0 .. Limit
  BY SizesAre
<1> DEFINE y == x[n]
<1>2. y \in p .. Len(c) /\ n # 0 /\ Shows(c, y, Closer(KindOf(F, n)))
  BY DEF Closes
<1> HIDE DEF y
<1>3. y \in 1 .. Len(c) /\ p <= y /\ p \in 1 .. Len(c) /\ p \in 1 .. Len(c) + 1
  BY <1>1, <1>2
<1> QED
  BY <1>1, <1>2, <1>3 DEF y

\* A value in the list of the current frame.
LEMMA GoalIsAhead ==
  ASSUME NEW c \in Seq(Symbol), NEW F, NEW n \in Nat, n <= Limit, n # 0, NEW x, NEW p \in Nat,
         NEW y \in 1 .. Len(c), y = x[n], Shows(c, y, Closer(KindOf(F, n))),
         Goal(KindOf(F, n), c, p, y, Limit - n)
  PROVE  Ahead("value", c, F, n, x, p)
<1>0. Len(c) \in Nat /\ y \in Nat
  <2>1. Len(c) \in Nat
    BY LenProperties
  <2> QED
    BY <2>1
<1>1. PICK e \in p .. y - 1 : Core(c, p, e, Limit - n) /\ Goes(KindOf(F, n), c, e + 1, y, Limit - n)
  BY DEF Goal
<1>2. e \in p .. Len(c) /\ y \in e + 1 .. Len(c)
  BY <1>0, <1>1
<1>3. Follows(c, F, x, n, e + 1)
  BY <1>1, <1>2 DEF Follows
<1> QED
  BY <1>1, <1>2, <1>3 DEF Ahead

\* An element, of which p is the first symbol.
LEMMA InsideArray ==
  ASSUME NEW c \in Seq(Symbol), NEW F, NEW n \in Nat, n <= Limit, NEW x, NEW p \in Nat, p # 0,
         Closes(c, F, n, x, p), KindOf(F, n) = "array", Inside("array", c, p, x[n], Limit - n)
  PROVE  Ahead("value", c, F, n, x, p) /\ Goal("array", c, p, x[n], Limit - n)
<1> DEFINE y == x[n]
<1>1. /\ n # 0 /\ y \in 1 .. Len(c) /\ p <= y /\ p \in 1 .. Len(c) /\ Limit - n \in 0 .. Limit
      /\ Len(c) \in Nat /\ Shows(c, y, Closer(KindOf(F, n)))
  BY ClosesIs
<1>2. PICK i \in 1 .. p : FirstAt(c, i, p) /\ ListOn("array", c, i, y - 1, Limit - n)
  BY DEF Inside
<1>3. y = x[n]
  OBVIOUS
<1> HIDE DEF y
<1>4. i \in 1 .. Len(c) + 1 /\ i \in Nat
  BY <1>1, <1>2
<1>5. PICK r \in i .. y - 1 : FirstAt(c, i, r) /\ Goal("array", c, r, y, Limit - n)
  BY <1>1, <1>2, <1>4, FindsElement
<1>6. r = p
  <2>1. r \in Nat
    BY <1>1, <1>4, <1>5
  <2> QED
    BY <1>2, <1>4, <1>5, <2>1, FirstIsOne
<1>7. Goal(KindOf(F, n), c, p, y, Limit - n)
  BY <1>5, <1>6
<1>8. Ahead("value", c, F, n, x, p)
  BY <1>1, <1>3, <1>7, GoalIsAhead
<1> QED
  BY <1>3, <1>7, <1>8

\* A member, of which p is the first symbol: its name.
LEMMA InsideObject ==
  ASSUME NEW c \in Seq(Symbol), NEW F, NEW n \in Nat, n <= Limit, NEW x, NEW p \in Nat, p # 0,
         Closes(c, F, n, x, p), KindOf(F, n) = "object", Inside("object", c, p, x[n], Limit - n)
  PROVE  /\ c[p] = "str"
         /\ \E q \in p + 1 .. Len(c), r \in p + 1 .. Len(c) :
              /\ FirstAt(c, p + 1, q) /\ c[q] = ":"
              /\ q < r /\ FirstAt(c, q + 1, r) /\ Ahead("value", c, F, n, x, r)
<1> DEFINE y == x[n]
<1>1. /\ n # 0 /\ y \in 1 .. Len(c) /\ p <= y /\ p \in 1 .. Len(c) /\ Limit - n \in 0 .. Limit
      /\ Len(c) \in Nat /\ Shows(c, y, Closer(KindOf(F, n)))
  BY ClosesIs
<1>2. PICK i \in 1 .. p : FirstAt(c, i, p) /\ ListOn("object", c, i, y - 1, Limit - n)
  BY DEF Inside
<1>3. y = x[n]
  OBVIOUS
<1> HIDE DEF y
<1>4. i \in 1 .. Len(c) + 1 /\ i \in Nat /\ y \in Nat
  BY <1>1, <1>2
<1>5. PICK s \in i .. y - 1, q \in i .. y - 1 :
        /\ s < q /\ FirstAt(c, i, s) /\ c[s] = "str" /\ FirstAt(c, s + 1, q) /\ c[q] = ":"
        /\ \E r \in q + 1 .. y - 1 : FirstAt(c, q + 1, r) /\ Goal("object", c, r, y, Limit - n)
  BY <1>1, <1>2, <1>4, FindsMember
<1>6. s = p
  <2>1. s \in Nat
    BY <1>1, <1>4, <1>5
  <2> QED
    BY <1>2, <1>4, <1>5, <2>1, FirstIsOne
<1>7. PICK r \in q + 1 .. y - 1 : FirstAt(c, q + 1, r) /\ Goal("object", c, r, y, Limit - n)
  BY <1>5
<1>8. r \in Nat /\ q \in Nat /\ q < r /\ r <= Len(c) /\ q <= Len(c)
  BY <1>1, <1>4, <1>5, <1>7
<1>9. q \in p + 1 .. Len(c) /\ r \in p + 1 .. Len(c)
  BY <1>1, <1>5, <1>6, <1>8
<1>10. Goal(KindOf(F, n), c, r, y, Limit - n)
  BY <1>7
<1>11. Ahead("value", c, F, n, x, r)
  BY <1>1, <1>3, <1>8, <1>10, GoalIsAhead
<1>12. FirstAt(c, p + 1, q) /\ c[q] = ":" /\ c[p] = "str"
  BY <1>5, <1>6
<1> QED
  BY <1>7, <1>8, <1>9, <1>11, <1>12

\* A bracket opens: there is room for a frame, and its list is ahead.
LEMMA OpeningIsAhead ==
  ASSUME NEW c \in Seq(Symbol), NEW F, NEW n \in Nat, n <= Limit, NEW x \in [Nat -> Nat], Pending(c, F, n, x),
         NEW p \in Nat, p # 0, Ahead("value", c, F, n, x, p), NEW kind \in Kind, Shows(c, p, Opener(kind)),
         NEW G, \A m \in 1 .. n : KindOf(F, m) = KindOf(G, m), NEW z \in Nat, Before(n, z), KindOf(G, z) = kind
  PROVE  /\ n < Limit
         /\ \E r \in p + 1 .. Len(c) : FirstAt(c, p + 1, r) /\ Remains(x[0], "begin", c, G, z, r)
<1>0. Len(c) \in Nat /\ Limit \in Nat
  BY SizesAre
<1>1. PICK e \in p .. Len(c) : Core(c, p, e, Limit - n) /\ Follows(c, F, x, n, e + 1)
  BY DEF Ahead
<1>2. ~(\A k \in p .. e : c[k] = "1")
  <2>1. p \in p .. e
    BY <1>0
  <2> QED
    BY <2>1, OpenersAreNoWords DEF Shows
<1>3. /\ Limit - n > 0 /\ c[e] = Closer(kind) /\ p < e
      /\ Blank(c, p + 1, e - 1) \/ ListOn(kind, c, p + 1, e - 1, Limit - n - 1)
  <2>1. PICK k \in Kind :
          /\ Limit - n > 0 /\ c[p] = Opener(k) /\ c[e] = Closer(k) /\ p < e
          /\ Blank(c, p + 1, e - 1) \/ ListOn(k, c, p + 1, e - 1, Limit - n - 1)
    BY <1>1, <1>2, OpenersAreNoWords DEF Core, Shows
  <2>2. k = kind
    BY <2>1, OpenersDiffer DEF Shows
  <2> QED
    BY <2>1, <2>2
<1>4. n < Limit /\ z <= Limit /\ Limit - n - 1 = Limit - z /\ Limit - z \in 0 .. Limit /\ z # 0
  BY <1>0, <1>3 DEF Before
<1>5. e \in Nat /\ e \in 1 .. Len(c) /\ p + 1 \in 1 .. Len(c) + 1 /\ p + 1 \in Nat
  BY <1>0, <1>1, <1>3
<1> DEFINE w == [x EXCEPT ![z] = e]
<1>puts. Puts(w, x, z, e)
  BY DEF Puts
<1> HIDE DEF w
<1>6. w \in [Nat -> Nat] /\ w[z] = e /\ \A m \in Nat : m # z => w[m] = x[m]
  BY <1>5, <1>puts DEF Puts
<1>7. \A m \in 0 .. n : w[m] = x[m]
  <2>1. \A m \in 0 .. n : m \in Nat /\ m # z
    BY DEF Before
  <2> QED
    BY <1>6, <2>1
<1>8. ASSUME NEW m \in 0 .. n, NEW f, Follows(c, F, x, m, f) PROVE Follows(c, G, w, m, f)
  <2>1. w[m] = x[m]
    BY <1>7
  <2>2. CASE m = 0
    BY <1>8, <2>1, <2>2 DEF Follows
  <2>3. CASE m # 0
    <3>1. KindOf(F, m) = KindOf(G, m)
      BY <2>3
    <3> QED
      BY <1>8, <2>1, <2>3, <3>1 DEF Follows
  <2> QED
    BY <2>2, <2>3
<1>9. Pending(c, G, z, w)
  <2> SUFFICES ASSUME NEW m \in 1 .. z
               PROVE  KindOf(G, m) \in Kind /\ Follows(c, G, w, m - 1, w[m] + 1)
    BY DEF Pending
  <2>1. CASE m = z
    <3>1. z - 1 = n /\ n \in 0 .. n
      BY DEF Before
    <3>2. Follows(c, G, w, n, e + 1)
      BY <1>1, <1>8, <3>1
    <3>3. Follows(c, G, w, z - 1, w[z] + 1)
      BY <1>6, <3>1, <3>2
    <3> QED
      BY <2>1, <3>3
  <2>2. CASE m # z
    <3>1. m \in 1 .. n /\ m \in 0 .. n /\ m - 1 \in 0 .. n
      BY <2>2 DEF Before
    <3>2. KindOf(F, m) \in Kind /\ Follows(c, F, x, m - 1, x[m] + 1)
      BY <3>1 DEF Pending
    <3>3. Follows(c, G, w, m - 1, x[m] + 1)
      BY <1>8, <3>1, <3>2
    <3> QED
      BY <1>7, <3>1, <3>2, <3>3
  <2> QED
    BY <2>1, <2>2
<1>10. PICK r \in p + 1 .. e : FirstAt(c, p + 1, r) /\ (r = e \/ Inside(kind, c, r, e, Limit - z))
  <2> DEFINE i == p + 1
  <2>1. i \in 1 .. Len(c) + 1 /\ i \in Nat /\ i <= e
    BY <1>3, <1>5
  <2>2. Blank(c, i, e - 1) \/ ListOn(kind, c, i, e - 1, Limit - z)
    BY <1>3, <1>4
  <2> HIDE DEF i
  <2>3. CASE Blank(c, i, e - 1)
    <3>1. FirstAt(c, i, e)
      BY <1>3, <2>1, <2>3, ClosersAreNoBlanks DEF FirstAt
    <3>2. e \in i .. e
      BY <1>5, <2>1
    <3> QED
      BY <3>1, <3>2 DEF i
  <2>4. CASE ListOn(kind, c, i, e - 1, Limit - z)
    <3>1. \E r \in i .. e - 1 : FirstAt(c, i, r)
      <4>1. CASE kind = "array"
        BY <1>4, <1>5, <2>1, <2>4, <4>1, FindsElement
      <4>2. CASE kind = "object"
        BY <1>4, <1>5, <2>1, <2>4, <4>2, FindsMember
      <4> QED
        BY <4>1, <4>2 DEF Kind
    <3>2. PICK r \in i .. e - 1 : FirstAt(c, i, r)
      BY <3>1
    <3>3. r \in i .. e /\ i \in 1 .. r
      BY <1>5, <2>1, <3>2
    <3>4. Inside(kind, c, r, e, Limit - z)
      BY <2>4, <3>2, <3>3 DEF Inside
    <3> QED
      BY <3>2, <3>3, <3>4 DEF i
  <2> QED
    BY <2>2, <2>3, <2>4
<1>11. r \in p + 1 .. Len(c) /\ e \in r .. Len(c) /\ r \in Nat
  BY <1>0, <1>5, <1>10
<1>12. Closes(c, G, z, w, r)
  BY <1>3, <1>4, <1>6, <1>11 DEF Closes, Shows
<1>13. Ahead("begin", c, G, z, w, r)
  BY <1>6, <1>10, <1>12 DEF Ahead
<1>14. w[0] = x[0]
  <2>1. 0 \in 0 .. n
    OBVIOUS
  <2> QED
    BY <1>7, <2>1
<1>15. Remains(x[0], "begin", c, G, z, r)
  BY <1>6, <1>9, <1>13, <1>14 DEF Remains
<1> QED
  BY <1>4, <1>10, <1>11, <1>15

-----------------------------------------------------------------------------
\* A bracket closes; l frames are left.
LEMMA ClosingIsAhead ==
  ASSUME NEW c \in Seq(Symbol), NEW F, NEW n \in Nat, n <= Limit, n # 0, NEW x, Pending(c, F, n, x),
         NEW p \in Nat, p # 0, NEW a \in {"begin", "behind"}, Ahead(a, c, F, n, x, p),
         c[p] = Closer(KindOf(F, n)), NEW l \in Nat, Before(l, n)
  PROVE  Pending(c, F, l, x) /\ Ahead("after", c, F, l, x, p + 1)
<1>0. n \in 1 .. n
  OBVIOUS
<1>1. KindOf(F, n) \in Kind /\ Follows(c, F, x, n - 1, x[n] + 1)
  BY <1>0 DEF Pending
<1>2. Closes(c, F, n, x, p)
  BY DEF Ahead
<1>3. p = x[n]
  <2> SUFFICES ASSUME p # x[n] PROVE FALSE
    OBVIOUS
  <2>1. CASE a = "behind"
    <3>1. Shows(c, p, Comma)
      BY <2>1 DEF Ahead
    <3> QED
      BY <3>1, SeparatorsDiffer DEF Shows
  <2>2. CASE a = "begin"
    <3>1. Inside(KindOf(F, n), c, p, x[n], Limit - n)
      BY <2>2 DEF Ahead
    <3>2. CASE KindOf(F, n) = "array"
      <4>1. Goal("array", c, p, x[n], Limit - n)
        BY <1>2, <3>1, <3>2, InsideArray
      <4>2. x[n] \in 1 .. Len(c) /\ Len(c) \in Nat
        BY <1>2, ClosesIs
      <4>3. PICK e \in p .. x[n] - 1 : Core(c, p, e, Limit - n)
        BY <4>1 DEF Goal
      <4>4. e \in Nat /\ p <= e
        BY <4>2, <4>3
      <4>5. Begins(c[p])
        BY <4>3, <4>4, CoreBegins
      <4> QED
        BY <4>5, BeginnersDiffer
    <3>3. CASE KindOf(F, n) = "object"
      <4>1. c[p] = "str"
        BY <1>2, <3>1, <3>3, InsideObject
      <4>2. Begins("str")
        BY DEF Begins
      <4> QED
        BY <4>1, <4>2, BeginnersDiffer
    <3> QED
      BY <1>1, <3>2, <3>3 DEF Kind
  <2> QED
    BY <2>1, <2>2
<1>4. n - 1 = l
  BY DEF Before
<1>5. Follows(c, F, x, l, p + 1)
  BY <1>1, <1>3, <1>4
<1>6. Pending(c, F, l, x)
  <2>1. \A m \in 1 .. l : m \in 1 .. n
    BY DEF Before
  <2> QED
    BY <2>1 DEF Pending
<1> QED
  BY <1>5, <1>6 DEF Ahead

\* Behind an opening bracket, an element or a member begins.
LEMMA BracketIsAhead ==
  ASSUME NEW c \in Seq(Symbol), NEW F, NEW n \in Nat, n <= Limit, NEW x,
         NEW p \in Nat, p # 0, Ahead("begin", c, F, n, x, p), c[p] # Closer(KindOf(F, n))
  PROVE  /\ p \in 1 .. Len(c) /\ c[p] \notin Skipped
         /\ KindOf(F, n) = "array" => Ahead("value", c, F, n, x, p)
         /\ KindOf(F, n) = "object" => Ahead("name", c, F, n, x, p)
<1>1. Closes(c, F, n, x, p) /\ (p = x[n] \/ Inside(KindOf(F, n), c, p, x[n], Limit - n))
  BY DEF Ahead
<1>2. p # x[n] /\ p \in 1 .. Len(c)
  <2>1. Shows(c, x[n], Closer(KindOf(F, n))) /\ p \in 1 .. Len(c)
    BY <1>1, ClosesIs
  <2> QED
    BY <2>1 DEF Shows
<1>3. Inside(KindOf(F, n), c, p, x[n], Limit - n)
  BY <1>1, <1>2
<1>4. c[p] \notin Skipped
  BY <1>3 DEF Inside, FirstAt
<1>5. KindOf(F, n) = "array" => Ahead("value", c, F, n, x, p)
  BY <1>1, <1>3, InsideArray
<1>6. KindOf(F, n) = "object" => Ahead("name", c, F, n, x, p)
  BY <1>1, <1>3 DEF Ahead
<1> QED
  BY <1>2, <1>4, <1>5, <1>6

\* Behind an element there is a comma or the bracket; behind the comma at p, from i
\* on, an element or a member begins.
LEMMA SeparatorIsAhead ==
  ASSUME NEW c \in Seq(Symbol), NEW F, NEW n \in Nat, n <= Limit, NEW x,
         NEW p \in Nat, p # 0, Ahead("behind", c, F, n, x, p)
  PROVE  p \in 1 .. Len(c) /\ (c[p] = Comma \/ c[p] = Closer(KindOf(F, n)))
<1>1. Closes(c, F, n, x, p) /\ (p = x[n] \/ Shows(c, p, Comma))
  BY DEF Ahead
<1>2. Shows(c, x[n], Closer(KindOf(F, n))) /\ p \in 1 .. Len(c)
  BY <1>1, ClosesIs
<1> QED
  BY <1>1, <1>2 DEF Shows

LEMMA CommaIsAhead ==
  ASSUME NEW c \in Seq(Symbol), NEW F, NEW n \in Nat, n <= Limit, NEW x,
         NEW p \in Nat, p # 0, Ahead("behind", c, F, n, x, p), c[p] = Comma, KindOf(F, n) \in Kind,
         NEW i \in Nat, Before(p, i)
  PROVE  \E r \in i .. Len(c) :
           /\ FirstAt(c, i, r)
           /\ KindOf(F, n) = "array" => Ahead("value", c, F, n, x, r)
           /\ KindOf(F, n) = "object" => Ahead("name", c, F, n, x, r)
<1> DEFINE y == x[n]
<1>1. /\ Closes(c, F, n, x, p)
      /\ p = x[n] \/ (Shows(c, p, Comma) /\ ListOn(KindOf(F, n), c, p + 1, x[n] - 1, Limit - n))
  BY DEF Ahead
<1>2. /\ n # 0 /\ y \in 1 .. Len(c) /\ p \in 1 .. Len(c) /\ p <= y /\ Limit - n \in 0 .. Limit
      /\ Len(c) \in Nat /\ Shows(c, y, Closer(KindOf(F, n)))
  BY <1>1, ClosesIs
<1>3. p # x[n]
  BY <1>2, SeparatorsDiffer DEF Shows
<1>4. ListOn(KindOf(F, n), c, i, y - 1, Limit - n)
  <2>1. p + 1 = i
    BY DEF Before
  <2>2. ListOn(KindOf(F, n), c, p + 1, x[n] - 1, Limit - n)
    BY <1>1, <1>3
  <2> QED
    BY <2>1, <2>2
<1>5. y = x[n]
  OBVIOUS
<1> HIDE DEF y
<1>6. i \in 1 .. Len(c) + 1 /\ y \in Nat
  BY <1>2 DEF Before
<1>7. CASE KindOf(F, n) = "array"
  <2>1. PICK r \in i .. y - 1 : FirstAt(c, i, r) /\ Goal("array", c, r, y, Limit - n)
    BY <1>2, <1>4, <1>6, <1>7, FindsElement
  <2>2. r \in i .. Len(c) /\ r \in Nat
    BY <1>2, <1>6, <2>1
  <2>3. Goal(KindOf(F, n), c, r, y, Limit - n)
    BY <1>7, <2>1
  <2>4. Ahead("value", c, F, n, x, r)
    BY <1>2, <1>5, <2>2, <2>3, GoalIsAhead
  <2> QED
    BY <1>7, <2>1, <2>2, <2>4
<1>8. CASE KindOf(F, n) = "object"
  <2>1. PICK r \in i .. y - 1 : FirstAt(c, i, r)
    BY <1>2, <1>4, <1>6, <1>8, FindsMember
  <2>2. r \in i .. Len(c) /\ r \in Nat /\ i \in 1 .. r /\ y \in r .. Len(c)
    BY <1>2, <1>6, <2>1
  <2>3. Inside("object", c, r, y, Limit - n)
    BY <1>4, <1>8, <2>1, <2>2 DEF Inside
  <2>4. Closes(c, F, n, x, r)
    BY <1>2, <1>5, <2>2 DEF Closes
  <2>5. Ahead("name", c, F, n, x, r)
    BY <1>5, <1>8, <2>3, <2>4 DEF Ahead
  <2> QED
    BY <1>8, <2>1, <2>2, <2>5
<1> QED
  BY <1>7, <1>8 DEF Kind

LEMMA BracketIsBehind ==
  ASSUME NEW c, NEW F, NEW n, NEW x, NEW p, Closes(c, F, n, x, p), p = x[n]
  PROVE  Ahead("behind", c, F, n, x, p)
BY Zenon DEF Ahead

\* Behind a value in a list, the next symbol is a comma or the bracket.
LEMMA RestIsAhead ==
  ASSUME NEW c \in Seq(Symbol), NEW F, NEW n \in Nat, n <= Limit, n # 0, NEW x,
         NEW p \in Nat, p # 0, Ahead("after", c, F, n, x, p)
  PROVE  \E r \in p .. Len(c) : FirstAt(c, p, r) /\ Ahead("behind", c, F, n, x, r)
<1>0. Len(c) \in Nat
  BY SizesAre
<1> DEFINE y == x[n]
<1>1. /\ y \in p .. Len(c) /\ Shows(c, y, Closer(KindOf(F, n)))
      /\ Goes(KindOf(F, n), c, p, y, Limit - n)
  BY DEF Ahead, Follows
<1>2. y = x[n]
  OBVIOUS
<1> HIDE DEF y
<1>3. CASE Blank(c, p, y - 1)
  <2>1. FirstAt(c, p, y)
    BY <1>0, <1>1, <1>3, ClosersAreNoBlanks DEF FirstAt, Shows
  <2>2. Closes(c, F, n, x, y)
    BY <1>0, <1>1, <1>2 DEF Closes
  <2>3. Ahead("behind", c, F, n, x, y)
    BY <1>2, <2>2, BracketIsBehind
  <2> QED
    BY <1>1, <2>1, <2>3
<1>4. CASE \E q \in p .. y - 1 :
             Blank(c, p, q - 1) /\ Shows(c, q, Comma) /\ ListOn(KindOf(F, n), c, q + 1, y - 1, Limit - n)
  <2>1. PICK q \in p .. y - 1 :
          Blank(c, p, q - 1) /\ Shows(c, q, Comma) /\ ListOn(KindOf(F, n), c, q + 1, y - 1, Limit - n)
    BY <1>4
  <2>2. q \in p .. Len(c) /\ y \in q .. Len(c) /\ p <= q
    BY <1>0, <1>1, <2>1
  <2>3. FirstAt(c, p, q)
    BY <2>1, <2>2, SeparatorsDiffer DEF FirstAt, Shows
  <2>4. Closes(c, F, n, x, q)
    BY <1>1, <1>2, <2>2 DEF Closes
  <2>5. Ahead("behind", c, F, n, x, q)
    BY <1>2, <2>1, <2>4 DEF Ahead
  <2> QED
    BY <2>2, <2>3, <2>5
<1> QED
  BY <1>1, <1>3, <1>4 DEF Goes

\* A value is ahead, and a word or a string is all of it.
LEMMA ValueIsAhead ==
  ASSUME NEW c \in Seq(Symbol), NEW F, NEW n \in Nat, n <= Limit, NEW x,
         NEW p \in Nat, p # 0, Ahead("value", c, F, n, x, p)
  PROVE  /\ p \in 1 .. Len(c) /\ Begins(c[p])
         /\ c[p] \in {"null", "str"} => Ahead("after", c, F, n, x, p + 1)
<1>0. Len(c) \in Nat
  BY SizesAre
<1>1. PICK e \in p .. Len(c) : Core(c, p, e, Limit - n) /\ Follows(c, F, x, n, e + 1)
  BY DEF Ahead
<1>2. e \in Nat /\ p <= e /\ p \in 1 .. Len(c) /\ p \in p .. e
  BY <1>0, <1>1
<1>3. Begins(c[p])
  BY <1>1, <1>2, CoreBegins
<1>4. ASSUME c[p] \in {"null", "str"} PROVE Ahead("after", c, F, n, x, p + 1)
  <2>1. ~(\A k \in p .. e : c[k] = "1")
    BY <1>2, <1>4
  <2>2. ~(\E kind \in Kind : c[p] = Opener(kind))
    BY <1>4, OpenersAreNoWords
  <2>3. p = e
    BY <1>1, <2>1, <2>2 DEF Core
  <2> QED
    BY <1>1, <2>3 DEF Ahead
<1> QED
  BY <1>2, <1>3, <1>4

\* A number is ahead, and its digits are all of it: at most NumberCap, and another
\* one follows them only behind a text that was cut.
LEMMA NumberIsAhead ==
  ASSUME NEW c \in Seq(Symbol), NEW F, NEW n \in Nat, n <= Limit, NEW x, NEW k \in Nat, x[0] = k + 1, Ended(c, k),
         NEW p \in Nat, p # 0, Ahead("value", c, F, n, x, p), c[p] = "1",
         n = 0 => (p = 1 \/ c[p - 1] # "1")
  PROVE  \E e \in p .. Len(c) : /\ \A m \in p .. e : c[m] = "1"
                                /\ e - p < NumberCap
                                /\ (e < Len(c) /\ c[e + 1] = "1") => e - p + 1 = NumberCap
                                /\ Ahead("after", c, F, n, x, e + 1)
<1>0. Len(c) \in Nat
  BY SizesAre
<1>1. PICK e \in p .. Len(c) : Core(c, p, e, Limit - n) /\ Follows(c, F, x, n, e + 1)
  BY DEF Ahead
<1>2. (\A m \in p .. e : c[m] = "1") /\ e - p < NumberCap
  BY <1>1, OpenersAreNoWords DEF Core
<1>3. e \in Nat /\ e \in p .. e /\ e + 1 \in Nat /\ p <= e /\ NumberCap \in Nat
  BY <1>0, <1>1, ParseAssumption
<1>4. ASSUME e < Len(c), c[e + 1] = "1" PROVE e - p + 1 = NumberCap
  <2>1. CASE n = 0
    <3>1. e = k
      <4>1. e + 1 = k + 1
        BY <1>1, <2>1 DEF Follows
      <4> QED
        BY <1>3, <4>1
    <3>2. c[e] = "1"
      BY <1>2, <1>3
    <3>3. Full(c, e)
      BY <1>4, <3>1, <3>2 DEF Ended
    <3> SUFFICES ASSUME e - p + 1 < NumberCap PROVE FALSE
      BY <1>2, <1>3
    <3>4. e >= NumberCap /\ \A m \in e - NumberCap + 1 .. e : c[m] = "1"
      BY <3>3 DEF Full
    <3>5. p # 1 /\ p - 1 \in e - NumberCap + 1 .. e
      BY <1>3, <3>4
    <3> QED
      BY <2>1, <3>4, <3>5
  <2>2. CASE n # 0
    <3> DEFINE y == x[n]  f == e + 1
    <3>1. y \in f .. Len(c) /\ Shows(c, y, Closer(KindOf(F, n))) /\ Goes(KindOf(F, n), c, f, y, Limit - n)
      BY <1>1, <2>2 DEF Follows
    <3>2. f \in Nat
      BY <1>3
    <3> HIDE DEF y, f
    <3>3. y \in Nat /\ f <= y
      BY <1>0, <3>1, <3>2
    <3>4. c[f] # "1"
      <4>1. CASE f = y
        BY <3>1, <4>1, ClosersAreNoBlanks DEF Shows
      <4>2. CASE f # y /\ Blank(c, f, y - 1)
        <5>1. f \in f .. y - 1
          BY <3>2, <3>3, <4>2
        <5> QED
          BY <4>2, <5>1, DigitsAreNoBlanks DEF Blank
      <4>3. CASE \E q \in f .. y - 1 : Blank(c, f, q - 1) /\ Shows(c, q, Comma)
        <5>1. PICK q \in f .. y - 1 : Blank(c, f, q - 1) /\ Shows(c, q, Comma)
          BY <4>3
        <5>2. CASE q = f
          BY <5>1, <5>2, SeparatorsDiffer DEF Shows
        <5>3. CASE q # f
          <6>1. f \in f .. q - 1
            BY <3>2, <3>3, <5>1, <5>3
          <6> QED
            BY <5>1, <6>1, DigitsAreNoBlanks DEF Blank
        <5> QED
          BY <5>2, <5>3
      <4> QED
        BY <3>1, <4>1, <4>2, <4>3 DEF Goes
    <3> QED
      BY <1>4, <3>4 DEF f
  <2> QED
    BY <2>1, <2>2
<1>5. Ahead("after", c, F, n, x, e + 1)
  BY <1>1 DEF Ahead
<1> QED
  BY <1>2, <1>4, <1>5

-----------------------------------------------------------------------------
(***************************************************************************)
(* What the parser finds of what is left.                                  *)
(***************************************************************************)

\* The parser skips to the first symbol that is no blank, if there is one.
LEMMA SkipFinds ==
  ASSUME Length \in Nat, NEW o \in Nat, NEW i \in Nat, Before(o, i),
         NEW r \in i .. Length, FirstAt(content, i, r)
  PROVE  Skip(o) \in Nat /\ Skip(o) + 1 = r /\ Access(Skip(o))
<1>1. o < Length /\ o <= Length /\ r \in Nat /\ i <= r
  BY DEF Before
<1> DEFINE s == Skip(o)
<1>2. /\ s \in Nat /\ o <= s /\ Access(s) /\ Blank(content, o + 1, s)
      /\ Sym(s) \in Skipped => Blank(content, o + 1, Length)
  BY <1>1, SkipReads DEF Access
<1> HIDE DEF s
<1>3. Sym(s) \notin Skipped
  <2> SUFFICES ASSUME Blank(content, o + 1, Length) PROVE FALSE
    BY <1>2
  <2>1. r \in o + 1 .. Length
    BY DEF Before
  <2> QED
    BY <2>1 DEF Blank, FirstAt
<1> DEFINE e == s + 1
<1>4. e \in Nat /\ i <= e /\ e - 1 = s
  BY <1>2 DEF Before
<1>5. Blank(content, i, s)
  BY <1>2 DEF Before
<1>6. content[e] \notin Skipped
  BY <1>3, SymIs
<1> HIDE DEF e
<1>7. FirstAt(content, i, e)
  BY <1>4, <1>5, <1>6 DEF FirstAt
<1>8. e = r
  BY <1>1, <1>4, <1>7, FirstIsOne
<1> QED
  BY <1>2, <1>8 DEF e, s

\* Where blanks alone are left, it stops at the last.
LEMMA SkipEnds ==
  ASSUME Length \in Nat, NEW o \in Nat, o < Length, Blank(content, o + 1, Length)
  PROVE  Access(Skip(o)) /\ Skip(o) + 1 = Length
<1> DEFINE s == Skip(o)
<1>1. /\ s \in Nat /\ o <= s /\ Access(s)
      /\ Sym(s) \in Skipped => s + 1 = Length
  BY SkipReads DEF Access
<1> HIDE DEF s
<1>2. s < Length
  BY <1>1 DEF Access
<1>3. s + 1 \in o + 1 .. Length
  BY <1>1, <1>2
<1>4. Sym(s) \in Skipped
  BY <1>3, SymIs DEF Blank
<1> QED
  BY <1>1, <1>4 DEF s

\* All the digits that follow one another are the number, if it holds them.
LEMMA NumberFinds ==
  ASSUME Length \in Nat, NEW o \in Nat, NEW p \in Nat, Before(o, p),
         NEW e \in p .. Length, \A m \in p .. e : content[m] = "1", e - p < NumberCap,
         (e < Length /\ content[e + 1] = "1") => e - p + 1 = NumberCap
  PROVE  EndOfNumber(o) = e
<1>1. o < Length /\ e \in Nat /\ p <= e /\ p \in p .. e
  BY DEF Before
<1>2. Sym(o) = "1"
  BY <1>1, SymIs DEF Before
<1> DEFINE f == EndOfNumber(o)
<1>3. /\ f \in o + 1 .. Length /\ f - o <= NumberCap /\ \A m \in o + 1 .. f : content[m] = "1"
      /\ (f < Length /\ content[f + 1] = "1") => f - o = NumberCap
  BY <1>1, <1>2, NumberReads
<1> HIDE DEF f
<1>4. f \in Nat /\ p <= f /\ f <= Length /\ p = o + 1 /\ \A m \in p .. f : content[m] = "1"
  BY <1>3 DEF Before
<1>5. CASE f < e
  <2>1. f + 1 \in p .. e
    BY <1>1, <1>4, <1>5
  <2>2. f < Length
    BY <1>1, <1>4, <1>5
  <2>3. f - o = NumberCap
    BY <1>3, <2>1, <2>2
  <2> QED
    BY <1>1, <1>4, <1>5, <2>3, ParseAssumption
<1>6. CASE e < f
  <2>1. e + 1 \in p .. f
    BY <1>1, <1>4, <1>6
  <2>2. e < Length
    BY <1>1, <1>4, <1>6
  <2>3. e - p + 1 = NumberCap
    BY <1>4, <2>1, <2>2
  <2> QED
    BY <1>1, <1>3, <1>4, <1>6, <2>3, ParseAssumption
<1> QED
  BY <1>1, <1>4, <1>5, <1>6 DEF f

-----------------------------------------------------------------------------
\* The text up to the symbol before t is a value, and from p on the rest of it is left.
Left(t, a, c, F, p) == Remains(t, a, c, F, Len(F), p)

LEMMA AlikeIsLeft ==
  ASSUME NEW t, NEW a, NEW c, NEW F, Len(F) \in Nat, NEW p, Left(t, a, c, F, p), NEW G, Alike(F, G)
  PROVE  Left(t, a, c, G, p)
<1>1. PICK x \in [Nat -> Nat] : x[0] = t /\ Pending(c, F, Len(F), x) /\ Ahead(a, c, F, Len(F), x, p)
  BY DEF Left, Remains
<1>2. Len(G) = Len(F) /\ \A m \in 1 .. Len(F) : KindOf(F, m) = KindOf(G, m)
  BY DEF Alike
<1>3. Pending(c, G, Len(F), x) /\ Ahead(a, c, G, Len(F), x, p)
  BY <1>1, <1>2, SameKindsAhead
<1> QED
  BY <1>1, <1>2, <1>3 DEF Left, Remains

\* What a text begins with.
LEMMA TextIsLeft ==
  ASSUME NEW k \in 1 .. Length, Length \in Nat, content \in Seq(Symbol), IsText(k), skip_utf8_bom \in Nat,
         skip_utf8_bom <= Length
  PROVE  Skip(skip_utf8_bom) \in Nat /\ Left(k + 1, "value", content, <<>>, Skip(skip_utf8_bom) + 1)
<1> DEFINE i == First  c == content
<1>1. ValueOn(c, i, k, Limit) /\ Ended(c, k)
  BY DEF IsText, ValueOn, Ended, First, Length
<1>2. i \in 1 .. Len(c) + 1 /\ Before(skip_utf8_bom, i) /\ i \in Nat /\ Length = Len(c) /\ Limit \in 0 .. Limit
  BY ParseAssumption DEF First, Before, Length
<1> HIDE DEF i
<1>3. PICK p \in i .. k : FirstAt(c, i, p) /\ \E e \in p .. k : Core(c, p, e, Limit) /\ Blank(c, e + 1, k)
  <2>1. k \in 0 .. Len(c)
    BY <1>2
  <2> QED
    BY <1>1, <1>2, <2>1, FindsValue
<1>4. PICK e \in p .. k : Core(c, p, e, Limit) /\ Blank(c, e + 1, k)
  BY <1>3
<1>5. e = k
  <2> SUFFICES ASSUME e # k PROVE FALSE
    OBVIOUS
  <2>1. k \in e + 1 .. k
    BY <1>2, <1>3, <1>4
  <2> QED
    BY <1>1, <1>4, <2>1 DEF Blank, Ended
<1>6. p \in i .. Length /\ p \in Nat
  BY <1>2, <1>3
<1>7. Skip(skip_utf8_bom) \in Nat /\ Skip(skip_utf8_bom) + 1 = p
  BY <1>2, <1>3, <1>6, SkipFinds
<1> DEFINE x == [m \in Nat |-> k + 1]
<1>8. x \in [Nat -> Nat] /\ x[0] = k + 1
  BY <1>2
<1> HIDE DEF x
<1>9. Len(<<>>) = 0 /\ Limit - 0 = Limit
  BY EmptySeq, ParseAssumption
<1>10. Pending(c, <<>>, 0, x)
  BY DEF Pending
<1>11. Follows(c, <<>>, x, 0, k + 1)
  BY <1>8 DEF Follows
<1>12. k \in p .. Len(c)
  BY <1>2, <1>3, <1>4, <1>5
<1>13. Ahead("value", c, <<>>, 0, x, p)
  BY <1>4, <1>5, <1>9, <1>11, <1>12 DEF Ahead
<1>14. Left(k + 1, "value", c, <<>>, p)
  BY <1>8, <1>9, <1>10, <1>13 DEF Left, Remains
<1> QED
  BY <1>7, <1>14

\* A value begins; a word or a string, or a number, is read.
LEMMA ValueIsLeft ==
  ASSUME NEW t, NEW c \in Seq(Symbol), NEW F, Len(F) \in Nat, Len(F) <= Limit, NEW p \in Nat, p # 0,
         Left(t, "value", c, F, p)
  PROVE  /\ p \in 1 .. Len(c) /\ Begins(c[p])
         /\ c[p] \in {"null", "str"} => Left(t, "after", c, F, p + 1)
<1>1. PICK x \in [Nat -> Nat] : x[0] = t /\ Pending(c, F, Len(F), x) /\ Ahead("value", c, F, Len(F), x, p)
  BY DEF Left, Remains
<1>2. /\ p \in 1 .. Len(c) /\ Begins(c[p])
      /\ c[p] \in {"null", "str"} => Ahead("after", c, F, Len(F), x, p + 1)
  BY <1>1, ValueIsAhead
<1> QED
  BY <1>1, <1>2 DEF Left, Remains

LEMMA NumberIsLeft ==
  ASSUME Length \in Nat, content \in Seq(Symbol), NEW k \in Nat, Ended(content, k),
         NEW F, Len(F) \in Nat, Len(F) <= Limit, NEW p \in Nat, p # 0,
         Left(k + 1, "value", content, F, p), content[p] = "1", NEW o \in Nat, Before(o, p),
         Len(F) = 0 => (p = 1 \/ content[p - 1] # "1")
  PROVE  Left(k + 1, "after", content, F, EndOfNumber(o) + 1)
<1>1. PICK x \in [Nat -> Nat] : /\ x[0] = k + 1 /\ Pending(content, F, Len(F), x)
                                /\ Ahead("value", content, F, Len(F), x, p)
  BY DEF Left, Remains
<1>2. PICK e \in p .. Len(content) :
        /\ \A m \in p .. e : content[m] = "1"
        /\ e - p < NumberCap
        /\ (e < Len(content) /\ content[e + 1] = "1") => e - p + 1 = NumberCap
        /\ Ahead("after", content, F, Len(F), x, e + 1)
  BY <1>1, NumberIsAhead
<1>3. EndOfNumber(o) = e
  BY <1>2, NumberFinds DEF Length
<1> QED
  BY <1>1, <1>2, <1>3 DEF Left, Remains

\* A bracket opens.
Opens(F, kind, G) == G = Append(F, NewFrame(kind))

LEMMA OpeningIsLeft ==
  ASSUME NEW t, NEW c \in Seq(Symbol), NEW F, Framed(F), Len(F) <= Limit, NEW p \in Nat, p # 0,
         Left(t, "value", c, F, p), NEW kind \in Kind, c[p] = Opener(kind),
         NEW G, Opens(F, kind, G)
  PROVE  /\ Len(F) < Limit
         /\ \E r \in p + 1 .. Len(c) : FirstAt(c, p + 1, r) /\ Left(t, "begin", c, G, r)
<1> DEFINE n == Len(F)  z == n + 1
<1>1. NewFrame(kind) \in Frame({<<>>}) /\ NewFrame(kind).kind = kind
  BY DEF NewFrame, Frame, Kind
<1>2. n \in Nat /\ Len(G) = z /\ (\A i \in 1 .. n : G[i] = F[i]) /\ G[z] = NewFrame(kind)
  <2>1. LET g == Append(F, NewFrame(kind)) IN
        /\ Framed(g) /\ Len(F) \in Nat /\ Len(g) = Len(F) + 1 /\ g # <<>>
        /\ \A i \in 1 .. Len(F) : g[i] = F[i]
        /\ g[Len(F) + 1] = NewFrame(kind)
    BY <1>1, FramePushed
  <2> QED
    BY <2>1 DEF Opens
<1>3. z \in Nat /\ Before(n, z) /\ n <= Limit /\ Len(F) = n
  BY <1>2 DEF Before
<1>4. KindOf(G, z) = kind /\ \A m \in 1 .. n : KindOf(F, m) = KindOf(G, m)
  BY <1>1, <1>2 DEF KindOf
<1>5. PICK x \in [Nat -> Nat] : x[0] = t /\ Pending(c, F, n, x) /\ Ahead("value", c, F, n, x, p)
  BY DEF Left, Remains
<1>bracket. Shows(c, p, Opener(kind))
  BY DEF Shows
<1> HIDE DEF n, z
<1>6. n < Limit /\ \E r \in p + 1 .. Len(c) : FirstAt(c, p + 1, r) /\ Remains(x[0], "begin", c, G, z, r)
  BY <1>2, <1>3, <1>4, <1>5, <1>bracket, OpeningIsAhead
<1> QED
  BY <1>2, <1>3, <1>5, <1>6 DEF Left

\* A bracket closes.
LEMMA ClosingIsLeft ==
  ASSUME NEW t, NEW a \in {"begin", "behind"}, NEW c \in Seq(Symbol), NEW F, Framed(F), F # <<>>,
         Len(F) <= Limit, NEW p \in Nat, p # 0, Left(t, a, c, F, p), c[p] = Closer(KindOf(F, Len(F))),
         NEW G, Alike(SubSeq(F, 1, Len(F) - 1), G)
  PROVE  Left(t, "after", c, G, p + 1)
<1> DEFINE n == Len(F)  l == n - 1  H == SubSeq(F, 1, n - 1)
<1>1. PICK x \in [Nat -> Nat] : x[0] = t /\ Pending(c, F, n, x) /\ Ahead(a, c, F, n, x, p)
  BY DEF Left, Remains
<1>2. n \in Nat \ {0} /\ Len(H) = n - 1 /\ \A i \in 1 .. n - 1 : H[i] = F[i]
  BY FramePopped
<1>3. n \in Nat /\ n # 0 /\ l \in Nat /\ Before(l, n) /\ n <= Limit
  BY <1>2 DEF Before
<1>4. Len(H) = l /\ \A i \in 1 .. l : KindOf(F, i) = KindOf(H, i)
  BY <1>2 DEF KindOf
<1>5. Alike(H, G) /\ c[p] = Closer(KindOf(F, n))
  OBVIOUS
<1> HIDE DEF n, l, H
<1>6. Pending(c, F, l, x) /\ Ahead("after", c, F, l, x, p + 1)
  BY <1>1, <1>3, <1>5, ClosingIsAhead
<1>7. Pending(c, H, l, x) /\ Ahead("after", c, H, l, x, p + 1)
  BY <1>3, <1>4, <1>6, SameKindsAhead
<1>8. Left(t, "after", c, H, p + 1)
  BY <1>1, <1>4, <1>7 DEF Left, Remains
<1> QED
  BY <1>3, <1>4, <1>5, <1>8, AlikeIsLeft

\* An element or a member begins, behind the bracket or behind a comma.
Starts(a, kind) == IF kind = "array" THEN a = "value" ELSE a = "name"

LEMMA BracketIsLeft ==
  ASSUME NEW t, NEW c \in Seq(Symbol), NEW F, Len(F) \in Nat, Len(F) <= Limit, NEW p \in Nat, p # 0,
         Left(t, "begin", c, F, p), c[p] # Closer(KindOf(F, Len(F))), NEW a,
         NEW kind \in Kind, kind = KindOf(F, Len(F)), Starts(a, kind)
  PROVE  p \in 1 .. Len(c) /\ c[p] \notin Skipped /\ Left(t, a, c, F, p)
<1> DEFINE n == Len(F)
<1>1. PICK x \in [Nat -> Nat] : x[0] = t /\ Pending(c, F, n, x) /\ Ahead("begin", c, F, n, x, p)
  BY DEF Left, Remains
<1>2. /\ p \in 1 .. Len(c) /\ c[p] \notin Skipped
      /\ KindOf(F, n) = "array" => Ahead("value", c, F, n, x, p)
      /\ KindOf(F, n) = "object" => Ahead("name", c, F, n, x, p)
  BY <1>1, BracketIsAhead
<1>3. Ahead(a, c, F, n, x, p)
  BY <1>2 DEF Starts, Kind
<1> QED
  BY <1>1, <1>2, <1>3 DEF Left, Remains

LEMMA CommaIsLeft ==
  ASSUME NEW t, NEW c \in Seq(Symbol), NEW F, Len(F) \in Nat, Len(F) <= Limit, NEW p \in Nat, p # 0,
         Left(t, "behind", c, F, p), c[p] = Comma, NEW a,
         NEW kind \in Kind, kind = KindOf(F, Len(F)), Starts(a, kind), NEW i \in Nat, Before(p, i)
  PROVE  \E r \in i .. Len(c) : FirstAt(c, i, r) /\ Left(t, a, c, F, r)
<1> DEFINE n == Len(F)
<1>1. PICK x \in [Nat -> Nat] : x[0] = t /\ Pending(c, F, n, x) /\ Ahead("behind", c, F, n, x, p)
  BY DEF Left, Remains
<1>2. PICK r \in i .. Len(c) :
        /\ FirstAt(c, i, r)
        /\ KindOf(F, n) = "array" => Ahead("value", c, F, n, x, r)
        /\ KindOf(F, n) = "object" => Ahead("name", c, F, n, x, r)
  BY <1>1, CommaIsAhead
<1>3. Ahead(a, c, F, n, x, r)
  BY <1>2 DEF Starts, Kind
<1> QED
  BY <1>1, <1>2, <1>3 DEF Left, Remains

\* A name, and its colon at q.
LEMMA NameIsLeft ==
  ASSUME NEW t, NEW c \in Seq(Symbol), NEW F, Len(F) \in Nat, Len(F) <= Limit, NEW p \in Nat, p # 0,
         Left(t, "name", c, F, p)
  PROVE  /\ c[p] = "str"
         /\ \E q \in p + 1 .. Len(c), r \in p + 1 .. Len(c) :
              /\ FirstAt(c, p + 1, q) /\ c[q] = ":"
              /\ q < r /\ FirstAt(c, q + 1, r) /\ Left(t, "value", c, F, r)
<1> DEFINE n == Len(F)
<1>1. PICK x \in [Nat -> Nat] : x[0] = t /\ Pending(c, F, n, x) /\ Ahead("name", c, F, n, x, p)
  BY DEF Left, Remains
<1>2. /\ Closes(c, F, n, x, p) /\ KindOf(F, n) = "object"
      /\ Inside("object", c, p, x[n], Limit - n)
  BY <1>1 DEF Ahead
<1>3. /\ c[p] = "str"
      /\ \E q \in p + 1 .. Len(c), r \in p + 1 .. Len(c) :
           /\ FirstAt(c, p + 1, q) /\ c[q] = ":"
           /\ q < r /\ FirstAt(c, q + 1, r) /\ Ahead("value", c, F, n, x, r)
  BY <1>2, InsideObject
<1>4. \A r : Ahead("value", c, F, n, x, r) => Left(t, "value", c, F, r)
  BY <1>1 DEF Left, Remains
<1> QED
  BY <1>3, <1>4

\* Behind a value in a list.
LEMMA RestIsLeft ==
  ASSUME NEW t, NEW c \in Seq(Symbol), NEW F, Len(F) \in Nat, Len(F) <= Limit, Len(F) # 0, NEW p \in Nat, p # 0,
         Left(t, "after", c, F, p)
  PROVE  \E r \in p .. Len(c) : FirstAt(c, p, r) /\ Left(t, "behind", c, F, r)
<1> DEFINE n == Len(F)
<1>1. PICK x \in [Nat -> Nat] : x[0] = t /\ Pending(c, F, n, x) /\ Ahead("after", c, F, n, x, p)
  BY DEF Left, Remains
<1>2. PICK r \in p .. Len(c) : FirstAt(c, p, r) /\ Ahead("behind", c, F, n, x, r)
  BY <1>1, RestIsAhead
<1> QED
  BY <1>1, <1>2 DEF Left, Remains

\* In a list a bracket, or something else, is left.
LEMMA BeginIsLeft ==
  ASSUME NEW t, NEW c \in Seq(Symbol), NEW F, Len(F) \in Nat, Len(F) <= Limit, NEW p \in Nat, p # 0,
         Left(t, "begin", c, F, p)
  PROVE  p \in 1 .. Len(c)
<1> DEFINE n == Len(F)
<1>1. PICK x \in [Nat -> Nat] : x[0] = t /\ Pending(c, F, n, x) /\ Ahead("begin", c, F, n, x, p)
  BY DEF Left, Remains
<1>2. Closes(c, F, n, x, p)
  BY <1>1 DEF Ahead
<1> QED
  BY <1>2, ClosesIs

LEMMA BehindIsLeft ==
  ASSUME NEW t, NEW c \in Seq(Symbol), NEW F, Len(F) \in Nat, Len(F) <= Limit, NEW p \in Nat, p # 0,
         Left(t, "behind", c, F, p)
  PROVE  p \in 1 .. Len(c) /\ (c[p] = Comma \/ c[p] = Closer(KindOf(F, Len(F))))
<1> DEFINE n == Len(F)
<1>1. PICK x \in [Nat -> Nat] : x[0] = t /\ Pending(c, F, n, x) /\ Ahead("behind", c, F, n, x, p)
  BY DEF Left, Remains
<1> QED
  BY <1>1, SeparatorIsAhead

\* Behind the outermost value, nothing of the text is.
LEMMA NothingIsLeft ==
  ASSUME NEW t, NEW c, NEW p, Left(t, "after", c, <<>>, p)
  PROVE  p = t
<1>1. Len(<<>>) = 0
  BY EmptySeq
<1>2. PICK x \in [Nat -> Nat] : x[0] = t /\ Ahead("after", c, <<>>, 0, x, p)
  BY <1>1 DEF Left, Remains
<1> QED
  BY <1>2 DEF Ahead, Follows

-----------------------------------------------------------------------------
(***************************************************************************)
(* What is JSON is accepted.                                               *)
(***************************************************************************)

\* The text that ends at k is not refused, and the rest of it is left.
Remaining(k) ==
  /\ at \notin {"failing", "failed"}
  /\ at \in Texts => Left(k + 1, at, content, frames, offset + 1)

\* No text is refused but for want of memory.
Accepting == \A k \in 1 .. Length : IsInput(k) /\ ~starved => Remaining(k)

LEMMA InputIsKept ==
  ASSUME [ParseNext]_parseVars
  PROVE  content' = content /\ terminated' = terminated
<1>1. CASE ParseStart
  BY <1>1 DEF ParseStart
<1>2. CASE ParseWord \/ ParseNumber \/ ParseString \/ NoValue
  BY <1>2 DEF ParseWord, ParseNumber, ParseString, NoValue
<1>3. CASE ParseArray \/ ParseObject
  BY <1>3, Zenon DEF ParseArray, ParseObject, ParseOpen
<1>4. CASE ParseClose \/ ParseElement \/ ParseMember \/ ParseName
  BY <1>4 DEF ParseClose, ParseElement, ParseMember, ParseName
<1>5. CASE Behind \/ Broken \/ ParseComplete \/ Unwind \/ DeleteRoot
  BY <1>5 DEF Behind, Broken, ParseComplete, Unwind, DeleteRoot
<1>6. CASE UNCHANGED parseVars
  BY <1>6 DEF parseVars
<1> QED
  BY <1>1, <1>2, <1>3, <1>4, <1>5, <1>6 DEF ParseNext

LEMMA StarvedIsKept ==
  ASSUME [ParseNext]_parseVars, ~starved', Length > 0
  PROVE  ~starved
<1>1. CASE ParseStart
  BY <1>1 DEF ParseStart
<1>2. CASE ParseWord \/ ParseNumber \/ ParseString \/ NoValue
  BY <1>2 DEF ParseWord, ParseNumber, ParseString, NoValue, NoMemory
<1>3. CASE ParseArray \/ ParseObject
  BY <1>3, Zenon DEF ParseArray, ParseObject, ParseOpen
<1>4. CASE ParseClose \/ ParseElement \/ ParseMember \/ ParseName
  BY <1>4 DEF ParseClose, ParseElement, ParseMember, ParseName, NoMemory
<1>5. CASE Behind \/ Broken \/ ParseComplete \/ Unwind \/ DeleteRoot
  BY <1>5 DEF Behind, Broken, ParseComplete, Unwind, DeleteRoot
<1>6. CASE UNCHANGED parseVars
  BY <1>6 DEF parseVars
<1> QED
  BY <1>1, <1>2, <1>3, <1>4, <1>5, <1>6 DEF ParseNext

LEMMA RemainingAgain ==
  ASSUME NEW k, content' = content, at' \notin {"failing", "failed"}, NEW r, Before(offset', r),
         Left(k + 1, at', content, frames', r)
  PROVE  Remaining(k)'
<1>1. Left(k + 1, at', content', frames', offset' + 1)
  BY DEF Before
<1>2. (k + 1)' = k + 1
  OBVIOUS
<1> QED
  BY <1>1 DEF Remaining

LEMMA NoValueBegins ==
  ASSUME NoValue
  PROVE  Access(offset) => ~Begins(Sym(offset))
BY Zenon DEF NoValue, Begins, Opener, Kind

LEMMA ClosingIsCloser ==
  ASSUME frames # <<>>
  PROVE  Closing = Closer(KindOf(frames, Len(frames)))
BY Zenon DEF Closing, Closer, KindOf, Top

LEMMA FirstHere ==
  ASSUME NEW c, NEW p \in Nat, c[p] \notin Skipped
  PROVE  FirstAt(c, p, p)
BY DEF FirstAt, Blank

\* No digit stands before the value of the root.
LEMMA RootIsApart ==
  ASSUME Understood, at = "value", Len(frames) = 0, offset \in Nat, Length \in Nat, offset <= Length
  PROVE  offset + 1 = 1 \/ content[offset] # "1"
<1>1. PICK v \in [Nat -> Nat], b \in [Nat -> Nat] :
        v[0] = First /\ Located("value", content, frames, 0, v, b, offset)
  BY DEF Understood, Known, Texts
<1>2. First <= offset + 1 /\ Blank(content, First, offset)
  BY <1>1 DEF Located
<1>3. CASE First <= offset
  <2>1. offset \in First .. offset
    BY <1>3 DEF First, skip_utf8_bom
  <2> QED
    BY <1>2, <2>1, DigitsAreNoBlanks DEF Blank
<1>4. CASE ~(First <= offset)
  <2>0. First = 1 \/ (First = 2 /\ Is(0, "BOM"))
    BY DEF First, skip_utf8_bom
  <2>4. First \in Nat /\ First <= offset + 1
    BY <1>2, <2>0
  <2>1. First = offset + 1
    BY <1>4, <2>4
  <2>2. CASE First = 2 /\ Is(0, "BOM")
    <3>1. content[1] = "BOM" /\ offset = 1
      BY <2>1, <2>2 DEF Is, Sym
    <3>2. content[offset] = "BOM"
      BY <3>1
    <3>3. content[offset] # "1"
      BY <3>2
    <3> QED
      BY <3>3
  <2> QED
    BY <2>0, <2>1, <2>2
<1> QED
  BY <1>3, <1>4

LEMMA RemainingStep ==
  ASSUME ParseInv, ParseHeld, Understood, NEW k \in 1 .. Length, IsInput(k), ~starved', Remaining(k), [ParseNext]_parseVars
  PROVE  Remaining(k)'
<1> DEFINE c == content  n == Len(frames)  p == offset + 1
<1>0. /\ Length \in Nat /\ Length = Len(c) /\ offset \in Nat /\ offset <= Length /\ c \in Seq(Symbol)
      /\ Framed(frames) /\ n \in Nat /\ n <= Limit /\ Limit \in Nat
      /\ at \in {"begin", "behind", "name"} => frames # <<>> /\ n # 0
  <2>1. /\ Length \in Nat /\ Length = Len(c) /\ offset \in Nat /\ offset <= Length /\ c \in Seq(Symbol)
        /\ Framed(frames) /\ n <= Limit /\ Limit \in Nat
    BY LengthIsNat, ParseAssumption DEF ParseInv, ParseHeld, OffsetInside, FramesBounded, Length
  <2>2. at \in {"begin", "behind", "name"} => frames # <<>>
    BY DEF ParseInv
  <2>3. n \in Nat
    BY <2>1, LenProperties DEF Framed
  <2>4. frames # <<>> => n # 0
    BY <2>1, FramePopped
  <2> QED
    BY <2>1, <2>2, <2>3, <2>4
<1>1. at \in Texts => Left(k + 1, at, c, frames, p)
  BY DEF Remaining
<1>2. /\ p \in Nat /\ p # 0 /\ Before(offset, p) /\ Sym(offset) = c[p] /\ p + 1 \in Nat /\ Before(p, p + 1)
      /\ Access(offset) <=> p \in 1 .. Len(c)
  BY <1>0 DEF Before, Sym, Access
<1>3. c' = c /\ terminated' = terminated /\ ~starved /\ at \notin {"failing", "failed"}
  BY <1>0, InputIsKept, StarvedIsKept DEF Remaining
<1>4. IsText(k) /\ Ended(c, k) /\ k \in Nat
  BY <1>0 DEF IsInput, IsText, Ended
<1>memory. ~NoMemory
  BY DEF NoMemory
<1> HIDE DEF p
<1>5. CASE ParseStart
  <2>1. CASE at' = "failed"
    <3>1. Length > 0
      BY <1>0
    <3>2. starved' = (Length > 0)
      BY <1>5, <2>1 DEF ParseStart
    <3> QED
      BY <3>1, <3>2, Zenon
  <2>2. CASE at' # "failed"
    <3>1. offset' = Skip(skip_utf8_bom) /\ at' = "value" /\ frames' = <<>>
      BY <1>5, <2>2 DEF ParseStart, ParseHeld
    <3>2. skip_utf8_bom \in Nat /\ skip_utf8_bom <= Length
      BY <1>0 DEF skip_utf8_bom
    <3>3. Left(k + 1, "value", c, <<>>, Skip(skip_utf8_bom) + 1)
      BY <1>0, <1>4, <3>2, TextIsLeft
    <3>4. Before(offset', Skip(skip_utf8_bom) + 1)
      BY <3>1 DEF Before
    <3> QED
      BY <1>3, <3>1, <3>3, <3>4, RemainingAgain
  <2> QED
    BY <2>1, <2>2
<1>6. ASSUME at = "value"
      PROVE  /\ p \in 1 .. Len(c) /\ Begins(c[p]) /\ Left(k + 1, "value", c, frames, p)
             /\ c[p] \in {"null", "str"} => Left(k + 1, "after", c, frames, p + 1)
  <2>1. Left(k + 1, "value", c, frames, p)
    BY <1>1, <1>6 DEF Texts
  <2> QED
    BY <1>0, <1>2, <2>1, ValueIsLeft
<1>7. ASSUME at = "value", Is(offset, "null") \/ Is(offset, "str"), at' = "after", offset' = offset + 1,
             NEW v, NEW s \in Nat, Value(v, 0, s, frames)
      PROVE  Remaining(k)'
  <2>1. Alike(frames, frames')
    BY <1>0, <1>7, ValueKeepsKinds
  <2>2. Left(k + 1, "after", c, frames, p + 1)
    BY <1>2, <1>6, <1>7 DEF Is
  <2>3. Left(k + 1, "after", c, frames', p + 1)
    BY <1>0, <2>1, <2>2, AlikeIsLeft
  <2>4. Before(offset', p + 1)
    BY <1>7 DEF p, Before
  <2> QED
    BY <1>3, <1>7, <2>3, <2>4, RemainingAgain
<1>8. CASE ParseWord
  BY <1>7, <1>8 DEF ParseWord
<1>9. CASE ParseNumber
  <2>1. /\ at = "value" /\ at' = "after" /\ offset' = EndOfNumber(offset) /\ Sym(offset) = "1"
        /\ Value(Node("1", <<>>), 0, 0, frames)
    BY <1>9 DEF ParseNumber, Is
  <2>2. Alike(frames, frames')
    BY <1>0, <2>1, ValueKeepsKinds
  <2>6. n = 0 => (p = 1 \/ c[p - 1] # "1")
    BY <1>0, <2>1, RootIsApart DEF p
  <2>3. Left(k + 1, "after", c, frames, EndOfNumber(offset) + 1)
    BY <1>0, <1>2, <1>4, <1>6, <2>1, <2>6, NumberIsLeft
  <2>4. Left(k + 1, "after", c, frames', EndOfNumber(offset) + 1)
    BY <1>0, <2>2, <2>3, AlikeIsLeft
  <2>5. Before(offset', EndOfNumber(offset) + 1)
    BY <2>1 DEF Before
  <2> QED
    BY <1>3, <2>1, <2>4, <2>5, RemainingAgain
<1>10. CASE ParseString
  <2>1. /\ at = "value" /\ at' = "after" /\ offset' = offset + 1
        /\ Value(Node("str", <<>>), 0, 1, frames) /\ Is(offset, "str")
    BY <1>10, <1>memory DEF ParseString
  <2> QED
    BY <1>7, <2>1
<1>11. CASE NoValue
  <2>1. at = "value"
    BY <1>11 DEF NoValue
  <2> QED
    BY <1>2, <1>6, <1>11, <2>1, NoValueBegins
<1>12. ASSUME NEW kind \in Kind, ParseOpen(Opener(kind), kind) PROVE Remaining(k)'
  <2>1. at = "value" /\ c[p] = Opener(kind)
    BY <1>2, <1>12 DEF ParseOpen, Is
  <2> DEFINE G == Append(frames, NewFrame(kind))
  <2>2. Opens(frames, kind, G)
    BY DEF Opens
  <2> HIDE DEF G
  <2>3. n < Limit /\ \E r \in p + 1 .. Len(c) : FirstAt(c, p + 1, r) /\ Left(k + 1, "begin", c, G, r)
    BY <1>0, <1>2, <1>6, <2>1, <2>2, OpeningIsLeft
  <2>4. PICK r \in p + 1 .. Len(c) : FirstAt(c, p + 1, r) /\ Left(k + 1, "begin", c, G, r)
    BY <2>3
  <2>5. ~Deep
    BY <1>0, <2>3 DEF Deep
  <2>6. frames' = G /\ offset' = Skip(p) /\ at' = "begin"
    BY <1>12, <2>5 DEF ParseOpen, G, p
  <2>7. Skip(p) \in Nat /\ Skip(p) + 1 = r
    BY <1>0, <1>2, <2>4, SkipFinds
  <2>8. Before(offset', r)
    BY <2>6, <2>7 DEF Before
  <2> QED
    BY <1>3, <2>4, <2>6, <2>8, RemainingAgain
<1>13. CASE ParseArray
  <2>1. ParseOpen(Opener("array"), "array")
    BY <1>13, Zenon DEF ParseArray, Opener
  <2> QED
    BY <1>12, <2>1 DEF Kind
<1>14. CASE ParseObject
  <2>1. ParseOpen(Opener("object"), "object")
    BY <1>14, Zenon DEF ParseObject, Opener
  <2> QED
    BY <1>12, <2>1 DEF Kind
<1>15. CASE ParseClose
  <2>1. /\ at \in {"begin", "behind"} /\ at' = "after" /\ offset' = offset + 1
        /\ Is(offset, Closing) /\ Value(Node(Top.kind, Top.kids), Top.items, Top.strings, Outer)
    BY <1>15 DEF ParseClose
  <2>2. frames # <<>>
    BY <1>0, <2>1
  <2>3. Top.items \in Nat /\ Top.strings \in Nat
    BY <1>0, <2>2, TopIsFrame
  <2>4. Framed(Outer)
    BY <1>0, <2>2, FramePopped DEF Outer
  <2>5. Alike(SubSeq(frames, 1, n - 1), frames')
    BY <2>1, <2>3, <2>4, ValueKeepsKinds DEF Outer
  <2>6. c[p] = Closer(KindOf(frames, n))
    BY <1>2, <2>1, <2>2, ClosingIsCloser DEF Is
  <2>7. Left(k + 1, at, c, frames, p)
    BY <1>1, <2>1 DEF Texts
  <2>8. Left(k + 1, "after", c, frames', p + 1)
    BY <1>0, <1>2, <2>1, <2>2, <2>5, <2>6, <2>7, ClosingIsLeft
  <2>9. Before(offset', p + 1)
    BY <2>1 DEF p, Before
  <2> QED
    BY <1>3, <2>1, <2>8, <2>9, RemainingAgain
<1>16. ASSUME NEW kind \in Kind, NextRound(kind), NEW a, Starts(a, kind)
       PROVE  /\ frames # <<>> /\ n # 0 /\ Access(From)
              /\ Skip(From) \in Nat /\ Left(k + 1, a, c, frames, Skip(From) + 1)
  <2>0. frames # <<>> /\ n # 0 /\ KindOf(frames, n) = kind
    BY <1>0, <1>16, FramePopped DEF NextRound, KindOf, Top
  <2>1. CASE at = "begin"
    <3>1. From = offset /\ Left(k + 1, "begin", c, frames, p)
      BY <1>1, <2>1 DEF From, Texts
    <3>2. p \in 1 .. Len(c)
      BY <1>0, <1>2, <3>1, BeginIsLeft
    <3>3. ~Is(offset, Closing)
      BY <1>16, <2>1, Zenon DEF NextRound
    <3>4. c[p] # Closer(KindOf(frames, n))
      BY <1>2, <2>0, <3>2, <3>3, ClosingIsCloser DEF Is
    <3>5. c[p] \notin Skipped /\ Left(k + 1, a, c, frames, p)
      BY <1>0, <1>2, <1>16, <2>0, <3>1, <3>4, BracketIsLeft
    <3>6. FirstAt(c, p, p)
      BY <1>2, <3>5, FirstHere
    <3>7. p \in p .. Length
      BY <1>0, <3>2
    <3>8. Skip(offset) \in Nat /\ Skip(offset) + 1 = p
      BY <1>0, <1>2, <3>6, <3>7, SkipFinds
    <3> QED
      BY <1>2, <2>0, <3>1, <3>2, <3>5, <3>8
  <2>2. CASE at # "begin"
    <3>1. at = "behind" /\ Sym(offset) = Comma
      BY <1>16, <2>2, Zenon DEF NextRound, Is, Comma
    <3>2. From = p /\ Left(k + 1, "behind", c, frames, p) /\ c[p] = Comma
      BY <1>1, <1>2, <3>1 DEF From, Texts, p
    <3>3. PICK r \in p + 1 .. Len(c) : FirstAt(c, p + 1, r) /\ Left(k + 1, a, c, frames, r)
      BY <1>0, <1>2, <1>16, <2>0, <3>2, CommaIsLeft
    <3>4. Skip(p) \in Nat /\ Skip(p) + 1 = r
      BY <1>0, <1>2, <3>3, SkipFinds
    <3>5. Access(p)
      BY <1>0, <1>2, <3>3 DEF Access
    <3> QED
      BY <2>0, <3>2, <3>3, <3>4, <3>5
  <2> QED
    BY <2>1, <2>2
<1>17. ASSUME NEW kind \in Kind, NextRound(kind), frames' = Linked, offset' = Skip(From), Starts(at', kind),
              at' \notin {"failing", "failed"}
       PROVE  Remaining(k)'
  <2> DEFINE r == Skip(From) + 1
  <2>1. frames # <<>> /\ n # 0 /\ Left(k + 1, at', c, frames, r)
    BY <1>16, <1>17
  <2>2. Alike(frames, frames')
    <3>1. frames' = [frames EXCEPT ![Len(frames)] = More(frames[Len(frames)], 1, 0)]
      BY <1>0, <1>17, <2>1, TopIsFrame
    <3> QED
      BY <1>0, <2>1, <3>1, MoreKeepsKinds
  <2>3. Before(offset', r)
    BY <1>17 DEF Before
  <2> HIDE DEF r
  <2>4. Left(k + 1, at', c, frames', r)
    BY <1>0, <2>1, <2>2, AlikeIsLeft
  <2> QED
    BY <1>3, <1>17, <2>3, <2>4, RemainingAgain
<1>18. CASE ParseElement
  <2>1. NextRound("array") /\ frames' = Linked /\ offset' = Skip(From) /\ at' = "value"
    BY <1>18, <1>memory DEF ParseElement
  <2> QED
    BY <1>17, <2>1 DEF Kind, Starts
<1>19. CASE ParseMember
  <2>1. NextRound("object") /\ Starts("name", "object") /\ "object" \in Kind
    BY <1>19 DEF ParseMember, Starts, Kind
  <2>2. Access(From)
    BY <1>16, <2>1
  <2>3. frames' = Linked /\ offset' = Skip(From) /\ at' = "name"
    BY <1>19, <1>memory, <2>2 DEF ParseMember
  <2> QED
    BY <1>17, <2>1, <2>3
<1>20. CASE ParseName
  <2>1. at = "name" /\ frames # <<>> /\ n # 0
    BY <1>0, <1>20 DEF ParseName
  <2>2. Left(k + 1, "name", c, frames, p)
    BY <1>1, <2>1 DEF Texts
  <2>3. /\ c[p] = "str"
        /\ \E q \in p + 1 .. Len(c), r \in p + 1 .. Len(c) :
             /\ FirstAt(c, p + 1, q) /\ c[q] = ":"
             /\ q < r /\ FirstAt(c, q + 1, r) /\ Left(k + 1, "value", c, frames, r)
    BY <1>0, <1>2, <2>2, NameIsLeft
  <2>4. PICK q \in p + 1 .. Len(c), r \in p + 1 .. Len(c) :
          /\ FirstAt(c, p + 1, q) /\ c[q] = ":"
          /\ q < r /\ FirstAt(c, q + 1, r) /\ Left(k + 1, "value", c, frames, r)
    BY <2>3
  <2> DEFINE s == Skip(p)
  <2>5. s \in Nat /\ s + 1 = q /\ Access(s)
    BY <1>0, <1>2, <2>4, SkipFinds
  <2>6. Is(s, ":")
    BY <2>4, <2>5, SymIs DEF Is
  <2>7. q \in Nat /\ q + 1 \in Nat /\ Before(q, q + 1) /\ r \in q + 1 .. Length
    BY <1>0, <1>2, <2>4 DEF Before
  <2>8. Skip(q) \in Nat /\ Skip(q) + 1 = r
    BY <1>0, <2>4, <2>7, SkipFinds
  <2>9. Is(offset, "str")
    BY <1>0, <1>2, <2>3, <2>4 DEF Is, Access, p
  <2>10. /\ frames' = [frames EXCEPT ![Len(frames)].strings = @ + 1]
         /\ offset' = Skip(Skip(offset + 1) + 1) /\ at' = "value"
    <3>1. Is(Skip(offset + 1), ":")
      BY <2>6 DEF p
    <3> QED
      BY <1>20, <1>memory, <2>9, <3>1 DEF ParseName
  <2>11. offset' = Skip(q)
    BY <2>5, <2>10 DEF p
  <2>12. Before(offset', r)
    BY <2>8, <2>11 DEF Before
  <2>13. Alike(frames, frames')
    <3>1. frames' = [frames EXCEPT ![Len(frames)] = More(frames[Len(frames)], 0, 1)]
      BY <1>0, <2>1, <2>10, TopIsFrame
    <3> QED
      BY <1>0, <2>1, <3>1, MoreKeepsKinds
  <2>14. Left(k + 1, "value", c, frames', r)
    BY <1>0, <2>4, <2>13, AlikeIsLeft
  <2> QED
    BY <1>3, <2>10, <2>12, <2>14, RemainingAgain
<1>21. CASE Behind
  <2>1. at = "after" /\ frames # <<>> /\ at' = "behind" /\ offset' = Skip(offset) /\ frames' = frames
    BY <1>21 DEF Behind
  <2>2. n # 0 /\ Left(k + 1, "after", c, frames, p)
    BY <1>0, <1>1, <2>1, FramePopped DEF Texts
  <2>3. PICK r \in p .. Len(c) : FirstAt(c, p, r) /\ Left(k + 1, "behind", c, frames, r)
    BY <1>0, <1>2, <2>2, RestIsLeft
  <2>4. Skip(offset) \in Nat /\ Skip(offset) + 1 = r
    BY <1>0, <1>2, <2>3, SkipFinds
  <2>5. Before(offset', r)
    BY <2>1, <2>4 DEF Before
  <2> QED
    BY <1>3, <2>1, <2>3, <2>5, RemainingAgain
<1>22. CASE Broken
  <2>1. CASE at = "begin" /\ ~Access(offset)
    <3>1. Left(k + 1, "begin", c, frames, p)
      BY <1>1, <2>1 DEF Texts
    <3> QED
      BY <1>0, <1>2, <2>1, <3>1, BeginIsLeft
  <2>2. CASE ~(at = "begin" /\ ~Access(offset))
    <3>1. at = "behind" /\ ~Is(offset, Comma) /\ ~Is(offset, Closing)
      BY <1>22, <2>2, Zenon DEF Broken, Comma
    <3>2. Left(k + 1, "behind", c, frames, p) /\ frames # <<>>
      BY <1>0, <1>1, <3>1 DEF Texts
    <3>3. p \in 1 .. Len(c) /\ (c[p] = Comma \/ c[p] = Closer(KindOf(frames, n)))
      BY <1>0, <1>2, <3>2, BehindIsLeft
    <3> QED
      BY <1>2, <3>1, <3>2, <3>3, ClosingIsCloser DEF Is
  <2> QED
    BY <2>1, <2>2
<1>23. CASE ParseComplete
  <2>1. at = "after" /\ frames = <<>>
    BY <1>23 DEF ParseComplete
  <2>2. offset = k
    <3>1. Left(k + 1, "after", c, <<>>, p)
      BY <1>1, <2>1 DEF Texts
    <3>2. p = k + 1
      BY <3>1, NothingIsLeft
    <3> QED
      BY <1>0, <1>4, <3>2 DEF p
  <2>3. terminated => Is(Skip(offset), "NUL")
    <3> SUFFICES ASSUME terminated PROVE Is(Skip(offset), "NUL")
      OBVIOUS
    <3>1. Blank(content, k + 1, Length) /\ k < Length /\ content[Length] = "NUL"
      BY DEF IsInput
    <3>2. Access(Skip(k)) /\ Skip(k) + 1 = Length
      BY <1>0, <1>4, <3>1, SkipEnds
    <3> QED
      BY <2>2, <3>1, <3>2, SymIs DEF Is
  <2>4. at' = "parsed"
    BY <1>23, <2>3 DEF ParseComplete
  <2> QED
    BY <2>4 DEF Remaining, Texts
<1>24. CASE Unwind \/ DeleteRoot
  BY <1>3, <1>24 DEF Unwind, DeleteRoot
<1>25. CASE UNCHANGED parseVars
  BY <1>25 DEF parseVars, Remaining
<1> QED
  BY <1>5, <1>8, <1>9, <1>10, <1>11, <1>13, <1>14, <1>15, <1>18, <1>19, <1>20, <1>21, <1>22, <1>23, <1>24, <1>25
  DEF ParseNext

\* The grammar and the input do not change.
LEMMA InputIsTheSame ==
  ASSUME content' = content, terminated' = terminated
  PROVE  Length' = Length /\ \A k : IsInput(k)' = IsInput(k)
BY DEF IsInput, IsText, skip_utf8_bom, Is, Access, Sym, Length

\* What cJSON_ParseWithLengthOpts accepts is JSON whose numbers have at most NumberCap
\* characters, up to the place that is returned, and what it refuses while there is
\* memory is not; a longer number that stands alone is cut there.
THEOREM JsonIsAccepted == ParseSpec => []AcceptsJson
<1>1. (\E input \in Input, require \in BOOLEAN : ParseInit(input, require)) => Accepting
  BY DEF ParseInit, Accepting, Remaining, Texts
<1>2. ParseInv /\ ParseHeld /\ Understood /\ Accepting /\ [ParseNext]_parseVars => Accepting'
  <2> SUFFICES ASSUME ParseInv, ParseHeld, Understood, Accepting, [ParseNext]_parseVars,
                      NEW k \in (1 .. Length)', IsInput(k)', ~starved'
               PROVE  Remaining(k)'
    BY DEF Accepting
  <2>1. k \in 1 .. Length /\ IsInput(k)
    BY InputIsKept, InputIsTheSame
  <2>2. Length > 0
    BY <2>1, LengthIsNat DEF ParseInv, OffsetInside
  <2>3. Remaining(k)
    BY <2>1, <2>2, StarvedIsKept DEF Accepting
  <2> QED
    BY <2>1, <2>3, RemainingStep
<1>3. Understood /\ Accepting => AcceptsJson
  BY DEF Understood, Accepting, Remaining, AcceptsJson
<1> QED BY <1>1, <1>2, <1>3, OnlyJsonIsAccepted, ParseInvariant, ParseHoldsAll, PTL DEF ParseSpec
=============================================================================
