------------------------------ MODULE CJsonParse ------------------------------
(***************************************************************************)
(* Parsing of cJSON: cJSON_ParseWithLengthOpts and the calls that end in   *)
(* it, parse_value, parse_array and parse_object, with the items and       *)
(* strings they allocate.                                                  *)
(*                                                                         *)
(* Input is a sequence of symbols: brackets, "," and ":", a character that *)
(* is skipped (" ", and NUL, which is one too), "null" for the three       *)
(* words, a digit "1" for what a number is made of, a string literal that  *)
(* parse_string takes ("str") or refuses ("bad"), the byte order mark      *)
(* ("BOM"), anything else ("x").                                           *)
(***************************************************************************)
EXTENDS Integers, Sequences

CONSTANTS
  Input,      \* the inputs
  Limit,      \* CJSON_NESTING_LIMIT
  NumberCap,  \* characters of a number that number_c_string holds (63 in the code)
  None

Symbol == {"[", "]", "{", "}", ",", ":", " ", "NUL", "null", "1", "str", "bad", "BOM", "x"}

ASSUME ParseAssumption ==
  /\ Input \subseteq Seq(Symbol) /\ None \notin Symbol
  /\ Limit \in Nat /\ NumberCap \in Nat \ {0}

VARIABLES
  content,     \* the input; its length is that of the buffer
  terminated,  \* require_null_terminated
  at,          \* where the parser is
  offset,      \* how much was read
  frames,      \* calls of parse_array and parse_object, with their lists so far
  items,       \* items that are allocated
  strings,     \* strings that are allocated
  root,        \* the root item: its value, and what hangs on it
  starved,     \* memory was refused
  stray        \* a byte behind the end of the input was read

parseVars == <<content, terminated, at, offset, frames, items, strings, root, starved, stray>>

Bare == [value |-> None, items |-> 0, strings |-> 0]

ParseInit(input, require) ==
  /\ content = input /\ terminated = require
  /\ at = "start" /\ offset = 0 /\ frames = <<>> /\ items = 0 /\ strings = 0
  /\ root = Bare /\ starved = FALSE /\ stray = FALSE

-----------------------------------------------------------------------------
(***************************************************************************)
(* Reading.                                                                *)
(***************************************************************************)

Length == Len(content)

\* can_access_at_index, and the symbol there.
Access(o) == o < Length
Sym(o)    == content[o + 1]
Is(o, symbol) == Access(o) /\ Sym(o) = symbol

Skipped == {" ", "NUL"}

\* Mutant: at the end, the offset does not step back.
SkipToEnd(o) ==
  IF ~Access(o) THEN o
  ELSE CHOOSE n \in o .. Length : /\ \A j \in o .. n - 1 : Sym(j) \in Skipped
                                  /\ n < Length => Sym(n) \notin Skipped

\* buffer_skip_whitespace: from the end, it steps back on the last symbol.
Skip(o) ==
  IF ~Access(o) THEN o
  ELSE LET k == CHOOSE n \in o .. Length :
                  /\ \A j \in o .. n - 1 : Sym(j) \in Skipped
                  /\ n < Length => Sym(n) \notin Skipped
       IN IF k = Length THEN k - 1 ELSE k

\* skip_utf8_bom wants five bytes: the mark has three.
Long == {"null", "str", "bad"}
skip_utf8_bom ==
  IF Is(0, "BOM") /\ (Length > 2 \/ (Length = 2 /\ Sym(1) \in Long)) THEN 1 ELSE 0

\* The end of the digits that begin at o ...
EndOfDigits(o) ==
  CHOOSE k \in o + 1 .. Length :
    /\ \A j \in o .. k - 1 : Sym(j) = "1"
    /\ k < Length => Sym(k) # "1"

\* ... of which parse_number copies as many as number_c_string holds.
EndOfNumber(o) ==
  IF EndOfDigits(o) > o + NumberCap THEN o + NumberCap ELSE EndOfDigits(o)

-----------------------------------------------------------------------------
(***************************************************************************)
(* The frames.  A frame is the list of an array or object: the values in   *)
(* it, and how many items and strings cJSON_Delete finds from its head.    *)
(***************************************************************************)

Top   == frames[Len(frames)]
Outer == SubSeq(frames, 1, Len(frames) - 1)

Node(kind, kids) == [kind |-> kind, kids |-> kids]
NewFrame(kind) == [kind |-> kind, kids |-> <<>>, items |-> 0, strings |-> 0]

\* The value of the last item of a frame.
WithValue(frame, v, n, s) ==
  [kind |-> frame.kind, kids |-> Append(frame.kids, v),
   items |-> frame.items + n, strings |-> frame.strings + s]

\* The current item of the frames f, or the root, gets its value, n items below
\* it and s strings.
Value(v, n, s, f) ==
  IF f = <<>>
  THEN root' = [value |-> v, items |-> n, strings |-> s] /\ frames' = f
  ELSE frames' = [f EXCEPT ![Len(f)] = WithValue(@, v, n, s)] /\ UNCHANGED root

\* Mutant: the new item is not in the list while its value is parsed.
Unlinked == frames

\* Mutant: the new item is in two lists.
LinkedTwice == [frames EXCEPT ![Len(frames)].items = @ + 2]

\* A new item is linked into the list before its value is parsed.
Linked == [frames EXCEPT ![Len(frames)].items = @ + 1]

Fail == at' = "failing" /\ UNCHANGED <<frames, items, strings, root>>
NoMemory == Fail /\ starved' = TRUE /\ UNCHANGED offset

-----------------------------------------------------------------------------
(***************************************************************************)
(* Actions.                                                                *)
(***************************************************************************)

\* Without input, or memory for the root item, there is nothing to free.
ParseStart ==
  /\ at = "start"
  /\ \/ at' = "failed" /\ starved' = (Length > 0) /\ UNCHANGED <<offset, items>>
     \/ /\ Length > 0
        /\ items' = 1 /\ offset' = Skip(skip_utf8_bom) /\ at' = "value"
        /\ UNCHANGED starved
  /\ UNCHANGED <<content, terminated, frames, strings, root, stray>>

ParseWord ==
  /\ at = "value" /\ Is(offset, "null")
  /\ offset' = offset + 1 /\ at' = "after"
  /\ Value(Node("null", <<>>), 0, 0, frames)
  /\ UNCHANGED <<content, terminated, items, strings, starved, stray>>

ParseNumber ==
  /\ at = "value" /\ Is(offset, "1")
  /\ offset' = EndOfNumber(offset) /\ at' = "after"
  /\ Value(Node("1", <<>>), 0, 0, frames)
  /\ UNCHANGED <<content, terminated, items, strings, starved, stray>>

\* parse_string allocates the text.
ParseString ==
  /\ at = "value" /\ Is(offset, "str")
  /\ \/ /\ offset' = offset + 1 /\ strings' = strings + 1 /\ at' = "after"
        /\ Value(Node("str", <<>>), 0, 1, frames)
        /\ UNCHANGED <<items, starved>>
     \/ NoMemory
  /\ UNCHANGED <<content, terminated, stray>>

\* parse_string refuses, or no value begins like this.
NoValue ==
  /\ at = "value"
  /\ Access(offset) => Sym(offset) \notin {"null", "str", "1", "[", "{"}
  /\ Fail
  /\ UNCHANGED <<content, terminated, offset, starved, stray>>

Deep == Len(frames) >= Limit

\* The head of parse_array and parse_object.
ParseOpen(symbol, kind) ==
  /\ at = "value" /\ Is(offset, symbol)
  /\ IF Deep THEN Fail /\ UNCHANGED offset
     ELSE /\ frames' = Append(frames, NewFrame(kind))
          /\ offset' = Skip(offset + 1) /\ at' = "begin"
          /\ UNCHANGED <<items, strings, root>>
  /\ UNCHANGED <<content, terminated, starved, stray>>

ParseArray  == ParseOpen("[", "array")
ParseObject == ParseOpen("{", "object")

Closing == IF Top.kind = "array" THEN "]" ELSE "}"

\* The closing bracket, behind the opening one or behind an element.
ParseClose ==
  /\ at \in {"begin", "behind"} /\ Is(offset, Closing)
  /\ offset' = offset + 1 /\ at' = "after"
  /\ Value(Node(Top.kind, Top.kids), Top.items, Top.strings, Outer)
  /\ UNCHANGED <<content, terminated, items, strings, starved, stray>>

\* The next round of the loop: behind the opening bracket if something is there
\* that does not close, or behind a comma; From is where the element begins.
NextRound(kind) ==
  /\ frames # <<>> /\ Top.kind = kind
  /\ \/ at = "begin" /\ Access(offset) /\ ~Is(offset, Closing)
     \/ at = "behind" /\ Is(offset, ",")
From == IF at = "begin" THEN offset ELSE offset + 1

ParseElement ==
  /\ NextRound("array")
  /\ \/ /\ items' = items + 1 /\ frames' = Linked
        /\ offset' = Skip(From) /\ at' = "value"
        /\ UNCHANGED <<strings, root, starved>>
     \/ NoMemory
  /\ UNCHANGED <<content, terminated, stray>>

\* Mutant: the name is read without a look whether anything is left.
MemberUnchecked ==
  /\ NextRound("object")
  /\ \/ /\ items' = items + 1 /\ frames' = Linked
        /\ offset' = Skip(From) /\ at' = "name"
        /\ UNCHANGED <<strings, root, starved>>
     \/ NoMemory
  /\ UNCHANGED <<content, terminated, stray>>

\* An object's member, up to its name: something must follow.
ParseMember ==
  /\ NextRound("object")
  /\ \/ /\ items' = items + 1 /\ frames' = Linked
        /\ IF Access(From) THEN offset' = Skip(From) /\ at' = "name"
                           ELSE at' = "failing" /\ UNCHANGED offset
        /\ UNCHANGED <<strings, root, starved>>
     \/ NoMemory
  /\ UNCHANGED <<content, terminated, stray>>

\* parse_string reads the first symbol of the name without asking whether it is
\* there; then the item takes the name over, and a colon must follow.
ParseName ==
  /\ at = "name"
  /\ stray' = (stray \/ ~Access(offset))
  /\ \/ /\ Is(offset, "str")
        /\ strings' = strings + 1
        /\ frames' = [frames EXCEPT ![Len(frames)].strings = @ + 1]
        /\ LET o == Skip(offset + 1) IN
           IF Is(o, ":") THEN offset' = Skip(o + 1) /\ at' = "value"
                         ELSE offset' = o /\ at' = "failing"
        /\ UNCHANGED <<items, root, starved>>
     \/ ~Is(offset, "str") /\ Fail /\ UNCHANGED <<offset, starved>>
     \/ Is(offset, "str") /\ NoMemory
  /\ UNCHANGED <<content, terminated>>

\* Behind a value that is in a list.
Behind ==
  /\ at = "after" /\ frames # <<>>
  /\ offset' = Skip(offset) /\ at' = "behind"
  /\ UNCHANGED <<content, terminated, frames, items, strings, root, starved, stray>>

\* The input ends behind the opening bracket, or what follows an element is
\* neither a comma nor the closing bracket.
Broken ==
  /\ \/ at = "begin" /\ ~Access(offset)
     \/ at = "behind" /\ ~Is(offset, ",") /\ ~Is(offset, Closing)
  /\ Fail
  /\ UNCHANGED <<content, terminated, offset, starved, stray>>

\* The root has its value; with require_null_terminated nothing but white space
\* and the terminator may follow.
ParseComplete ==
  /\ at = "after" /\ frames = <<>>
  /\ IF terminated
     THEN /\ offset' = Skip(offset)
          /\ at' = IF Is(Skip(offset), "NUL") THEN "parsed" ELSE "failing"
     ELSE at' = "parsed" /\ UNCHANGED offset
  /\ UNCHANGED <<content, terminated, frames, items, strings, root, starved, stray>>

\* After a failure every frame deletes its list, and then the call its root.
Unwind ==
  /\ at = "failing" /\ frames # <<>>
  /\ items' = items - Top.items /\ strings' = strings - Top.strings
  /\ frames' = Outer
  /\ UNCHANGED <<content, terminated, at, offset, root, starved, stray>>

DeleteRoot ==
  /\ at = "failing" /\ frames = <<>>
  /\ items' = items - root.items - 1 /\ strings' = strings - root.strings
  /\ root' = Bare /\ at' = "failed"
  /\ UNCHANGED <<content, terminated, offset, frames, starved, stray>>

ParseNext ==
  \/ ParseStart \/ ParseWord \/ ParseNumber \/ ParseString \/ NoValue
  \/ ParseArray \/ ParseObject \/ ParseClose \/ ParseElement \/ ParseMember \/ ParseName \/ Behind
  \/ Broken \/ ParseComplete \/ Unwind \/ DeleteRoot

ParseSpec ==
  /\ \E input \in Input, require \in BOOLEAN : ParseInit(input, require)
  /\ [][ParseNext]_parseVars

-----------------------------------------------------------------------------
(***************************************************************************)
(* Properties.                                                             *)
(***************************************************************************)

At == {"start", "value", "begin", "name", "after", "behind", "parsed", "failing", "failed"}

\* Every variable has its type.
ParseTypeOK ==
  /\ content \in Seq(Symbol) /\ terminated \in BOOLEAN /\ at \in At
  /\ offset \in Nat /\ items \in Nat /\ strings \in Nat
  /\ starved \in BOOLEAN /\ stray \in BOOLEAN
  /\ \A i \in DOMAIN frames : /\ frames[i].kind \in {"array", "object"}
                              /\ frames[i].items \in Nat /\ frames[i].strings \in Nat

\* No byte behind the end of the input is read, the offset stays in the input,
\* and the recursion is no deeper than CJSON_NESTING_LIMIT.
ReadsInside == ~stray /\ offset <= Length /\ Len(frames) <= Limit

\* Whatever failed, an allocation or the text, every item and every string is
\* given back; on success they hang on the root.
FailureFreesAll ==
  /\ at = "failed" => (items = 0 /\ strings = 0 /\ root = Bare)
  /\ at = "parsed" => (items = root.items + 1 /\ strings = root.strings)

\* JSON, as a grammar says it, on the symbols i to j of c: a value that opens no
\* more than d levels, the elements of an array, the members of an object.  Its
\* numbers have at most NumberCap characters: that much of JSON cJSON reads.
Blank(c, i, j) == \A k \in i .. j : c[k] \in Skipped

\* What each of them is made of, by the spans in G.
IsValue(c, G, i, j, d) ==
  /\ i <= j
  /\ \/ c[i] \in Skipped /\ G[<<"value", i + 1, j, d>>]
     \/ c[j] \in Skipped /\ G[<<"value", i, j - 1, d>>]
     \/ i = j /\ c[i] \in {"null", "str"}
     \/ j - i < NumberCap /\ \A k \in i .. j : c[k] = "1"
     \/ /\ d > 0 /\ c[i] = "[" /\ c[j] = "]" /\ i < j
        /\ Blank(c, i + 1, j - 1) \/ G[<<"elements", i + 1, j - 1, d - 1>>]
     \/ /\ d > 0 /\ c[i] = "{" /\ c[j] = "}" /\ i < j
        /\ Blank(c, i + 1, j - 1) \/ G[<<"members", i + 1, j - 1, d - 1>>]

AreElements(c, G, i, j, d) ==
  /\ i <= j
  /\ \/ G[<<"value", i, j, d>>]
     \/ \E k \in i .. j : /\ c[k] = ","
                          /\ G[<<"value", i, k - 1, d>>] /\ G[<<"elements", k + 1, j, d>>]

AreMembers(c, G, i, j, d) ==
  \E k \in i .. j, n \in i .. j :
    /\ c[n] = "str" /\ c[k] = ":" /\ n < k
    /\ Blank(c, i, n - 1) /\ Blank(c, n + 1, k - 1)
    /\ \/ G[<<"value", k + 1, j, d>>]
       \/ \E m \in k .. j : /\ c[m] = ","
                            /\ G[<<"value", k + 1, m - 1, d>>]
                            /\ G[<<"members", m + 1, j, d>>]

Derives(c, G, s) ==
  IF s[1] = "value" THEN IsValue(c, G, s[2], s[3], s[4])
  ELSE IF s[1] = "elements" THEN AreElements(c, G, s[2], s[3], s[4])
  ELSE AreMembers(c, G, s[2], s[3], s[4])

Span(c) == {"value", "elements", "members"} \X (1 .. Len(c) + 1) \X (0 .. Len(c)) \X (0 .. Limit)

Grammar(c) == LET G[s \in Span(c)] == Derives(c, G, s) IN G

\* The digits of c that end at k fill number_c_string.
Full(c, k) == k >= NumberCap /\ \A j \in k - NumberCap + 1 .. k : c[j] = "1"

\* The first k symbols are a value, with a byte order mark and blanks before it, and
\* k is not in the middle of a number, unless the number was cut there.
IsText(k) ==
  /\ content[k] \notin Skipped
  /\ (content[k] = "1" /\ k < Length /\ content[k + 1] = "1") => Full(content, k)
  /\ Grammar(content)[<<"value", 1 + skip_utf8_bom, k, Limit>>]

\* What is accepted is JSON whose numbers have at most NumberCap characters, up to
\* the place that is returned, and what is refused while there is memory is not:
\* JSON with a longer number in an array or object is refused (cJSON.c:323 copies no
\* more of it), and of a longer number alone that many characters are read and
\* the place returned is in its middle.  With require_null_terminated the rest must
\* be blank and end with a NUL, so that such a number is refused as well.
IsInput(k) ==
  IsText(k) /\ (terminated => (Blank(content, k + 1, Length) /\ k < Length /\ content[Length] = "NUL"))
AcceptsJson ==
  /\ at = "parsed" => IF terminated THEN \E k \in 1 .. Length : IsInput(k) ELSE IsText(offset)
  /\ (at = "failed" /\ ~starved) => \A k \in 1 .. Length : ~IsInput(k)
=============================================================================
