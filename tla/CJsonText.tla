------------------------------ MODULE CJsonText ------------------------------
(***************************************************************************)
(* Printing and parsing together: what cJSON_Print or PrintUnformatted     *)
(* gave goes into cJSON_Parse, whole or with one token lost.  Their "str"  *)
(* stands for a string; the bytes of one are in `literal`.                 *)
(***************************************************************************)
EXTENDS CJsonPrint, CJsonParse, CJsonStrings

CONSTANT Body  \* bounds: the bytes between the quotes of a literal

ASSUME BodyAssumption == \A b \in Body : \A i \in DOMAIN b : b[i] \in 1 .. 127

VARIABLES
  source,   \* of the input: given, printed, printed and damaged; or a literal
  literal   \* the bytes of one string

vars == <<printVars, parseVars, source, literal>>

Init ==
  /\ PrintInit
  /\ \/ /\ source = "none" /\ literal = <<>>
        /\ ParseInit(<<>>, FALSE)
     \/ /\ source = "given" /\ literal = <<>> /\ call = "print" /\ ~p.format
        /\ \E input \in Input, require \in BOOLEAN : ParseInit(input, require)
     \/ /\ source = "literal" /\ call = "print" /\ ~p.format
        /\ literal \in Body
        /\ ParseInit(<<>>, FALSE)

\* The text, with its terminator, for cJSON_Parse or for
\* cJSON_ParseWithOpts(.., .., 1).
Hand(input, what) ==
  /\ source = "none" /\ pc = "done" /\ call = "print"
  /\ source' = what
  /\ content' = Append(input, "NUL") /\ terminated' \in BOOLEAN
  /\ UNCHANGED <<printVars, at, offset, frames, items, strings, root, starved, stray, literal>>

ParsePrinted == Hand(text, "printed")
ParseDamaged == \E i \in DOMAIN text : Hand(RemoveAt(text, i), "damaged")

Next ==
  \/ source = "none" /\ PrintNext /\ UNCHANGED <<parseVars, source, literal>>
  \/ ParsePrinted \/ ParseDamaged
  \/ /\ source \in {"given", "printed", "damaged"} /\ ParseNext
     /\ UNCHANGED <<printVars, source, literal>>

Spec == Init /\ [][Next]_vars

-----------------------------------------------------------------------------

\* Every variable of the two has its type.
TextOK == PrintTypeOK /\ ParseTypeOK

\* A tree as its tokens, without white space.
RECURSIVE Tokens(_)
Tokens(v) ==
  IF v.kind \in {"array", "object"}
  THEN LET item(i) == IF v.kind = "object" THEN <<"str", ":">> \o Tokens(v.kids[i])
                                           ELSE Tokens(v.kids[i])
           list == FoldLeft(LAMBDA t, i : t \o (IF i = 1 THEN <<>> ELSE <<",">>) \o item(i),
                            <<>>, [i \in DOMAIN v.kids |-> i])
       IN IF v.kind = "array" THEN <<"[">> \o list \o <<"]">> ELSE <<"{">> \o list \o <<"}">>
  ELSE <<v.kind>>

Nesting(s) ==
  LET Depth(i) == Cardinality({j \in 1 .. i : s[j] \in {"[", "{"}})
                  - Cardinality({j \in 1 .. i : s[j] \in {"]", "}"}})
  IN {Depth(i) : i \in DOMAIN s}

\* A printed tree is parsed back to the same tree, formatted or not, if memory
\* lasts and it is not nested too deeply; and so is any C string, whose literal
\* fills exactly what print_string_ptr asks ensure for.
RoundTrip ==
  /\ source = "printed" =>
       /\ at = "parsed" => Tokens(root.value) = SelectSeq(text, LAMBDA t : t # " ")
       /\ (at = "failed" /\ ~starved) => \E d \in Nesting(text) : d > Limit
  /\ source = "literal" =>
       LET print == print_string_ptr(literal)  read == parse_string(print.text) IN
       /\ Len(print.text) + 1 = print.ensured
       /\ read.ok /\ read.bytes = literal

Literal == <<Quote>> \o literal \o <<Quote>>

\* A literal that is one by the grammar of JSON is read, up to its last quote,
\* as the characters it stands for: escapes, and UTF-16 in one or two parts; and
\* never are more bytes written than were allocated ("This is at most how much
\* we need for the output", cJSON.c:829).  What is read otherwise holds a \u with
\* digits that are none: parse_hex4 gives 0 for them, and the string ends there.
StringsAreRead ==
  source = "literal" =>
    LET units == Units(literal)  read == parse_string(Literal) IN
    /\ read.ok => Len(read.bytes) <= read.allocated
    /\ IsUtf16(units) => /\ read.ok /\ read.offset = Len(Literal) + 1
                         /\ DecodedUtf8(read.bytes) = CodePoints(units)
    /\ ~IsUtf16(units) /\ read.ok => \/ read.offset <= Len(Literal)
                                     \/ \E i \in DOMAIN read.bytes : read.bytes[i] = NUL

\* cJSON_Minify takes away what is between strings and nothing in them
\* ("cjson_minify_should_not_modify_strings", tests/minify_tests.c:86), as long
\* as no string holds an escaped backslash.
MinifyKeepsStrings ==
  (/\ source = "literal" /\ IsUtf16(Units(literal))
   /\ \A i \in 2 .. Len(literal) : ~(literal[i] = Backslash /\ literal[i - 1] = Backslash)) =>
    Minify(Literal \o <<Newline>> \o Literal, 1) = Literal \o Literal
=============================================================================
