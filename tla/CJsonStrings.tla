----------------------------- MODULE CJsonStrings -----------------------------
(***************************************************************************)
(* String literals of cJSON.c: how parse_string reads one, how             *)
(* print_string_ptr writes one, and how cJSON_Minify passes over one.      *)
(* Pure operators on sequences of bytes, given by their ASCII codes; a     *)
(* read past the end of an input gives NUL.                                *)
(***************************************************************************)
EXTENDS Integers, Sequences, SequencesExt, FiniteSets, Functions

NUL       == 0
Newline   == 10
Quote     == 34
Star      == 42
Slash     == 47
Backslash == 92
LetterU   == 117

Byte(s, i) == IF i \in DOMAIN s THEN s[i] ELSE NUL

\* The escapes of one letter: what follows the backslash, and what it stands for.
Escape == [c \in {98, 102, 110, 114, 116, Quote, Backslash, Slash} |->
  CASE c = 98 -> 8 [] c = 102 -> 12 [] c = 110 -> 10 [] c = 114 -> 13
    [] c = 116 -> 9 [] OTHER -> c]

-----------------------------------------------------------------------------
(***************************************************************************)
(* Reading.                                                                *)
(***************************************************************************)

Nibble(c) == CASE c \in 48 .. 57 -> c - 48
               [] c \in 65 .. 70 -> c - 55
               [] c \in 97 .. 102 -> c - 87
               [] OTHER -> -1

\* Four hexadecimal digits; what is none gives 0, not an error.
parse_hex4(s, i) ==
  LET d(k) == Nibble(Byte(s, i + k)) IN
  IF \E k \in 0 .. 3 : d(k) < 0 THEN 0
  ELSE 4096 * d(0) + 256 * d(1) + 16 * d(2) + d(3)

\* A code point in bytes; the loop writes the last byte first.
Encoded(c) ==
  LET Next6(n) == 128 + ((c \div 64 ^ n) % 64) IN  \* 10xxxxxx
  CASE c < 128 -> <<c>>
    [] c \in 128 .. 2047 -> <<192 + c \div 64, Next6(0)>>
    [] c \in 2048 .. 65535 -> <<224 + c \div 4096, Next6(1), Next6(0)>>
    [] OTHER -> <<240 + c \div 262144, Next6(2), Next6(1), Next6(0)>>

Low(c)  == c \in 56320 .. 57343
High(c) == c \in 55296 .. 56319

\* The literal \uXXXX or \uXXXX\uXXXX at i, in a string that ends at end:
\* the bytes it stands for and its length, 0 for failure.
utf16_literal_to_utf8(s, i, end) ==
  LET first == parse_hex4(s, i + 2)
      second == parse_hex4(s, i + 8)
      Fail == [length |-> 0, bytes |-> <<>>]
  IN IF end - i < 6 \/ Low(first) THEN Fail
     ELSE IF ~High(first) THEN [length |-> 6, bytes |-> Encoded(first)]
     ELSE IF \/ end - (i + 6) < 6
             \/ Byte(s, i + 6) # Backslash \/ Byte(s, i + 7) # LetterU
             \/ ~Low(second)
     THEN Fail
     ELSE [length |-> 12,
           bytes |-> Encoded(65536 + (first % 1024) * 1024 + (second % 1024))]

\* Mutant: both bytes of an escape are taken off the length.
RECURSIVE ClosingQuoteSkipsTwo(_, _, _)
ClosingQuoteSkipsTwo(s, i, skipped) ==
  IF i > Len(s) THEN [at |-> 0, skipped |-> skipped]
  ELSE IF s[i] = Quote THEN [at |-> i, skipped |-> skipped]
  ELSE IF s[i] = Backslash
  THEN IF i + 1 > Len(s) THEN [at |-> 0, skipped |-> skipped]
       ELSE ClosingQuoteSkipsTwo(s, i + 2, skipped + 2)
  ELSE ClosingQuoteSkipsTwo(s, i + 1, skipped)

\* The first loop: the closing quote (0 if there is none), and the backslashes
\* on the way there.
RECURSIVE ClosingQuote(_, _, _)
ClosingQuote(s, i, skipped) ==
  IF i > Len(s) THEN [at |-> 0, skipped |-> skipped]
  ELSE IF s[i] = Quote THEN [at |-> i, skipped |-> skipped]
  ELSE IF s[i] = Backslash
  THEN IF i + 1 > Len(s) THEN [at |-> 0, skipped |-> skipped]
       ELSE ClosingQuote(s, i + 2, skipped + 1)
  ELSE ClosingQuote(s, i + 1, skipped)

\* The second loop: the bytes written from i on, before the closing quote.
RECURSIVE Unescaped(_, _, _)
Unescaped(s, i, end) ==
  LET Then(length, bytes) ==
        LET rest == Unescaped(s, i + length, end) IN
        [rest EXCEPT !.bytes = bytes \o @]
      code == Byte(s, i + 1)
      Failed == [ok |-> FALSE, bytes |-> <<>>, offset |-> i]
  IN IF i >= end THEN [ok |-> TRUE, bytes |-> <<>>, offset |-> end + 1]
     ELSE IF s[i] # Backslash THEN Then(1, <<s[i]>>)
     ELSE IF code \in DOMAIN Escape THEN Then(2, <<Escape[code]>>)
     ELSE IF code # LetterU THEN Failed
     ELSE LET u == utf16_literal_to_utf8(s, i, end) IN
          IF u.length = 0 THEN Failed ELSE Then(u.length, u.bytes)

\* Reads the literal that begins at 1.  allocated is the room for the bytes,
\* the terminator not counted.
parse_string(s) ==
  LET close == ClosingQuote(s, 2, 0) IN
  IF Byte(s, 1) # Quote \/ close.at = 0
  THEN [ok |-> FALSE, bytes |-> <<>>, offset |-> 2, allocated |-> 0]
  ELSE Unescaped(s, 2, close.at) @@ [allocated |-> close.at - 1 - close.skipped]

-----------------------------------------------------------------------------
(***************************************************************************)
(* Writing.                                                                *)
(***************************************************************************)

Short == {8, 12, 10, 13, 9, Quote, Backslash}  \* written as \ and a letter

Letter(c) == CASE c = 8 -> 98 [] c = 12 -> 102 [] c = 10 -> 110 [] c = 13 -> 114
               [] c = 9 -> 116 [] OTHER -> c

Digit(d) == IF d < 10 THEN 48 + d ELSE 87 + d

\* Mutant: a backslash is written as it is.
EscapedNoBackslash(c) ==
  IF c \in Short \ {Backslash} THEN <<Backslash, Letter(c)>>
  ELSE IF c < 32 THEN <<Backslash, LetterU, 48, 48, Digit(c \div 16), Digit(c % 16)>>
  ELSE <<c>>

\* What one byte of a C string becomes.
Escaped(c) ==
  IF c \in Short THEN <<Backslash, Letter(c)>>
  ELSE IF c < 32 THEN <<Backslash, LetterU, 48, 48, Digit(c \div 16), Digit(c % 16)>>
  ELSE <<c>>

\* What the first loop of print_string_ptr counts.
output_length(s) ==
  Len(s) + Cardinality({i \in DOMAIN s : s[i] \in Short})
         + 5 * Cardinality({i \in DOMAIN s : s[i] < 32 /\ s[i] \notin Short})

\* The literal, and the room asked of ensure for it, terminator included.
print_string_ptr(s) ==
  [text |-> <<Quote>> \o FlattenSeq([i \in DOMAIN s |-> Escaped(s[i])]) \o <<Quote>>,
   ensured |-> output_length(s) + 3]

-----------------------------------------------------------------------------
(***************************************************************************)
(* cJSON_Minify: s is the C string as it was, without its terminator; the  *)
(* output is written over it.                                              *)
(***************************************************************************)

\* Where a comment that begins at i ends; ends has the places that may close it.
After(s, i, ends, width) ==
  LET behind == {j \in ends : j >= i + 2} IN
  IF behind = {} THEN Len(s) + 1
  ELSE width + CHOOSE j \in behind : \A k \in behind : j <= k

skip_oneline_comment(s, i)   == After(s, i, {j \in DOMAIN s : s[j] = Newline}, 1)
skip_multiline_comment(s, i) ==
  After(s, i, {j \in DOMAIN s : s[j] = Star /\ Byte(s, j + 1) = Slash}, 2)

\* Mutant: the quote after a backslash ends the string too.
RECURSIVE StringEndNoEscape(_, _)
StringEndNoEscape(s, i) ==
  IF i > Len(s) THEN i
  ELSE IF s[i] = Quote THEN i + 1
  ELSE StringEndNoEscape(s, i + 1)

\* Where the string goes on to, from i inside it.  Of the escapes only \" is
\* known: the second backslash of \\ protects a quote that follows it.
RECURSIVE minify_string(_, _)
minify_string(s, i) ==
  IF i > Len(s) THEN i
  ELSE IF s[i] = Quote THEN i + 1
  ELSE IF s[i] = Backslash /\ Byte(s, i + 1) = Quote THEN minify_string(s, i + 2)
  ELSE minify_string(s, i + 1)

RECURSIVE Minify(_, _)
Minify(s, i) ==
  LET next == Byte(s, i + 1) IN
  IF i > Len(s) THEN <<>>
  ELSE CASE s[i] \in {32, 9, 13, 10} -> Minify(s, i + 1)
         [] s[i] = Slash /\ next = Slash -> Minify(s, skip_oneline_comment(s, i))
         [] s[i] = Slash /\ next = Star -> Minify(s, skip_multiline_comment(s, i))
         [] s[i] = Slash /\ next \notin {Slash, Star} -> Minify(s, i + 1)
         [] s[i] = Quote ->
              LET end == minify_string(s, i + 1) IN SubSeq(s, i, end - 1) \o Minify(s, end)
         [] OTHER -> <<s[i]>> \o Minify(s, i + 1)

-----------------------------------------------------------------------------
(***************************************************************************)
(* What a string literal is, by the grammar of JSON: the reference of the  *)
(* properties.  The body of a literal as its parts.                        *)
(***************************************************************************)

\* The part at the head of s: its length and the code unit it stands for, or a
\* byte taken as it is.  Length 0: none.
PartAt(s) ==
  CASE s[1] = Quote -> [length |-> 0, unit |-> 0]
    [] s[1] # Backslash -> [length |-> 1, unit |-> s[1]]
    [] s[1] = Backslash /\ Byte(s, 2) \in DOMAIN Escape ->
         [length |-> 2, unit |-> Escape[s[2]]]
    [] s[1] = Backslash /\ Byte(s, 2) = LetterU ->
         IF Len(s) >= 6 /\ \A k \in 3 .. 6 : Nibble(s[k]) >= 0
         THEN [length |-> 6,
               unit |-> FoldLeft(LAMBDA n, c : 16 * n + Nibble(c), 0, SubSeq(s, 3, 6))]
         ELSE [length |-> 0, unit |-> 0]
    [] OTHER -> [length |-> 0, unit |-> 0]

\* The code units of a body, <<-1>> at the end if it is no body.
RECURSIVE Units(_)
Units(s) ==
  IF s = <<>> THEN <<>>
  ELSE LET part == PartAt(s) IN
       IF part.length = 0 THEN <<-1>>
       ELSE <<part.unit>> \o Units(SubSeq(s, part.length + 1, Len(s)))

\* The code points of code units, as UTF-16 has them.
IsUtf16(u) ==
  \A i \in DOMAIN u :
    /\ u[i] >= 0
    /\ High(u[i]) => Low(Byte(u, i + 1))
    /\ Low(u[i]) => i > 1 /\ High(u[i - 1])

CodePoints(u) ==
  FlattenSeq([i \in DOMAIN u |->
    IF High(u[i]) THEN <<65536 + (u[i] - 55296) * 1024 + (u[i + 1] - 56320)>>
    ELSE IF Low(u[i]) THEN <<>> ELSE <<u[i]>>])

\* The code points that bytes of UTF-8 stand for.
RECURSIVE DecodedUtf8(_)
DecodedUtf8(b) ==
  IF b = <<>> THEN <<>>
  ELSE LET width == CASE b[1] < 128 -> 1 [] b[1] \in 192 .. 223 -> 2
                      [] b[1] \in 224 .. 239 -> 3 [] OTHER -> 4
           first == IF width = 1 THEN b[1] ELSE b[1] % 2 ^ (7 - width)
       IN <<FoldLeft(LAMBDA n, c : 64 * n + (c % 64), first, SubSeq(b, 2, width))>>
          \o DecodedUtf8(SubSeq(b, width + 1, Len(b)))
=============================================================================
