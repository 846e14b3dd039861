----------------------------- MODULE CJsonPrint -----------------------------
(***************************************************************************)
(* Printing of cJSON: ensure, update_offset, print_value and its parts,    *)
(* and the calls that print into a buffer of their own or of the caller.   *)
(*                                                                         *)
(* The item that is printed is not a parameter: a behaviour chooses it as  *)
(* it goes, so that the behaviours are the printings of all trees.  One    *)
(* action is what the code does for one call of ensure.  Text is a         *)
(* sequence of tokens; a leaf is a token with a size in bytes.             *)
(***************************************************************************)
EXTENDS Integers, Sequences

CONSTANTS
  INT_MAX,      \* the largest buffer
  DefaultSize,  \* what print() begins with: 256 in the code
  Prebuffer,    \* sizes the callers of PrintBuffered and PrintPreallocated give
  Leaf,         \* leaves: null, false, true, numbers, strings, raw text
  Number,       \* those of them that are numbers
  Name,         \* names of members, NULL included: it is printed as ""
  Size,         \* the bytes of the text of a leaf or a name
  MaxTokens     \* bound: tokens after which nothing more is opened or continued

ASSUME PrintAssumption ==
  /\ INT_MAX \in Nat /\ DefaultSize \in 1 .. INT_MAX /\ Prebuffer \subseteq 0 .. INT_MAX
  /\ Number \subseteq Leaf /\ \A l \in Leaf \cup Name : Size[l] \in Nat

VARIABLES
  call,    \* which function of the interface
  pc,      \* where print_value is
  stack,   \* the containers that are open
  p,       \* the printbuffer
  blocks,  \* buffers that are allocated
  tail,    \* bytes behind offset, before the terminator: what strlen finds there
  high,    \* bytes of the buffer that were written
  size,    \* bytes of the text so far, with the token that was refused
  text,    \* the text so far
  why      \* why printing failed

printVars == <<call, pc, stack, p, blocks, tail, high, size, text, why>>

Calls == {"print", "buffered", "preallocated"}

\* cJSON_Print and PrintUnformatted (print), cJSON_PrintBuffered,
\* cJSON_PrintPreallocated.
PrintInit ==
  /\ call \in Calls
  /\ \E length \in (IF call = "print" THEN {DefaultSize} ELSE Prebuffer), format \in BOOLEAN :
       p = [null |-> FALSE, length |-> length, offset |-> 0, depth |-> 0,
            noalloc |-> (call = "preallocated"), format |-> format]
  /\ pc = "value" /\ stack = <<>> /\ text = <<>> /\ why = "none"
  /\ blocks = (IF call = "preallocated" THEN 0 ELSE 1)
  /\ tail = 0 /\ high = 0 /\ size = 0

-----------------------------------------------------------------------------
(***************************************************************************)
(* The buffer.                                                             *)
(***************************************************************************)

\* Mutant: a buffer that cannot be doubled is not enlarged at all.
DoublesOnly(b, needed) ==
  LET n == needed + b.offset + 1 IN IF n <= INT_MAX \div 2 THEN n * 2 ELSE 0

\* The size ensure asks for, or 0 when it asks for nothing.
NewSize(b, needed) ==
  LET n == needed + b.offset + 1 IN
  IF n <= INT_MAX \div 2 THEN n * 2 ELSE IF n <= INT_MAX THEN INT_MAX ELSE 0

Fits(b, needed)    == needed + b.offset + 1 <= b.length
Refuses(b, needed) ==
  \/ b.null
  \/ b.length > 0 /\ b.offset >= b.length
  \/ needed > INT_MAX
  \/ ~Fits(b, needed) /\ (b.noalloc \/ NewSize(b, needed) = 0)

\* What is left when there is no memory: the buffer is freed.
Freed(b) == [b EXCEPT !.null = TRUE, !.length = 0]

\* ensure: what it leaves in the printbuffer; it answers NULL when it refuses,
\* and when there is no memory.
ensure(b, needed, memory) ==
  IF Refuses(b, needed) \/ Fits(b, needed) THEN b
  ELSE IF memory THEN [b EXCEPT !.length = NewSize(b, needed)] ELSE Freed(b)

update_offset(b) == [b EXCEPT !.offset = b.offset + tail]

\* The buffer as the next token finds it: update_offset follows every value and
\* every name.
Current == IF pc \in {"printed", "named"} THEN update_offset(p) ELSE p

\* Mutant: what ensure has freed is freed again.
FreesTwice(b) == IF call = "preallocated" THEN 0 ELSE 1

\* The failure path of the three: print() frees what is not NULL, the free of
\* cJSON_PrintBuffered has no effect on NULL, the caller's buffer is the caller's.
FreedOnFailure(b) == IF call = "preallocated" \/ b.null THEN 0 ELSE 1

GiveUp(b, reason) ==
  /\ pc' = "failed" /\ why' = reason /\ p' = b
  /\ blocks' = blocks - (IF b.null THEN 1 ELSE 0) - FreedOnFailure(b)
  /\ UNCHANGED <<call, stack, tail, high, text>>

\* ensure(needed), then `written` bytes are written, the last of them the
\* terminator or not, and the offset moves on by `advance`.  bytes is what the
\* text grows by, tokens what it grows with; s are the containers then open.
Put(needed, written, advance, bytes, tokens, s, next) ==
  \E memory \in BOOLEAN :
    LET b == ensure(Current, needed, memory) IN
    /\ size' = size + bytes
    /\ IF Refuses(Current, needed) THEN GiveUp(b, "room")
       ELSE IF b.null THEN GiveUp(b, "memory")
       ELSE /\ p' = [b EXCEPT !.offset = @ + advance, !.depth = Len(s)]
            /\ high' = (IF b.offset + written > high THEN b.offset + written ELSE high)
            /\ tail' = bytes - advance
            /\ text' = text \o tokens
            /\ stack' = s /\ pc' = next
            /\ UNCHANGED <<call, blocks, why>>

-----------------------------------------------------------------------------
(***************************************************************************)
(* print_value, print_array and print_object.                              *)
(***************************************************************************)

In(kind) == stack # <<>> /\ stack[Len(stack)] = kind
OuterStack      == SubSeq(stack, 1, Len(stack) - 1)
GoesOn     == Len(text) < MaxTokens

Format     == IF p.format THEN 1 ELSE 0
White(n)   == [i \in 1 .. n |-> " "]

\* null, false, true, strings and raw text are left for update_offset to count;
\* print_number moves the offset on itself.
PrintLeaf(leaf) ==
  /\ pc = "value"
  /\ Put(Size[leaf] + 1, Size[leaf] + 1, IF leaf \in Number THEN Size[leaf] ELSE 0,
         Size[leaf], <<leaf>>, stack, "printed")

\* An item of no known type, or raw text that is NULL.
PrintInvalid ==
  /\ pc = "value"
  /\ GiveUp(Current, "invalid")
  /\ UNCHANGED size

PrintOpenArray ==
  /\ pc = "value" /\ GoesOn
  /\ Put(1, 1, 1, 1, <<"[">>, Append(stack, "array"), "open")

PrintFirst ==
  /\ pc = "open" /\ In("array") /\ GoesOn
  /\ pc' = "value"
  /\ UNCHANGED <<call, stack, p, blocks, tail, high, size, text, why>>

PrintNextElement ==
  /\ pc = "printed" /\ In("array") /\ GoesOn
  /\ LET length == 1 + Format IN
     Put(length + 1, length + 1, length, length, <<",">> \o White(Format), stack, "value")

PrintCloseArray ==
  /\ pc \in {"open", "printed"} /\ In("array")
  /\ Put(2, 2, 0, 1, <<"]">>, OuterStack, "printed")

PrintOpenObject ==
  /\ pc = "value" /\ GoesOn
  /\ LET length == 1 + Format IN
     Put(length + 1, length, length, length, <<"{">> \o White(Format),
         Append(stack, "object"), "open")

\* The tabs in front of a name.
PrintIndent ==
  /\ pc = "member" \/ (pc = "open" /\ GoesOn)
  /\ In("object") /\ p.format
  /\ Put(p.depth, p.depth, p.depth, p.depth, White(p.depth), stack, "name")

PrintName(name) ==
  /\ IF p.format THEN pc = "name" ELSE pc = "member" \/ (pc = "open" /\ GoesOn)
  /\ In("object")
  /\ Put(Size[name] + 1, Size[name] + 1, 0, Size[name], <<name>>, stack, "named")

PrintColon ==
  /\ pc = "named"
  /\ LET length == 1 + Format IN
     Put(length, length, length, length, <<":">> \o White(Format), stack, "value")

\* Behind a member: a comma if there is a next one, and a new line.
PrintEndMember(more) ==
  /\ pc = "printed" /\ In("object")
  /\ more => GoesOn
  /\ LET length == Format + (IF more THEN 1 ELSE 0) IN
     Put(length + 1, length + 1, length, length,
         (IF more THEN <<",">> ELSE <<>>) \o White(Format), stack,
         IF more THEN "member" ELSE "last")

\* Mutant: the tabs in front of the bracket are not reserved.
CloseShort ==
  /\ pc \in {"open", "last"} /\ In("object")
  /\ LET tabs == IF p.format THEN p.depth - 1 ELSE 0 IN
     Put(2, tabs + 2, 0, tabs + 1, White(tabs) \o <<"}">>, OuterStack, "printed")

PrintCloseObject ==
  /\ pc \in {"open", "last"} /\ In("object")
  /\ LET tabs == IF p.format THEN p.depth - 1 ELSE 0 IN
     Put(IF p.format THEN p.depth + 1 ELSE 2, tabs + 2, 0, tabs + 1,
         White(tabs) \o <<"}">>, OuterStack, "printed")

-----------------------------------------------------------------------------
(***************************************************************************)
(* The end.                                                                *)
(***************************************************************************)

\* print() cuts the buffer to the text, by realloc or by a copy, and fails if
\* there is no memory for that; the two others give what they have.
PrintFinish ==
  /\ pc = "printed" /\ stack = <<>>
  /\ LET b == update_offset(p) IN
     \/ /\ call = "print" /\ GiveUp(b, "memory")
        /\ UNCHANGED size
     \/ /\ p' = (IF call = "print" THEN [b EXCEPT !.length = b.offset + 1] ELSE p)
        /\ tail' = (IF call = "print" THEN 0 ELSE tail)
        /\ pc' = "done"
        /\ UNCHANGED <<call, stack, blocks, high, size, text, why>>

PrintNext ==
  \/ \E leaf \in Leaf : PrintLeaf(leaf)
  \/ PrintInvalid
  \/ PrintOpenArray \/ PrintFirst \/ PrintNextElement \/ PrintCloseArray
  \/ PrintOpenObject \/ PrintIndent \/ (\E name \in Name : PrintName(name)) \/ PrintColon
  \/ (\E more \in BOOLEAN : PrintEndMember(more)) \/ PrintCloseObject
  \/ PrintFinish

PrintSpec == PrintInit /\ [][PrintNext]_printVars

-----------------------------------------------------------------------------
(***************************************************************************)
(* Properties.                                                             *)
(***************************************************************************)

Where == {"value", "open", "printed", "member", "name", "named", "last", "done", "failed"}

Printbuffer == [null : BOOLEAN, length : Nat, offset : Nat, depth : Nat,
                noalloc : BOOLEAN, format : BOOLEAN]

\* Every variable has its type.
PrintTypeOK ==
  /\ call \in Calls /\ pc \in Where /\ stack \in Seq({"array", "object"})
  /\ p \in Printbuffer /\ blocks \in Nat /\ tail \in Nat /\ high \in Nat /\ size \in Nat
  /\ why \in {"none", "invalid", "room", "memory"}

\* Nothing is written behind the end of the buffer, and no buffer is larger than
\* INT_MAX.
WritesInside == p.length <= INT_MAX /\ (~p.null => high <= p.length)

\* The bytes in the buffer are those of the text, none skipped and none written
\* over: what the offset counts and what strlen will still find.  The depth is
\* the number of open containers.
TextIsWhole ==
  pc # "failed" => /\ p.offset + tail = size
                   /\ p.depth = Len(stack)
                   /\ pc = "done" => stack = <<>> /\ size < p.length

\* ensure refuses only what really does not fit: a text longer than INT_MAX, or
\* one that leaves less than one byte to spare in the caller's buffer
\* ("allocate 5 bytes more than you actually need", cJSON.h:168).
RefusedOnlyWhenFull ==
  why = "room" => size + 2 > IF call = "preallocated" THEN p.length ELSE INT_MAX

\* The buffers are freed on every failure, and once; the caller gets the one
\* that is left.
BufferHasOneOwner ==
  /\ blocks = IF call = "preallocated" \/ pc = "failed" THEN 0 ELSE 1
  /\ pc # "failed" => ~p.null
=============================================================================
