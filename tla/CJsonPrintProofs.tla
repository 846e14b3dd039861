-------------------------- MODULE CJsonPrintProofs --------------------------
(***************************************************************************)
(* Proofs about CJsonPrint, for every tree, every size of buffer and every *)
(* INT_MAX: nothing is written outside the buffer, the text has no gap,    *)
(* ensure refuses only what does not fit, and every buffer is freed once.  *)
(***************************************************************************)
EXTENDS CJsonPrint, SequenceTheorems, TLAPS

BufferInv ==
  pc # "failed" =>
    /\ ~p.null /\ why = "none" /\ p.length <= INT_MAX
    /\ p.offset + tail = size /\ p.depth = Len(stack)
    /\ p.length > 0 => size < p.length
    /\ high <= p.length /\ high <= size + 1
    /\ pc \notin {"printed", "named", "done"} => tail = 0
    /\ pc \in {"done"} => stack = <<>> /\ p.length > 0
    /\ pc \in {"printed", "named", "open", "member", "name", "last"} => p.length > 0
    /\ p.noalloc = (call = "preallocated")
    /\ blocks = IF call = "preallocated" THEN 0 ELSE 1

\* The inductive invariant.
PrintInv ==
  /\ PrintTypeOK /\ BufferInv
  /\ WritesInside /\ RefusedOnlyWhenFull /\ BufferHasOneOwner

LEMMA BufferChanges ==
  ASSUME NEW b \in Printbuffer, NEW x \in BOOLEAN, NEW y \in Nat
  PROVE  /\ [b EXCEPT !.null = x, !.length = y] \in Printbuffer
         /\ [b EXCEPT !.null = x, !.length = y].null = x
         /\ [b EXCEPT !.null = x, !.length = y].length = y
BY DEF Printbuffer

\* ensure, when it does not refuse: the buffer has room for what was asked and
\* for one byte more, or it was freed, which happens only if it is not the
\* caller's.
LEMMA EnsureMakesRoom ==
  ASSUME NEW b \in Printbuffer, NEW needed \in Nat, NEW memory \in BOOLEAN,
         ~Refuses(b, needed), b.length <= INT_MAX
  PROVE  LET r == ensure(b, needed, memory) IN
         /\ r \in Printbuffer
         /\ r.offset = b.offset /\ r.depth = b.depth /\ r.noalloc = b.noalloc
         /\ r.format = b.format /\ r.length <= INT_MAX
         /\ r.null => ~b.noalloc
         /\ ~r.null => r.offset + needed + 1 <= r.length /\ b.length <= r.length
<1> DEFINE r == ensure(b, needed, memory)  n == needed + b.offset + 1
<1> USE PrintAssumption
<1>0. n \in Nat /\ n > 0 /\ b.length \in Nat /\ INT_MAX \in Nat /\ ~b.null
  BY DEF Printbuffer, Refuses
<1>1. CASE Fits(b, needed)
  <2>1. r = b
    BY <1>1 DEF ensure
  <2>2. b.offset + needed + 1 <= b.length
    BY <1>0, <1>1 DEF Fits, Printbuffer
  <2> QED BY <1>0, <2>1, <2>2
<1>2. CASE ~Fits(b, needed)
  <2>1. ~b.noalloc /\ NewSize(b, needed) # 0 /\ n > b.length
    BY <1>0, <1>2 DEF Refuses, Fits, Printbuffer
  <2>2. NewSize(b, needed) \in Nat /\ NewSize(b, needed) <= INT_MAX /\ NewSize(b, needed) >= n
    BY <1>0, <2>1 DEF NewSize
  <2>3. CASE memory
    <3>1. r = [b EXCEPT !.length = NewSize(b, needed)]
      BY <1>2, <2>3 DEF ensure
    <3> QED BY <1>0, <2>1, <2>2, <3>1 DEF Printbuffer
  <2>4. CASE ~memory
    <3>1. r = [b EXCEPT !.null = TRUE, !.length = 0]
      BY <1>2, <2>4 DEF ensure, Freed
    <3>2. r \in Printbuffer /\ r.null = TRUE /\ r.length = 0
      <4>1. TRUE \in BOOLEAN /\ 0 \in Nat
        OBVIOUS
      <4>2. LET x == TRUE  y == 0  c == [b EXCEPT !.null = x, !.length = y] IN
            c \in Printbuffer /\ c.null = x /\ c.length = y
        BY <4>1, BufferChanges
      <4> QED BY <3>1, <4>2
    <3>5. r.null /\ r.length = 0
      BY <3>2
    <3>3. /\ r.offset = b.offset /\ r.depth = b.depth /\ r.noalloc = b.noalloc
          /\ r.format = b.format
      BY <3>1 DEF Printbuffer
    <3>4. r.length <= INT_MAX
      BY <1>0, <3>5
    <3> QED BY <2>1, <3>2, <3>3, <3>4, <3>5
  <2> QED BY <2>3, <2>4
<1> QED BY <1>1, <1>2

\* What ensure refuses does not fit.
LEMMA RefusedDoesNotFit ==
  ASSUME NEW b \in Printbuffer, NEW needed \in Nat, Refuses(b, needed),
         ~b.null, b.length <= INT_MAX, b.length > 0 => b.offset < b.length
  PROVE  needed + b.offset + 1 > IF b.noalloc THEN b.length ELSE INT_MAX
<1> DEFINE n == needed + b.offset + 1
<1> USE PrintAssumption
<1>0. n \in Nat /\ n > 0 /\ b.length \in Nat /\ INT_MAX \in Nat /\ b.offset \in Nat
  BY DEF Printbuffer
<1>1. CASE needed > INT_MAX
  BY <1>0, <1>1
<1>2. CASE ~Fits(b, needed) /\ b.noalloc
  BY <1>0, <1>2 DEF Fits
<1>3. CASE ~Fits(b, needed) /\ NewSize(b, needed) = 0
  <2>1. n > INT_MAX
    BY <1>0, <1>3 DEF NewSize
  <2> QED BY <1>0, <2>1
<1>4. ~(b.length > 0 /\ b.offset >= b.length)
  BY <1>0
<1>5. needed > INT_MAX \/ (~Fits(b, needed) /\ (b.noalloc \/ NewSize(b, needed) = 0))
  BY <1>4 DEF Refuses
<1> QED BY <1>1, <1>2, <1>3, <1>5

\* The buffer a token finds: all of the text lies before its offset.
LEMMA CurrentBuffer ==
  ASSUME PrintTypeOK, BufferInv, pc \notin {"failed", "done"}
  PROVE  /\ Current \in Printbuffer /\ Current.offset = size
         /\ ~Current.null /\ Current.length = p.length /\ Current.depth = p.depth
         /\ Current.noalloc = p.noalloc /\ Current.format = p.format
<1>1. CASE pc \in {"printed", "named"}
  <2>1. Current = [p EXCEPT !.offset = p.offset + tail]
    BY <1>1 DEF Current, update_offset
  <2> QED BY <2>1 DEF PrintTypeOK, BufferInv, Printbuffer
<1>2. CASE pc \notin {"printed", "named"}
  BY <1>2 DEF Current, PrintTypeOK, BufferInv, Printbuffer
<1> QED BY <1>1, <1>2

\* One token: enough was asked for, and the offset and tail account for it.
LEMMA PutKeepsInv ==
  ASSUME PrintInv, pc \notin {"failed", "done"},
         NEW needed \in Nat, NEW written \in Nat, NEW advance \in Nat, NEW bytes \in Nat,
         NEW tokens, NEW s \in Seq({"array", "object"}),
         NEW next \in Where \ {"failed", "done"},
         written <= needed, written <= bytes + 1, advance <= bytes,
         bytes <= needed, needed <= bytes + 1,
         next \notin {"printed", "named"} => advance = bytes,
         Put(needed, written, advance, bytes, tokens, s, next)
  PROVE  PrintInv'
<1> USE PrintAssumption DEF PrintInv
<1>1. PICK memory \in BOOLEAN :
        LET b == ensure(Current, needed, memory) IN
        /\ size' = size + bytes
        /\ IF Refuses(Current, needed) THEN GiveUp(b, "room")
           ELSE IF b.null THEN GiveUp(b, "memory")
           ELSE /\ p' = [b EXCEPT !.offset = @ + advance, !.depth = Len(s)]
                /\ high' = (IF b.offset + written > high THEN b.offset + written ELSE high)
                /\ tail' = bytes - advance
                /\ text' = text \o tokens
                /\ stack' = s /\ pc' = next
                /\ UNCHANGED <<call, blocks, why>>
  BY DEF Put
<1> DEFINE b == ensure(Current, needed, memory)
<1>2. /\ Current \in Printbuffer /\ Current.offset = size
      /\ ~Current.null /\ Current.length = p.length /\ Current.depth = p.depth
      /\ Current.noalloc = p.noalloc /\ Current.format = p.format
  BY CurrentBuffer
<1>3. /\ p \in Printbuffer /\ p.length \in Nat /\ p.length <= INT_MAX
      /\ size \in Nat /\ tail \in Nat /\ high \in Nat /\ blocks \in Nat
      /\ call \in Calls /\ why = "none" /\ p.noalloc = (call = "preallocated")
      /\ p.length > 0 => size < p.length
      /\ high <= p.length /\ high <= size + 1
      /\ blocks = IF call = "preallocated" THEN 0 ELSE 1
      /\ INT_MAX \in Nat
  BY DEF PrintTypeOK, BufferInv, Printbuffer
<1>4. CASE Refuses(Current, needed)
  <2>1. b = Current
    BY <1>4 DEF ensure
  <2>2. size' = size + bytes /\ GiveUp(Current, "room")
    BY <1>1, <1>4, <2>1
  <2>3. needed + size + 1 > IF p.noalloc THEN p.length ELSE INT_MAX
    BY <1>2, <1>3, <1>4, RefusedDoesNotFit
  <2>4. /\ p' = Current /\ pc' = "failed" /\ why' = "room"
        /\ UNCHANGED <<call, stack, tail, high>>
        /\ blocks' = 0
    BY <1>2, <1>3, <2>2 DEF GiveUp, FreedOnFailure
  <2>5. PrintTypeOK'
    BY <1>2, <1>3, <2>2, <2>4 DEF PrintTypeOK, Where
  <2>6. WritesInside' /\ BufferHasOneOwner' /\ BufferInv'
    BY <1>2, <1>3, <2>4 DEF WritesInside, BufferHasOneOwner, BufferInv
  <2>7. RefusedOnlyWhenFull'
    <3>1. size' + 2 > IF p.noalloc THEN p.length ELSE INT_MAX
      BY <1>3, <2>2, <2>3
    <3>2. p'.length = p.length /\ call' = call
      BY <1>2, <2>4
    <3>3. size' + 2 > IF call' = "preallocated" THEN p'.length ELSE INT_MAX
      <4>1. CASE call = "preallocated"
        <5>1. p.noalloc
          BY <1>3, <4>1
        <5> QED BY <3>1, <3>2, <4>1, <5>1
      <4>2. CASE call # "preallocated"
        <5>1. ~p.noalloc
          BY <1>3, <4>2
        <5> QED BY <3>1, <3>2, <4>2, <5>1
      <4> QED BY <4>1, <4>2
    <3> QED BY <3>3 DEF RefusedOnlyWhenFull
  <2> QED BY <2>5, <2>6, <2>7
<1>5. CASE ~Refuses(Current, needed)
  <2>0. /\ b \in Printbuffer /\ b.offset = size /\ b.noalloc = p.noalloc
        /\ b.length <= INT_MAX /\ b.length \in Nat
        /\ b.null => ~p.noalloc
        /\ ~b.null => b.offset + needed + 1 <= b.length /\ p.length <= b.length
    <3>1. b \in Printbuffer => b.length \in Nat
      BY DEF Printbuffer
    <3> QED BY <1>2, <1>3, <1>5, <3>1, EnsureMakesRoom
  <2>1. CASE b.null
    <3>1. size' = size + bytes /\ GiveUp(b, "memory")
      BY <1>1, <1>5, <2>1
    <3>2. /\ p' = b /\ pc' = "failed" /\ why' = "memory"
          /\ UNCHANGED <<call, stack, tail, high>>
          /\ blocks' = 0
      <4>1. call # "preallocated"
        BY <1>3, <2>0, <2>1
      <4>2. /\ p' = b /\ pc' = "failed" /\ why' = "memory"
            /\ UNCHANGED <<call, stack, tail, high>>
            /\ blocks' = blocks - 1 - FreedOnFailure(b)
        BY <2>1, <3>1 DEF GiveUp
      <4>3. FreedOnFailure(b) = 0
        BY <2>1 DEF FreedOnFailure
      <4> QED BY <1>3, <4>1, <4>2, <4>3
    <3>3. PrintTypeOK'
      BY <1>3, <2>0, <3>1, <3>2 DEF PrintTypeOK, Where
    <3> QED
      BY <1>3, <2>0, <2>1, <3>2, <3>3
      DEF WritesInside, BufferHasOneOwner, BufferInv, RefusedOnlyWhenFull
  <2>2. CASE ~b.null
    <3>1. /\ size' = size + bytes
          /\ p' = [b EXCEPT !.offset = @ + advance, !.depth = Len(s)]
          /\ high' = (IF b.offset + written > high THEN b.offset + written ELSE high)
          /\ tail' = bytes - advance
          /\ stack' = s /\ pc' = next
          /\ call' = call /\ blocks' = blocks /\ why' = why
      BY <1>1, <1>5, <2>2
    <3>2. /\ p' \in Printbuffer /\ p'.offset = size + advance /\ p'.depth = Len(s)
          /\ p'.length = b.length /\ p'.null = b.null /\ p'.noalloc = p.noalloc
      <4>1. size + advance \in Nat /\ Len(s) \in Nat
        BY <1>3
      <4> QED BY <2>0, <3>1, <4>1 DEF Printbuffer
    <3>3. /\ tail' \in Nat /\ high' \in Nat /\ size' \in Nat
          /\ high' <= b.length /\ high' <= size' + 1 /\ size' < b.length
          /\ p'.offset + tail' = size'
          /\ next \notin {"printed", "named"} => tail' = 0
      <4>0. b.length \in Nat /\ b.offset = size
        BY <2>0
      <4>1. size + needed + 1 <= b.length /\ p.length <= b.length
        BY <2>0, <2>2
      <4>2. tail' \in Nat /\ size' \in Nat /\ p'.offset + tail' = size'
        <5>1. size' = size + bytes /\ tail' = bytes - advance
          BY <3>1
        <5>2. size \in Nat /\ p'.offset = size + advance
          BY <1>3, <3>2
        <5> HIDE DEF b
        <5> QED BY <5>1, <5>2
      <4>3. size' < b.length
        <5>1. size' = size + bytes
          BY <3>1
        <5> HIDE DEF b
        <5> QED BY <1>3, <4>0, <4>1, <5>1
      <4>4. high' = size + written \/ high' = high
        BY <2>0, <3>1
      <4>5. high' \in Nat /\ high' <= b.length /\ high' <= size' + 1
        <5>1. size' = size + bytes
          BY <3>1
        <5> HIDE DEF b
        <5> QED BY <1>3, <4>0, <4>1, <4>4, <5>1
      <4>6. next \notin {"printed", "named"} => tail' = 0
        BY <3>1
      <4> QED BY <4>2, <4>3, <4>5, <4>6
    <3>4. PrintTypeOK'
      BY <1>3, <3>1, <3>2, <3>3 DEF PrintTypeOK
    <3>5. BufferInv'
      <4>1. b.length > 0 /\ p'.length = b.length
        BY <1>3, <2>0, <2>2, <3>2
      <4>2. ~p'.null /\ why' = "none" /\ pc' # "done" /\ pc' = next
        <5>1. ~p'.null
          BY <2>2, <3>2
        <5>2. why' = "none" /\ pc' = next
          BY <1>3, <3>1
        <5>3. pc' # "done"
          BY <3>1
        <5> QED BY <5>1, <5>2, <5>3
      <4>3. /\ p'.noalloc = (call' = "preallocated")
            /\ blocks' = IF call' = "preallocated" THEN 0 ELSE 1
        <5>1. p'.noalloc = p.noalloc /\ call' = call /\ blocks' = blocks
          BY <3>1, <3>2
        <5> QED BY <1>3, <5>1
      <4>4. p'.depth = Len(stack')
        BY <3>1, <3>2
      <4> QED BY <2>0, <3>3, <4>1, <4>2, <4>3, <4>4 DEF BufferInv
    <3> QED
      <4>1. WritesInside'
        BY <2>0, <3>2, <3>3 DEF WritesInside
      <4>2. BufferHasOneOwner' /\ RefusedOnlyWhenFull'
        BY <1>3, <2>2, <3>1, <3>2 DEF BufferHasOneOwner, RefusedOnlyWhenFull
      <4> QED BY <3>4, <3>5, <4>1, <4>2
  <2> QED BY <2>1, <2>2
<1> QED BY <1>4, <1>5
\* What the containers are after one was closed or opened.
LEMMA StackChanges ==
  ASSUME stack \in Seq({"array", "object"})
  PROVE  /\ Append(stack, "array") \in Seq({"array", "object"})
         /\ Append(stack, "object") \in Seq({"array", "object"})
         /\ stack # <<>> => /\ OuterStack \in Seq({"array", "object"})
                            /\ Len(OuterStack) = Len(stack) - 1
<1>1. /\ Append(stack, "array") \in Seq({"array", "object"})
      /\ Append(stack, "object") \in Seq({"array", "object"})
  OBVIOUS
<1>2. ASSUME stack # <<>>
      PROVE  /\ OuterStack \in Seq({"array", "object"})
             /\ Len(OuterStack) = Len(stack) - 1
  <2>1. Len(stack) \in Nat /\ Len(stack) > 0
    BY <1>2
  <2>2. \A i \in 1 .. Len(stack) - 1 : stack[i] \in {"array", "object"}
    BY <2>1
  <2>3. PICK n \in Nat : n = Len(stack) - 1
    BY <2>1
  <2>4. n \in Int /\ 1 \in Int /\ \A i \in 1 .. n : stack[i] \in {"array", "object"}
    BY <2>2, <2>3
  <2>5. SubSeq(stack, 1, n) \in Seq({"array", "object"}) /\ Len(SubSeq(stack, 1, n)) = n
    <3>1. /\ SubSeq(stack, 1, n) \in Seq({"array", "object"})
          /\ Len(SubSeq(stack, 1, n)) = IF 1 <= n THEN n - 1 + 1 ELSE 0
      BY <2>4, SubSeqProperties
    <3>2. (IF 1 <= n THEN n - 1 + 1 ELSE 0) = n
      OBVIOUS
    <3> QED BY <3>1, <3>2
  <2> QED BY <2>3, <2>5 DEF OuterStack
<1> QED BY <1>1, <1>2

LEMMA PrintInitInv == PrintInit => PrintInv
<1> SUFFICES ASSUME PrintInit PROVE PrintInv
  OBVIOUS
<1> USE PrintAssumption
<1>1. PICK l \in (IF call = "print" THEN {DefaultSize} ELSE Prebuffer), format \in BOOLEAN :
        p = [null |-> FALSE, length |-> l, offset |-> 0, depth |-> 0,
             noalloc |-> (call = "preallocated"), format |-> format]
  BY DEF PrintInit
<1>2. l \in Nat /\ l <= INT_MAX
  BY <1>1
<1>3. /\ p \in Printbuffer /\ ~p.null /\ p.length = l /\ p.offset = 0 /\ p.depth = 0
      /\ p.noalloc = (call = "preallocated")
  BY <1>1, <1>2 DEF Printbuffer
<1>4. /\ call \in Calls /\ pc = "value" /\ stack = <<>> /\ why = "none"
      /\ blocks = (IF call = "preallocated" THEN 0 ELSE 1)
      /\ tail = 0 /\ high = 0 /\ size = 0
  BY DEF PrintInit
<1>5. PrintTypeOK
  BY <1>3, <1>4 DEF PrintTypeOK, Where
<1>6. BufferInv
  BY <1>2, <1>3, <1>4 DEF BufferInv
<1>7. WritesInside /\ RefusedOnlyWhenFull /\ BufferHasOneOwner
  BY <1>2, <1>3, <1>4 DEF WritesInside, RefusedOnlyWhenFull, BufferHasOneOwner
<1> QED BY <1>5, <1>6, <1>7 DEF PrintInv

\* A failure that is not about room: what was allocated is freed.
LEMMA GiveUpKeepsInv ==
  ASSUME PrintInv, pc \notin {"failed", "done"}, NEW b \in Printbuffer, ~b.null,
         b.length = p.length, NEW reason \in {"invalid", "memory"},
         GiveUp(b, reason), UNCHANGED size
  PROVE  PrintInv'
<1>1. /\ pc' = "failed" /\ why' = reason /\ p' = b /\ size' = size
      /\ call' = call /\ stack' = stack /\ tail' = tail /\ high' = high
      /\ blocks' = blocks - FreedOnFailure(b)
  <2>1. blocks' = blocks - 0 - FreedOnFailure(b)
    BY DEF GiveUp
  <2>2. blocks \in Nat /\ FreedOnFailure(b) \in Nat
    BY DEF PrintInv, PrintTypeOK, FreedOnFailure
  <2> QED BY <2>1, <2>2 DEF GiveUp
<1>2. blocks' = 0
  <2>1. blocks = IF call = "preallocated" THEN 0 ELSE 1
    BY DEF PrintInv, BufferInv
  <2>2. FreedOnFailure(b) = IF call = "preallocated" THEN 0 ELSE 1
    BY DEF FreedOnFailure
  <2> QED BY <1>1, <2>1, <2>2
<1>3. PrintTypeOK'
  BY <1>1, <1>2 DEF PrintInv, PrintTypeOK, Where
<1>4. WritesInside'
  BY <1>1 DEF PrintInv, BufferInv, WritesInside
<1>5. RefusedOnlyWhenFull' /\ BufferHasOneOwner' /\ BufferInv'
  BY <1>1, <1>2 DEF RefusedOnlyWhenFull, BufferHasOneOwner, BufferInv
<1> QED BY <1>3, <1>4, <1>5 DEF PrintInv

LEMMA PrintNextInv ==
  ASSUME PrintInv, PrintNext PROVE PrintInv'
<1> USE PrintAssumption
<1>1. /\ stack \in Seq({"array", "object"}) /\ p.depth \in Nat
      /\ pc # "failed" => p.depth = Len(stack)
      /\ Format \in {0, 1}
  BY DEF PrintInv, PrintTypeOK, BufferInv, Printbuffer, Format
<1>2. ASSUME NEW leaf \in Leaf, PrintLeaf(leaf) PROVE PrintInv'
  <2> DEFINE needed == Size[leaf] + 1
             advance == IF leaf \in Number THEN Size[leaf] ELSE 0
  <2>1. Size[leaf] \in Nat /\ needed \in Nat /\ advance \in Nat /\ advance <= Size[leaf]
    OBVIOUS
  <2>2. /\ pc = "value"
        /\ Put(needed, needed, advance, Size[leaf], <<leaf>>, stack, "printed")
    BY <1>2 DEF PrintLeaf
  <2>3. pc \notin {"failed", "done"} /\ "printed" \in Where \ {"failed", "done"}
    BY <2>2 DEF Where
  <2> HIDE DEF needed, advance
  <2>4. needed <= Size[leaf] + 1 /\ Size[leaf] <= needed
    BY <2>1 DEF needed
  <2> QED BY <1>1, <2>1, <2>2, <2>3, <2>4, PutKeepsInv
<1>3. CASE PrintInvalid
  BY <1>3, CurrentBuffer, GiveUpKeepsInv DEF PrintInvalid, PrintInv
<1>4. CASE PrintOpenArray
  <2>1. /\ pc \notin {"failed", "done"} /\ "open" \in Where \ {"failed", "done"}
        /\ Put(1, 1, 1, 1, <<"[">>, Append(stack, "array"), "open")
    BY <1>4 DEF PrintOpenArray, Where
  <2>2. 1 \in Nat /\ 1 <= 1 /\ 1 <= 1 + 1
    OBVIOUS
  <2>3. Append(stack, "array") \in Seq({"array", "object"})
    BY <1>1, StackChanges
  <2> QED BY <2>1, <2>2, <2>3, PutKeepsInv
<1>5. CASE PrintFirst
  <2>1. /\ pc = "open" /\ pc' = "value"
        /\ UNCHANGED <<call, stack, p, blocks, tail, high, size, text, why>>
    BY <1>5 DEF PrintFirst
  <2>2. PrintTypeOK' /\ BufferInv'
    BY <2>1 DEF PrintInv, PrintTypeOK, BufferInv, Where
  <2> QED BY <2>1, <2>2 DEF PrintInv, WritesInside, RefusedOnlyWhenFull, BufferHasOneOwner
<1>6. CASE PrintNextElement
  <2> DEFINE l == 1 + Format
  <2>1. /\ pc \notin {"failed", "done"} /\ "value" \in Where \ {"failed", "done"}
        /\ Put(l + 1, l + 1, l, l, <<",">> \o White(Format), stack, "value")
    BY <1>6 DEF PrintNextElement, Where
  <2>2. l \in Nat /\ l + 1 \in Nat /\ l <= l + 1 /\ l + 1 <= l + 1 /\ l <= l
    BY <1>1
  <2> HIDE DEF l
  <2> QED BY <1>1, <2>1, <2>2, PutKeepsInv
<1>7. CASE PrintCloseArray
  <2>1. /\ pc \notin {"failed", "done"} /\ "printed" \in Where \ {"failed", "done"}
        /\ Put(2, 2, 0, 1, <<"]">>, OuterStack, "printed") /\ stack # <<>>
    BY <1>7 DEF PrintCloseArray, In, Where
  <2> QED BY <1>1, <2>1, StackChanges, PutKeepsInv
<1>8. CASE PrintOpenObject
  <2> DEFINE l == 1 + Format
  <2>1. /\ pc \notin {"failed", "done"} /\ "open" \in Where \ {"failed", "done"}
        /\ Put(l + 1, l, l, l, <<"{">> \o White(Format), Append(stack, "object"), "open")
    BY <1>8 DEF PrintOpenObject, Where
  <2>2. l \in Nat /\ l + 1 \in Nat /\ l <= l + 1 /\ l + 1 <= l + 1 /\ l <= l
    BY <1>1
  <2> HIDE DEF l
  <2> QED BY <1>1, <2>1, <2>2, StackChanges, PutKeepsInv
<1>9. CASE PrintIndent
  <2>1. /\ pc \notin {"failed", "done"} /\ "name" \in Where \ {"failed", "done"}
        /\ Put(p.depth, p.depth, p.depth, p.depth, White(p.depth), stack, "name")
    BY <1>9 DEF PrintIndent, Where
  <2> QED BY <1>1, <2>1, PutKeepsInv
<1>10. ASSUME NEW name \in Name, PrintName(name) PROVE PrintInv'
  <2> DEFINE needed == Size[name] + 1
  <2>1. /\ pc \notin {"failed", "done"} /\ "named" \in Where \ {"failed", "done"}
        /\ Put(needed, needed, 0, Size[name], <<name>>, stack, "named")
    BY <1>10 DEF PrintName, Where
  <2>2. Size[name] \in Nat /\ needed \in Nat /\ needed = Size[name] + 1
    OBVIOUS
  <2> HIDE DEF needed
  <2> QED BY <1>1, <2>1, <2>2, PutKeepsInv
<1>11. CASE PrintColon
  <2> DEFINE l == 1 + Format
  <2>1. /\ pc \notin {"failed", "done"} /\ "value" \in Where \ {"failed", "done"}
        /\ Put(l, l, l, l, <<":">> \o White(Format), stack, "value")
    BY <1>11 DEF PrintColon, Where
  <2>2. l \in Nat
    BY <1>1
  <2> HIDE DEF l
  <2> QED BY <1>1, <2>1, <2>2, PutKeepsInv
<1>12. ASSUME NEW more \in BOOLEAN, PrintEndMember(more) PROVE PrintInv'
  <2> DEFINE l == Format + (IF more THEN 1 ELSE 0)
             next == IF more THEN "member" ELSE "last"
             tokens == (IF more THEN <<",">> ELSE <<>>) \o White(Format)
  <2>1. /\ pc \notin {"failed", "done"} /\ next \in Where \ {"failed", "done"}
        /\ next \notin {"printed", "named"}
        /\ Put(l + 1, l + 1, l, l, tokens, stack, next)
    BY <1>12 DEF PrintEndMember, Where
  <2>2. l \in Nat /\ l + 1 \in Nat
    BY <1>1
  <2> HIDE DEF l, next, tokens
  <2> QED BY <1>1, <2>1, <2>2, PutKeepsInv
<1>13. CASE PrintCloseObject
  <2> DEFINE tabs == IF p.format THEN p.depth - 1 ELSE 0
             needed == IF p.format THEN p.depth + 1 ELSE 2
  <2>1. /\ pc \notin {"failed", "done"} /\ "printed" \in Where \ {"failed", "done"}
        /\ Put(needed, tabs + 2, 0, tabs + 1, White(tabs) \o <<"}">>, OuterStack, "printed")
        /\ stack # <<>>
    BY <1>13 DEF PrintCloseObject, In, Where
  <2>2. p.depth \in Nat /\ p.depth > 0
    <3>1. Len(stack) \in Nat /\ Len(stack) > 0
      <4>1. stack \in Seq({"array", "object"}) /\ stack # <<>>
        BY <1>1, <2>1
      <4> HIDE DEF tabs, needed
      <4> QED BY <4>1, EmptySeq, LenProperties
    <3> QED BY <1>1, <2>1, <3>1
  <2>3. tabs \in Nat /\ needed \in Nat /\ needed = tabs + 2
    BY <2>2
  <2> HIDE DEF tabs, needed
  <2>4. /\ tabs + 2 \in Nat /\ tabs + 1 \in Nat /\ 0 \in Nat /\ tabs + 2 <= needed
        /\ tabs + 2 <= (tabs + 1) + 1 /\ 0 <= tabs + 1 /\ tabs + 1 <= needed
        /\ needed <= (tabs + 1) + 1
    BY <2>3
  <2>5. OuterStack \in Seq({"array", "object"})
    BY <1>1, <2>1, StackChanges
  <2> QED BY <2>1, <2>3, <2>4, <2>5, PutKeepsInv
<1>14. CASE PrintFinish
  <2> DEFINE b == update_offset(p)
  <2>1. /\ pc = "printed" /\ stack = <<>>
        /\ Current = b
    BY <1>14 DEF PrintFinish, Current
  <2>2. /\ b \in Printbuffer /\ b.offset = size /\ ~b.null /\ b.length = p.length
        /\ b.depth = p.depth /\ b.noalloc = p.noalloc
    BY <2>1, CurrentBuffer DEF PrintInv
  <2>3. CASE GiveUp(b, "memory") /\ UNCHANGED size
    BY <2>1, <2>2, <2>3, GiveUpKeepsInv
  <2>4. CASE /\ p' = (IF call = "print" THEN [b EXCEPT !.length = b.offset + 1] ELSE p)
             /\ tail' = (IF call = "print" THEN 0 ELSE tail)
             /\ pc' = "done"
             /\ UNCHANGED <<call, stack, blocks, high, size, text, why>>
    <3> HIDE DEF b
    <3>1. /\ p' \in Printbuffer /\ ~p'.null /\ p'.length > 0 /\ p'.length <= INT_MAX
          /\ p'.offset + tail' = size /\ p'.depth = Len(stack)
          /\ p'.noalloc = p.noalloc /\ size < p'.length /\ tail' \in Nat
          /\ high <= p'.length
      <4>1. CASE call = "print"
        <5>1. p' = [b EXCEPT !.length = size + 1] /\ tail' = 0
          BY <2>2, <2>4, <4>1
        <5>2. size \in Nat /\ size < p.length /\ p.length <= INT_MAX /\ high <= size + 1
              /\ p.length \in Nat
          BY <2>1 DEF PrintInv, PrintTypeOK, BufferInv, Printbuffer
        <5>3. /\ p' \in Printbuffer /\ p'.null = b.null /\ p'.length = size + 1
              /\ p'.offset = b.offset /\ p'.depth = b.depth /\ p'.noalloc = b.noalloc
          BY <2>2, <5>1, <5>2 DEF Printbuffer
        <5>4. p'.length > 0 /\ p'.length <= INT_MAX /\ size < p'.length /\ high <= p'.length
          BY <5>2, <5>3
        <5>5. p'.depth = Len(stack) /\ ~p'.null /\ p'.noalloc = p.noalloc
          BY <1>1, <2>1, <2>2, <5>3
        <5>6. p'.offset + tail' = size /\ tail' \in Nat
          BY <2>2, <5>1, <5>2, <5>3
        <5> QED BY <5>3, <5>4, <5>5, <5>6
      <4>2. CASE call # "print"
        <5>1. p' = p /\ tail' = tail
          BY <2>4, <4>2
        <5> QED BY <2>1, <5>1 DEF PrintInv, PrintTypeOK, BufferInv
      <4> QED BY <4>1, <4>2
    <3>2. PrintTypeOK'
      BY <2>4, <3>1 DEF PrintInv, PrintTypeOK, Where
    <3>3. BufferInv'
      <4>1. /\ why = "none" /\ p.noalloc = (call = "preallocated") /\ high <= size + 1
            /\ blocks = IF call = "preallocated" THEN 0 ELSE 1
        BY <2>1 DEF PrintInv, BufferInv
      <4> QED BY <2>1, <2>4, <3>1, <4>1 DEF BufferInv
    <3>4. WritesInside' /\ RefusedOnlyWhenFull' /\ BufferHasOneOwner'
      BY <2>1, <2>4, <3>1, <3>3
      DEF PrintInv, BufferInv, WritesInside, RefusedOnlyWhenFull, BufferHasOneOwner
    <3> QED BY <3>2, <3>3, <3>4 DEF PrintInv
  <2> QED BY <1>14, <2>3, <2>4 DEF PrintFinish
<1> QED
  BY <1>2, <1>3, <1>4, <1>5, <1>6, <1>7, <1>8, <1>9, <1>10, <1>11, <1>12, <1>13, <1>14
  DEF PrintNext

LEMMA PrintInvariant == PrintSpec => []PrintInv
<1>1. PrintInv /\ UNCHANGED printVars => PrintInv'
  BY DEF printVars, PrintInv, PrintTypeOK, BufferInv, WritesInside,
         RefusedOnlyWhenFull, BufferHasOneOwner
<1>2. PrintInv /\ [PrintNext]_printVars => PrintInv'
  BY <1>1, PrintNextInv
<1> QED BY PrintInitInv, <1>2, PTL DEF PrintSpec

\* The variables of the printer keep their types.
THEOREM PrintTypes == PrintSpec => []PrintTypeOK
<1>1. PrintInv => PrintTypeOK
  BY DEF PrintInv
<1> QED BY <1>1, PrintInvariant, PTL

\* Whatever is printed, and into whatever buffer, no byte is written behind its
\* end, and no buffer grows beyond INT_MAX.
THEOREM PrintingStaysInside == PrintSpec => []WritesInside
<1>1. PrintInv => WritesInside
  BY DEF PrintInv
<1> QED BY <1>1, PrintInvariant, PTL

\* The bytes of the text lie in the buffer without a gap.
THEOREM PrintedTextIsWhole == PrintSpec => []TextIsWhole
<1>1. PrintInv => TextIsWhole
  BY DEF PrintInv, BufferInv, TextIsWhole
<1> QED BY <1>1, PrintInvariant, PTL

\* A buffer of the caller with one byte more than the text and its terminator is
\* never refused.
THEOREM RoomForOneMoreSuffices == PrintSpec => []RefusedOnlyWhenFull
<1>1. PrintInv => RefusedOnlyWhenFull
  BY DEF PrintInv
<1> QED BY <1>1, PrintInvariant, PTL

\* No buffer leaks, and none is freed twice.
THEOREM BuffersAreFreedOnce == PrintSpec => []BufferHasOneOwner
<1>1. PrintInv => BufferHasOneOwner
  BY DEF PrintInv
<1> QED BY <1>1, PrintInvariant, PTL
=============================================================================
