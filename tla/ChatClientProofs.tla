--------------------------- MODULE ChatClientProofs ---------------------------
(***************************************************************************)
(* Proofs about ChatClient, for every length of the history and of the     *)
(* help, every set of commands and messages and every bound: the history,  *)
(* the screen, what the server hears, and the mutex a cancelled thread     *)
(* holds.                                                                  *)
(***************************************************************************)
EXTENDS ChatClient, SequenceTheorems, TLAPS

-----------------------------------------------------------------------------
(***************************************************************************)
(* Steps, and programs of steps.                                           *)
(***************************************************************************)

\* A step carries what its name says.
LEMMA StepFields ==
  ASSUME NEW x \in Step
  PROVE  /\ x.op = "send" => x.arg \in Request
         /\ x.op = "set" => x.arg \in Estado
         /\ x.op = "add" => x.arg \in Line
BY DEF Step, Send, Set, Add, Do

Program == Seq(Step)
HasOp(s, op) == \E i \in DOMAIN s : s[i].op = op
NoOp(s, ops) == \A i \in DOMAIN s : s[i].op \notin ops

\* What follows a step that leaves the server says nothing to it, and does not
\* ask for the mutex.
Leaving == {"shutdown", "close", "cancel"}
QuietFrom(s, i) == \A j \in DOMAIN s : j >= i => s[j].op \notin {"send", "add", "show"}
After(s)  == \A i \in DOMAIN s : s[i].op \in Leaving => QuietFrom(s, i)

\* The program leaves only after it has stopped both loops.
Leaves(s) ==
  \A i \in DOMAIN s : s[i].op \in Leaving =>
    QuietFrom(s, i) /\ \E j \in DOMAIN s : j < i /\ s[j].op = "stop"

\* EXIT is the last request of its program, and the loops are stopped after it.
SendsWell(s) ==
  \A i \in DOMAIN s : s[i].op = "send" =>
    /\ s[i].arg.type # "REGISTRO"
    /\ s[i].arg.type = "EXIT" =>
         /\ \A j \in DOMAIN s : j > i => s[j].op # "send"
         /\ \E j \in DOMAIN s : j > i /\ s[j].op = "stop"

\* A status is sent, and then set.
SetsWell(s) ==
  \A i \in DOMAIN s :
    /\ (s[i].op = "send" /\ s[i].arg.type = "ESTADO") =>
         i + 1 \in DOMAIN s /\ s[i + 1].op = "set" /\ s[i + 1].arg = s[i].arg.estado
    /\ (s[i].op = "set" /\ i > 1) =>
         s[i - 1].op = "send" /\ s[i - 1].arg.type = "ESTADO"

\* No program begins with a status.
StartsWell(s) == s # <<>> => s[1].op # "set"

\* After a line was added the screen is drawn.
Draws(s) ==
  \A i \in DOMAIN s : (s[i].op = "add" /\ s[i].arg # End) =>
    \E j \in DOMAIN s : j > i /\ s[j].op = "show"

LEMMA EmptyProgram ==
  /\ <<>> \in Program /\ Leaves(<<>>) /\ After(<<>>) /\ SendsWell(<<>>) /\ SetsWell(<<>>)
  /\ Draws(<<>>) /\ StartsWell(<<>>) /\ \A op : ~HasOp(<<>>, op) /\ \A ops : NoOp(<<>>, ops)
BY EmptySeq DEF Program, Leaves, After, SendsWell, SetsWell, Draws, StartsWell, HasOp, NoOp

\* The rest of a program, one step later.
LEMMA RestOfProgram ==
  ASSUME NEW s \in Program, s # <<>>
  PROVE  /\ Tail(s) \in Program /\ DOMAIN s = 1 .. Len(s) /\ Len(s) \in Nat \ {0}
         /\ DOMAIN Tail(s) = 1 .. Len(s) - 1
         /\ \A i \in 1 .. Len(s) - 1 : Tail(s)[i] = s[i + 1]
         /\ Head(s) = s[1] /\ s[1] \in Step
<1>1. /\ Len(s) \in Nat \ {0} /\ Tail(s) \in Seq(Step) /\ Len(Tail(s)) = Len(s) - 1
      /\ \A i \in 1 .. Len(Tail(s)) : Tail(s)[i] = s[i + 1]
      /\ Head(s) \in Step
  BY EmptySeq, HeadTailProperties DEF Program
<1>2. DOMAIN s = 1 .. Len(s) /\ DOMAIN Tail(s) = 1 .. Len(Tail(s))
  BY <1>1, LenProperties DEF Program
<1>3. Head(s) = s[1]
  BY DEF Program
<1> QED BY <1>1, <1>2, <1>3 DEF Program

LEMMA TailKeepsAfter ==
  ASSUME NEW s \in Program, s # <<>>, After(s)
  PROVE  After(Tail(s))
BY RestOfProgram DEF After, QuietFrom

LEMMA TailKeepsLeaves ==
  ASSUME NEW s \in Program, s # <<>>, Leaves(s), Head(s).op # "stop"
  PROVE  Leaves(Tail(s))
<1> SUFFICES ASSUME NEW i \in DOMAIN Tail(s), Tail(s)[i].op \in Leaving
             PROVE  /\ QuietFrom(Tail(s), i)
                    /\ \E j \in DOMAIN Tail(s) : j < i /\ Tail(s)[j].op = "stop"
  BY DEF Leaves
<1>1. i + 1 \in DOMAIN s /\ s[i + 1].op \in Leaving
  BY RestOfProgram
<1>2. QuietFrom(s, i + 1)
  BY <1>1 DEF Leaves
<1>3. PICK j \in DOMAIN s : j < i + 1 /\ s[j].op = "stop"
  BY <1>1 DEF Leaves
<1>4. j \in 1 .. Len(s) /\ j # 1
  BY <1>3, RestOfProgram
<1>5. j - 1 \in DOMAIN Tail(s) /\ Tail(s)[j - 1] = s[j]
  BY <1>4, RestOfProgram
<1>6. j - 1 < i
  BY <1>3, <1>4, RestOfProgram
<1>7. QuietFrom(Tail(s), i)
  BY <1>2, RestOfProgram DEF QuietFrom
<1> QED BY <1>3, <1>5, <1>6, <1>7

\* A program that leaves at once leaves quietly; before the loops are stopped
\* it does not leave.
LEMMA LeavesQuietly ==
  ASSUME NEW s \in Program, s # <<>>, Head(s).op \in Leaving
  PROVE  /\ ~Leaves(s)
         /\ After(s) => NoOp(s, {"send", "add", "show"})
<1>1. 1 \in DOMAIN s /\ s[1].op \in Leaving
  BY RestOfProgram
<1>2. ~Leaves(s)
  BY <1>1, RestOfProgram DEF Leaves
<1>3. After(s) => NoOp(s, {"send", "add", "show"})
  BY <1>1, RestOfProgram DEF After, QuietFrom, NoOp
<1> QED BY <1>2, <1>3

LEMMA LeavesAfter == \A s : Leaves(s) => After(s)
BY DEF Leaves, After

LEMMA TailKeepsSends ==
  ASSUME NEW s \in Program, s # <<>>, SendsWell(s)
  PROVE  SendsWell(Tail(s))
<1> SUFFICES ASSUME NEW i \in DOMAIN Tail(s), Tail(s)[i].op = "send"
             PROVE  /\ Tail(s)[i].arg.type # "REGISTRO"
                    /\ Tail(s)[i].arg.type = "EXIT" =>
                         /\ \A j \in DOMAIN Tail(s) : j > i => Tail(s)[j].op # "send"
                         /\ \E j \in DOMAIN Tail(s) : j > i /\ Tail(s)[j].op = "stop"
  BY DEF SendsWell
<1>1. i + 1 \in DOMAIN s /\ s[i + 1] = Tail(s)[i]
  BY RestOfProgram
<1>2. Tail(s)[i].arg.type # "REGISTRO"
  BY <1>1 DEF SendsWell
<1>3. ASSUME Tail(s)[i].arg.type = "EXIT"
      PROVE  /\ \A j \in DOMAIN Tail(s) : j > i => Tail(s)[j].op # "send"
             /\ \E j \in DOMAIN Tail(s) : j > i /\ Tail(s)[j].op = "stop"
  <2>1. \A j \in DOMAIN s : j > i + 1 => s[j].op # "send"
    BY <1>1, <1>3 DEF SendsWell
  <2>2. PICK j \in DOMAIN s : j > i + 1 /\ s[j].op = "stop"
    BY <1>1, <1>3 DEF SendsWell
  <2>3. j - 1 \in DOMAIN Tail(s) /\ j - 1 > i /\ Tail(s)[j - 1] = s[j]
    BY <2>2, RestOfProgram
  <2>4. \A k \in DOMAIN Tail(s) : k > i => Tail(s)[k].op # "send"
    BY <2>1, RestOfProgram
  <2> QED BY <2>2, <2>3, <2>4
<1> QED BY <1>2, <1>3

LEMMA TailKeepsSets ==
  ASSUME NEW s \in Program, s # <<>>, SetsWell(s)
  PROVE  SetsWell(Tail(s))
<1> SUFFICES ASSUME NEW i \in DOMAIN Tail(s)
             PROVE  /\ (Tail(s)[i].op = "send" /\ Tail(s)[i].arg.type = "ESTADO") =>
                         /\ i + 1 \in DOMAIN Tail(s) /\ Tail(s)[i + 1].op = "set"
                         /\ Tail(s)[i + 1].arg = Tail(s)[i].arg.estado
                    /\ (Tail(s)[i].op = "set" /\ i > 1) =>
                         Tail(s)[i - 1].op = "send" /\ Tail(s)[i - 1].arg.type = "ESTADO"
  BY DEF SetsWell
<1>1. i \in 1 .. Len(s) - 1 /\ i + 1 \in DOMAIN s /\ s[i + 1] = Tail(s)[i] /\ Len(s) \in Nat
  BY RestOfProgram
<1>2. ASSUME Tail(s)[i].op = "send", Tail(s)[i].arg.type = "ESTADO"
      PROVE  /\ i + 1 \in DOMAIN Tail(s) /\ Tail(s)[i + 1].op = "set"
             /\ Tail(s)[i + 1].arg = Tail(s)[i].arg.estado
  <2>1. (i + 1) + 1 \in DOMAIN s /\ s[(i + 1) + 1].op = "set" /\ s[(i + 1) + 1].arg = s[i + 1].arg.estado
    BY <1>1, <1>2 DEF SetsWell
  <2>2. i + 1 \in 1 .. Len(s) - 1
    BY <1>1, <2>1, RestOfProgram
  <2>3. i + 1 \in DOMAIN Tail(s) /\ Tail(s)[i + 1] = s[(i + 1) + 1]
    BY <2>2, RestOfProgram
  <2> QED BY <1>1, <2>1, <2>3
<1>3. ASSUME Tail(s)[i].op = "set", i > 1
      PROVE  Tail(s)[i - 1].op = "send" /\ Tail(s)[i - 1].arg.type = "ESTADO"
  <2>1. s[(i + 1) - 1].op = "send" /\ s[(i + 1) - 1].arg.type = "ESTADO"
    <3>1. i + 1 > 1
      BY <1>1
    <3> QED BY <1>1, <1>3, <3>1 DEF SetsWell
  <2>2. i - 1 \in 1 .. Len(s) - 1 /\ (i + 1) - 1 = (i - 1) + 1
    BY <1>1, <1>3
  <2>3. Tail(s)[i - 1] = s[(i - 1) + 1]
    BY <2>2, RestOfProgram
  <2> QED BY <2>1, <2>2, <2>3
<1> QED BY <1>2, <1>3

LEMMA TailKeepsDraws ==
  ASSUME NEW s \in Program, s # <<>>, Draws(s)
  PROVE  Draws(Tail(s))
<1> SUFFICES ASSUME NEW i \in DOMAIN Tail(s), Tail(s)[i].op = "add", Tail(s)[i].arg # End
             PROVE  \E j \in DOMAIN Tail(s) : j > i /\ Tail(s)[j].op = "show"
  BY DEF Draws
<1>1. i + 1 \in DOMAIN s /\ s[i + 1] = Tail(s)[i]
  BY RestOfProgram
<1>2. PICK j \in DOMAIN s : j > i + 1 /\ s[j].op = "show"
  BY <1>1 DEF Draws
<1>3. j - 1 \in DOMAIN Tail(s) /\ j - 1 > i /\ Tail(s)[j - 1] = s[j]
  BY <1>2, RestOfProgram
<1> QED BY <1>2, <1>3

\* What the first step says of the rest.
LEMMA FirstStep ==
  ASSUME NEW s \in Program, s # <<>>
  PROVE  /\ \A op : HasOp(s, op) /\ Head(s).op # op => HasOp(Tail(s), op)
         /\ \A ops : NoOp(s, ops) => NoOp(Tail(s), ops) /\ Head(s).op \notin ops
         /\ Draws(s) /\ Head(s).op = "add" /\ Head(s).arg # End => HasOp(Tail(s), "show")
         /\ SendsWell(s) /\ Head(s).op = "send" => Head(s).arg.type # "REGISTRO"
         /\ SendsWell(s) /\ Head(s).op = "send" /\ Head(s).arg.type = "EXIT" =>
              NoOp(Tail(s), {"send"}) /\ HasOp(Tail(s), "stop")
         /\ SetsWell(s) /\ Head(s).op = "send" /\ Head(s).arg.type = "ESTADO" =>
              /\ Tail(s) # <<>> /\ Head(Tail(s)).op = "set"
              /\ Head(Tail(s)).arg = Head(s).arg.estado
         /\ SetsWell(s) /\ Tail(s) # <<>> /\ Head(Tail(s)).op = "set" =>
              Head(s).op = "send" /\ Head(s).arg.type = "ESTADO"
<1>1. ASSUME NEW op, HasOp(s, op), Head(s).op # op PROVE HasOp(Tail(s), op)
  <2>1. PICK i \in DOMAIN s : s[i].op = op
    BY <1>1 DEF HasOp
  <2>2. i # 1
    BY <1>1, <2>1, RestOfProgram
  <2>3. i - 1 \in DOMAIN Tail(s) /\ Tail(s)[i - 1] = s[i]
    BY <2>2, RestOfProgram
  <2> QED BY <2>1, <2>3 DEF HasOp
<1>2. ASSUME NEW ops, NoOp(s, ops) PROVE NoOp(Tail(s), ops) /\ Head(s).op \notin ops
  BY <1>2, RestOfProgram DEF NoOp
<1>3. ASSUME Draws(s), Head(s).op = "add", Head(s).arg # End PROVE HasOp(Tail(s), "show")
  <2>1. PICK j \in DOMAIN s : j > 1 /\ s[j].op = "show"
    BY <1>3, RestOfProgram DEF Draws
  <2>2. j - 1 \in DOMAIN Tail(s) /\ Tail(s)[j - 1] = s[j]
    BY <2>1, RestOfProgram
  <2> QED BY <2>1, <2>2 DEF HasOp
<1>4. ASSUME SendsWell(s), Head(s).op = "send" PROVE Head(s).arg.type # "REGISTRO"
  BY <1>4, RestOfProgram DEF SendsWell
<1>5. ASSUME SendsWell(s), Head(s).op = "send", Head(s).arg.type = "EXIT"
      PROVE  NoOp(Tail(s), {"send"}) /\ HasOp(Tail(s), "stop")
  <2>0. 1 \in DOMAIN s /\ s[1].op = "send" /\ s[1].arg.type = "EXIT"
    BY <1>5, RestOfProgram
  <2>1. \A j \in DOMAIN s : j > 1 => s[j].op # "send"
    BY <1>5, <2>0 DEF SendsWell
  <2>2. PICK j \in DOMAIN s : j > 1 /\ s[j].op = "stop"
    BY <1>5, <2>0 DEF SendsWell
  <2>3. j - 1 \in DOMAIN Tail(s) /\ Tail(s)[j - 1] = s[j]
    BY <2>2, RestOfProgram
  <2>4. NoOp(Tail(s), {"send"})
    BY <2>1, RestOfProgram DEF NoOp
  <2> QED BY <2>2, <2>3, <2>4 DEF HasOp
<1>6. Tail(s) # <<>> => Head(Tail(s)) = s[2] /\ 2 \in DOMAIN s
  <2> SUFFICES ASSUME Tail(s) # <<>> PROVE Head(Tail(s)) = s[2] /\ 2 \in DOMAIN s
    OBVIOUS
  <2>1. Tail(s) \in Program /\ DOMAIN Tail(s) = 1 .. Len(s) - 1
    BY RestOfProgram
  <2>2. Head(Tail(s)) = Tail(s)[1] /\ 1 \in DOMAIN Tail(s)
    <3>1. DOMAIN Tail(s) = 1 .. Len(Tail(s)) /\ Len(Tail(s)) \in Nat \ {0} /\ Head(Tail(s)) = Tail(s)[1]
      BY <2>1, RestOfProgram
    <3> QED BY <3>1
  <2> QED BY <2>1, <2>2, RestOfProgram
<1>7. ASSUME SetsWell(s), Head(s).op = "send", Head(s).arg.type = "ESTADO"
      PROVE  /\ Tail(s) # <<>> /\ Head(Tail(s)).op = "set"
             /\ Head(Tail(s)).arg = Head(s).arg.estado
  <2>1. 1 \in DOMAIN s /\ s[1] = Head(s)
    BY RestOfProgram
  <2>2. 1 + 1 \in DOMAIN s /\ s[1 + 1].op = "set" /\ s[1 + 1].arg = s[1].arg.estado
    BY <1>7, <2>1 DEF SetsWell
  <2>3. Tail(s) # <<>>
    <3>1. 1 \in DOMAIN Tail(s) /\ Tail(s) \in Seq(Step)
      BY <2>2, RestOfProgram DEF Program
    <3>2. Len(Tail(s)) # 0
      <4>1. PICK n \in Nat : n = Len(Tail(s)) /\ DOMAIN Tail(s) = 1 .. n
        BY <3>1, LenProperties
      <4>2. 1 \in 1 .. n
        BY <3>1, <4>1
      <4>3. n # 0
        BY <4>2
      <4> QED BY <4>1, <4>3
    <3> QED BY <3>2, EmptySeq
  <2> QED BY <1>6, <2>1, <2>2, <2>3
<1>8. ASSUME SetsWell(s), Tail(s) # <<>>, Head(Tail(s)).op = "set"
      PROVE  Head(s).op = "send" /\ Head(s).arg.type = "ESTADO"
  <2>1. 2 \in DOMAIN s /\ s[2].op = "set"
    BY <1>6, <1>8
  <2>2. s[2 - 1].op = "send" /\ s[2 - 1].arg.type = "ESTADO"
    BY <1>8, <2>1 DEF SetsWell
  <2> QED BY <2>2, RestOfProgram
<1> QED BY <1>1, <1>2, <1>3, <1>4, <1>5, <1>7, <1>8

-----------------------------------------------------------------------------
(***************************************************************************)
(* The programs of the code.                                               *)
(***************************************************************************)

WellFormed(s) == Leaves(s) /\ SendsWell(s) /\ SetsWell(s) /\ Draws(s) /\ StartsWell(s)

\* Lines added, and the screen drawn, after what p does.
LEMMA ShownAfter ==
  ASSUME NEW of \in Thread, NEW n \in Number, NEW k \in Nat, NEW p \in Program
  PROVE  LET s == p \o Show(of, n, k) IN
         /\ s \in Program /\ DOMAIN s = 1 .. Len(p) + k + 1 /\ DOMAIN p = 1 .. Len(p)
         /\ Len(p) \in Nat
         /\ \A i \in DOMAIN p : s[i] = p[i]
         /\ \A i \in Len(p) + 1 .. Len(p) + k : s[i].op = "add"
         /\ s[Len(p) + k + 1].op = "show"
<1> DEFINE a == [i \in 1 .. k |-> Add([of |-> of, n |-> n])]
           z == <<Do("show")>>
           q == a \o z
<1>1. Add([of |-> of, n |-> n]) \in Step /\ Do("show") \in Step
  BY DEF Step, Line, Add, Do
<1>2. a \in Seq(Step) /\ Len(a) = k /\ \A i \in 1 .. k : a[i] = Add([of |-> of, n |-> n])
  BY <1>1
<1>3. z \in Seq(Step) /\ Len(z) = 1 /\ z[1] = Do("show")
  BY <1>1
<1> HIDE DEF a, z
<1>4. /\ q \in Seq(Step) /\ Len(q) = k + 1
      /\ \A i \in 1 .. k + 1 : q[i] = IF i <= k THEN a[i] ELSE z[i - k]
  <2>1. /\ a \o z \in Seq(Step) /\ Len(a \o z) = Len(a) + Len(z)
        /\ \A i \in 1 .. Len(a) + Len(z) : (a \o z)[i] = IF i <= Len(a) THEN a[i] ELSE z[i - Len(a)]
    BY <1>2, <1>3, ConcatProperties
  <2> QED BY <1>2, <1>3, <2>1
<1>5. Show(of, n, k) = q
  BY DEF Show, a, z
<1> HIDE DEF q
<1>6. Len(p) \in Nat /\ DOMAIN p = 1 .. Len(p)
  BY LenProperties DEF Program
<1>7. /\ p \o q \in Seq(Step) /\ Len(p \o q) = Len(p) + (k + 1)
      /\ \A i \in 1 .. Len(p) + (k + 1) : (p \o q)[i] = IF i <= Len(p) THEN p[i] ELSE q[i - Len(p)]
  <2>1. p \in Seq(Step) /\ q \in Seq(Step)
    BY <1>4 DEF Program
  <2>2. /\ p \o q \in Seq(Step) /\ Len(p \o q) = Len(p) + Len(q)
        /\ \A i \in 1 .. Len(p) + Len(q) : (p \o q)[i] = IF i <= Len(p) THEN p[i] ELSE q[i - Len(p)]
    BY <2>1, ConcatProperties
  <2> QED BY <1>4, <2>2
<1>8. DOMAIN (p \o q) = 1 .. Len(p) + k + 1
  BY <1>6, <1>7, LenProperties
<1>9. \A i \in DOMAIN p : (p \o q)[i] = p[i]
  BY <1>6, <1>7
<1>10. ASSUME NEW i \in Len(p) + 1 .. Len(p) + k PROVE (p \o q)[i].op = "add"
  <2>1. i - Len(p) \in 1 .. k /\ i \in 1 .. Len(p) + (k + 1) /\ ~(i <= Len(p))
    BY <1>6
  <2>2. (p \o q)[i] = q[i - Len(p)]
    BY <1>7, <2>1
  <2>3. q[i - Len(p)] = a[i - Len(p)]
    BY <1>4, <2>1
  <2> QED BY <1>2, <2>1, <2>2, <2>3 DEF Add
<1>11. (p \o q)[Len(p) + k + 1].op = "show"
  <2>1. (p \o q)[Len(p) + k + 1] = q[k + 1]
    BY <1>6, <1>7
  <2>2. q[k + 1] = z[1]
    BY <1>4
  <2> QED BY <1>3, <2>1, <2>2 DEF Do
<1> QED BY <1>5, <1>6, <1>7, <1>8, <1>9, <1>10, <1>11 DEF Program

\* If p is a request, or a request and what it sets, or nothing.
LEMMA ShowingIsWellFormed ==
  ASSUME NEW of \in Thread, NEW n \in Number, NEW k \in Nat, NEW p \in Program,
         \A i \in DOMAIN p : p[i].op \in {"send", "set"},
         \A i \in DOMAIN p : p[i].op = "send" => p[i].arg.type \notin {"REGISTRO", "EXIT"},
         SetsWell(p), StartsWell(p)
  PROVE  p \o Show(of, n, k) \in Program /\ WellFormed(p \o Show(of, n, k))
<1> DEFINE s == p \o Show(of, n, k)
<1>1. /\ s \in Program /\ DOMAIN s = 1 .. Len(p) + k + 1 /\ DOMAIN p = 1 .. Len(p)
      /\ Len(p) \in Nat
      /\ \A i \in DOMAIN p : s[i] = p[i]
      /\ \A i \in Len(p) + 1 .. Len(p) + k : s[i].op = "add"
      /\ s[Len(p) + k + 1].op = "show"
  BY ShownAfter
<1> HIDE DEF s
<1>2. ASSUME NEW i \in DOMAIN s
      PROVE  i \in DOMAIN p \/ s[i].op \in {"add", "show"}
  <2>1. i \in DOMAIN p \/ i \in Len(p) + 1 .. Len(p) + k \/ i = Len(p) + k + 1
    BY <1>1
  <2> QED BY <1>1, <2>1
<1>3. Leaves(s)
  BY <1>1, <1>2 DEF Leaves, Leaving
<1>4. SendsWell(s)
  BY <1>1, <1>2 DEF SendsWell
<1>5. SetsWell(s)
  <2> SUFFICES ASSUME NEW i \in DOMAIN s
               PROVE  /\ (s[i].op = "send" /\ s[i].arg.type = "ESTADO") =>
                           i + 1 \in DOMAIN s /\ s[i + 1].op = "set" /\ s[i + 1].arg = s[i].arg.estado
                      /\ (s[i].op = "set" /\ i > 1) =>
                           s[i - 1].op = "send" /\ s[i - 1].arg.type = "ESTADO"
    BY DEF SetsWell
  <2>1. ASSUME s[i].op = "send", s[i].arg.type = "ESTADO"
        PROVE  i + 1 \in DOMAIN s /\ s[i + 1].op = "set" /\ s[i + 1].arg = s[i].arg.estado
    <3>1. i \in DOMAIN p /\ s[i] = p[i]
      BY <1>1, <1>2, <2>1
    <3>2. i + 1 \in DOMAIN p /\ p[i + 1].op = "set" /\ p[i + 1].arg = p[i].arg.estado
      BY <2>1, <3>1 DEF SetsWell
    <3>3. i + 1 \in DOMAIN s
      BY <1>1, <3>2
    <3> QED BY <1>1, <3>1, <3>2, <3>3
  <2>2. ASSUME s[i].op = "set", i > 1
        PROVE  s[i - 1].op = "send" /\ s[i - 1].arg.type = "ESTADO"
    <3>1. i \in DOMAIN p /\ s[i] = p[i]
      BY <1>1, <1>2, <2>2
    <3>2. p[i - 1].op = "send" /\ p[i - 1].arg.type = "ESTADO"
      BY <2>2, <3>1 DEF SetsWell
    <3>3. i - 1 \in DOMAIN p
      BY <1>1, <2>2, <3>1
    <3> QED BY <1>1, <3>2, <3>3
  <2> QED BY <2>1, <2>2
<1>6. Draws(s)
  <2> SUFFICES ASSUME NEW i \in DOMAIN s, s[i].op = "add"
               PROVE  \E j \in DOMAIN s : j > i /\ s[j].op = "show"
    BY DEF Draws
  <2>1. i # Len(p) + k + 1 /\ Len(p) + k + 1 \in DOMAIN s
    BY <1>1
  <2>2. Len(p) + k + 1 > i
    BY <1>1, <2>1
  <2> QED BY <1>1, <2>1, <2>2
<1>7. StartsWell(s)
  <2>1. CASE 1 \in DOMAIN p
    <3>1. p # <<>>
      BY <1>1, <2>1, EmptySeq
    <3> QED BY <1>1, <2>1, <3>1 DEF StartsWell
  <2>2. CASE 1 \notin DOMAIN p
    <3>1. 1 \in DOMAIN s
      BY <1>1
    <3> QED BY <1>2, <2>2, <3>1 DEF StartsWell
  <2> QED BY <2>1, <2>2
<1> QED BY <1>1, <1>3, <1>4, <1>5, <1>6, <1>7 DEF s, WellFormed

LEMMA ShowIsProgram ==
  ASSUME NEW of \in Thread, NEW n \in Number, NEW k \in Nat
  PROVE  Show(of, n, k) \in Program /\ WellFormed(Show(of, n, k))
<1>1. Add([of |-> of, n |-> n]) \in Step /\ Do("show") \in Step
  BY DEF Step, Line, Add, Do
<1>2. [i \in 1 .. k |-> Add([of |-> of, n |-> n])] \in Seq(Step) /\ <<Do("show")>> \in Seq(Step)
  BY <1>1
<1>3. Show(of, n, k) \in Seq(Step)
  BY <1>2, ConcatProperties DEF Show
<1>4. <<>> \o Show(of, n, k) = Show(of, n, k)
  BY <1>3, ConcatEmptySeq
<1>5. \A i \in DOMAIN <<>> : FALSE
  OBVIOUS
<1>6. <<>> \o Show(of, n, k) \in Program /\ WellFormed(<<>> \o Show(of, n, k))
  BY <1>5, EmptyProgram, ShowingIsWellFormed
<1> QED BY <1>4, <1>6

\* A request alone, that is no registration, no EXIT and no status.
LEMMA RequestIsProgram ==
  ASSUME NEW type \in {"BROADCAST", "DM", "LISTA", "MOSTRAR"}
  PROVE  LET p == <<Ask(type, None)>> IN
         /\ p \in Program /\ DOMAIN p = {1} /\ p[1].op = "send" /\ p[1].arg.type = type
         /\ WellFormed(p)
<1> DEFINE p == <<Ask(type, None)>>
<1>1. Ask(type, None) \in Step /\ Ask(type, None).op = "send" /\ Ask(type, None).arg.type = type
  BY DEF Step, Ask, Send, Request
<1>2. p \in Seq(Step) /\ DOMAIN p = {1} /\ p[1] = Ask(type, None)
  BY <1>1
<1> HIDE DEF p
<1>3. \A i \in DOMAIN p : i = 1 /\ p[i].op = "send" /\ p[i].arg.type = type
  BY <1>1, <1>2
<1>4. Leaves(p)
  BY <1>3 DEF Leaves, Leaving
<1>5. SendsWell(p)
  BY <1>3 DEF SendsWell
<1>6. SetsWell(p)
  BY <1>3 DEF SetsWell
<1>7. Draws(p)
  BY <1>3 DEF Draws
<1>8. StartsWell(p)
  BY <1>1, <1>2 DEF StartsWell
<1> QED BY <1>1, <1>2, <1>4, <1>5, <1>6, <1>7, <1>8 DEF p, Program, WellFormed

LEMMA ExitIsProgram == HandleExit \in Program /\ WellFormed(HandleExit)
<1>1. /\ Ask("EXIT", None) \in Step /\ Do("stop") \in Step /\ Do("shutdown") \in Step
      /\ Do("close") \in Step /\ Do("cancel") \in Step /\ Do("join") \in Step
  BY DEF Step, Ask, Send, Do, Request
<1>2. HandleExit \in Seq(Step) /\ DOMAIN HandleExit = 1 .. 6
  BY <1>1 DEF HandleExit
<1>3. /\ HandleExit[1].op = "send" /\ HandleExit[1].arg.type = "EXIT"
      /\ HandleExit[2].op = "stop" /\ HandleExit[3].op = "shutdown"
      /\ HandleExit[4].op = "close" /\ HandleExit[5].op = "cancel" /\ HandleExit[6].op = "join"
  BY DEF HandleExit, Ask, Send, Do
<1> DEFINE s == HandleExit
<1>4. s \in Seq(Step) /\ DOMAIN s = 1 .. 6
  BY <1>2
<1>5. /\ s[1].op = "send" /\ s[1].arg.type = "EXIT" /\ s[2].op = "stop" /\ s[3].op = "shutdown"
      /\ s[4].op = "close" /\ s[5].op = "cancel" /\ s[6].op = "join"
  BY <1>3
<1> HIDE DEF s
<1>6. \A i \in DOMAIN s :
        /\ i # 1 => s[i].op \notin {"send", "set", "add", "show"}
        /\ s[i].op \in Leaving => i > 2
  BY <1>4, <1>5 DEF Leaving
<1>7. 2 \in DOMAIN s /\ \A i \in DOMAIN s : s[i].op = "send" => i = 1
  BY <1>4, <1>6
<1>8. Leaves(s)
  BY <1>4, <1>5, <1>6, <1>7 DEF Leaves, QuietFrom
<1>9. SendsWell(s)
  BY <1>4, <1>5, <1>6, <1>7 DEF SendsWell
<1>10. SetsWell(s)
  BY <1>4, <1>5, <1>6, <1>7 DEF SetsWell
<1>11. Draws(s)
  BY <1>4, <1>5, <1>6 DEF Draws
<1>12. StartsWell(s)
  BY <1>5 DEF StartsWell
<1> QED BY <1>4, <1>8, <1>9, <1>10, <1>11, <1>12 DEF s, Program, WellFormed

LEMMA EstadoIsProgram ==
  ASSUME NEW e \in Estado \cup {"otro"}, NEW n \in Number
  PROVE  HandleEstado(e, n) \in Program /\ WellFormed(HandleEstado(e, n))
<1>1. "main" \in Thread /\ 1 \in Nat
  BY DEF Thread
<1>2. CASE e \notin Estado
  BY <1>1, <1>2, ShowIsProgram DEF HandleEstado
<1>3. CASE e \in Estado
  <2> DEFINE p == <<Ask("ESTADO", e), Set(e)>>
  <2>1. Ask("ESTADO", e) \in Step /\ Set(e) \in Step
    BY <1>3 DEF Step, Ask, Send, Set, Request
  <2>2. p \in Seq(Step) /\ DOMAIN p = 1 .. 2 /\ p[1] = Ask("ESTADO", e) /\ p[2] = Set(e)
    BY <2>1
  <2>3. /\ p[1].op = "send" /\ p[1].arg.type = "ESTADO" /\ p[1].arg.estado = e
        /\ p[2].op = "set" /\ p[2].arg = e
    BY <2>2 DEF Ask, Send, Set
  <2>4. HandleEstado(e, n) = p \o Show("main", n, 1)
    BY <1>3 DEF HandleEstado
  <2> HIDE DEF p
  <2>5. \A i \in DOMAIN p : i = 1 \/ i = 2
    BY <2>2
  <2>6. /\ \A i \in DOMAIN p : p[i].op \in {"send", "set"}
        /\ \A i \in DOMAIN p : p[i].op = "send" => p[i].arg.type \notin {"REGISTRO", "EXIT"}
    BY <2>3, <2>5
  <2>7. SetsWell(p)
    <3>1. ASSUME NEW i \in DOMAIN p, p[i].op = "send", p[i].arg.type = "ESTADO"
          PROVE  i + 1 \in DOMAIN p /\ p[i + 1].op = "set" /\ p[i + 1].arg = p[i].arg.estado
      <4>1. i = 1
        BY <2>3, <2>5, <3>1
      <4>2. i + 1 = 2 /\ 2 \in DOMAIN p
        BY <2>2, <4>1
      <4> QED BY <2>3, <4>1, <4>2
    <3>2. ASSUME NEW i \in DOMAIN p, p[i].op = "set", i > 1
          PROVE  p[i - 1].op = "send" /\ p[i - 1].arg.type = "ESTADO"
      <4>1. i - 1 = 1
        BY <2>5, <3>2
      <4> QED BY <2>3, <4>1
    <3> QED BY <3>1, <3>2 DEF SetsWell
  <2>8. StartsWell(p)
    BY <2>3 DEF StartsWell
  <2> QED BY <1>1, <2>2, <2>4, <2>6, <2>7, <2>8, ShowingIsWellFormed DEF Program
<1> QED BY <1>2, <1>3

LEMMA CommandsAreWellFormed ==
  ASSUME NEW c \in Command, NEW n \in Number
  PROVE  ManejarComando(c, n) \in Program /\ WellFormed(ManejarComando(c, n))
<1>0. "main" \in Thread /\ 1 \in Nat /\ HelpLines \in Nat
  BY ClientAssumption DEF Thread
<1>1. CASE c.cmd = "EXIT"
  BY <1>1, ExitIsProgram DEF ManejarComando
<1>2. ASSUME NEW type \in {"BROADCAST", "DM"}
      PROVE  /\ <<Ask(type, None)>> \o Show("main", n, 1) \in Program
             /\ WellFormed(<<Ask(type, None)>> \o Show("main", n, 1))
  <2> DEFINE p == <<Ask(type, None)>>
  <2>1. p \in Program /\ DOMAIN p = {1} /\ p[1].op = "send" /\ p[1].arg.type = type /\ WellFormed(p)
    BY RequestIsProgram
  <2> HIDE DEF p
  <2>2. p \o Show("main", n, 1) \in Program /\ WellFormed(p \o Show("main", n, 1))
    BY <1>0, <2>1, ShowingIsWellFormed DEF WellFormed
  <2> QED BY <2>2 DEF p
<1>3. CASE c.cmd \in {"BROADCAST", "texto"}
  <2>1. ManejarComando(c, n) = <<Ask("BROADCAST", None)>> \o Show("main", n, 1)
    BY <1>3 DEF ManejarComando
  <2> QED BY <1>2, <2>1
<1>4. CASE c.cmd = "DM"
  <2>1. ManejarComando(c, n) = <<Ask("DM", None)>> \o Show("main", n, 1)
    BY <1>4 DEF ManejarComando
  <2> QED BY <1>2, <2>1
<1>5. CASE c.cmd \in {"LISTA", "MOSTRAR"}
  <2>1. ManejarComando(c, n) = <<Ask(c.cmd, None)>>
    BY <1>5 DEF ManejarComando
  <2> QED BY <1>5, <2>1, RequestIsProgram
<1>6. CASE c.cmd = "ESTADO"
  <2>1. ManejarComando(c, n) = HandleEstado(c.estado, n)
    BY <1>6 DEF ManejarComando
  <2>2. c.estado \in Estado \cup {"otro"}
    BY <1>6 DEF Command
  <2> QED BY <2>1, <2>2, EstadoIsProgram
<1>7. CASE c.cmd = "AYUDA"
  <2>1. ManejarComando(c, n) = Show("main", n, HelpLines)
    BY <1>7 DEF ManejarComando
  <2> QED BY <1>0, <2>1, ShowIsProgram
<1>8. CASE c.cmd = "desconocido"
  <2>1. ManejarComando(c, n) = Show("main", n, 1)
    BY <1>8 DEF ManejarComando
  <2> QED BY <1>0, <2>1, ShowIsProgram
<1>9. CASE c.cmd = "vacio"
  <2>1. ManejarComando(c, n) = <<>>
    BY <1>9 DEF ManejarComando
  <2> QED BY <2>1, EmptyProgram DEF WellFormed
<1> QED BY <1>1, <1>3, <1>4, <1>5, <1>6, <1>7, <1>8, <1>9 DEF Command

LEMMA MessagesAreWellFormed ==
  ASSUME NEW m \in Message, NEW n \in Number
  PROVE  Handle(m, n) \in Program /\ WellFormed(Handle(m, n))
<1>1. Lines(m) \in Nat
  BY DEF Lines, Message
<1>2. "recv" \in Thread
  BY DEF Thread
<1>3. CASE Lines(m) = 0
  BY <1>3, EmptyProgram DEF Handle, WellFormed
<1>4. CASE Lines(m) # 0
  BY <1>1, <1>2, <1>4, ShowIsProgram DEF Handle
<1> QED BY <1>3, <1>4

-----------------------------------------------------------------------------
(***************************************************************************)
(* Types.                                                                  *)
(***************************************************************************)

LEMMA InitTypes == Init => TypeOK
<1> SUFFICES ASSUME Init PROVE TypeOK
  OBVIOUS
<1>1. /\ mpc \in MainPc /\ rpc \in RecvPc /\ todo \in [Thread -> Seq(Step)]
      /\ message_history \in [Index -> Line \cup {None}] /\ history_count \in 0 .. MAX_HISTORY
  BY EmptySeq, ClientAssumption DEF Init, MainPc, RecvPc
<1>2. /\ holder \in Thread \cup {None} /\ screen \in Seq(Line \cup {None})
      /\ estado \in Estado /\ running \in BOOLEAN /\ read_size \in {"unset", "plus", "zero", "minus"}
  BY EmptySeq DEF Init, Estado
<1>3. /\ sock \subseteq {"shut", "closed"} /\ peer \subseteq {"fin", "rst"} /\ cancelled \in BOOLEAN
      /\ inbox \in Seq(InboxItem) /\ sent \in Seq(Request) /\ written \in Seq(Line)
      /\ inputs \in 0 .. MaxInput /\ arrived \in 0 .. MaxMessages
  <2>1. <<>> \in Seq(InboxItem) /\ <<>> \in Seq(Request) /\ <<>> \in Seq(Line)
    BY EmptySeq
  <2>2. 0 \in 0 .. MaxInput /\ 0 \in 0 .. MaxMessages
    BY ClientAssumption
  <2>3. inbox \in Seq(InboxItem) /\ sent \in Seq(Request) /\ written \in Seq(Line)
    BY <2>1 DEF Init
  <2>4. inputs \in 0 .. MaxInput /\ arrived \in 0 .. MaxMessages
    BY <2>2 DEF Init
  <2> QED BY <2>3, <2>4 DEF Init
<1> QED BY <1>1, <1>2, <1>3 DEF TypeOK

\* What a step that is ready is, and what is left after it.
LEMMA ReadyStep ==
  ASSUME TypeOK, NEW t \in Thread, NEW op, Ready(t, op)
  PROVE  /\ todo[t] \in Program /\ todo[t] # <<>> /\ Head(todo[t]) \in Step /\ Head(todo[t]).op = op
         /\ Tail(todo[t]) \in Program
         /\ Done(t) => /\ todo' \in [Thread -> Program] /\ todo'[t] = Tail(todo[t])
                       /\ \A u \in Thread \ {t} : todo'[u] = todo[u]
<1>1. todo \in [Thread -> Program] /\ todo[t] # <<>> /\ Head(todo[t]).op = op
  BY DEF TypeOK, Ready, Program
<1>2. Head(todo[t]) \in Step /\ Tail(todo[t]) \in Program
  BY <1>1, RestOfProgram
<1> QED BY <1>1, <1>2 DEF Done

\* What is left of what arrived, and what was received.
LEMMA ReceivedTypes ==
  ASSUME TypeOK, NEW k, Received(k)
  PROVE  inbox' \in Seq(InboxItem) /\ inbox[1] \in InboxItem
<1>1. inbox \in Seq(InboxItem)
  BY DEF TypeOK
<1>2. PICK n \in Nat : n = Len(inbox) /\ DOMAIN inbox = 1 .. n
  BY <1>1, LenProperties
<1>3. k \in 1 .. n /\ inbox' = SubSeq(inbox, k + 1, n)
  BY <1>2 DEF Received
<1>4. PICK j \in Int : j = k + 1
  BY <1>3
<1>5. \A i \in j .. n : inbox[i] \in InboxItem
  <2>1. \A i \in j .. n : i \in 1 .. Len(inbox)
    BY <1>2, <1>3, <1>4
  <2> QED BY <1>1, <2>1, ElementOfSeq
<1>6. n \in Int
  OBVIOUS
<1>7. SubSeq(inbox, j, n) \in Seq(InboxItem)
  BY <1>4, <1>5, <1>6, SubSeqProperties
<1>8. 1 \in 1 .. Len(inbox)
  BY <1>2, <1>3
<1> QED BY <1>1, <1>3, <1>4, <1>7, <1>8, ElementOfSeq

\* What is written is appended to what was sent, or the process ends.
LEMMA WriteTypes ==
  ASSUME TypeOK, NEW r \in Request, NEW next \in MainPc, NEW error \in MainPc,
         Write(r, next, error)
  PROVE  mpc' \in MainPc /\ peer' \subseteq {"fin", "rst"} /\ sent' \in Seq(Request)
<1>1. sent \in Seq(Request) /\ peer \subseteq {"fin", "rst"}
  BY DEF TypeOK
<1>2. Append(sent, r) \in Seq(Request)
  BY <1>1, AppendProperties
<1>3. sent' \in Seq(Request)
  BY <1>1, <1>2 DEF Write
<1>4. peer' \subseteq {"fin", "rst"}
  BY <1>1 DEF Write
<1>5. mpc' \in MainPc
  BY DEF Write, MainPc
<1> QED BY <1>3, <1>4, <1>5

LEMMA NextTypes == TypeOK /\ [Next]_vars => TypeOK'
<1> SUFFICES ASSUME TypeOK, [Next]_vars PROVE TypeOK'
  OBVIOUS
<1> USE ClientAssumption
<1>0. "main" \in Thread /\ "recv" \in Thread
  BY DEF Thread
<1>1. CASE Connect
  <2>1. [type |-> "REGISTRO", estado |-> None] \in Request
    BY DEF Request
  <2>2. mpc' \in MainPc /\ peer' \subseteq {"fin", "rst"} /\ sent' \in Seq(Request)
    <3>1. CASE mpc' = "failed" /\ UNCHANGED <<sent, peer>>
      BY <3>1 DEF TypeOK, MainPc
    <3>2. CASE Write([type |-> "REGISTRO", estado |-> None], "answer", "failed")
      BY <2>1, <3>2, WriteTypes DEF MainPc
    <3> QED BY <1>1, <3>1, <3>2 DEF Connect
  <2> QED BY <1>1, <2>2 DEF TypeOK, Connect, historyVars
<1>2. CASE Answer
  <2>1. inbox' \in Seq(InboxItem)
    BY <1>2, ReceivedTypes DEF TypeOK, Answer
  <2> QED BY <1>2, <2>1 DEF TypeOK, Answer, historyVars, MainPc
<1>3. CASE CreateThread
  BY <1>3 DEF TypeOK, CreateThread, historyVars, netVars, MainPc, RecvPc
<1>4. CASE TestRunning
  BY <1>4 DEF TypeOK, TestRunning, historyVars, netVars, MainPc
<1>5. CASE EndCommand
  BY <1>5 DEF TypeOK, EndCommand, historyVars, netVars, MainPc
<1>6. CASE EnviarJson
  <2>1. Ready("main", "send")
    BY <1>6 DEF EnviarJson
  <2>2. Head(todo["main"]).arg \in Request
    BY <1>0, <2>1, ReadyStep, StepFields
  <2>3. todo' \in [Thread -> Seq(Step)]
    BY <1>0, <1>6, <2>1, ReadyStep DEF EnviarJson, Program
  <2>4. mpc' \in MainPc /\ peer' \subseteq {"fin", "rst"} /\ sent' \in Seq(Request)
    BY <1>6, <2>2, WriteTypes DEF EnviarJson, MainPc
  <2> QED BY <1>6, <2>3, <2>4 DEF TypeOK, EnviarJson, historyVars
<1>7. CASE SetEstado
  <2>1. Ready("main", "set")
    BY <1>7 DEF SetEstado
  <2>2. Head(todo["main"]).arg \in Estado
    BY <1>0, <2>1, ReadyStep, StepFields
  <2>3. todo' \in [Thread -> Seq(Step)]
    BY <1>0, <1>7, <2>1, ReadyStep DEF SetEstado, Program
  <2> QED BY <1>7, <2>2, <2>3 DEF TypeOK, SetEstado, historyVars, netVars
<1>8. CASE StopRunning
  <2>1. todo' \in [Thread -> Seq(Step)]
    BY <1>0, <1>8, ReadyStep DEF StopRunning, Program
  <2> QED BY <1>8, <2>1 DEF TypeOK, StopRunning, historyVars, netVars
<1>9. CASE LeaveSocket
  <2>1. todo' \in [Thread -> Seq(Step)]
    BY <1>0, <1>9, ReadyStep DEF LeaveSocket, Program
  <2>2. sock' \subseteq {"shut", "closed"}
    BY <1>9 DEF TypeOK, LeaveSocket
  <2> QED BY <1>9, <2>1, <2>2 DEF TypeOK, LeaveSocket, historyVars
<1>10. CASE Cancel
  <2>1. todo' \in [Thread -> Seq(Step)]
    BY <1>0, <1>10, ReadyStep DEF Cancel, Program
  <2>2. mpc' \in MainPc /\ cancelled' \in BOOLEAN
    BY <1>10 DEF TypeOK, Cancel, MainPc
  <2> QED BY <1>10, <2>1, <2>2 DEF TypeOK, Cancel, historyVars, netVars
<1>11. CASE Join
  <2>1. todo' \in [Thread -> Seq(Step)]
    BY <1>0, <1>11, ReadyStep DEF Join, Program
  <2> QED BY <1>11, <2>1 DEF TypeOK, Join, historyVars, netVars
<1>12. CASE CloseAtEnd
  BY <1>12 DEF TypeOK, CloseAtEnd, historyVars, MainPc
<1>13. CASE JoinAtEnd
  BY <1>13 DEF TypeOK, JoinAtEnd, historyVars, netVars, MainPc
<1>14. ASSUME NEW t \in Thread, Lock(t) PROVE TypeOK'
  BY <1>14 DEF TypeOK, Lock, historyVars, netVars
<1>15. ASSUME NEW t \in Thread, AddToHistory(t) PROVE TypeOK'
  <2>1. Ready(t, "add") /\ Done(t)
    BY <1>15 DEF AddToHistory
  <2>2. Head(todo[t]).arg \in Line
    BY <2>1, ReadyStep, StepFields
  <2>3. todo' \in [Thread -> Seq(Step)]
    BY <2>1, ReadyStep DEF Program
  <2>4. written' \in Seq(Line)
    BY <1>15, <2>2 DEF AddToHistory, TypeOK
  <2>5. CASE history_count < MAX_HISTORY
    <3>1. history_count \in Index /\ history_count + 1 \in 0 .. MAX_HISTORY
      BY <2>5 DEF TypeOK, Index
    <3>2. /\ message_history' \in [Index -> Line \cup {None}]
          /\ history_count' \in 0 .. MAX_HISTORY
      BY <1>15, <2>2, <2>5, <3>1 DEF AddToHistory, TypeOK
    <3> QED BY <1>15, <2>3, <2>4, <3>2 DEF AddToHistory, TypeOK, netVars
  <2>6. CASE ~(history_count < MAX_HISTORY)
    <3>1. ASSUME NEW l \in Line PROVE Shifted(l) \in [Index -> Line \cup {None}]
      <4>1. \A i \in Index : i # MAX_HISTORY - 1 => i + 1 \in Index
        BY DEF Index
      <4> QED BY <4>1 DEF Shifted, TypeOK
    <3>2. /\ message_history' \in [Index -> Line \cup {None}]
          /\ history_count' \in 0 .. MAX_HISTORY
      BY <1>15, <2>2, <2>6, <3>1 DEF AddToHistory, TypeOK
    <3> QED BY <1>15, <2>3, <2>4, <3>2 DEF AddToHistory, TypeOK, netVars
  <2> QED BY <2>5, <2>6
<1>16. ASSUME NEW t \in Thread, DisplayHistory(t) PROVE TypeOK'
  <2>1. todo' \in [Thread -> Seq(Step)]
    BY <1>16, ReadyStep DEF DisplayHistory, Program
  <2>2. History \in Seq(Line \cup {None})
    <3>1. history_count \in Nat /\ \A i \in 1 .. history_count : i - 1 \in Index
      BY DEF TypeOK, Index
    <3>2. \A i \in 1 .. history_count : message_history[i - 1] \in Line \cup {None}
      BY <3>1 DEF TypeOK
    <3> QED BY <3>1, <3>2 DEF History
  <2> QED BY <1>16, <2>1, <2>2 DEF TypeOK, DisplayHistory, historyVars, netVars
<1>17. ASSUME NEW c \in Typed, Type(c) PROVE TypeOK'
  <2>1. inputs' \in 0 .. MaxInput /\ inputs' \in Number
    BY <1>17 DEF TypeOK, Type, Number
  <2>2. ManejarComando(c, inputs') \in Seq(Step)
    BY <2>1, ScriptAssumption, CommandsAreWellFormed DEF Program
  <2>3. todo' \in [Thread -> Seq(Step)]
    BY <1>17, <2>2 DEF TypeOK, Type
  <2> QED BY <1>17, <2>1, <2>3 DEF TypeOK, Type, historyVars, netVars, MainPc
<1>18. CASE EndOfInput
  BY <1>18 DEF TypeOK, EndOfInput, historyVars, netVars, MainPc
<1>19. CASE RecvTest
  BY <1>19 DEF TypeOK, RecvTest, historyVars, netVars, RecvPc
<1>20. CASE RecvCall
  BY <1>20 DEF TypeOK, RecvCall, historyVars, netVars, RecvPc
<1>21. CASE RecvMessage
  <2>1. inbox' \in Seq(InboxItem) /\ inbox[1] \in InboxItem
    BY <1>21, ReceivedTypes DEF RecvMessage
  <2>2. inbox[1].m \in Message /\ inbox[1].n \in Number
    BY <2>1 DEF InboxItem
  <2>3. Handle(inbox[1].m, inbox[1].n) \in Seq(Step)
    BY <2>2, MessagesAreWellFormed DEF Program
  <2>4. todo' \in [Thread -> Seq(Step)]
    BY <1>21, <2>3 DEF TypeOK, RecvMessage
  <2> QED BY <1>21, <2>1, <2>4 DEF TypeOK, RecvMessage, historyVars, RecvPc
<1>22. CASE RecvEnd
  BY <1>22 DEF TypeOK, RecvEnd, historyVars, netVars, RecvPc
<1>23. CASE EndMessage
  BY <1>23 DEF TypeOK, EndMessage, historyVars, netVars, RecvPc
<1>24. CASE AfterLoop
  <2>1. <<Add(End)>> \in Seq(Step) /\ <<>> \in Seq(Step)
    BY DEF Step, Line, End, Thread, Number, Add
  <2>2. todo' \in [Thread -> Seq(Step)]
    BY <1>24, <2>1 DEF TypeOK, AfterLoop
  <2> QED BY <1>24, <2>2 DEF TypeOK, AfterLoop, historyVars, netVars, RecvPc
<1>25. CASE EndThread
  BY <1>25 DEF TypeOK, EndThread, historyVars, netVars, RecvPc
<1>26. CASE Cancelled
  BY <1>26 DEF TypeOK, Cancelled, historyVars, netVars, RecvPc
<1>27. ASSUME NEW m \in Sendable, ServerSends(m) PROVE TypeOK'
  <2>1. arrived' \in 0 .. MaxMessages /\ arrived' \in Number
    BY <1>27 DEF TypeOK, ServerSends, Number
  <2>2. [m |-> m, n |-> arrived'] \in InboxItem
    BY <2>1, ScriptAssumption DEF InboxItem
  <2>3. inbox' \in Seq(InboxItem)
    BY <1>27, <2>2 DEF TypeOK, ServerSends
  <2> QED BY <1>27, <2>1, <2>3 DEF TypeOK, ServerSends, historyVars
<1>28. CASE ServerCloses
  BY <1>28 DEF TypeOK, ServerCloses, historyVars
<1>29. CASE UNCHANGED vars
  BY <1>29 DEF TypeOK, vars, historyVars, netVars
<1>30. ASSUME Next PROVE TypeOK'
  <2>1. CASE Main
    BY <1>0, <1>1, <1>2, <1>3, <1>4, <1>5, <1>6, <1>7, <1>8, <1>9, <1>10, <1>11, <1>12, <1>13,
       <1>14, <1>15, <1>16, <2>1 DEF Main
  <2>2. CASE Receiver
    BY <1>0, <1>14, <1>15, <1>16, <1>19, <1>20, <1>21, <1>22, <1>23, <1>24, <1>25, <1>26, <2>2
    DEF Receiver
  <2>3. CASE Stopped
    BY <1>29, <2>3 DEF Stopped
  <2> QED BY <1>17, <1>18, <1>27, <1>28, <1>30, <2>1, <2>2, <2>3 DEF Next
<1> QED BY <1>29, <1>30

-----------------------------------------------------------------------------
(***************************************************************************)
(* The history: the array holds the last lines, in the order in which they *)
(* were added.                                                             *)
(***************************************************************************)

HistoryInv ==
  /\ history_count = IF Len(written) < MAX_HISTORY THEN Len(written) ELSE MAX_HISTORY
  /\ \A i \in 1 .. history_count : message_history[i - 1] = written[(Len(written) - history_count) + i]

LEMMA HistoryStep ==
  ASSUME TypeOK, HistoryInv, NEW t \in Thread, AddToHistory(t)
  PROVE  HistoryInv'
<1> DEFINE l == Head(todo[t]).arg
           n == Len(written)
           M == MAX_HISTORY
<1>1. /\ IF history_count < M
         THEN /\ message_history' = [message_history EXCEPT ![history_count] = l]
              /\ history_count' = history_count + 1
         ELSE message_history' = Shifted(l) /\ history_count' = history_count
      /\ written' = Append(written, l)
  BY DEF AddToHistory
<1>2. l \in Line
  BY ReadyStep, StepFields DEF AddToHistory
<1>3. written \in Seq(Line) /\ n \in Nat /\ M \in Nat \ {0} /\ message_history \in [Index -> Line \cup {None}]
  BY ClientAssumption, LenProperties DEF TypeOK
<1> HIDE DEF l
<1>4. /\ Len(written') = n + 1 /\ written'[n + 1] = l
      /\ \A i \in 1 .. n : written'[i] = written[i]
  BY <1>1, <1>2, <1>3, AppendProperties
<1>5. history_count = IF n < M THEN n ELSE M
  BY DEF HistoryInv
<1>6. \A i \in 1 .. history_count : message_history[i - 1] = written[(n - history_count) + i]
  BY DEF HistoryInv
<1> HIDE DEF n, M
<1>7. CASE n < M
  <2>1. history_count = n /\ history_count' = n + 1 /\ message_history' = [message_history EXCEPT ![n] = l]
    BY <1>1, <1>3, <1>5, <1>7
  <2>2. n \in Index
    BY <1>3, <1>7 DEF Index, M
  <2>3. ASSUME NEW i \in 1 .. n + 1
        PROVE  message_history'[i - 1] = written'[((n + 1) - (n + 1)) + i]
    <3>1. CASE i = n + 1
      <4>1. i - 1 = n /\ ((n + 1) - (n + 1)) + i = n + 1
        BY <1>3, <3>1
      <4> QED BY <1>3, <1>4, <2>1, <2>2, <4>1
    <3>2. CASE i # n + 1
      <4>1. i \in 1 .. n /\ i - 1 # n /\ ((n + 1) - (n + 1)) + i = i /\ (n - n) + i = i
        BY <1>3, <3>2
      <4>2. i - 1 \in Index
        BY <1>3, <1>7, <4>1 DEF Index, M
      <4>3. message_history'[i - 1] = message_history[i - 1]
        BY <1>3, <2>1, <4>1, <4>2
      <4> QED BY <1>4, <1>6, <2>1, <4>1, <4>3
    <3> QED BY <3>1, <3>2
  <2>4. n + 1 = IF n + 1 < M THEN n + 1 ELSE M
    BY <1>3, <1>7
  <2> QED BY <1>4, <2>1, <2>3, <2>4 DEF HistoryInv, M
<1>8. CASE ~(n < M)
  <2>1. history_count = M /\ history_count' = M /\ message_history' = Shifted(l)
    BY <1>1, <1>3, <1>5, <1>8
  <2>2. ASSUME NEW i \in 1 .. M
        PROVE  message_history'[i - 1] = written'[((n + 1) - M) + i]
    <3>1. i - 1 \in Index
      BY <1>3 DEF Index, M
    <3>2. message_history'[i - 1] = IF i - 1 = M - 1 THEN l ELSE message_history[(i - 1) + 1]
      BY <2>1, <3>1 DEF Shifted, M
    <3>3. CASE i = M
      <4>1. ((n + 1) - M) + i = n + 1 /\ i - 1 = M - 1
        BY <1>3, <3>3
      <4> QED BY <1>4, <3>2, <4>1
    <3>4. CASE i # M
      <4>1. /\ i + 1 \in 1 .. M /\ (i - 1) + 1 = (i + 1) - 1 /\ i - 1 # M - 1
            /\ ((n + 1) - M) + i = (n - M) + (i + 1) /\ (n - M) + (i + 1) \in 1 .. n
        BY <1>3, <1>8, <3>4
      <4>2. message_history[(i + 1) - 1] = written[(n - M) + (i + 1)]
        BY <1>6, <2>1, <4>1
      <4>3. message_history'[i - 1] = message_history[(i + 1) - 1]
        BY <3>2, <4>1
      <4> QED BY <1>4, <4>1, <4>2, <4>3
    <3> QED BY <3>3, <3>4
  <2>3. M = IF n + 1 < M THEN n + 1 ELSE M
    BY <1>3, <1>8
  <2> QED BY <1>4, <2>1, <2>2, <2>3 DEF HistoryInv, M
<1> QED BY <1>7, <1>8

LEMMA NextHistory ==
  ASSUME TypeOK, HistoryInv, [Next]_vars
  PROVE  HistoryInv'
<1>1. CASE UNCHANGED historyVars
  BY <1>1 DEF HistoryInv, historyVars
<1>2. CASE \E t \in Thread : AddToHistory(t)
  BY <1>2, HistoryStep
<1>3. UNCHANGED historyVars \/ \E t \in Thread : AddToHistory(t)
  <2>1. CASE Main
    BY <2>1 DEF Main, Connect, Answer, CreateThread, TestRunning, EndCommand, EnviarJson, SetEstado,
       StopRunning, LeaveSocket, Cancel, Join, CloseAtEnd, JoinAtEnd, Lock, DisplayHistory, Thread
  <2>2. CASE Receiver
    BY <2>2 DEF Receiver, RecvTest, RecvCall, RecvMessage, RecvEnd, EndMessage, AfterLoop, EndThread,
       Cancelled, Lock, DisplayHistory, Thread
  <2>3. CASE ~Main /\ ~Receiver
    BY <2>3 DEF Next, Type, EndOfInput, ServerSends, ServerCloses, Stopped, vars
  <2> QED BY <2>1, <2>2, <2>3
<1> QED BY <1>1, <1>2, <1>3

LEMMA HistoryInvImplies ==
  ASSUME TypeOK, HistoryInv
  PROVE  HistoryIsRecent
<1> DEFINE n == Len(written)
           M == MAX_HISTORY
           c == history_count
           S == Line \cup {None}
<1>1. n \in Nat /\ M \in Nat \ {0} /\ c \in Nat /\ c <= n /\ c = (IF n < M THEN n ELSE M)
  BY ClientAssumption, LenProperties DEF TypeOK, HistoryInv
<1>2. \A i \in 1 .. c : message_history[i - 1] = written[(n - c) + i]
  BY DEF HistoryInv
<1>3. \A i \in 1 .. n : written[i] \in S
  BY ElementOfSeq DEF TypeOK
<1> HIDE DEF n, M, c, S
<1>4. Window(written) = SubSeq(written, 1 + (n - c), n)
  <2>1. CASE n > M
    <3>1. c = M
      BY <1>1, <2>1
    <3>2. Window(written) = SubSeq(written, 1 + (n - M), n)
      BY <2>1 DEF Window, n, M
    <3> QED BY <3>1, <3>2
  <2>2. CASE ~(n > M)
    <3>1. 1 + (n - c) = 1
      BY <1>1, <2>2
    <3>2. Window(written) = SubSeq(written, 1, n)
      <4>1. Window(written) = SubSeq(written, 1 + 0, n)
        BY <2>2 DEF Window, n, M
      <4>2. 1 + 0 = 1
        OBVIOUS
      <4> QED BY <4>1, <4>2
    <3> QED BY <3>1, <3>2
  <2> QED BY <2>1, <2>2
<1>5. PICK m \in Int : m = 1 + (n - c)
  <2>1. n \in Int /\ c \in Int
    BY <1>1
  <2>2. 1 + (n - c) \in Int
    BY <2>1
  <2> QED BY <2>2
<1>6. n \in Int /\ \A i \in m .. n : written[i] \in S
  BY <1>1, <1>3, <1>5
<1>7. /\ SubSeq(written, m, n) \in Seq(S)
      /\ Len(SubSeq(written, m, n)) = IF m <= n THEN (n - m) + 1 ELSE 0
      /\ \A i \in 1 .. (n - m) + 1 : SubSeq(written, m, n)[i] = written[(m + i) - 1]
  BY <1>5, <1>6, SubSeqProperties
<1>8. (n - m) + 1 = c
  BY <1>1, <1>5
<1>9. Len(SubSeq(written, m, n)) = c
  BY <1>1, <1>5, <1>7, <1>8
<1>10. \A i \in 1 .. c : message_history[i - 1] = SubSeq(written, m, n)[i]
  <2> TAKE i \in 1 .. c
  <2>1. (m + i) - 1 = (n - c) + i
    BY <1>1, <1>5
  <2> QED BY <1>2, <1>7, <1>8, <2>1
<1>11. SubSeq(written, m, n) = [i \in 1 .. c |-> SubSeq(written, m, n)[i]]
  <2>1. DOMAIN SubSeq(written, m, n) = 1 .. c /\ SubSeq(written, m, n) \in [1 .. c -> S]
    BY <1>7, <1>9, LenProperties
  <2> QED BY <2>1
<1>12. History = [i \in 1 .. c |-> message_history[i - 1]]
  BY DEF History, c
<1>13. History = SubSeq(written, m, n)
  BY <1>10, <1>11, <1>12
<1> QED BY <1>4, <1>5, <1>13 DEF HistoryIsRecent

-----------------------------------------------------------------------------
(***************************************************************************)
(* What is left of the programs, and how main leaves.                      *)
(***************************************************************************)

Early == {"connect", "answer", "create", "fgets"}

ProgramInv ==
  /\ mpc \in {"connect", "answer", "create"} => rpc = "none"
  /\ mpc \notin {"command", "killed", "crashed"} => todo["main"] = <<>>
  /\ rpc \in {"none", "test", "call", "blocked", "tail"} => todo["recv"] = <<>>
  /\ Leaves(todo["main"]) \/ (~running /\ After(todo["main"]))
  /\ SendsWell(todo["main"]) /\ SetsWell(todo["main"])
  /\ Draws(todo["main"]) /\ Draws(todo["recv"])

LeaveInv ==
  /\ cancelled => ~running
  /\ rpc = "cancelled" => cancelled
  /\ (cancelled \/ sock # {}) =>
       /\ NoOp(todo["main"], {"send", "add", "show"})
       /\ mpc \notin Early
       /\ mpc \in {"command", "loop"} => ~running

\* What a step of main's program leaves of it.
LEMMA MainStep ==
  ASSUME TypeOK, ProgramInv, NEW op, Ready("main", op), Done("main")
  PROVE  /\ todo["main"] \in Program /\ todo["main"] # <<>> /\ Head(todo["main"]).op = op
         /\ Head(todo["main"]) \in Step
         /\ todo'["main"] = Tail(todo["main"]) /\ todo'["recv"] = todo["recv"]
         /\ mpc = "command"
         /\ SendsWell(todo'["main"]) /\ SetsWell(todo'["main"])
         /\ Draws(todo'["main"]) /\ Draws(todo'["recv"])
         /\ op # "stop" => Leaves(todo'["main"]) \/ (~running /\ After(todo'["main"]))
         /\ op = "stop" => After(todo'["main"])
<1>1. "main" \in Thread /\ "recv" \in Thread \ {"main"}
  BY DEF Thread
<1> DEFINE s == todo["main"]
<1>2. /\ s \in Program /\ s # <<>> /\ Head(s).op = op /\ Head(s) \in Step
      /\ todo'["main"] = Tail(s) /\ todo'["recv"] = todo["recv"]
  BY <1>1, ReadyStep
<1>3. mpc = "command"
  BY DEF Ready, Working
<1>4. SendsWell(Tail(s)) /\ SetsWell(Tail(s)) /\ Draws(Tail(s)) /\ Draws(todo["recv"])
  BY <1>2, TailKeepsSends, TailKeepsSets, TailKeepsDraws DEF ProgramInv
<1>5. Leaves(s) \/ (~running /\ After(s))
  BY DEF ProgramInv
<1> HIDE DEF s
<1>6. op # "stop" => Leaves(Tail(s)) \/ (~running /\ After(Tail(s)))
  BY <1>2, <1>5, TailKeepsLeaves, TailKeepsAfter
<1>7. After(s)
  BY <1>5, LeavesAfter
<1>8. After(Tail(s))
  BY <1>2, <1>7, TailKeepsAfter
<1> QED BY <1>2, <1>3, <1>4, <1>6, <1>8 DEF s

\* A step of t on the history: the programs go on, and nobody leaves.
LEMMA HistoryStepKeepsPrograms ==
  ASSUME TypeOK, ProgramInv, LeaveInv, NEW t \in Thread, NEW op \in {"add", "show"},
         Ready(t, op), Done(t), UNCHANGED <<mpc, rpc, running, cancelled, sock>>
  PROVE  ProgramInv' /\ LeaveInv'
<1>1. CASE t = "main"
  <2>1. /\ todo'["recv"] = todo["recv"] /\ mpc = "command"
        /\ SendsWell(todo'["main"]) /\ SetsWell(todo'["main"])
        /\ Draws(todo'["main"]) /\ Draws(todo'["recv"])
        /\ Leaves(todo'["main"]) \/ (~running /\ After(todo'["main"]))
    BY <1>1, MainStep
  <2>2. ~(cancelled \/ sock # {})
    <3>1. todo["main"] \in Program /\ todo["main"] # <<>> /\ Head(todo["main"]).op = op
      BY <1>1, MainStep
    <3>2. ~NoOp(todo["main"], {"send", "add", "show"})
      BY <3>1, FirstStep
    <3> QED BY <3>2 DEF LeaveInv
  <2> QED BY <2>1, <2>2 DEF ProgramInv, LeaveInv
<1>2. CASE t = "recv"
  <2>1. "main" \in Thread \ {"recv"}
    BY DEF Thread
  <2>2. todo'["main"] = todo["main"] /\ rpc \in {"message", "last"}
    BY <1>2, <2>1, ReadyStep DEF Ready, Working
  <2>3. Draws(todo'["recv"])
    BY <1>2, ReadyStep, TailKeepsDraws DEF ProgramInv
  <2> QED BY <2>2, <2>3 DEF ProgramInv, LeaveInv
<1> QED BY <1>1, <1>2 DEF Thread

\* Steps that leave both programs as they are.
LEMMA TodoUnchanged ==
  ASSUME ProgramInv, LeaveInv, UNCHANGED <<todo, running, cancelled, sock>>,
         mpc' \in {"connect", "answer", "create"} => rpc' = "none",
         mpc' \notin {"command", "killed", "crashed"} => todo["main"] = <<>>,
         rpc' \in {"none", "test", "call", "blocked", "tail"} => todo["recv"] = <<>>,
         rpc' = "cancelled" => cancelled,
         (cancelled \/ sock # {}) => mpc' \notin Early /\ (mpc' \in {"command", "loop"} => ~running)
  PROVE  ProgramInv' /\ LeaveInv'
BY DEF ProgramInv, LeaveInv

LEMMA NextPrograms ==
  ASSUME TypeOK, ProgramInv, LeaveInv, [Next]_vars
  PROVE  ProgramInv' /\ LeaveInv'
<1>0. "main" \in Thread /\ "recv" \in Thread /\ "main" # "recv"
  BY DEF Thread
<1>1. CASE Connect
  <2>1. ~(cancelled \/ sock # {}) /\ todo["main"] = <<>>
    BY <1>1 DEF Connect, ProgramInv, LeaveInv, Early
  <2> QED BY <1>1, <2>1, TodoUnchanged DEF Connect, ProgramInv, LeaveInv
<1>2. CASE Answer
  <2>1. ~(cancelled \/ sock # {}) /\ todo["main"] = <<>>
    BY <1>2 DEF Answer, ProgramInv, LeaveInv, Early
  <2> QED BY <1>2, <2>1, TodoUnchanged DEF Answer, ProgramInv, LeaveInv
<1>3. CASE CreateThread
  <2>1. ~(cancelled \/ sock # {}) /\ todo["main"] = <<>>
    BY <1>3 DEF CreateThread, ProgramInv, LeaveInv, Early
  <2>2. todo["recv"] = <<>>
    BY <1>3 DEF CreateThread, ProgramInv
  <2> QED BY <1>3, <2>1, <2>2, TodoUnchanged DEF CreateThread, ProgramInv, LeaveInv, netVars
<1>4. CASE TestRunning
  BY <1>4, TodoUnchanged DEF TestRunning, ProgramInv, LeaveInv, netVars, Early
<1>5. CASE EndCommand
  BY <1>5, TodoUnchanged DEF EndCommand, ProgramInv, LeaveInv, netVars, Early
<1>6. CASE EnviarJson
  <2>1. Ready("main", "send") /\ Done("main")
    BY <1>6 DEF EnviarJson
  <2>2. ~(cancelled \/ sock # {})
    <3>1. todo["main"] \in Program /\ todo["main"] # <<>> /\ Head(todo["main"]).op = "send"
      BY <2>1, MainStep
    <3>2. ~NoOp(todo["main"], {"send", "add", "show"})
      BY <3>1, FirstStep
    <3> QED BY <3>2 DEF LeaveInv
  <2>3. /\ mpc' \in {"command", "killed"}
        /\ UNCHANGED <<rpc, running, cancelled, sock>>
    BY <1>6 DEF EnviarJson, Write
  <2>4. /\ todo'["recv"] = todo["recv"] /\ SendsWell(todo'["main"]) /\ SetsWell(todo'["main"])
        /\ Draws(todo'["main"]) /\ Draws(todo'["recv"])
        /\ Leaves(todo'["main"]) \/ (~running /\ After(todo'["main"]))
    BY <2>1, MainStep
  <2> QED BY <2>2, <2>3, <2>4 DEF ProgramInv, LeaveInv
<1>7. ASSUME NEW op \in {"set", "join"}, Ready("main", op), Done("main"),
             UNCHANGED <<mpc, rpc, running, cancelled, sock>>
      PROVE  ProgramInv' /\ LeaveInv'
  <2>1. /\ todo'["recv"] = todo["recv"] /\ SendsWell(todo'["main"]) /\ SetsWell(todo'["main"])
        /\ Draws(todo'["main"]) /\ Draws(todo'["recv"])
        /\ Leaves(todo'["main"]) \/ (~running /\ After(todo'["main"]))
        /\ mpc = "command" /\ todo["main"] \in Program /\ todo["main"] # <<>>
        /\ todo'["main"] = Tail(todo["main"])
    BY <1>7, MainStep
  <2>2. NoOp(todo["main"], {"send", "add", "show"}) => NoOp(todo'["main"], {"send", "add", "show"})
    BY <2>1, FirstStep
  <2> QED BY <1>7, <2>1, <2>2 DEF ProgramInv, LeaveInv
<1>8. CASE StopRunning
  <2>1. Ready("main", "stop") /\ Done("main") /\ running' = FALSE
        /\ UNCHANGED <<mpc, rpc, cancelled, sock>>
    BY <1>8 DEF StopRunning, netVars
  <2>2. /\ todo'["recv"] = todo["recv"] /\ SendsWell(todo'["main"]) /\ SetsWell(todo'["main"])
        /\ Draws(todo'["main"]) /\ Draws(todo'["recv"]) /\ After(todo'["main"])
        /\ mpc = "command" /\ todo["main"] \in Program /\ todo["main"] # <<>>
        /\ todo'["main"] = Tail(todo["main"])
    BY <2>1, MainStep
  <2>3. NoOp(todo["main"], {"send", "add", "show"}) => NoOp(todo'["main"], {"send", "add", "show"})
    BY <2>2, FirstStep
  <2> QED BY <2>1, <2>2, <2>3 DEF ProgramInv, LeaveInv
<1>9. ASSUME NEW op \in Leaving, Ready("main", op), Done("main"), UNCHANGED <<rpc, running>>,
             mpc' \in {"command", "crashed"}, cancelled => cancelled'
      PROVE  ProgramInv' /\ LeaveInv'
  <2>1. /\ todo'["recv"] = todo["recv"] /\ SendsWell(todo'["main"]) /\ SetsWell(todo'["main"])
        /\ Draws(todo'["main"]) /\ Draws(todo'["recv"])
        /\ Leaves(todo'["main"]) \/ (~running /\ After(todo'["main"]))
        /\ todo["main"] \in Program /\ todo["main"] # <<>> /\ Head(todo["main"]).op = op
        /\ todo'["main"] = Tail(todo["main"])
    BY <1>9, MainStep DEF Leaving
  <2>2. ~running /\ After(todo["main"])
    BY <1>9, <2>1, LeavesQuietly DEF ProgramInv
  <2>3. NoOp(todo["main"], {"send", "add", "show"})
    BY <1>9, <2>1, <2>2, LeavesQuietly
  <2>4. NoOp(todo'["main"], {"send", "add", "show"})
    BY <2>1, <2>3, FirstStep
  <2>5. rpc' = "cancelled" => cancelled'
    BY <1>9 DEF LeaveInv
  <2> QED BY <1>9, <2>1, <2>2, <2>4, <2>5 DEF ProgramInv, LeaveInv, Early
<1>12. CASE CloseAtEnd
  <2>1. todo["main"] = <<>> /\ mpc' = "join" /\ UNCHANGED <<todo, rpc, running, cancelled>>
    BY <1>12 DEF CloseAtEnd, ProgramInv
  <2>2. NoOp(todo'["main"], {"send", "add", "show"})
    BY <2>1, EmptyProgram
  <2> QED BY <2>1, <2>2 DEF ProgramInv, LeaveInv, Early
<1>13. CASE JoinAtEnd
  BY <1>13, TodoUnchanged DEF JoinAtEnd, ProgramInv, LeaveInv, netVars, Early
<1>14. ASSUME NEW t \in Thread, Lock(t) PROVE ProgramInv' /\ LeaveInv'
  BY <1>14 DEF Lock, netVars, ProgramInv, LeaveInv
<1>15. ASSUME NEW t \in Thread, AddToHistory(t) PROVE ProgramInv' /\ LeaveInv'
  BY <1>15, HistoryStepKeepsPrograms DEF AddToHistory, netVars
<1>16. ASSUME NEW t \in Thread, DisplayHistory(t) PROVE ProgramInv' /\ LeaveInv'
  BY <1>16, HistoryStepKeepsPrograms DEF DisplayHistory, netVars
<1>17. ASSUME NEW c \in Typed, Type(c) PROVE ProgramInv' /\ LeaveInv'
  <2>1. inputs' \in Number
    BY <1>17, ClientAssumption DEF TypeOK, Type, Number
  <2>2. WellFormed(ManejarComando(c, inputs'))
    BY <2>1, ScriptAssumption, CommandsAreWellFormed
  <2>3. /\ todo'["main"] = ManejarComando(c, inputs') /\ todo'["recv"] = todo["recv"]
        /\ mpc = "fgets" /\ mpc' = "command" /\ UNCHANGED <<rpc, running, cancelled, sock>>
    BY <1>0, <1>17 DEF Type, TypeOK, netVars
  <2>4. ~(cancelled \/ sock # {})
    BY <2>3 DEF LeaveInv, Early
  <2> QED BY <2>2, <2>3, <2>4 DEF ProgramInv, LeaveInv, WellFormed
<1>18. CASE EndOfInput
  BY <1>18, TodoUnchanged DEF EndOfInput, ProgramInv, LeaveInv, netVars, Early
<1>19. CASE RecvTest
  BY <1>19, TodoUnchanged DEF RecvTest, ProgramInv, LeaveInv, netVars
<1>20. CASE RecvCall
  BY <1>20, TodoUnchanged DEF RecvCall, ProgramInv, LeaveInv, netVars
<1>21. CASE RecvMessage
  <2>1. inbox[1].m \in Message /\ inbox[1].n \in Number
    BY <1>21, ReceivedTypes DEF RecvMessage, InboxItem
  <2>2. Draws(Handle(inbox[1].m, inbox[1].n))
    BY <2>1, MessagesAreWellFormed DEF WellFormed
  <2>3. /\ todo'["recv"] = Handle(inbox[1].m, inbox[1].n) /\ todo'["main"] = todo["main"]
        /\ rpc = "blocked" /\ rpc' = "message" /\ UNCHANGED <<mpc, running, cancelled, sock>>
    BY <1>0, <1>21 DEF RecvMessage, TypeOK
  <2> QED BY <2>2, <2>3 DEF ProgramInv, LeaveInv
<1>22. CASE RecvEnd
  BY <1>22, TodoUnchanged DEF RecvEnd, ProgramInv, LeaveInv, netVars
<1>23. CASE EndMessage
  BY <1>23, TodoUnchanged DEF EndMessage, ProgramInv, LeaveInv, netVars
<1>24. CASE AfterLoop
  <2>1. /\ todo'["recv"] \in {<<Add(End)>>, <<>>} /\ todo'["main"] = todo["main"]
        /\ rpc = "tail" /\ rpc' = "last" /\ UNCHANGED <<mpc, running, cancelled, sock>>
    BY <1>0, <1>24 DEF AfterLoop, TypeOK, netVars
  <2>2. Draws(<<Add(End)>>)
    BY DEF Draws, Add
  <2> QED BY <2>1, <2>2, EmptyProgram DEF ProgramInv, LeaveInv
<1>25. CASE EndThread
  <2>1. running' = FALSE /\ rpc = "last" /\ rpc' = "done" /\ UNCHANGED <<mpc, todo, cancelled, sock>>
    BY <1>25 DEF EndThread, netVars
  <2>2. After(todo["main"])
    BY LeavesAfter DEF ProgramInv
  <2> QED BY <2>1, <2>2 DEF ProgramInv, LeaveInv
<1>26. CASE Cancelled
  BY <1>26, TodoUnchanged DEF Cancelled, ProgramInv, LeaveInv, netVars
<1>27. ASSUME NEW m \in Sendable, ServerSends(m) PROVE ProgramInv' /\ LeaveInv'
  BY <1>27, TodoUnchanged DEF ServerSends, ProgramInv, LeaveInv
<1>28. CASE ServerCloses
  BY <1>28, TodoUnchanged DEF ServerCloses, ProgramInv, LeaveInv
<1>29. CASE UNCHANGED vars
  BY <1>29 DEF ProgramInv, LeaveInv, vars, netVars
<1>30. ASSUME Next PROVE ProgramInv' /\ LeaveInv'
  <2>1. CASE Main
    <3>1. CASE SetEstado \/ Join
      BY <1>7, <3>1 DEF SetEstado, Join, netVars
    <3>2. CASE LeaveSocket
      <4>1. mpc = "command"
        BY <3>2 DEF LeaveSocket, Ready, Working
      <4> QED BY <1>9, <3>2, <4>1 DEF LeaveSocket, Leaving
    <3>3. CASE Cancel
      <4>1. mpc = "command"
        BY <3>3 DEF Cancel, Ready, Working
      <4> QED BY <1>9, <3>3, <4>1 DEF Cancel, Leaving
    <3> QED BY <1>0, <1>1, <1>2, <1>3, <1>4, <1>5, <1>6, <1>8, <1>12, <1>13, <1>14, <1>15, <1>16,
       <2>1, <3>1, <3>2, <3>3 DEF Main
  <2>2. CASE Receiver
    BY <1>0, <1>14, <1>15, <1>16, <1>19, <1>20, <1>21, <1>22, <1>23, <1>24, <1>25, <1>26, <2>2
    DEF Receiver
  <2>3. CASE Stopped
    BY <1>29, <2>3 DEF Stopped
  <2> QED BY <1>17, <1>18, <1>27, <1>28, <1>30, <2>1, <2>2, <2>3 DEF Next
<1> QED BY <1>29, <1>30

-----------------------------------------------------------------------------
(***************************************************************************)
(* What the server hears.                                                  *)
(***************************************************************************)

Exited == \E i \in DOMAIN sent : sent[i].type = "EXIT"

SentInv ==
  /\ SentInOrder
  /\ mpc = "connect" => sent = <<>>
  /\ mpc \in {"answer", "create", "loop", "fgets", "command"} => sent # <<>>
  /\ Exited => /\ NoOp(todo["main"], {"send"})
               /\ running => HasOp(todo["main"], "stop")
               /\ mpc \notin Early

LEMMA AppendSent ==
  ASSUME TypeOK, NEW r \in Request
  PROVE  LET s == Append(sent, r) IN
         /\ Len(sent) \in Nat /\ DOMAIN sent = 1 .. Len(sent)
         /\ DOMAIN s = 1 .. Len(sent) + 1 /\ Len(s) = Len(sent) + 1
         /\ \A i \in DOMAIN sent : s[i] = sent[i]
         /\ s[Len(sent) + 1] = r /\ s # <<>>
<1>1. sent \in Seq(Request)
  BY DEF TypeOK
<1>2. Len(sent) \in Nat /\ DOMAIN sent = 1 .. Len(sent)
  BY <1>1, LenProperties
<1>3. /\ Append(sent, r) \in Seq(Request) /\ Len(Append(sent, r)) = Len(sent) + 1
      /\ \A i \in 1 .. Len(sent) : Append(sent, r)[i] = sent[i]
      /\ Append(sent, r)[Len(sent) + 1] = r
      /\ Append(sent, r) # <<>>
  BY <1>1, AppendProperties
<1>4. DOMAIN Append(sent, r) = 1 .. Len(sent) + 1
  BY <1>3, LenProperties
<1> QED BY <1>2, <1>3, <1>4

\* Steps that send nothing and do not leave the way of EXIT.
LEMMA NothingSent ==
  ASSUME SentInv, UNCHANGED sent,
         mpc' = "connect" => mpc = "connect",
         mpc' \in {"answer", "create", "loop", "fgets", "command"} =>
           mpc \in {"answer", "create", "loop", "fgets", "command"},
         Exited => /\ NoOp(todo'["main"], {"send"})
                   /\ running' => HasOp(todo'["main"], "stop")
                   /\ mpc' \notin Early
  PROVE  SentInv'
BY DEF SentInv, SentInOrder, Exited

\* One request more.
LEMMA OneMoreSent ==
  ASSUME TypeOK, SentInv, ~Exited, NEW r \in Request, sent' = Append(sent, r),
         r.type = "REGISTRO" <=> sent = <<>>
  PROVE  SentInOrder' /\ sent' # <<>> /\ (Exited' => r.type = "EXIT")
<1> DEFINE n == Len(sent)
<1>1. /\ n \in Nat /\ DOMAIN sent = 1 .. n /\ DOMAIN sent' = 1 .. n + 1 /\ Len(sent') = n + 1
      /\ \A i \in 1 .. n : sent'[i] = sent[i]
      /\ sent'[n + 1] = r /\ sent' # <<>>
  BY AppendSent
<1>2. n = 0 <=> sent = <<>>
  BY EmptySeq DEF TypeOK
<1> HIDE DEF n
<1>3. \A i \in 1 .. n : sent[i].type # "EXIT" /\ (sent[i].type = "REGISTRO" <=> i = 1)
  BY <1>1 DEF Exited, SentInv, SentInOrder
<1>4. ASSUME NEW i \in DOMAIN sent'
      PROVE  /\ sent'[i].type = "REGISTRO" <=> i = 1
             /\ sent'[i].type = "EXIT" => i = Len(sent') /\ r.type = "EXIT"
  <2>1. CASE i \in 1 .. n
    BY <1>1, <1>3, <2>1
  <2>2. CASE i = n + 1
    <3>1. i = 1 <=> n = 0
      BY <1>1, <2>2
    <3> QED BY <1>1, <1>2, <2>2, <3>1
  <2> QED BY <1>1, <2>1, <2>2
<1> QED BY <1>1, <1>4 DEF SentInOrder, Exited

LEMMA NextSent ==
  ASSUME TypeOK, ProgramInv, LeaveInv, SentInv, [Next]_vars
  PROVE  SentInv'
<1>0. "main" \in Thread /\ "recv" \in Thread /\ "main" # "recv"
  BY DEF Thread
<1>1. CASE Connect
  <2>1. mpc = "connect" /\ sent = <<>> /\ ~Exited /\ sock = {}
    BY <1>1 DEF Connect, SentInv, LeaveInv, Early
  <2>2. CASE mpc' = "failed" /\ UNCHANGED <<sent, peer>>
    BY <2>1, <2>2, NothingSent
  <2>3. CASE Write([type |-> "REGISTRO", estado |-> None], "answer", "failed")
    <3>1. CASE mpc' \in {"killed", "failed"} /\ UNCHANGED sent
      BY <2>1, <3>1, NothingSent
    <3>2. CASE mpc' = "answer" /\ sent' = Append(sent, [type |-> "REGISTRO", estado |-> None])
      <4>1. [type |-> "REGISTRO", estado |-> None] \in Request
        BY DEF Request
      <4>2. SentInOrder' /\ sent' # <<>> /\ ~Exited'
        BY <2>1, <3>2, <4>1, OneMoreSent
      <4> QED BY <3>2, <4>2 DEF SentInv
    <3> QED BY <2>1, <2>3, <3>1, <3>2 DEF Write
  <2> QED BY <1>1, <2>2, <2>3 DEF Connect
<1>2. CASE EnviarJson
  <2> DEFINE r == Head(todo["main"]).arg
  <2>1. Ready("main", "send") /\ Done("main") /\ Write(r, "command", "command")
    BY <1>2 DEF EnviarJson
  <2>2. /\ todo["main"] \in Program /\ todo["main"] # <<>> /\ Head(todo["main"]).op = "send"
        /\ Head(todo["main"]) \in Step
        /\ todo'["main"] = Tail(todo["main"]) /\ mpc = "command" /\ SendsWell(todo["main"])
    BY <2>1, MainStep DEF ProgramInv
  <2>3. ~NoOp(todo["main"], {"send"}) /\ ~NoOp(todo["main"], {"send", "add", "show"})
    BY <2>2, FirstStep
  <2>4. ~Exited /\ sock = {} /\ sent # <<>>
    BY <2>2, <2>3 DEF SentInv, LeaveInv
  <2>5. CASE mpc' \in {"killed", "command"} /\ UNCHANGED sent
    BY <2>2, <2>4, <2>5, NothingSent
  <2>6. CASE mpc' = "command" /\ sent' = Append(sent, r)
    <3>1. r \in Request /\ r.type # "REGISTRO"
      BY <2>2, StepFields, FirstStep
    <3>2. r.type = "EXIT" => NoOp(todo'["main"], {"send"}) /\ HasOp(todo'["main"], "stop")
      BY <2>2, FirstStep
    <3> HIDE DEF r
    <3>3. SentInOrder' /\ sent' # <<>> /\ (Exited' => r.type = "EXIT")
      BY <2>4, <2>6, <3>1, OneMoreSent
    <3> QED BY <2>6, <3>2, <3>3 DEF SentInv, Early
  <2> QED BY <2>1, <2>4, <2>5, <2>6 DEF Write
<1>3. ASSUME NEW c \in Typed, Type(c) PROVE SentInv'
  <2>1. ~Exited
    BY <1>3 DEF Type, SentInv, Early
  <2> QED BY <1>3, <2>1, NothingSent DEF Type
<1>4. ASSUME NEW op, op # "send", Ready("main", op), Done("main"), UNCHANGED sent,
             mpc' \in {"command", "crashed"}, running' = (running /\ op # "stop")
      PROVE  SentInv'
  <2>1. /\ todo["main"] \in Program /\ todo["main"] # <<>> /\ Head(todo["main"]).op = op
        /\ todo'["main"] = Tail(todo["main"]) /\ mpc = "command"
    BY <1>4, MainStep
  <2>2. NoOp(todo["main"], {"send"}) => NoOp(todo'["main"], {"send"})
    BY <2>1, FirstStep
  <2>3. op # "stop" /\ HasOp(todo["main"], "stop") => HasOp(todo'["main"], "stop")
    BY <2>1, FirstStep
  <2> QED BY <1>4, <2>1, <2>2, <2>3, NothingSent DEF SentInv, Early
<1>5. CASE TestRunning
  <2>1. todo["main"] = <<>> /\ mpc = "loop" /\ UNCHANGED <<sent, todo, running>>
    BY <1>5 DEF TestRunning, ProgramInv
  <2>2. Exited => ~running
    BY <2>1, EmptyProgram DEF SentInv
  <2> QED BY <1>5, <2>1, <2>2, NothingSent DEF TestRunning, SentInv, Early
<1>6. ASSUME UNCHANGED sent, todo'["main"] = todo["main"], running' = running \/ running' = FALSE,
             \/ mpc' = mpc
             \/ mpc' \in {"create", "loop"} /\ mpc \in {"answer", "create", "command"}
             \/ mpc' \in {"failed", "close", "join", "crashed", "ended"},
             mpc' \in Early => mpc \in Early
      PROVE  SentInv'
  BY <1>6, NothingSent DEF SentInv
<1>7. CASE Answer \/ CreateThread \/ EndCommand \/ CloseAtEnd \/ JoinAtEnd \/ EndOfInput
  BY <1>6, <1>7 DEF Answer, CreateThread, EndCommand, CloseAtEnd, JoinAtEnd, EndOfInput, netVars, Early
<1>8. ASSUME NEW t \in Thread, Lock(t) \/ AddToHistory(t) \/ DisplayHistory(t) PROVE SentInv'
  <2>1. UNCHANGED <<mpc, sent, running>>
    BY <1>8 DEF Lock, AddToHistory, DisplayHistory
  <2>2. CASE Lock(t)
    BY <1>6, <2>1, <2>2 DEF Lock
  <2>3. ASSUME t = "recv", NEW op, Ready(t, op), Done(t) PROVE SentInv'
    <3>1. todo'["main"] = todo["main"]
      BY <1>0, <2>3, ReadyStep
    <3> QED BY <1>6, <2>1, <3>1
  <2>4. ASSUME t = "main", NEW op, Ready(t, op), Done(t), op \in {"add", "show"} PROVE SentInv'
    <3>1. mpc = "command"
      BY <2>4 DEF Ready, Working
    <3> QED BY <1>4, <2>1, <2>4, <3>1 DEF TypeOK
  <2> QED BY <1>8, <2>2, <2>3, <2>4 DEF Thread, AddToHistory, DisplayHistory
<1>9. CASE Main
  <2>1. CASE StopRunning
    <3>1. mpc = "command"
      BY <2>1 DEF StopRunning, Ready, Working
    <3> QED BY <1>4, <2>1, <3>1 DEF StopRunning
  <2>2. CASE SetEstado \/ LeaveSocket \/ Cancel \/ Join
    <3>1. mpc = "command"
      BY <2>2 DEF SetEstado, LeaveSocket, Cancel, Join, Ready, Working
    <3> QED BY <1>4, <2>2, <3>1 DEF SetEstado, LeaveSocket, Cancel, Join, TypeOK
  <2> QED BY <1>0, <1>1, <1>2, <1>5, <1>7, <1>8, <1>9, <2>1, <2>2 DEF Main
<1>10. CASE Receiver
  <2>1. CASE \/ RecvTest \/ RecvCall \/ RecvMessage \/ RecvEnd \/ EndMessage \/ AfterLoop
             \/ EndThread \/ Cancelled
    <3>1. /\ UNCHANGED <<mpc, sent>>
          /\ running' = running \/ running' = FALSE
      BY <2>1 DEF RecvTest, RecvCall, RecvMessage, RecvEnd, EndMessage, AfterLoop, EndThread, Cancelled
    <3>2. todo'["main"] = todo["main"]
      BY <1>0, <2>1 DEF RecvTest, RecvCall, RecvMessage, RecvEnd, EndMessage, AfterLoop, EndThread,
         Cancelled, TypeOK
    <3> QED BY <1>6, <3>1, <3>2
  <2> QED BY <1>0, <1>8, <1>10, <2>1 DEF Receiver
<1>11. ASSUME NEW m \in Sendable, ServerSends(m) PROVE SentInv'
  BY <1>6, <1>11 DEF ServerSends
<1>12. CASE ServerCloses \/ Stopped \/ UNCHANGED vars
  BY <1>6, <1>12 DEF ServerCloses, Stopped, vars
<1> QED BY <1>3, <1>7, <1>9, <1>10, <1>11, <1>12 DEF Next

-----------------------------------------------------------------------------
(***************************************************************************)
(* What the screen shows.                                                  *)
(***************************************************************************)

ScreenInv ==
  \/ screen = History
  \/ HasOp(todo["main"], "show") \/ HasOp(todo["recv"], "show")
  \/ \E i \in DOMAIN written : written[i] = End

\* Steps that touch neither the history nor the screen, and forget no drawing.
LEMMA ScreenUntouched ==
  ASSUME ScreenInv, UNCHANGED <<screen, historyVars>>,
         \A t \in Thread : HasOp(todo[t], "show") => HasOp(todo'[t], "show")
  PROVE  ScreenInv'
BY DEF ScreenInv, historyVars, History, Thread

LEMMA NextScreen ==
  ASSUME TypeOK, ProgramInv, ScreenInv, [Next]_vars
  PROVE  ScreenInv'
<1>0. "main" \in Thread /\ "recv" \in Thread /\ "main" # "recv"
  BY DEF Thread
<1>1. ASSUME NEW t \in Thread, AddToHistory(t) PROVE ScreenInv'
  <2> DEFINE l == Head(todo[t]).arg
  <2>1. Ready(t, "add") /\ Done(t) /\ written' = Append(written, l)
    BY <1>1 DEF AddToHistory
  <2>2. /\ todo[t] \in Program /\ todo[t] # <<>> /\ Head(todo[t]).op = "add"
        /\ todo'[t] = Tail(todo[t]) /\ Draws(todo[t]) /\ Head(todo[t]) \in Step
    BY <2>1, ReadyStep DEF ProgramInv, Thread
  <2>3. CASE l # End
    BY <2>2, <2>3, FirstStep DEF ScreenInv, Thread
  <2>4. CASE l = End
    <3>1. written \in Seq(Line) /\ l \in Line
      BY <2>2, StepFields DEF TypeOK
    <3> HIDE DEF l
    <3>2. /\ Append(written, l) \in Seq(Line) /\ Len(Append(written, l)) = Len(written) + 1
          /\ Append(written, l)[Len(written) + 1] = l
      BY <3>1, AppendProperties
    <3>3. Len(written) \in Nat /\ DOMAIN written' = 1 .. Len(written) + 1
      BY <2>1, <3>1, <3>2, LenProperties
    <3>4. Len(written) + 1 \in DOMAIN written' /\ written'[Len(written) + 1] = End
      BY <2>1, <2>4, <3>2, <3>3
    <3> QED BY <3>4 DEF ScreenInv
  <2> QED BY <2>3, <2>4
<1>2. ASSUME NEW t \in Thread, DisplayHistory(t) PROVE ScreenInv'
  <2>1. screen' = History /\ UNCHANGED historyVars
    BY <1>2 DEF DisplayHistory
  <2> QED BY <2>1 DEF ScreenInv, History, historyVars
<1>3. ASSUME NEW op, op # "show", Ready("main", op), Done("main"), UNCHANGED <<screen, historyVars>>
      PROVE  ScreenInv'
  <2>1. /\ todo["main"] \in Program /\ todo["main"] # <<>> /\ Head(todo["main"]).op = op
        /\ todo'["main"] = Tail(todo["main"]) /\ todo'["recv"] = todo["recv"]
    BY <1>3, MainStep
  <2>2. HasOp(todo["main"], "show") => HasOp(todo'["main"], "show")
    BY <1>3, <2>1, FirstStep
  <2> QED BY <1>3, <2>1, <2>2, ScreenUntouched DEF Thread
<1>4. ASSUME NEW t \in Thread, NEW p, todo[t] = <<>>, todo' = [todo EXCEPT ![t] = p],
             UNCHANGED <<screen, historyVars>>
      PROVE  ScreenInv'
  <2>1. ~HasOp(todo[t], "show")
    BY <1>4, EmptyProgram
  <2>2. \A u \in Thread \ {t} : todo'[u] = todo[u]
    BY <1>4 DEF TypeOK
  <2> QED BY <1>4, <2>1, <2>2, ScreenUntouched
<1>5. ASSUME UNCHANGED <<todo, screen, historyVars>> PROVE ScreenInv'
  BY <1>5, ScreenUntouched
<1>6. CASE Main
  <2>1. CASE EnviarJson \/ SetEstado \/ StopRunning \/ LeaveSocket \/ Cancel \/ Join
    BY <1>3, <2>1 DEF EnviarJson, SetEstado, StopRunning, LeaveSocket, Cancel, Join
  <2>2. CASE \/ Connect \/ Answer \/ CreateThread \/ TestRunning \/ EndCommand \/ CloseAtEnd
             \/ JoinAtEnd \/ Lock("main")
    BY <1>5, <2>2 DEF Connect, Answer, CreateThread, TestRunning, EndCommand, CloseAtEnd, JoinAtEnd, Lock
  <2> QED BY <1>0, <1>1, <1>2, <1>6, <2>1, <2>2 DEF Main
<1>7. CASE Receiver
  <2>1. CASE RecvMessage \/ AfterLoop
    <3>1. todo["recv"] = <<>> /\ UNCHANGED <<screen, historyVars>>
      BY <2>1 DEF RecvMessage, AfterLoop, ProgramInv
    <3>2. \E p : todo' = [todo EXCEPT !["recv"] = p]
      BY <2>1 DEF RecvMessage, AfterLoop
    <3> QED BY <1>0, <1>4, <3>1, <3>2
  <2>2. CASE RecvTest \/ RecvCall \/ RecvEnd \/ EndMessage \/ EndThread \/ Cancelled \/ Lock("recv")
    BY <1>5, <2>2 DEF RecvTest, RecvCall, RecvEnd, EndMessage, EndThread, Cancelled, Lock
  <2> QED BY <1>0, <1>1, <1>2, <1>7, <2>1, <2>2 DEF Receiver
<1>8. ASSUME NEW c \in Typed, Type(c) PROVE ScreenInv'
  <2>1. todo["main"] = <<>> /\ UNCHANGED <<screen, historyVars>>
    BY <1>8 DEF Type, ProgramInv
  <2>2. todo' = [todo EXCEPT !["main"] = ManejarComando(c, inputs')]
    BY <1>8 DEF Type
  <2> QED BY <1>0, <1>4, <2>1, <2>2
<1>9. ASSUME NEW m \in Sendable, ServerSends(m) PROVE ScreenInv'
  BY <1>5, <1>9 DEF ServerSends
<1>10. CASE EndOfInput \/ ServerCloses \/ Stopped \/ UNCHANGED vars
  BY <1>5, <1>10 DEF EndOfInput, ServerCloses, Stopped, vars
<1> QED BY <1>6, <1>7, <1>8, <1>9, <1>10 DEF Next

LEMMA ScreenInvImplies ==
  ASSUME ScreenInv
  PROVE  ScreenIsCurrent
BY EmptyProgram DEF ScreenInv, ScreenIsCurrent

-----------------------------------------------------------------------------
(***************************************************************************)
(* The status.                                                             *)
(***************************************************************************)

LastTold(e) ==
  \/ Told = {} /\ e = "ACTIVO"
  \/ \E i \in Told : (\A j \in Told : j <= i) /\ sent[i].estado = e

\* The status the client has, or is about to have.
Coming(s) == s # <<>> /\ Head(s).op = "set"
\* The client runs and its connection was not reset.
Up == Alive /\ "rst" \notin peer

ToldInv ==
  Up => LastTold(IF Coming(todo["main"]) THEN Head(todo["main"]).arg ELSE estado)

\* A request that is no status leaves the last one told; a status is it.
LEMMA TellingMore ==
  ASSUME TypeOK, NEW r \in Request, sent' = Append(sent, r)
  PROVE  /\ \A e : r.type # "ESTADO" /\ LastTold(e) => LastTold(e)'
         /\ r.type = "ESTADO" => LastTold(r.estado)'
<1> DEFINE n == Len(sent)
<1>1. /\ n \in Nat /\ DOMAIN sent = 1 .. n /\ DOMAIN sent' = 1 .. n + 1
      /\ \A i \in 1 .. n : sent'[i] = sent[i]
      /\ sent'[n + 1] = r
  BY AppendSent
<1> HIDE DEF n
<1>2. ASSUME r.type # "ESTADO" PROVE \A e : LastTold(e) => LastTold(e)'
  <2>1. Told' = Told /\ \A i \in Told : sent'[i] = sent[i]
    BY <1>1, <1>2 DEF Told
  <2> QED BY <2>1 DEF LastTold
<1>3. ASSUME r.type = "ESTADO" PROVE LastTold(r.estado)'
  <2>1. n + 1 \in Told' /\ (\A j \in Told' : j <= n + 1) /\ sent'[n + 1].estado = r.estado
    BY <1>1, <1>3 DEF Told
  <2> QED BY <2>1 DEF LastTold
<1> QED BY <1>2, <1>3

\* Steps that tell nothing and leave the status where it is.
LEMMA NothingTold ==
  ASSUME ToldInv, UNCHANGED <<sent, estado>>, "rst" \notin peer, Alive' => Alive,
         (IF Coming(todo'["main"]) THEN Head(todo'["main"]).arg ELSE estado)
           = (IF Coming(todo["main"]) THEN Head(todo["main"]).arg ELSE estado)
  PROVE  ToldInv'
BY DEF ToldInv, Up, LastTold, Told

\* A connection that was reset stays so.
LEMMA ResetStays ==
  ASSUME [Next]_vars, "rst" \in peer
  PROVE  "rst" \in peer'
<1>1. CASE UNCHANGED netVars \/ UNCHANGED peer
  BY <1>1 DEF netVars
<1>2. ASSUME NEW r, NEW next, NEW error, Write(r, next, error) PROVE "rst" \in peer'
  BY <1>2 DEF Write
<1>3. CASE Main
  <2>1. CASE Connect
    BY <1>1, <1>2, <2>1 DEF Connect
  <2>2. CASE EnviarJson
    BY <1>2, <2>2 DEF EnviarJson
  <2>3. CASE \/ Answer \/ CreateThread \/ TestRunning \/ EndCommand \/ SetEstado \/ StopRunning
             \/ LeaveSocket \/ Cancel \/ Join \/ CloseAtEnd \/ JoinAtEnd
    BY <1>1, <2>3 DEF Answer, CreateThread, TestRunning, EndCommand, SetEstado, StopRunning,
       LeaveSocket, Cancel, Join, CloseAtEnd, JoinAtEnd
  <2>4. CASE Lock("main") \/ AddToHistory("main") \/ DisplayHistory("main")
    BY <1>1, <2>4 DEF Lock, AddToHistory, DisplayHistory
  <2> QED BY <1>3, <2>1, <2>2, <2>3, <2>4 DEF Main
<1>4. CASE Receiver
  BY <1>1, <1>4 DEF Receiver, RecvTest, RecvCall, RecvMessage, RecvEnd, EndMessage, AfterLoop,
     EndThread, Cancelled, Lock, AddToHistory, DisplayHistory
<1>5. CASE \/ \E c \in Typed : Type(c)
           \/ \E m \in Sendable : ServerSends(m)
           \/ EndOfInput \/ Stopped \/ UNCHANGED vars
  BY <1>1, <1>5 DEF Type, ServerSends, EndOfInput, Stopped, vars, netVars
<1>6. CASE ServerCloses
  BY <1>6 DEF ServerCloses
<1> QED BY <1>3, <1>4, <1>5, <1>6 DEF Next

\* Before a reset: every step keeps the status told.
LEMMA NextToldWhileUp ==
  ASSUME TypeOK, ProgramInv, LeaveInv, ToldInv, [Next]_vars, "rst" \notin peer
  PROVE  ToldInv'
<1>0. "main" \in Thread /\ "recv" \in Thread /\ "main" # "recv"
  BY DEF Thread
<1>1. CASE Connect
  <2>1. Alive /\ sock = {} /\ todo["main"] = <<>> /\ UNCHANGED <<todo, estado>>
    BY <1>1 DEF Connect, ProgramInv, LeaveInv, Early, Alive
  <2>2. LastTold(estado)
    BY <2>1 DEF ToldInv, Up, Coming
  <2>3. CASE sent' = Append(sent, [type |-> "REGISTRO", estado |-> None])
    <3> DEFINE r == [type |-> "REGISTRO", estado |-> None]
    <3>1. r \in Request /\ r.type # "ESTADO"
      BY DEF Request
    <3> HIDE DEF r
    <3>2. sent' = Append(sent, r)
      BY <2>3 DEF r
    <3>3. LastTold(estado)'
      BY <2>1, <2>2, <3>1, <3>2, TellingMore
    <3> QED BY <2>1, <3>3 DEF ToldInv, Coming
  <2>4. CASE UNCHANGED sent
    BY <2>1, <2>4, NothingTold
  <2> QED BY <1>1, <2>3, <2>4 DEF Connect, Write
<1>2. CASE EnviarJson
  <2> DEFINE r == Head(todo["main"]).arg
             s == todo["main"]
  <2>1. Ready("main", "send") /\ Done("main") /\ Write(r, "command", "command") /\ UNCHANGED estado
    BY <1>2 DEF EnviarJson
  <2>2. /\ s \in Program /\ s # <<>> /\ Head(s).op = "send" /\ Head(s) \in Step
        /\ todo'["main"] = Tail(s) /\ mpc = "command" /\ SetsWell(s)
    BY <2>1, MainStep DEF ProgramInv
  <2>3. r \in Request
    BY <2>2, StepFields
  <2>4. LastTold(estado) /\ sock = {}
    <3>1. ~NoOp(s, {"send", "add", "show"})
      BY <2>2, FirstStep
    <3> QED BY <2>2, <3>1 DEF ToldInv, Up, Coming, LeaveInv, Alive
  <2>5. CASE mpc' = "killed"
    BY <2>5 DEF ToldInv, Up, Alive
  <2>6. CASE sent' = Append(sent, r)
    <3>1. CASE r.type = "ESTADO"
      <4>1. PICK q \in Request : q = r
        BY <2>3
      <4>2. Coming(todo'["main"]) /\ Head(todo'["main"]).arg = q.estado
        BY <2>2, <3>1, <4>1, FirstStep DEF Coming
      <4>3. sent' = Append(sent, q) /\ q.type = "ESTADO"
        BY <2>6, <3>1, <4>1
      <4>4. LastTold(q.estado)'
        BY <4>3, TellingMore
      <4> QED BY <4>2, <4>4 DEF ToldInv, LastTold
    <3>2. CASE r.type # "ESTADO"
      <4>1. ~Coming(Tail(s))
        BY <2>2, <3>2, FirstStep DEF Coming
      <4>2. LastTold(estado)'
        <5> HIDE DEF r
        <5> QED BY <2>1, <2>3, <2>4, <2>6, <3>2, TellingMore
      <4> QED BY <2>1, <2>2, <4>1, <4>2 DEF ToldInv
    <3> QED BY <3>1, <3>2
  <2> QED BY <2>1, <2>4, <2>5, <2>6 DEF Write
<1>3. ASSUME NEW c \in Typed, Type(c) PROVE ToldInv'
  <2>1. inputs' \in Number
    BY <1>3, ClientAssumption DEF TypeOK, Type, Number
  <2>2. StartsWell(ManejarComando(c, inputs')) /\ ManejarComando(c, inputs') \in Program
    BY <2>1, ScriptAssumption, CommandsAreWellFormed DEF WellFormed
  <2>3. /\ todo'["main"] = ManejarComando(c, inputs') /\ todo["main"] = <<>>
        /\ UNCHANGED <<sent, estado>> /\ Alive
    BY <1>3 DEF Type, ProgramInv, TypeOK, Thread, Alive
  <2>4. ~Coming(todo'["main"])
    BY <2>2, <2>3, RestOfProgram DEF StartsWell, Coming
  <2> QED BY <2>3, <2>4, NothingTold DEF Coming
<1>4. ASSUME NEW op, op # "send", Ready("main", op), Done("main"), UNCHANGED sent,
             estado' = IF op = "set" THEN Head(todo["main"]).arg ELSE estado
      PROVE  ToldInv'
  <2>1. /\ todo["main"] \in Program /\ todo["main"] # <<>> /\ Head(todo["main"]).op = op
        /\ todo'["main"] = Tail(todo["main"]) /\ SetsWell(todo["main"]) /\ Alive
    BY <1>4, MainStep DEF ProgramInv, Ready
  <2>2. ~Coming(todo'["main"])
    BY <1>4, <2>1, FirstStep DEF Coming
  <2>3. LastTold(estado')
    BY <1>4, <2>1 DEF ToldInv, Up, Coming
  <2> QED BY <1>4, <2>2, <2>3 DEF ToldInv, LastTold, Told
<1>5. ASSUME UNCHANGED <<sent, estado>>, todo'["main"] = todo["main"], Alive' => Alive PROVE ToldInv'
  BY <1>5, NothingTold
<1>6. ASSUME NEW t \in Thread, AddToHistory(t) \/ DisplayHistory(t) PROVE ToldInv'
  <2>1. UNCHANGED <<mpc, sent, estado>>
    BY <1>6 DEF AddToHistory, DisplayHistory
  <2>2. PICK op \in {"add", "show"} : Ready(t, op) /\ Done(t)
    BY <1>6 DEF AddToHistory, DisplayHistory
  <2>3. CASE t = "main"
    BY <1>4, <2>1, <2>2, <2>3
  <2>4. CASE t = "recv"
    <3>1. todo'["main"] = todo["main"]
      BY <1>0, <2>2, <2>4, ReadyStep
    <3> QED BY <1>5, <2>1, <3>1 DEF Alive
  <2> QED BY <2>3, <2>4 DEF Thread
<1>7. CASE Main
  <2>1. CASE SetEstado \/ StopRunning \/ LeaveSocket \/ Cancel \/ Join
    BY <1>4, <2>1 DEF SetEstado, StopRunning, LeaveSocket, Cancel, Join
  <2>2. CASE \/ Answer \/ CreateThread \/ TestRunning \/ EndCommand \/ CloseAtEnd
             \/ JoinAtEnd \/ Lock("main")
    BY <1>5, <2>2 DEF Answer, CreateThread, TestRunning, EndCommand, CloseAtEnd, JoinAtEnd, Lock, Alive
  <2> QED BY <1>0, <1>1, <1>2, <1>6, <1>7, <2>1, <2>2 DEF Main
<1>8. CASE Receiver
  <2>1. CASE \/ RecvTest \/ RecvCall \/ RecvMessage \/ RecvEnd \/ EndMessage \/ AfterLoop
             \/ EndThread \/ Cancelled \/ Lock("recv")
    <3>1. UNCHANGED <<mpc, sent, estado>>
      BY <2>1 DEF RecvTest, RecvCall, RecvMessage, RecvEnd, EndMessage, AfterLoop, EndThread, Cancelled, Lock
    <3>2. todo'["main"] = todo["main"]
      BY <1>0, <2>1 DEF RecvTest, RecvCall, RecvMessage, RecvEnd, EndMessage, AfterLoop, EndThread,
         Cancelled, Lock, TypeOK
    <3> QED BY <1>5, <3>1, <3>2 DEF Alive
  <2> QED BY <1>0, <1>6, <1>8, <2>1 DEF Receiver
<1>9. ASSUME NEW m \in Sendable, ServerSends(m) PROVE ToldInv'
  BY <1>5, <1>9 DEF ServerSends, Alive
<1>10. CASE EndOfInput \/ ServerCloses \/ Stopped \/ UNCHANGED vars
  BY <1>5, <1>10 DEF EndOfInput, ServerCloses, Stopped, vars, Alive
<1> QED BY <1>3, <1>7, <1>8, <1>9, <1>10 DEF Next

LEMMA NextTold ==
  ASSUME TypeOK, ProgramInv, LeaveInv, ToldInv, [Next]_vars
  PROVE  ToldInv'
BY NextToldWhileUp, ResetStays DEF ToldInv, Up

LEMMA ToldInvImplies ==
  ASSUME ProgramInv, ToldInv
  PROVE  EstadoWasTold
BY DEF ProgramInv, ToldInv, Up, EstadoWasTold, LastTold, Coming, Alive

-----------------------------------------------------------------------------
(***************************************************************************)
(* The invariant and the theorems.                                         *)
(***************************************************************************)

ClientInv ==
  /\ TypeOK /\ HistoryInv /\ ProgramInv /\ LeaveInv /\ SentInv /\ ScreenInv /\ ToldInv

LEMMA InitInv == Init => ClientInv
<1> SUFFICES ASSUME Init PROVE ClientInv
  OBVIOUS
<1>1. TypeOK
  BY InitTypes
<1>2. /\ todo["main"] = <<>> /\ todo["recv"] = <<>> /\ sent = <<>> /\ written = <<>>
      /\ mpc = "connect" /\ rpc = "none" /\ running = TRUE /\ cancelled = FALSE /\ sock = {}
      /\ history_count = 0 /\ screen = <<>> /\ estado = "ACTIVO"
  BY DEF Init, Thread
<1>3. ProgramInv /\ LeaveInv
  BY <1>2, EmptyProgram DEF ProgramInv, LeaveInv
<1>4. HistoryInv
  BY <1>2, ClientAssumption, EmptySeq DEF HistoryInv
<1>5. SentInv
  BY <1>2 DEF SentInv, SentInOrder, Exited
<1>6. ScreenInv
  <2>1. History = <<>>
    BY <1>2 DEF History
  <2> QED BY <1>2, <2>1 DEF ScreenInv
<1>7. ToldInv
  BY <1>2 DEF ToldInv, Coming, LastTold, Told
<1> QED BY <1>1, <1>3, <1>4, <1>5, <1>6, <1>7 DEF ClientInv

LEMMA NextInv == ClientInv /\ [Next]_vars => ClientInv'
BY NextTypes, NextHistory, NextPrograms, NextSent, NextScreen, NextTold DEF ClientInv

\* The state of the client: every variable has its type, the history is the
\* last MAX_HISTORY lines both threads added (add_to_history, client.c:27-41),
\* and the screen shows it when neither thread has anything left to do.
THEOREM ClientStateOK == Spec => []StateOK
<1>1. ClientInv => StateOK
  BY HistoryInvImplies, ScreenInvImplies DEF ClientInv, StateOK
<1> QED BY <1>1, InitInv, NextInv, PTL DEF Spec

\* When the receive thread was cancelled with history_mutex held, main never
\* asks for the mutex again: handle_exit (client.c:201-223) has nothing to add
\* or draw, and clears `running` before it cancels.
THEOREM NobodyWaitsForTheCancelled == Spec => []NobodyWaitsForTheDead
<1>1. ClientInv => NobodyWaitsForTheDead
  <2> SUFFICES ASSUME ClientInv, rpc = "cancelled" PROVE NobodyWaitsForTheDead
    BY DEF NobodyWaitsForTheDead
  <2>1. ~running /\ NoOp(todo["main"], {"send", "add", "show"})
    BY DEF ClientInv, LeaveInv
  <2> QED BY <2>1 DEF NobodyWaitsForTheDead, NoOp
<1> QED BY <1>1, InitInv, NextInv, PTL DEF Spec

\* The server hears the registration first and once, and nothing after EXIT.
THEOREM RequestsAreInOrder == Spec => []SentInOrder
<1>1. ClientInv => SentInOrder
  BY DEF ClientInv, SentInv
<1> QED BY <1>1, InitInv, NextInv, PTL DEF Spec

\* Between commands, and as long as the connection was not reset, the status the
\* client has is the last one it wrote to the server, or the first one if it wrote
\* none (client.c:130-147).
THEOREM StatusWasTold == Spec => []EstadoWasTold
<1>1. ClientInv => EstadoWasTold
  BY ToldInvImplies DEF ClientInv
<1> QED BY <1>1, InitInv, NextInv, PTL DEF Spec
=============================================================================
