--------------------------- MODULE WinServerProofs ---------------------------
(***************************************************************************)
(* Proofs about WinServer, for every number of connections, socket numbers *)
(* and rows.                                                               *)
(***************************************************************************)
EXTENDS WinServer, SequenceTheorems, TLAPS

\* None is no value of any other kind, and NoReq is a request.
LEMMA WinConstants ==
  /\ None \notin Conn /\ None \notin Name /\ None \notin IP
  /\ None \notin Estado /\ None \notin Row /\ None \notin Nat
  /\ NoReq \in Request
  /\ "ACTIVO" \in Estado /\ "INACTIVO" \in Estado
  /\ MaxClients \in Nat \ {0} /\ OutCap \in Nat /\ Fd \subseteq Nat
  /\ Inactivity \notin Conn \cup {None}
BY WinAssumption DEF NoReq, Request, WireType

\* What a receive takes from a queue of requests is one of them, and leaves a queue.
LEMMA WinReceived ==
  ASSUME NEW S, NEW q \in Seq(S), NEW k \in 1 .. Len(q)
  PROVE  Head(q) \in S /\ SubSeq(q, k + 1, Len(q)) \in Seq(S)
<1>1. q # <<>>
  OBVIOUS
<1>2. Head(q) \in S
  BY <1>1, HeadTailProperties
<1>3. \A i \in k + 1 .. Len(q) : q[i] \in S
  OBVIOUS
<1>4. SubSeq(q, k + 1, Len(q)) \in Seq(S)
  BY <1>3, SubSeqProperties
<1> QED BY <1>2, <1>4

LEMMA EofIsRequest ==
  ASSUME NEW r \in Request PROVE [r EXCEPT !.type = "EOF"] \in Request
BY DEF Request

\* What a change of one field does to a row.
LEMMA RowChanges ==
  ASSUME NEW r \in Row
  PROVE  /\ \A e \in Estado :
              LET s == [r EXCEPT !.estado = e] IN
                /\ s \in Row /\ s.username = r.username
                /\ s.ip = r.ip /\ s.socket = r.socket
         /\ LET s == [r EXCEPT !.active = FALSE] IN
              /\ s \in Row /\ s.username = r.username
              /\ s.ip = r.ip /\ s.socket = r.socket
         /\ LET s == [r EXCEPT !.idle = TRUE] IN
              /\ s \in Row /\ s.username = r.username
              /\ s.ip = r.ip /\ s.socket = r.socket
         /\ LET s == Touched(r) IN
              /\ s \in Row /\ s.username = r.username
              /\ s.ip = r.ip /\ s.socket = r.socket
<1> USE DEF Row
<1>1. \A e \in Estado : [r EXCEPT !.estado = e] \in Row
  OBVIOUS
<1>2. [r EXCEPT !.active = FALSE] \in Row /\ [r EXCEPT !.idle = TRUE] \in Row
  OBVIOUS
<1>3. Touched(r) \in Row
  BY WinConstants DEF Touched
<1> QED BY <1>1, <1>2, <1>3 DEF Touched

TypeInv == TypeOK /\ ThreadOK /\ RoundOK

LEMMA WinInit == Init => TypeInv /\ LockDiscipline /\ TableOK
<1> SUFFICES ASSUME Init PROVE TypeInv /\ LockDiscipline /\ TableOK
  OBVIOUS
<1>1. TypeOK
  <2>1. <<>> \in Seq(Request)
    OBVIOUS
  <2>2. /\ rows \in [Slot -> Row \cup {None}] /\ count \in 0 .. MaxClients
        /\ kernel \in [Fd -> Conn \cup {None}] /\ sock \in [Conn -> Fd \cup {None}]
        /\ ptr \in [Conn -> Slot \cup {None}] /\ idx \in [Conn -> 0 .. MaxClients]
        /\ out \in [Conn -> 0 .. OutCap]
    BY WinConstants DEF Init
  <2>3. info \in [Conn -> [username : Name \cup {None}, ip : IP \cup {None}]]
    BY DEF Init, NoInfo
  <2>4. /\ pc \in [Conn -> Label] /\ req \in [Conn -> Request]
        /\ answer \in [Conn -> AnswerKind] /\ inq \in [Conn -> Seq(Request)]
    BY <2>1, WinConstants DEF Init, Label, AnswerKind
  <2>5. /\ mutex \in Conn \cup {Inactivity, None} /\ scan \in 0 .. MaxClients \cup {None}
        /\ peer \in [Conn -> {"absent", "fresh", "open", "leaving", "closed"}]
        /\ due \in BOOLEAN
    BY DEF Init
  <2> QED BY <2>2, <2>3, <2>4, <2>5 DEF TypeOK
<1>2. ThreadOK /\ RoundOK
  BY DEF Init, ThreadOK, RoundOK
<1>3. LockDiscipline /\ TableOK
  BY WinConstants DEF Init, LockDiscipline, TableOK, Slot
<1> QED BY <1>1, <1>2, <1>3 DEF TypeInv

\* What every step but those of add_client does to the table.
TableKept == /\ count' = count
             /\ \A i \in Slot :
                  /\ rows[i] = None => rows'[i] = None
                  /\ rows[i] # None =>
                       /\ rows'[i] # None
                       /\ rows'[i].username = rows[i].username
                       /\ rows'[i].ip = rows[i].ip
                       /\ rows'[i].socket = rows[i].socket

RowsTyped == rows \in [Slot -> Row \cup {None}]

\* A loop that changes one field of some rows.
LEMMA LoopMarks ==
  ASSUME RowsTyped, UNCHANGED count, NEW S \in SUBSET Slot,
         \A i \in S : rows[i] # None,
         \/ rows' = [i \in Slot |-> IF i \in S THEN Touched(rows[i]) ELSE rows[i]]
         \/ rows' = [i \in Slot |-> IF i \in S THEN [rows[i] EXCEPT !.active = FALSE]
                                   ELSE rows[i]]
  PROVE  RowsTyped' /\ TableKept
<1>1. \A i \in S : rows[i] \in Row
  BY DEF RowsTyped
<1>2. None \notin Row
  BY WinConstants
<1>3. CASE rows' = [i \in Slot |-> IF i \in S THEN Touched(rows[i]) ELSE rows[i]]
  <2>1. \A i \in S : LET r == Touched(rows[i]) IN
          /\ r \in Row /\ r.username = rows[i].username
          /\ r.ip = rows[i].ip /\ r.socket = rows[i].socket
    BY <1>1, RowChanges
  <2> QED BY <1>2, <1>3, <2>1 DEF RowsTyped, TableKept
<1>4. CASE rows' = [i \in Slot |-> IF i \in S THEN [rows[i] EXCEPT !.active = FALSE]
                                 ELSE rows[i]]
  <2>1. \A i \in S : LET r == [rows[i] EXCEPT !.active = FALSE] IN
          /\ r \in Row /\ r.username = rows[i].username
          /\ r.ip = rows[i].ip /\ r.socket = rows[i].socket
    BY <1>1, RowChanges
  <2> QED BY <1>2, <1>4, <2>1 DEF RowsTyped, TableKept
<1> QED BY <1>3, <1>4

\* A handler that changes one field of the row it has a pointer to.
LEMMA PointerMarks ==
  ASSUME RowsTyped, UNCHANGED count, NEW i \in Slot, rows[i] # None,
         NEW r \in Row, r.username = rows[i].username, r.ip = rows[i].ip,
         r.socket = rows[i].socket, rows' = [rows EXCEPT ![i] = r]
  PROVE  RowsTyped' /\ TableKept
BY WinConstants DEF RowsTyped, TableKept

LEMMA MarksRows ==
  ASSUME TypeInv,
         \/ \E c \in Conn : \/ Touch(c) \/ HandleEstado(c) \/ HandleExit(c)
                            \/ RemoveClient(c)
         \/ CheckInactivity
         \/ \E i \in Slot : TimePasses(i)
  PROVE  RowsTyped' /\ TableKept
<1>0. RowsTyped
  BY DEF TypeInv, TypeOK, RowsTyped
<1>1. ASSUME NEW c \in Conn, Touch(c) PROVE RowsTyped' /\ TableKept
  <2> DEFINE S == {i \in Slot : First(i, Using(sock[c]))}
  <2>1. \A i \in S : rows[i] # None
    BY DEF First, Using, Rows
  <2>2. rows' = [i \in Slot |-> IF i \in S THEN Touched(rows[i]) ELSE rows[i]]
    BY <1>1 DEF Touch, ActualizarActividad
  <2>3. UNCHANGED count
    BY <1>1 DEF Touch, ActualizarActividad
  <2> QED BY <1>0, <2>1, <2>2, <2>3, LoopMarks
<1>2. ASSUME NEW c \in Conn, HandleEstado(c) PROVE RowsTyped' /\ TableKept
  <2>0. UNCHANGED count
    BY <1>2 DEF HandleEstado
  <2>1. CASE UNCHANGED rows
    BY <1>0, <2>0, <2>1 DEF RowsTyped, TableKept
  <2>2. CASE ptr[c] # None /\ rows' = [rows EXCEPT ![ptr[c]].estado = req[c].estado]
    <3> DEFINE r == [rows[ptr[c]] EXCEPT !.estado = req[c].estado]
    <3>1. ptr[c] \in Slot /\ rows[ptr[c]] # None /\ rows[ptr[c]] \in Row
      BY <2>2 DEF TypeInv, TypeOK, ThreadOK
    <3>2. req[c].estado \in Estado
      BY <1>2 DEF TypeInv, TypeOK, ThreadOK, Incomplete, Request, HandleEstado, InUse
    <3>3. /\ r \in Row /\ r.username = rows[ptr[c]].username
          /\ r.ip = rows[ptr[c]].ip /\ r.socket = rows[ptr[c]].socket
      BY <3>1, <3>2, RowChanges
    <3>4. rows' = [rows EXCEPT ![ptr[c]] = r]
      BY <2>2
    <3> HIDE DEF r
    <3> QED BY <1>0, <2>0, <3>1, <3>3, <3>4, PointerMarks
  <2> QED BY <1>2, <2>1, <2>2 DEF HandleEstado
<1>3. ASSUME NEW c \in Conn, HandleExit(c) PROVE RowsTyped' /\ TableKept
  <2>0. UNCHANGED count
    BY <1>3 DEF HandleExit
  <2>1. CASE UNCHANGED rows
    BY <1>0, <2>0, <2>1 DEF RowsTyped, TableKept
  <2>2. CASE ptr[c] # None /\ rows' = [rows EXCEPT ![ptr[c]].active = FALSE]
    <3> DEFINE r == [rows[ptr[c]] EXCEPT !.active = FALSE]
    <3>1. ptr[c] \in Slot /\ rows[ptr[c]] # None /\ rows[ptr[c]] \in Row
      BY <2>2 DEF TypeInv, TypeOK, ThreadOK
    <3>2. /\ r \in Row /\ r.username = rows[ptr[c]].username
          /\ r.ip = rows[ptr[c]].ip /\ r.socket = rows[ptr[c]].socket
      BY <3>1, RowChanges
    <3>3. rows' = [rows EXCEPT ![ptr[c]] = r]
      BY <2>2
    <3> HIDE DEF r
    <3> QED BY <1>0, <2>0, <3>1, <3>2, <3>3, PointerMarks
  <2> QED BY <1>3, <2>1, <2>2 DEF HandleExit
<1>4. ASSUME NEW c \in Conn, RemoveClient(c) PROVE RowsTyped' /\ TableKept
  <2> DEFINE S == {i \in Slot : First(i, Using(sock[c]))}
  <2>1. \A i \in S : rows[i] # None
    BY DEF First, Using, Rows
  <2>2. rows' = [i \in Slot |-> IF i \in S THEN [rows[i] EXCEPT !.active = FALSE]
                               ELSE rows[i]]
    BY <1>4 DEF RemoveClient
  <2>3. UNCHANGED count
    BY <1>4 DEF RemoveClient
  <2> QED BY <1>0, <2>1, <2>2, <2>3, LoopMarks
<1>5. CASE CheckInactivity
  <2>1. CASE InactivityMarks
    <3> DEFINE r == [rows[scan] EXCEPT !.estado = "INACTIVO"]
    <3>1. scan \in Slot /\ rows[scan] # None /\ rows[scan] \in Row
      BY <2>1 DEF InactivityMarks, TypeInv, TypeOK, RoundOK
    <3>2. /\ r \in Row /\ r.username = rows[scan].username
          /\ r.ip = rows[scan].ip /\ r.socket = rows[scan].socket
      BY <3>1, WinConstants, RowChanges
    <3>3. UNCHANGED count /\ rows' = [rows EXCEPT ![scan] = r]
      BY <2>1 DEF InactivityMarks
    <3> HIDE DEF r
    <3> QED BY <1>0, <3>1, <3>2, <3>3, PointerMarks
  <2>2. CASE ~InactivityMarks
    <3>1. UNCHANGED tableVars
      BY <1>5, <2>2 DEF CheckInactivity, InactivityWakes, InactivityTests, InactivitySleeps
    <3> QED BY <1>0, <3>1 DEF tableVars, RowsTyped, TableKept
  <2> QED BY <2>1, <2>2
<1>6. ASSUME NEW i \in Slot, TimePasses(i) PROVE RowsTyped' /\ TableKept
  <2> DEFINE r == [rows[i] EXCEPT !.idle = TRUE]
  <2>1. rows[i] # None /\ rows[i] \in Row
    BY <1>0, <1>6 DEF TimePasses, Active, Rows, RowsTyped
  <2>2. /\ r \in Row /\ r.username = rows[i].username
        /\ r.ip = rows[i].ip /\ r.socket = rows[i].socket
    BY <2>1, RowChanges
  <2>3. UNCHANGED count /\ rows' = [rows EXCEPT ![i] = r]
    BY <1>6 DEF TimePasses
  <2> HIDE DEF r
  <2> QED BY <1>0, <2>1, <2>2, <2>3, PointerMarks
<1> QED BY <1>1, <1>2, <1>3, <1>4, <1>5, <1>6

LEMMA AcceptType == ASSUME TypeInv, NEW c \in Conn, Accept(c) PROVE TypeOK' /\ ThreadOK'
<1> USE WinConstants DEF TypeInv, Accept, Goto, tableVars, localVars, roundVars
<1>1. TypeOK'
  BY DEF TypeOK, Label
<1>2. ThreadOK'
  BY DEF TypeOK, ThreadOK, Label, Incomplete
<1> QED BY <1>1, <1>2

LEMMA ReceiveType == ASSUME TypeInv, NEW c \in Conn, Receive(c) PROVE TypeOK' /\ ThreadOK'
<1> USE WinConstants DEF TypeInv, Receive, Goto, tableVars, localVars, roundVars
<1>1. TypeOK'
  <2>1. kernel[sock[c]] \in Conn
    BY DEF TypeOK, ThreadOK
  <2>2. inq[kernel[sock[c]]] \in Seq(Request)
    BY <2>1 DEF TypeOK
  <2>3. PICK k \in 1 .. Len(inq[kernel[sock[c]]]) :
          /\ req' = [req EXCEPT ![c] = Head(inq[kernel[sock[c]]])]
          /\ inq' = [inq EXCEPT ![kernel[sock[c]]] = SubSeq(@, k + 1, Len(@))]
    OBVIOUS
  <2>4. /\ Head(inq[kernel[sock[c]]]) \in Request
        /\ SubSeq(inq[kernel[sock[c]]], k + 1, Len(inq[kernel[sock[c]]])) \in Seq(Request)
    BY <2>2, WinReceived
  <2>5. req' \in [Conn -> Request]
    BY <2>3, <2>4 DEF TypeOK
  <2>6. inq' \in [Conn -> Seq(Request)]
    BY <2>3, <2>4 DEF TypeOK
  <2> QED BY <2>5, <2>6 DEF TypeOK, Label
<1>2. ThreadOK'
  BY DEF TypeOK, ThreadOK, Label, Incomplete
<1> QED BY <1>1, <1>2

LEMMA EndOfStreamType == ASSUME TypeInv, NEW c \in Conn, EndOfStream(c) PROVE TypeOK' /\ ThreadOK'
<1> USE WinConstants DEF TypeInv, EndOfStream, Goto, tableVars, localVars, netVars, roundVars
<1>1. TypeOK'
  <2>1. req[c] \in Request
    BY DEF TypeOK
  <2>2. [req[c] EXCEPT !.type = "EOF"] \in Request
    BY <2>1, EofIsRequest
  <2> QED BY <2>2 DEF TypeOK, Label
<1>2. ThreadOK'
  BY DEF TypeOK, ThreadOK, Label, Incomplete
<1> QED BY <1>1, <1>2

LEMMA CloseType == ASSUME TypeInv, NEW c \in Conn, Close(c) PROVE TypeOK' /\ ThreadOK'
<1> USE WinConstants DEF TypeInv, Close, tableVars, roundVars
<1>1. TypeOK'
  <2>1. <<>> \in Seq(Request)
    OBVIOUS
  <2>2. /\ inq' \in [Conn -> Seq(Request)] /\ out' \in [Conn -> 0 .. OutCap]
        /\ peer' \in [Conn -> {"absent", "fresh", "open", "leaving", "closed"}]
    BY <2>1 DEF TypeOK
  <2>3. /\ kernel' \in [Fd -> Conn \cup {None}] /\ sock' \in [Conn -> Fd \cup {None}]
        /\ pc' \in [Conn -> Label] /\ req' \in [Conn -> Request]
        /\ ptr' \in [Conn -> Slot \cup {None}]
    BY DEF TypeOK, Label
  <2>4. info' \in [Conn -> [username : Name \cup {None}, ip : IP \cup {None}]]
    BY DEF TypeOK, NoInfo
  <2> QED BY <2>2, <2>3, <2>4 DEF TypeOK
<1>2. ThreadOK'
  BY DEF TypeOK, ThreadOK, Label, Incomplete
<1> QED BY <1>1, <1>2

LEMMA TouchType == ASSUME TypeInv, NEW c \in Conn, Touch(c) PROVE TypeOK' /\ ThreadOK'
<1> USE WinConstants DEF TypeInv, Touch, ActualizarActividad, roundVars, netVars
<1>1. RowsTyped' /\ \A i \in Slot : rows[i] # None => rows'[i] # None
  BY MarksRows DEF TableKept
<1>2. TypeOK'
  <2>1. pc' \in [Conn -> Label] /\ ptr' \in [Conn -> Slot \cup {None}]
    BY DEF TypeOK, Label, Goto, Answer, Idle
  <2>2. req' \in [Conn -> Request]
    BY DEF TypeOK, Answer, Idle
  <2>3. answer' \in [Conn -> AnswerKind]
    BY DEF TypeOK, Answer, Idle, AnswerKind
  <2> QED BY <1>1, <2>1, <2>2, <2>3 DEF RowsTyped, TypeOK
<1>3. ThreadOK'
  BY <1>1 DEF RowsTyped, TypeOK, ThreadOK, Label, Goto, Answer, Idle
<1> QED BY <1>2, <1>3

LEMMA FindType == ASSUME TypeInv, NEW c \in Conn, Find(c) PROVE TypeOK' /\ ThreadOK'
<1> USE WinConstants DEF TypeInv, Find, Goto, tableVars, netVars, roundVars
<1>1. TypeOK'
  <2>1. ptr' \in [Conn -> Slot \cup {None}]
    BY DEF TypeOK, First
  <2>2. pc' \in [Conn -> Label]
    BY DEF TypeOK, Label
  <2> QED BY <2>1, <2>2 DEF TypeOK
<1>2. \/ ptr' = [ptr EXCEPT ![c] = None]
      \/ \E i \in Slot : rows[i] # None /\ ptr' = [ptr EXCEPT ![c] = i]
  BY DEF First, Active, Rows
<1>3. ThreadOK'
  BY <1>2 DEF TypeOK, ThreadOK, Label
<1> QED BY <1>1, <1>3

LEMMA HandleRegisterType == ASSUME TypeInv, NEW c \in Conn, HandleRegister(c) PROVE TypeOK' /\ ThreadOK'
<1> USE WinConstants DEF TypeInv, HandleRegister, InUse, Goto, Answer, tableVars, netVars, roundVars
<1>1. req[c].usuario \in Name /\ req[c].ip \in IP
  BY DEF TypeOK, ThreadOK, Incomplete, Request
<1>2. TypeOK'
  <2>1. pc' \in [Conn -> Label] /\ answer' \in [Conn -> AnswerKind]
    BY DEF TypeOK, Label, AnswerKind
  <2>2. [username |-> req[c].usuario, ip |-> req[c].ip] \in
          [username : Name \cup {None}, ip : IP \cup {None}]
    BY <1>1
  <2>3. info' \in [Conn -> [username : Name \cup {None}, ip : IP \cup {None}]]
    BY <2>2 DEF TypeOK
  <2> QED BY <2>1, <2>3 DEF TypeOK
<1>3. ThreadOK'
  BY <1>1 DEF TypeOK, ThreadOK, Label
<1> QED BY <1>2, <1>3

LEMMA AddClientReadType == ASSUME TypeInv, NEW c \in Conn, AddClientRead(c) PROVE TypeOK' /\ ThreadOK'
<1> USE WinConstants DEF TypeInv, AddClientRead, Lock, Goto, tableVars, netVars, roundVars
<1>1. TypeOK'
  BY DEF TypeOK, Label
<1>2. ThreadOK'
  BY DEF TypeOK, ThreadOK, Label
<1> QED BY <1>1, <1>2

LEMMA NewRowTyped ==
  ASSUME TypeInv, NEW c \in Conn, AddClientWrite(c) PROVE NewRow(c) \in Row
BY WinConstants DEF TypeInv, TypeOK, ThreadOK, AddClientWrite, NewRow, Row

LEMMA AddClientWriteType == ASSUME TypeInv, NEW c \in Conn, AddClientWrite(c) PROVE TypeOK' /\ ThreadOK'
<1> USE WinConstants DEF TypeInv, AddClientWrite, Unlock, Goto, Answer, tableVars, netVars, roundVars
<1>1. NewRow(c) \in Row
  BY NewRowTyped
<1>2. idx[c] \in 0 .. MaxClients /\ (idx[c] < MaxClients => idx[c] + 1 \in 0 .. MaxClients)
  BY DEF TypeOK
<1>3. TypeOK'
  <2>1. pc' \in [Conn -> Label] /\ answer' \in [Conn -> AnswerKind]
    BY DEF TypeOK, Label, AnswerKind
  <2>2. RowsTyped' /\ count' \in 0 .. MaxClients
    <3>1. CASE UNCHANGED tableVars
      BY <3>1 DEF TypeOK, RowsTyped
    <3>2. CASE /\ idx[c] < MaxClients /\ count' = idx[c] + 1
               /\ rows' = [rows EXCEPT ![idx[c]] = NewRow(c)]
      BY <1>1, <1>2, <3>2 DEF TypeOK, RowsTyped
    <3> QED BY <3>1, <3>2
  <2>3. idx' \in [Conn -> 0 .. MaxClients] /\ mutex' \in Conn \cup {Inactivity, None}
    BY DEF TypeOK
  <2> QED BY <2>1, <2>2, <2>3 DEF TypeOK, RowsTyped
<1>4. ThreadOK'
  BY <1>1 DEF TypeOK, ThreadOK, Label
<1> QED BY <1>3, <1>4

LEMMA HandleEstadoType == ASSUME TypeInv, NEW c \in Conn, HandleEstado(c) PROVE TypeOK' /\ ThreadOK'
<1> USE WinConstants DEF TypeInv, HandleEstado, InUse, Goto, Answer, netVars, roundVars
<1>1. RowsTyped' /\ \A i \in Slot : rows[i] # None => rows'[i] # None
  BY MarksRows DEF TableKept
<1>2. TypeOK'
  BY <1>1 DEF RowsTyped, TypeOK, Label, AnswerKind
<1>3. ThreadOK'
  BY <1>1 DEF RowsTyped, TypeOK, ThreadOK, Label
<1> QED BY <1>2, <1>3

LEMMA HandleExitType == ASSUME TypeInv, NEW c \in Conn, HandleExit(c) PROVE TypeOK' /\ ThreadOK'
<1> USE WinConstants DEF TypeInv, HandleExit, InUse, Goto, localVars, netVars, roundVars
<1>1. RowsTyped' /\ \A i \in Slot : rows[i] # None => rows'[i] # None
  BY MarksRows DEF TableKept
<1>2. TypeOK'
  BY <1>1 DEF RowsTyped, TypeOK, Label
<1>3. ThreadOK'
  BY <1>1 DEF RowsTyped, TypeOK, ThreadOK, Label
<1> QED BY <1>2, <1>3

LEMMA RemoveClientType == ASSUME TypeInv, NEW c \in Conn, RemoveClient(c) PROVE TypeOK' /\ ThreadOK'
<1> USE WinConstants DEF TypeInv, RemoveClient, Goto, localVars, netVars, roundVars
<1>1. RowsTyped' /\ \A i \in Slot : rows[i] # None => rows'[i] # None
  BY MarksRows DEF TableKept
<1>2. TypeOK'
  BY <1>1 DEF RowsTyped, TypeOK, Label
<1>3. ThreadOK'
  BY <1>1 DEF RowsTyped, TypeOK, ThreadOK, Label
<1> QED BY <1>2, <1>3

\* What a send does: it counts, or does nothing.
LEMMA SendCounts ==
  ASSUME out \in [Conn -> 0 .. OutCap], kernel \in [Fd -> Conn \cup {None}],
         NEW f \in Fd, Send(f)
  PROVE  out' \in [Conn -> 0 .. OutCap]
BY WinAssumption DEF Send

\* The steps of a thread that lock, answer, send, or go on with a broadcast.
LEMMA SendType ==
  ASSUME TypeInv, NEW c \in Conn,
         \/ HandleMostrar(c) \/ SendDirectMessage(c) \/ LockAll(c) \/ BroadcastSend(c)
         \/ BroadcastEnd(c) \/ SendList(c) \/ SendReply(c)
  PROVE  TypeOK' /\ ThreadOK'
<1> USE WinConstants DEF TypeInv
<1>1. UNCHANGED <<rows, count, info, kernel, sock, inq, peer, scan, due>> /\ pc[c] # "none"
  BY DEF HandleMostrar, SendDirectMessage, LockAll, BroadcastSend, BroadcastEnd, SendList,
         SendReply, InUse, tableVars, netVars, localVars, roundVars
<1>2. \/ Idle(c)
      \/ Answer(c, "ERROR") \/ Answer(c, "INFO")
      \/ /\ UNCHANGED <<req, ptr, answer>>
         /\ UNCHANGED pc \/ Goto(c, "bcast") \/ Goto(c, "list")
  BY DEF HandleMostrar, SendDirectMessage, LockAll, BroadcastSend, BroadcastEnd, SendList,
         SendReply, localVars
<1>3. out' \in [Conn -> 0 .. OutCap]
  <2>0. out \in [Conn -> 0 .. OutCap] /\ kernel \in [Fd -> Conn \cup {None}]
    BY DEF TypeOK
  <2>1. UNCHANGED out \/ \E f \in Fd : Send(f)
    <3>1. CASE HandleMostrar(c) \/ LockAll(c) \/ BroadcastEnd(c)
      BY <3>1 DEF HandleMostrar, LockAll, BroadcastEnd, netVars
    <3>2. CASE SendDirectMessage(c)
      BY <3>2 DEF SendDirectMessage, TypeOK, ThreadOK, Row
    <3>3. CASE BroadcastSend(c)
      BY <3>3 DEF BroadcastSend, TypeOK, First, Active, Rows, Row
    <3>4. CASE SendList(c) \/ SendReply(c)
      BY <1>1, <3>4 DEF SendList, SendReply, ThreadOK
    <3> QED BY <3>1, <3>2, <3>3, <3>4
  <2> QED BY <2>0, <2>1, SendCounts
<1>4. mutex' \in Conn \cup {Inactivity, None} /\ idx' \in [Conn -> 0 .. MaxClients]
  <2>1. mutex' \in {mutex, c, None}
    BY DEF HandleMostrar, SendDirectMessage, LockAll, BroadcastSend, BroadcastEnd, SendList,
           SendReply, Lock, Unlock
  <2>2. UNCHANGED idx \/ idx' = [idx EXCEPT ![c] = 0]
        \/ \E i \in Slot : idx' = [idx EXCEPT ![c] = i + 1]
    BY DEF HandleMostrar, SendDirectMessage, LockAll, BroadcastSend, BroadcastEnd, SendList,
           SendReply, localVars
  <2>3. 0 \in 0 .. MaxClients /\ \A i \in Slot : i + 1 \in 0 .. MaxClients
    BY DEF Slot
  <2>4. idx' = idx \/ \E k \in 0 .. MaxClients : idx' = [idx EXCEPT ![c] = k]
    BY <2>2, <2>3
  <2>5. idx' \in [Conn -> 0 .. MaxClients]
    BY <2>4 DEF TypeOK
  <2> QED BY <2>1, <2>5 DEF TypeOK
<1>5. /\ pc' \in [Conn -> Label] /\ ptr' \in [Conn -> Slot \cup {None}]
      /\ req' \in [Conn -> Request] /\ answer' \in [Conn -> AnswerKind]
  <2>1. CASE Idle(c)
    BY <2>1 DEF TypeOK, Label, Idle, Goto, AnswerKind
  <2>2. CASE Answer(c, "ERROR") \/ Answer(c, "INFO")
    BY <2>2 DEF TypeOK, Label, Answer, Goto, AnswerKind
  <2>3. CASE /\ UNCHANGED <<req, ptr, answer>>
             /\ UNCHANGED pc \/ Goto(c, "bcast") \/ Goto(c, "list")
    BY <2>3 DEF TypeOK, Label, Goto
  <2> QED BY <1>2, <2>1, <2>2, <2>3
<1>6. TypeOK'
  BY <1>1, <1>3, <1>4, <1>5 DEF TypeOK
<1>7. /\ pc'[c] \in {"recv", "reply", "bcast", "list", pc[c]}
      /\ pc'[c] = pc[c] => UNCHANGED req
      /\ ptr'[c] = None \/ ptr'[c] = ptr[c]
      /\ \A d \in Conn \ {c} : pc'[d] = pc[d] /\ req'[d] = req[d] /\ ptr'[d] = ptr[d]
  <2>1. CASE Idle(c)
    <3>1. pc[c] # "recv"
      BY <2>1 DEF HandleMostrar, SendDirectMessage, LockAll, BroadcastSend, BroadcastEnd,
                  SendList, SendReply, InUse
    <3> QED BY <2>1, <3>1 DEF Idle, Goto, TypeOK
  <2>2. CASE Answer(c, "ERROR") \/ Answer(c, "INFO")
    BY <2>2 DEF Answer, Goto, TypeOK
  <2>3. CASE /\ UNCHANGED <<req, ptr, answer>>
             /\ UNCHANGED pc \/ Goto(c, "bcast") \/ Goto(c, "list")
    BY <2>3 DEF Goto, TypeOK
  <2> QED BY <1>2, <2>1, <2>2, <2>3
<1>8. ThreadOK'
  <2> HIDE DEF TypeInv
  <2>1. ThreadOK
    BY DEF TypeInv
  <2>2. ASSUME NEW d \in Conn, d # c
        PROVE  pc'[d] = pc[d] /\ req'[d] = req[d] /\ ptr'[d] = ptr[d]
    BY <1>7, <2>2
  <2> QED BY <1>1, <1>7, <2>1, <2>2 DEF ThreadOK, Incomplete
<1> QED BY <1>6, <1>8

\* Time, the inactivity thread and the programs at the other end.
LEMMA TimeType ==
  ASSUME TypeInv, CheckInactivity \/ \E i \in Slot : TimePasses(i)
  PROVE  TypeOK' /\ ThreadOK'
<1> USE WinConstants DEF TypeInv
<1>1. RowsTyped' /\ (\A i \in Slot : rows[i] # None => rows'[i] # None) /\ UNCHANGED count
  BY MarksRows DEF TableKept
<1>2. UNCHANGED <<pc, req, ptr, idx, info, answer, kernel, sock, inq, out, peer>>
  BY DEF CheckInactivity, InactivityWakes, InactivityTests, InactivityMarks, InactivitySleeps,
         TimePasses, localVars, netVars
<1>3. mutex' \in {mutex, Inactivity, None}
  BY DEF CheckInactivity, InactivityWakes, InactivityTests, InactivityMarks, InactivitySleeps,
         TimePasses, Lock, Unlock
<1>4. scan' \in 0 .. MaxClients \cup {None} /\ due' \in BOOLEAN
  <2>1. CASE InactivityWakes
    BY <2>1 DEF InactivityWakes, TypeOK
  <2>2. CASE InactivityTests
    <3>1. scan \in 0 .. MaxClients /\ count \in 0 .. MaxClients /\ scan < count
      BY <2>2 DEF InactivityTests, TypeOK
    <3>2. scan + 1 \in 0 .. MaxClients
      BY <3>1
    <3>3. scan' = scan \/ scan' = scan + 1
      BY <2>2 DEF InactivityTests
    <3>4. due' \in BOOLEAN
      BY <2>2 DEF InactivityTests, TypeOK
    <3> QED BY <3>1, <3>2, <3>3, <3>4
  <2>3. CASE InactivityMarks
    <3>1. scan \in 0 .. MaxClients - 1
      BY <2>3 DEF InactivityMarks, RoundOK, Slot
    <3>2. scan + 1 \in 0 .. MaxClients
      BY <3>1
    <3> QED BY <2>3, <3>2 DEF InactivityMarks
  <2>4. CASE InactivitySleeps \/ \E i \in Slot : TimePasses(i)
    BY <2>4 DEF InactivitySleeps, TimePasses, TypeOK, roundVars
  <2> QED BY <2>1, <2>2, <2>3, <2>4 DEF CheckInactivity
<1>5. TypeOK'
  BY <1>1, <1>2, <1>3, <1>4 DEF RowsTyped, TypeOK
<1>6. ThreadOK'
  BY <1>1, <1>2 DEF TypeOK, ThreadOK
<1> QED BY <1>5, <1>6

LEMMA PeerType ==
  ASSUME TypeInv, NEW c \in Conn, Peer(c) PROVE TypeOK' /\ ThreadOK'
<1> USE WinConstants DEF TypeInv, Peer, PeerSend, PeerRead, PeerClose, tableVars, localVars,
        roundVars
<1>1. \A r \in Script[c] : r \in Request
  BY WinAssumption
<1>2. inq' \in [Conn -> Seq(Request)]
  <2>1. CASE UNCHANGED inq
    BY <2>1 DEF TypeOK
  <2>2. ASSUME NEW r \in Script[c], inq' = [inq EXCEPT ![c] = Append(@, r)]
        PROVE  inq' \in [Conn -> Seq(Request)]
    <3>1. Append(inq[c], r) \in Seq(Request)
      BY <1>1 DEF TypeOK
    <3> QED BY <2>2, <3>1 DEF TypeOK
  <2> QED BY <2>1, <2>2
<1>3. out' \in [Conn -> 0 .. OutCap]
  <2>1. out \in [Conn -> 0 .. OutCap] /\ OutCap \in Nat
    BY WinAssumption DEF TypeOK
  <2>2. \/ UNCHANGED out \/ out' = [out EXCEPT ![c] = 0]
        \/ out[c] > 0 /\ out' = [out EXCEPT ![c] = @ - 1]
    OBVIOUS
  <2> QED BY <2>1, <2>2
<1>4. TypeOK'
  BY <1>2, <1>3 DEF TypeOK
<1>5. ThreadOK'
  BY DEF TypeOK, ThreadOK
<1> QED BY <1>4, <1>5

-----------------------------------------------------------------------------
(***************************************************************************)
(* What the steps do to the table and to the section of each thread.       *)
(***************************************************************************)

\* The steps of a thread that write no row.
Reads(c) ==
  \/ Receive(c) \/ EndOfStream(c) \/ Find(c) \/ HandleRegister(c) \/ AddClientRead(c)
  \/ HandleMostrar(c) \/ SendDirectMessage(c) \/ LockAll(c) \/ BroadcastSend(c)
  \/ BroadcastEnd(c) \/ SendList(c) \/ SendReply(c) \/ Close(c)

LEMMA ReadsTable ==
  ASSUME NEW c \in Conn, Accept(c) \/ Reads(c) \/ Peer(c) PROVE UNCHANGED tableVars
BY DEF Reads, Accept, Receive, EndOfStream, Find, HandleRegister, AddClientRead, HandleMostrar,
       SendDirectMessage, LockAll, BroadcastSend, BroadcastEnd, SendList, SendReply, Close,
       Peer, PeerSend, PeerRead, PeerClose, tableVars

\* Every step but those of add_client leaves the table's names alone.
LEMMA TableFrame ==
  ASSUME TypeInv, [Next]_vars
  PROVE  TableKept \/ \E c \in Conn : AddClientWrite(c)
<1>1. ASSUME UNCHANGED tableVars PROVE TableKept
  BY <1>1 DEF tableVars, TableKept
<1>2. CASE UNCHANGED vars
  BY <1>1, <1>2 DEF vars, tableVars
<1>3. CASE \E c \in Conn : Accept(c) \/ Reads(c) \/ Peer(c)
  BY <1>1, <1>3, ReadsTable
<1>4. CASE \/ \E c \in Conn : \/ Touch(c) \/ HandleEstado(c) \/ HandleExit(c)
                              \/ RemoveClient(c)
           \/ CheckInactivity
           \/ \E i \in Slot : TimePasses(i)
  BY <1>4, MarksRows
<1> QED BY <1>2, <1>3, <1>4 DEF Next, Thread, Reads

\* add_client writes one row, whichever its index.
LEMMA WrittenRows ==
  ASSUME TypeInv, NEW c \in Conn, AddClientWrite(c)
  PROVE  \A i \in Slot : rows[i] # None => rows'[i] # None
<1>1. NewRow(c) # None
  BY WinConstants, NewRowTyped
<1> QED BY <1>1 DEF AddClientWrite, TypeInv, TypeOK, tableVars

LEMMA RoundStep == ASSUME TypeInv, [Next]_vars PROVE RoundOK'
<1>1. \A i \in Slot : rows[i] # None => rows'[i] # None
  BY TableFrame, WrittenRows DEF TableKept
<1>2. CASE UNCHANGED roundVars
  BY <1>1, <1>2 DEF TypeInv, RoundOK, roundVars
<1>3. CASE CheckInactivity
  <2>1. CASE InactivityTests
    <3>1. ~due /\ (due' => scan' = scan /\ Due(scan))
      BY <2>1 DEF InactivityTests
    <3>2. Due(scan) => scan \in Slot /\ rows[scan] # None
      BY DEF Due, Active, Rows
    <3> QED BY <1>1, <3>1, <3>2 DEF RoundOK
  <2>2. CASE InactivityMarks
    BY <2>2 DEF InactivityMarks, RoundOK
  <2>3. CASE InactivityWakes \/ InactivitySleeps
    <3>1. ~due'
      BY <2>3, WinConstants DEF InactivityWakes, InactivitySleeps, TypeInv, RoundOK, Slot
    <3> QED BY <3>1 DEF RoundOK
  <2> QED BY <1>3, <2>1, <2>2, <2>3 DEF CheckInactivity
<1>4. ASSUME NEW c \in Conn, Accept(c) \/ Thread(c) \/ Peer(c) PROVE UNCHANGED roundVars
  BY <1>4 DEF Thread, Accept, Receive, EndOfStream, Touch, ActualizarActividad, Find,
     HandleRegister, AddClientRead, AddClientWrite, HandleEstado, HandleMostrar,
     SendDirectMessage, HandleExit, RemoveClient, LockAll, BroadcastSend, BroadcastEnd,
     SendList, SendReply, Close, Peer, PeerSend, PeerRead, PeerClose, roundVars
<1>5. ASSUME UNCHANGED vars \/ \E i \in Slot : TimePasses(i) PROVE UNCHANGED roundVars
  BY <1>5 DEF TimePasses, vars, roundVars
<1> QED BY <1>2, <1>3, <1>4, <1>5 DEF Next

LEMMA TypeStep == TypeInv /\ [Next]_vars => TypeInv'
<1> SUFFICES ASSUME TypeInv, [Next]_vars PROVE TypeInv'
  OBVIOUS
<1>0. RoundOK'
  BY RoundStep
<1>1. CASE UNCHANGED vars
  BY <1>1 DEF TypeInv, TypeOK, ThreadOK, RoundOK, vars
<1>2. ASSUME NEW c \in Conn, Accept(c) \/ Peer(c) PROVE TypeOK' /\ ThreadOK'
  BY <1>2, AcceptType, PeerType
<1>3. ASSUME NEW c \in Conn, Thread(c) PROVE TypeOK' /\ ThreadOK'
  BY <1>3, ReceiveType, EndOfStreamType, TouchType, FindType, HandleRegisterType,
     AddClientReadType, AddClientWriteType, HandleEstadoType, HandleExitType,
     RemoveClientType, SendType, CloseType
     DEF Thread
<1>4. ASSUME CheckInactivity \/ \E i \in Slot : TimePasses(i) PROVE TypeOK' /\ ThreadOK'
  BY <1>4, TimeType
<1> QED BY <1>0, <1>1, <1>2, <1>3, <1>4 DEF Next, TypeInv

\* The Windows server never leaves its state space, and no thread follows a
\* pointer to a row that was not written or reads a field that is missing,
\* whether or not its mutex works (handle_client, add_client, check_inactivity).
THEOREM WinTypeCorrect == Spec => [](TypeOK /\ ThreadOK /\ RoundOK)
<1>1. Init => TypeInv
  BY WinInit
<1>2. TypeInv => TypeOK /\ ThreadOK /\ RoundOK
  BY DEF TypeInv
<1> QED BY <1>1, <1>2, TypeStep, PTL DEF Spec

-----------------------------------------------------------------------------
(***************************************************************************)
(* The table, when the mutex works.                                        *)
(***************************************************************************)

Section == {"store", "bcast", "list"}

\* A step outside the sections, or within one.
LEMMA SectionFrame ==
  ASSUME TypeInv, NEW c \in Conn,
         \/ Accept(c) \/ Receive(c) \/ EndOfStream(c) \/ Touch(c) \/ Find(c)
         \/ HandleRegister(c) \/ HandleEstado(c) \/ HandleMostrar(c)
         \/ SendDirectMessage(c) \/ HandleExit(c) \/ RemoveClient(c) \/ BroadcastSend(c)
         \/ SendReply(c) \/ Close(c) \/ Peer(c)
  PROVE  /\ UNCHANGED <<mutex, scan>>
         /\ \A d \in Conn : pc'[d] \in Section <=> pc[d] \in Section
<1>0. pc \in [Conn -> Label]
  BY DEF TypeInv, TypeOK
<1>1. UNCHANGED <<mutex, scan>>
  BY DEF Accept, Receive, EndOfStream, Touch, ActualizarActividad, Find, HandleRegister,
     HandleEstado, HandleMostrar, SendDirectMessage, HandleExit, RemoveClient, BroadcastSend,
     SendReply, Close, Peer, PeerSend, PeerRead, PeerClose, roundVars
<1>2. \/ UNCHANGED pc
      \/ /\ pc[c] \notin Section
         /\ \E l \in Label \ Section : pc' = [pc EXCEPT ![c] = l]
  BY DEF Accept, Receive, EndOfStream, Touch, ActualizarActividad, Find, HandleRegister,
     HandleEstado, HandleMostrar, SendDirectMessage, HandleExit, RemoveClient, BroadcastSend,
     SendReply, Close, Peer, PeerSend, PeerRead, PeerClose, Goto, Answer, Idle, InUse,
     Section, Label
<1> QED BY <1>0, <1>1, <1>2

LEMMA LockStep ==
  ASSUME MutexWorks, TypeInv, LockDiscipline, [Next]_vars PROVE LockDiscipline'
<1>0. /\ pc \in [Conn -> Label] /\ Inactivity \notin Conn /\ Inactivity # None
      /\ None \notin Conn /\ None \notin Nat /\ 0 \in Nat
      /\ \A c \in Conn : (mutex = c) <=> (pc[c] \in Section)
      /\ (mutex = Inactivity) <=> (scan # None)
  BY WinConstants, WinAssumption DEF TypeInv, TypeOK, LockDiscipline, Section
<1>1. CASE UNCHANGED <<mutex, scan>> /\ \A c \in Conn : pc'[c] \in Section <=> pc[c] \in Section
  BY <1>1 DEF LockDiscipline, Section
<1>2. ASSUME NEW c \in Conn, AddClientRead(c) \/ LockAll(c) PROVE LockDiscipline'
  <2>1. mutex = None /\ mutex' = c /\ UNCHANGED scan
    BY <1>2 DEF AddClientRead, LockAll, Lock, Unlocked, roundVars
  <2>2. \E l \in Section : pc' = [pc EXCEPT ![c] = l]
    BY <1>2 DEF AddClientRead, LockAll, Goto, Section
  <2>3. pc'[c] \in Section /\ \A d \in Conn \ {c} : pc'[d] = pc[d]
    BY <1>0, <2>2
  <2> QED BY <1>0, <2>1, <2>3 DEF LockDiscipline, Section
<1>3. ASSUME NEW c \in Conn, AddClientWrite(c) \/ BroadcastEnd(c) \/ SendList(c)
      PROVE  LockDiscipline'
  <2>1. pc[c] \in Section
    BY <1>3 DEF AddClientWrite, BroadcastEnd, SendList, Section
  <2>2. mutex = c /\ mutex' = None /\ UNCHANGED scan
    BY <1>0, <1>3, <2>1 DEF AddClientWrite, BroadcastEnd, SendList, Unlock, roundVars
  <2>3. pc' = [pc EXCEPT ![c] = "reply"] \/ pc' = [pc EXCEPT ![c] = "recv"]
    BY <1>3 DEF AddClientWrite, BroadcastEnd, SendList, Answer, Idle, Goto
  <2>4. pc'[c] \notin Section /\ \A d \in Conn \ {c} : pc'[d] = pc[d]
    BY <1>0, <2>3 DEF Section
  <2> QED BY <1>0, <2>2, <2>4 DEF LockDiscipline, Section
<1>4. CASE CheckInactivity \/ \E i \in Slot : TimePasses(i)
  <2>0. UNCHANGED pc
    BY <1>4 DEF CheckInactivity, InactivityWakes, InactivityTests, InactivityMarks,
       InactivitySleeps, TimePasses
  <2>1. CASE InactivityWakes
    BY <1>0, <2>0, <2>1 DEF InactivityWakes, Lock, Unlocked, LockDiscipline, Section
  <2>2. CASE InactivityTests
    <3>1. mutex' = mutex /\ scan # None /\ scan' \in {scan, scan + 1} /\ scan \in Nat
      BY <2>2 DEF InactivityTests, TypeInv, TypeOK
    <3>2. scan' # None
      BY <1>0, <3>1
    <3> QED BY <1>0, <2>0, <3>1, <3>2 DEF LockDiscipline, Section
  <2>3. CASE InactivityMarks
    <3>1. mutex' = mutex /\ scan' = scan + 1 /\ scan \in Nat
      BY <2>3 DEF InactivityMarks, TypeInv, RoundOK, Slot
    <3>2. scan # None /\ scan' # None
      BY <1>0, <3>1
    <3> QED BY <1>0, <2>0, <3>1, <3>2 DEF LockDiscipline, Section
  <2>4. CASE InactivitySleeps
    BY <1>0, <2>0, <2>4 DEF InactivitySleeps, Unlock, LockDiscipline, Section
  <2>5. CASE \E i \in Slot : TimePasses(i)
    BY <1>1, <2>0, <2>5 DEF TimePasses, roundVars
  <2> QED BY <1>4, <2>1, <2>2, <2>3, <2>4, <2>5 DEF CheckInactivity
<1>5. CASE UNCHANGED vars
  BY <1>1, <1>5 DEF vars
<1> QED BY <1>1, <1>2, <1>3, <1>4, <1>5, SectionFrame DEF Next, Thread

\* add_client writes the first row that was never written.
LEMMA AddWriteTable ==
  ASSUME MutexWorks, TypeInv, TableOK, NEW c \in Conn, AddClientWrite(c)
  PROVE  /\ \A i \in Slot : rows[i] # None => rows'[i] = rows[i]
         /\ \A i \in Slot : rows'[i] # None <=> i < count'
<1>1. idx[c] = count
  BY DEF AddClientWrite, TableOK
<1>2. count \in 0 .. MaxClients /\ MaxClients \in Nat
  BY WinConstants DEF TypeInv, TypeOK
<1>3. \A i \in Slot : i \in Nat /\ (rows[i] # None <=> i < count)
  BY WinConstants DEF TableOK, Slot
<1>4. NewRow(c) # None
  BY WinConstants, NewRowTyped
<1>5. CASE UNCHANGED tableVars
  BY <1>3, <1>5 DEF tableVars
<1>6. CASE /\ rows' = [rows EXCEPT ![count] = NewRow(c)]
           /\ count' = count + 1
  <2>1. \A i \in Slot : rows'[i] = IF i = count THEN NewRow(c) ELSE rows[i]
    BY <1>6 DEF TypeInv, TypeOK
  <2> QED BY <1>2, <1>3, <1>4, <1>6, <2>1
<1> QED BY <1>1, <1>5, <1>6 DEF AddClientWrite

RowsKept == \A i \in Slot : rows[i] # None =>
              /\ rows'[i] # None
              /\ rows'[i].username = rows[i].username
              /\ rows'[i].ip = rows[i].ip
              /\ rows'[i].socket = rows[i].socket

LEMMA RowsStep ==
  ASSUME MutexWorks, TypeInv, TableOK, [Next]_vars
  PROVE  RowsKept /\ \A i \in Slot : rows'[i] # None <=> i < count'
<1>1. CASE TableKept
  BY <1>1 DEF TableKept, TableOK, RowsKept
<1>2. ASSUME NEW c \in Conn, AddClientWrite(c)
      PROVE  RowsKept /\ \A i \in Slot : rows'[i] # None <=> i < count'
  BY <1>2, AddWriteTable DEF RowsKept
<1> QED BY <1>1, <1>2, TableFrame

\* Nobody but the thread that holds the mutex changes client_count.
LEMMA IndexStep ==
  ASSUME MutexWorks, TypeInv, LockDiscipline, TableOK, [Next]_vars
  PROVE  \A c \in Conn : pc'[c] = "store" => idx'[c] = count'
<1>0. pc \in [Conn -> Label] /\ idx \in [Conn -> 0 .. MaxClients]
      /\ \A c \in Conn : pc[c] = "store" => idx[c] = count
  BY DEF TypeInv, TypeOK, TableOK
<1>1. ASSUME NEW d \in Conn, AddClientRead(d)
      PROVE  \A c \in Conn : pc'[c] = "store" => idx'[c] = count'
  <2>1. /\ mutex = None /\ count' = count /\ pc' = [pc EXCEPT ![d] = "store"]
        /\ idx' = [idx EXCEPT ![d] = count]
    BY <1>1 DEF AddClientRead, Lock, Unlocked, Goto, tableVars
  <2>2. \A c \in Conn : pc[c] # "store"
    BY <2>1, WinConstants DEF LockDiscipline
  <2> QED BY <1>0, <2>1, <2>2
<1>2. ASSUME NEW d \in Conn, AddClientWrite(d)
      PROVE  \A c \in Conn : pc'[c] # "store"
  <2>1. pc' = [pc EXCEPT ![d] = "reply"] /\ pc[d] = "store"
    BY <1>2 DEF AddClientWrite, Answer, Goto
  <2>2. \A c \in Conn \ {d} : pc[c] # "store"
    BY <2>1 DEF LockDiscipline
  <2> QED BY <1>0, <2>1, <2>2
<1>3. ASSUME NEW d \in Conn,
             \/ Accept(d) \/ Receive(d) \/ EndOfStream(d) \/ Touch(d) \/ Find(d)
             \/ HandleRegister(d) \/ HandleEstado(d) \/ HandleMostrar(d)
             \/ SendDirectMessage(d) \/ HandleExit(d) \/ RemoveClient(d)
             \/ LockAll(d) \/ BroadcastSend(d) \/ BroadcastEnd(d) \/ SendList(d)
             \/ SendReply(d) \/ Close(d) \/ Peer(d)
      PROVE  \A c \in Conn : pc'[c] = "store" => pc[c] = "store" /\ idx'[c] = idx[c]
  <2>1. UNCHANGED pc \/ \E l \in Label \ {"store"} : pc' = [pc EXCEPT ![d] = l]
    BY <1>3 DEF Accept, Receive, EndOfStream, Touch, ActualizarActividad, Find, HandleRegister,
       HandleEstado, HandleMostrar, SendDirectMessage, HandleExit, RemoveClient, LockAll,
       BroadcastSend, BroadcastEnd, SendList, SendReply, Close, Peer, PeerSend, PeerRead,
       PeerClose, Goto, Answer, Idle, Label
  <2>2. UNCHANGED idx \/ (pc[d] = "bcast" /\ \E x : idx' = [idx EXCEPT ![d] = x])
    BY <1>3 DEF Accept, Receive, EndOfStream, Touch, ActualizarActividad, Find, HandleRegister,
       HandleEstado, HandleMostrar, SendDirectMessage, HandleExit, RemoveClient, LockAll,
       BroadcastSend, BroadcastEnd, SendList, SendReply, Close, Peer, PeerSend, PeerRead,
       PeerClose, localVars
  <2> QED BY <1>0, <2>1, <2>2
<1>4. ASSUME UNCHANGED vars \/ CheckInactivity \/ \E i \in Slot : TimePasses(i)
      PROVE  UNCHANGED <<pc, idx>>
  BY <1>4 DEF vars, CheckInactivity, InactivityWakes, InactivityTests, InactivityMarks,
     InactivitySleeps, TimePasses, localVars
<1>5. CASE TableKept
  BY <1>0, <1>1, <1>2, <1>3, <1>4, <1>5 DEF TableKept, Next, Thread
<1>6. CASE \E d \in Conn : AddClientWrite(d)
  BY <1>2, <1>6
<1> QED BY <1>5, <1>6, TableFrame

\* Only a request that arrives on its number makes a row be seen again.
LEMMA StaysIdle ==
  ASSUME MutexWorks, TypeInv, TableOK, [Next]_vars, NEW i \in Slot, rows[i] # None,
         rows[i].idle, ~\E c \in Conn : Touch(c)
  PROVE  rows'[i].idle
<1>0. rows \in [Slot -> Row \cup {None}] /\ rows[i] \in Row
  BY DEF TypeInv, TypeOK
<1>1. CASE UNCHANGED rows
  BY <1>1
<1>2. ASSUME NEW j, NEW e, rows' = [rows EXCEPT ![j].estado = e] PROVE rows'[i].idle
  BY <1>0, <1>2 DEF Row
<1>3. ASSUME NEW j, rows' = [rows EXCEPT ![j].active = FALSE] PROVE rows'[i].idle
  BY <1>0, <1>3 DEF Row
<1>4. ASSUME NEW j, rows' = [rows EXCEPT ![j].idle = TRUE] PROVE rows'[i].idle
  BY <1>0, <1>4 DEF Row
<1>5. ASSUME NEW c \in Conn, RemoveClient(c) PROVE rows'[i].idle
  <2>1. rows'[i] = rows[i] \/ rows'[i] = [rows[i] EXCEPT !.active = FALSE]
    BY <1>5 DEF RemoveClient
  <2> QED BY <1>0, <2>1 DEF Row
<1>6. ASSUME NEW c \in Conn, AddClientWrite(c) PROVE rows'[i].idle
  BY <1>6, AddWriteTable
<1>7. ASSUME NEW c \in Conn, HandleEstado(c) \/ HandleExit(c) PROVE rows'[i].idle
  BY <1>1, <1>2, <1>3, <1>7 DEF HandleEstado, HandleExit
<1>8. ASSUME CheckInactivity \/ \E j \in Slot : TimePasses(j) PROVE rows'[i].idle
  BY <1>1, <1>2, <1>4, <1>8 DEF CheckInactivity, InactivityWakes, InactivityTests,
     InactivityMarks, InactivitySleeps, TimePasses, tableVars
<1>9. ASSUME UNCHANGED vars PROVE rows'[i].idle
  BY <1>1, <1>9 DEF vars
<1>10. ASSUME NEW c \in Conn, Accept(c) \/ Reads(c) \/ Peer(c) PROVE rows'[i].idle
  BY <1>1, <1>10, ReadsTable DEF tableVars
<1> QED BY <1>5, <1>6, <1>7, <1>8, <1>9, <1>10 DEF Next, Thread, Reads

\* While check_inactivity is between its test and its write, nobody is seen.
LEMMA DueStep ==
  ASSUME MutexWorks, TypeInv, LockDiscipline, TableOK, [Next]_vars
  PROVE  due' => rows'[scan'].idle
<1>1. CASE CheckInactivity
  <2>1. CASE InactivityTests
    <3>1. ~due /\ UNCHANGED rows /\ (due' => scan' = scan /\ Due(scan))
      BY <2>1 DEF InactivityTests, tableVars
    <3> QED BY <3>1 DEF Due
  <2>2. CASE InactivityMarks
    BY <2>2 DEF InactivityMarks
  <2>3. CASE InactivityWakes \/ InactivitySleeps
    <3>1. ~due'
      BY <2>3, WinConstants DEF InactivityWakes, InactivitySleeps, TypeInv, RoundOK, Slot
    <3> QED BY <3>1
  <2> QED BY <1>1, <2>1, <2>2, <2>3 DEF CheckInactivity
<1>2. CASE UNCHANGED roundVars /\ due
  <2>1. scan \in Slot /\ rows[scan] # None /\ rows[scan].idle
    BY <1>2 DEF TypeInv, RoundOK, TableOK
  <2>2. mutex # None
    BY <2>1, WinConstants, WinAssumption DEF LockDiscipline, Slot
  <2>3. ~\E c \in Conn : Touch(c)
    BY <2>2 DEF Touch, Unlocked
  <2>4. rows'[scan].idle
    BY <2>1, <2>3, StaysIdle
  <2> QED BY <1>2, <2>4 DEF roundVars
<1>3. CASE UNCHANGED roundVars /\ ~due
  BY <1>3 DEF roundVars
<1>4. ASSUME NEW c \in Conn, Accept(c) \/ Thread(c) \/ Peer(c) PROVE UNCHANGED roundVars
  BY <1>4 DEF Thread, Accept, Receive, EndOfStream, Touch, ActualizarActividad, Find,
     HandleRegister, AddClientRead, AddClientWrite, HandleEstado, HandleMostrar,
     SendDirectMessage, HandleExit, RemoveClient, LockAll, BroadcastSend, BroadcastEnd,
     SendList, SendReply, Close, Peer, PeerSend, PeerRead, PeerClose, roundVars
<1>5. ASSUME UNCHANGED vars \/ \E i \in Slot : TimePasses(i) PROVE UNCHANGED roundVars
  BY <1>5 DEF TimePasses, vars, roundVars
<1> QED BY <1>1, <1>2, <1>3, <1>4, <1>5 DEF Next

LookedFor(c) == IF req[c].type = "DM" THEN req[c].destino ELSE req[c].usuario
Found(c) == ptr[c] # None /\ pc[c] = "use" => rows[ptr[c]].username = LookedFor(c)

\* A pointer leads to the name that was looked for, though others write to the row.
LEMMA FoundStep ==
  ASSUME MutexWorks, TypeInv, TableOK, [Next]_vars, NEW c \in Conn
  PROVE  Found(c)'
<1>0. /\ pc \in [Conn -> Label] /\ ptr \in [Conn -> Slot \cup {None}]
      /\ req \in [Conn -> Request] /\ Found(c)
      /\ ptr[c] # None => ptr[c] \in Slot /\ rows[ptr[c]] # None
  BY DEF TypeInv, TypeOK, ThreadOK, TableOK, Found, LookedFor
<1>1. CASE ptr'[c] = ptr[c] /\ pc'[c] = pc[c] /\ req'[c] = req[c]
  BY <1>0, <1>1, RowsStep DEF RowsKept, Found, LookedFor
<1>2. CASE pc'[c] # "use"
  BY <1>2 DEF Found
<1>3. CASE Find(c)
  <2>1. UNCHANGED <<rows, req>>
    BY <1>3 DEF Find, tableVars
  <2>2. \/ ptr' = [ptr EXCEPT ![c] = None]
        \/ \E i \in Slot : /\ rows[i].username = LookedFor(c)
                           /\ ptr' = [ptr EXCEPT ![c] = i]
    BY <1>3 DEF Find, First, LookedFor
  <2> QED BY <1>0, <2>1, <2>2 DEF Found, LookedFor
<1>4. ASSUME NEW d \in Conn, Accept(d) \/ Thread(d) \/ Peer(d), ~Find(d)
      PROVE  \/ pc'[c] # "use"
             \/ ptr'[c] = ptr[c] /\ pc'[c] = pc[c] /\ req'[c] = req[c]
  <2>1. \/ UNCHANGED <<pc, ptr, req>>
        \/ /\ \E l \in Label \ {"use"} : pc' = [pc EXCEPT ![d] = l]
           /\ ptr' = ptr \/ ptr' = [ptr EXCEPT ![d] = None]
           /\ \E r : req' = req \/ req' = [req EXCEPT ![d] = r]
    <3>1. CASE Peer(d) \/ BroadcastSend(d)
      BY <3>1 DEF Peer, PeerSend, PeerRead, PeerClose, BroadcastSend, localVars
    <3>2. CASE ~(Peer(d) \/ BroadcastSend(d))
      <4>1. \E l \in Label \ {"use"} : pc' = [pc EXCEPT ![d] = l]
        BY <1>4, <3>2 DEF Thread, Accept, Receive, EndOfStream, Touch, ActualizarActividad,
           HandleRegister, AddClientRead, AddClientWrite, HandleEstado, HandleMostrar,
           SendDirectMessage, HandleExit, RemoveClient, LockAll, BroadcastEnd, SendList,
           SendReply, Close, Goto, Answer, Idle, Label
      <4>2. ptr' = ptr \/ ptr' = [ptr EXCEPT ![d] = None]
        BY <1>4, <3>2 DEF Thread, Accept, Receive, EndOfStream, Touch, ActualizarActividad,
           HandleRegister, AddClientRead, AddClientWrite, HandleEstado, HandleMostrar,
           SendDirectMessage, HandleExit, RemoveClient, LockAll, BroadcastEnd, SendList,
           SendReply, Close, Answer, Idle, localVars
      <4>3. \E r : req' = req \/ req' = [req EXCEPT ![d] = r]
        BY <1>4, <3>2 DEF Thread, Accept, Receive, EndOfStream, Touch, ActualizarActividad,
           HandleRegister, AddClientRead, AddClientWrite, HandleEstado, HandleMostrar,
           SendDirectMessage, HandleExit, RemoveClient, LockAll, BroadcastEnd, SendList,
           SendReply, Close, Answer, Idle
      <4> QED BY <4>1, <4>2, <4>3
    <3> QED BY <3>1, <3>2
  <2> QED BY <1>0, <2>1
<1>5. ASSUME UNCHANGED vars \/ CheckInactivity \/ \E i \in Slot : TimePasses(i)
      PROVE  UNCHANGED <<pc, ptr, req>>
  BY <1>5 DEF vars, CheckInactivity, InactivityWakes, InactivityTests, InactivityMarks,
     InactivitySleeps, TimePasses, localVars
<1>6. ASSUME NEW d \in Conn, Find(d), d # c
      PROVE  ptr'[c] = ptr[c] /\ pc'[c] = pc[c] /\ req'[c] = req[c]
  <2>1. /\ pc' = [pc EXCEPT ![d] = "use"] /\ req' = req
        /\ \E i \in Slot \cup {None} : ptr' = [ptr EXCEPT ![d] = i]
    BY <1>6 DEF Find, Goto
  <2> QED BY <1>0, <1>6, <2>1
<1> QED BY <1>1, <1>2, <1>3, <1>4, <1>5, <1>6 DEF Next

LEMMA TableStep ==
  ASSUME MutexWorks, TypeInv, LockDiscipline, TableOK, [Next]_vars PROVE TableOK'
<1>1. \A c \in Conn : Found(c)'
  BY FoundStep
<1> QED BY <1>1, RowsStep, IndexStep, DueStep DEF TableOK, Found, LookedFor

\* With a mutex that works, the sections of add_client, broadcast_message,
\* list_connected_users and check_inactivity exclude one another although the last
\* three block or write in between, registrations fill the table row by row, and a
\* pointer kept across the unlock still leads to the user it was looked up for.
THEOREM WinInvariance == ASSUME MutexWorks PROVE Spec => []IInv
<1> DEFINE Inv == TypeInv /\ LockDiscipline /\ TableOK
<1>1. Init => Inv
  BY WinInit
<1>2. Inv /\ [Next]_vars => Inv'
  BY TypeStep, LockStep, TableStep
<1>3. Inv => IInv
  BY DEF TypeInv, IInv
<1> QED BY <1>1, <1>2, <1>3, PTL DEF Spec

\* With a mutex that works no registration overwrites another: add_client never
\* writes a row twice, however many threads register, leave and reconnect.
THEOREM NoLostRegistration == ASSUME MutexWorks PROVE Spec => RowsAreKept
<1>1. IInv /\ [Next]_vars => RowsKept
  BY RowsStep DEF IInv, TypeInv
<1>2. IInv /\ [Next]_vars => [RowsKept]_vars
  BY <1>1
<1>3. RowsAreKept <=> [][RowsKept]_vars
  BY DEF RowsAreKept, RowsKept
<1> QED BY <1>2, <1>3, WinInvariance, PTL DEF Spec

-----------------------------------------------------------------------------
(***************************************************************************)
(* What changes a status.                                                  *)
(***************************************************************************)

Reason(i) ==
  \/ \E c \in Conn : /\ InUse(c, "ESTADO")
                     /\ req[c].usuario = rows[i].username
                     /\ rows'[i].estado = req[c].estado
  \/ \E c \in Conn : /\ pc[c] = "touch" /\ sock[c] = rows[i].socket
                     /\ rows[i].estado = "INACTIVO"
                     /\ rows'[i].estado = "ACTIVO"
  \/ rows[i].idle /\ rows'[i].estado = "INACTIVO"

LEMMA StatusChanges ==
  ASSUME MutexWorks, TypeInv, TableOK, [Next]_vars, NEW i \in Rows,
         rows'[i].estado # rows[i].estado
  PROVE  Reason(i)
<1>0. i \in Slot /\ rows[i] \in Row /\ rows[i] # None /\ rows \in [Slot -> Row \cup {None}]
  BY DEF Rows, TypeInv, TypeOK
<1>1. ~UNCHANGED rows
  OBVIOUS
<1>2. ASSUME NEW d \in Conn, Touch(d) PROVE Reason(i)
  <2>1. rows'[i] = IF First(i, Using(sock[d])) THEN Touched(rows[i]) ELSE rows[i]
    BY <1>0, <1>2 DEF Touch, ActualizarActividad
  <2>2. rows[i].socket = sock[d] /\ rows'[i] = Touched(rows[i])
    BY <2>1 DEF First, Using
  <2>3. rows[i].estado = "INACTIVO" /\ rows'[i].estado = "ACTIVO"
    BY <1>0, <2>2 DEF Touched, Row
  <2>4. pc[d] = "touch"
    BY <1>2 DEF Touch, ActualizarActividad
  <2> QED BY <2>2, <2>3, <2>4 DEF Reason
<1>3. ASSUME NEW d \in Conn, HandleEstado(d) PROVE Reason(i)
  <2>1. /\ ptr[d] # None /\ rows' = [rows EXCEPT ![ptr[d]].estado = req[d].estado]
        /\ InUse(d, "ESTADO")
    BY <1>1, <1>3 DEF HandleEstado
  <2>2. ptr[d] = i
    BY <1>0, <2>1 DEF TypeInv, TypeOK
  <2>3. rows[i].username = req[d].usuario
    BY <2>1, <2>2 DEF TableOK, InUse
  <2>4. rows'[i].estado = req[d].estado
    BY <1>0, <2>1, <2>2 DEF Row
  <2> QED BY <2>1, <2>3, <2>4 DEF Reason
<1>4. \A e : /\ [rows[i] EXCEPT !.active = e].estado = rows[i].estado
             /\ [rows[i] EXCEPT !.idle = e].estado = rows[i].estado
  BY <1>0 DEF Row
<1>5. ASSUME NEW d \in Conn, HandleExit(d) PROVE FALSE
  <2>1. ptr[d] # None /\ rows' = [rows EXCEPT ![ptr[d]].active = FALSE]
    BY <1>1, <1>5 DEF HandleExit
  <2>2. rows'[i] = rows[i] \/ rows'[i] = [rows[i] EXCEPT !.active = FALSE]
    BY <1>0, <2>1
  <2> QED BY <1>4, <2>2
<1>6. ASSUME NEW d \in Conn, RemoveClient(d) PROVE FALSE
  <2>1. rows'[i] = rows[i] \/ rows'[i] = [rows[i] EXCEPT !.active = FALSE]
    BY <1>0, <1>6 DEF RemoveClient
  <2> QED BY <1>4, <2>1
<1>7. ASSUME NEW d \in Conn, AddClientWrite(d) PROVE FALSE
  BY <1>0, <1>7, AddWriteTable
<1>8. ASSUME NEW j \in Slot, TimePasses(j) PROVE FALSE
  <2>1. rows'[i] = rows[i] \/ rows'[i] = [rows[i] EXCEPT !.idle = TRUE]
    BY <1>0, <1>8 DEF TimePasses
  <2> QED BY <1>4, <2>1
<1>9. ASSUME CheckInactivity PROVE Reason(i)
  <2>1. due /\ rows' = [rows EXCEPT ![scan].estado = "INACTIVO"]
    BY <1>1, <1>9 DEF CheckInactivity, InactivityWakes, InactivityTests, InactivityMarks,
       InactivitySleeps, tableVars
  <2>2. scan = i
    BY <1>0, <2>1
  <2>3. rows[i].idle /\ rows'[i].estado = "INACTIVO"
    BY <1>0, <2>1, <2>2 DEF TableOK, Row
  <2> QED BY <2>3 DEF Reason
<1>10. ASSUME NEW c \in Conn, Accept(c) \/ Reads(c) \/ Peer(c) PROVE UNCHANGED rows
  BY <1>10, ReadsTable DEF tableVars
<1>11. ASSUME UNCHANGED vars PROVE UNCHANGED rows
  BY <1>11 DEF vars
<1> QED BY <1>1, <1>2, <1>3, <1>5, <1>6, <1>7, <1>8, <1>9, <1>10, <1>11
     DEF Next, Thread, Reads

\* With a mutex that works the status of a user changes only by an ESTADO that
\* names it, by a request on its number, or because it did nothing for 30 seconds,
\* still true when check_inactivity writes; whatever the programs send (ESTADO for
\* others and EXIT included) and however full the table is.
THEOREM StatusReasons == ASSUME MutexWorks PROVE Spec => StatusHasAReason
<1> DEFINE Reasons == \A i \in Rows : rows'[i].estado # rows[i].estado => Reason(i)
<1>1. IInv /\ [Next]_vars => Reasons
  BY StatusChanges DEF IInv, TypeInv
<1>2. IInv /\ [Next]_vars => [Reasons]_vars
  BY <1>1
<1>3. StatusHasAReason <=> [][Reasons]_vars
  BY DEF StatusHasAReason, Reason
<1> QED BY <1>2, <1>3, WinInvariance, PTL DEF Spec
=============================================================================
