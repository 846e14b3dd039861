------------------------------ MODULE WinServer ------------------------------
(***************************************************************************)
(* The Windows chat server: serverwindows/server.c and server_utils.c.     *)
(*                                                                         *)
(* One thread per connection runs handle_client; check_inactivity, another,*)
(* marks idle users.  They share the array `clients`, whose rows are never *)
(* removed, only marked; some handlers write to it without the mutex, and  *)
(* broadcast_message and list_connected_users send while they hold it.     *)
(* On Windows `clients_mutex` is a handle nobody creates:                  *)
(* WaitForSingleObject(NULL) fails at once and excludes nobody.  MutexWorks*)
(* says whether it does (the POSIX branch of the same source).             *)
(***************************************************************************)
EXTENDS Integers, Sequences, FiniteSets

CONSTANTS
  Conn,        \* connections; each one that is accepted has its own thread
  Name, IP, Estado,
  Fd,          \* socket numbers
  MaxClients,  \* MAX_CLIENTS
  MutexWorks,  \* clients_mutex was created
  Script,      \* the requests the program behind each connection may send
  InCap,       \* bound: requests waiting in a socket's receive buffer
  OutCap,      \* bound: messages a send buffer holds before send() blocks
  MayIdle,     \* bound: rows whose user may do nothing for 30 seconds
  Reader,      \* connections whose remote program keeps reading
  Inactivity,  \* the thread that runs check_inactivity
  None         \* NULL, "no thread", "no connection", "field missing"

WireType == {"REGISTRO", "ESTADO", "MOSTRAR", "EXIT", "MENSAJE",
             "BROADCAST", "DM", "LISTA"}

\* `usuario` also stands for nombre_emisor, `destino` for nombre_destinatario.
Request == [type : WireType \cup {"NONE", "EOF"}, usuario : Name \cup {None},
            destino : Name \cup {None}, estado : Estado \cup {None},
            ip : IP \cup {None}]
NoReq == [type |-> "NONE", usuario |-> None, destino |-> None,
          estado |-> None, ip |-> None]

Slot == 0 .. MaxClients - 1

\* A row of `clients`.  idle: last_action is more than 30 s ago.
Row == [socket : Fd, username : Name, ip : IP, estado : Estado,
        active : BOOLEAN, idle : BOOLEAN]

ASSUME WinAssumption ==
  /\ MaxClients \in Nat \ {0} /\ Fd \subseteq Nat
  /\ InCap \in Nat \ {0} /\ OutCap \in Nat \ {0} /\ Reader \subseteq Conn
  /\ Inactivity \notin Conn \cup {None}
  /\ MutexWorks \in BOOLEAN /\ MayIdle \subseteq Nat
  /\ {"ACTIVO", "INACTIVO"} \subseteq Estado
  /\ Script \in [Conn -> SUBSET {r \in Request : r.type \in WireType}]
  /\ None \notin Conn \cup Name \cup IP \cup Estado \cup Row \cup Nat

VARIABLES
  rows,    \* clients: Slot -> Row or None (never written)
  count,   \* client_count
  mutex,   \* the thread that holds clients_mutex
  kernel,  \* Fd -> the connection open under that number, or None
  sock,    \* handle_client's client_socket; it outlives the close after EXIT
  pc,      \* where each connection's thread is
  req,     \* the request a thread is handling
  ptr,     \* the row find_client_by_username returned, or None
  idx,     \* the index read from client_count, or that of broadcast_message
  info,    \* client_info: the name and address the thread registered with
  answer,  \* the answer a thread is about to send
  inq,     \* requests sent by the peer, not yet received
  out,     \* how many messages to the peer it has not yet read
  peer,    \* the remote end: absent, fresh (has sent nothing), open, leaving
           \* (has sent EXIT), closed
  scan,    \* check_inactivity: its loop index, None while it sleeps
  due      \* check_inactivity: row `scan` passed the test, the write comes next

vars == <<rows, count, mutex, kernel, sock, pc, req, ptr, idx, info, answer,
          inq, out, peer, scan, due>>
tableVars == <<rows, count>>
localVars == <<ptr, idx, info>>
netVars   == <<kernel, sock, inq, out, peer>>
roundVars == <<scan, due>>

NoInfo == [username |-> None, ip |-> None]

Init ==
  /\ rows = [i \in Slot |-> None] /\ count = 0 /\ mutex = None
  /\ kernel = [f \in Fd |-> None]
  /\ sock = [c \in Conn |-> None]
  /\ pc = [c \in Conn |-> "none"]
  /\ req = [c \in Conn |-> NoReq]
  /\ ptr = [c \in Conn |-> None]
  /\ idx = [c \in Conn |-> 0]
  /\ info = [c \in Conn |-> NoInfo]
  /\ answer = [c \in Conn |-> "NONE"]
  /\ inq = [c \in Conn |-> <<>>]
  /\ out = [c \in Conn |-> 0]
  /\ peer = [c \in Conn |-> "absent"]
  /\ scan = None /\ due = FALSE

-----------------------------------------------------------------------------
(***************************************************************************)
(* The table.  A scan takes one step: with a mutex that works nothing can  *)
(* come between its parts, without one it sees some snapshot.              *)
(***************************************************************************)

Unlocked == MutexWorks => mutex = None
Lock(t)  == Unlocked /\ mutex' = IF MutexWorks THEN t ELSE mutex
Unlock(t) == mutex' = IF mutex = t THEN None ELSE mutex

Rows      == {i \in Slot : i < count /\ rows[i] # None}
Active    == {i \in Rows : rows[i].active}
Using(fd) == {i \in Rows : rows[i].socket = fd}
First(i, S) == i \in S /\ \A j \in S : i <= j

Goto(c, l) == pc' = [pc EXCEPT ![c] = l]

\* Back to recv, or there after an answer.
Idle(c) == /\ Goto(c, "recv")
           /\ req' = [req EXCEPT ![c] = NoReq]
           /\ ptr' = [ptr EXCEPT ![c] = None]
           /\ answer' = [answer EXCEPT ![c] = "NONE"]
Answer(c, k) == /\ Goto(c, "reply")
                /\ answer' = [answer EXCEPT ![c] = k]
                /\ UNCHANGED <<req, ptr>>

-----------------------------------------------------------------------------
(***************************************************************************)
(* send() on socket number fd: it fails if nobody has the number or the    *)
(* peer is gone, and waits while the send buffer is full.                  *)
(***************************************************************************)

Send(fd) ==
  LET d == kernel[fd] IN
  \/ /\ d # None => peer[d] = "closed"
     /\ UNCHANGED out
  \/ /\ d # None /\ peer[d] # "closed" /\ out[d] < OutCap
     /\ out' = [out EXCEPT ![d] = @ + 1]

-----------------------------------------------------------------------------
(***************************************************************************)
(* Connections.                                                            *)
(***************************************************************************)

Accept(c) ==
  /\ pc[c] = "none"
  /\ \E f \in Fd : /\ kernel[f] = None
                   /\ kernel' = [kernel EXCEPT ![f] = c]
                   /\ sock' = [sock EXCEPT ![c] = f]
  /\ Goto(c, "recv")
  /\ peer' = [peer EXCEPT ![c] = "fresh"]
  /\ UNCHANGED <<tableVars, mutex, req, localVars, answer, inq, out, roundVars>>

\* recv on client_socket reads whatever connection has that number now.  Only
\* the first of several requests in the buffer is parsed.
Receive(c) ==
  /\ pc[c] = "recv" /\ kernel[sock[c]] # None
  /\ LET d == kernel[sock[c]] IN
       \E k \in 1 .. Len(inq[d]) :
         /\ req' = [req EXCEPT ![c] = Head(inq[d])]
         /\ inq' = [inq EXCEPT ![d] = SubSeq(@, k + 1, Len(@))]
  /\ Goto(c, "touch")
  /\ UNCHANGED <<tableVars, mutex, kernel, sock, localVars, answer, out, peer, roundVars>>

\* recv fails on a number that is not open, or returns 0.
EndOfStream(c) ==
  /\ pc[c] = "recv"
  /\ LET d == kernel[sock[c]] IN d # None => inq[d] = <<>> /\ peer[d] = "closed"
  /\ req' = [req EXCEPT ![c].type = "EOF"]
  /\ Goto(c, "remove")
  /\ UNCHANGED <<tableVars, mutex, localVars, answer, netVars, roundVars>>

\* closesocket closes whatever connection has the number.  After EXIT the
\* thread goes back to recv; otherwise it ends.
Close(c) ==
  /\ pc[c] = "close"
  /\ LET d == kernel[sock[c]]
         gone == IF d = None THEN {} ELSE {d}
         last == req[c].type # "EXIT"
     IN /\ kernel' = [kernel EXCEPT ![sock[c]] = None]
        /\ inq'  = [e \in Conn |-> IF e \in gone THEN <<>> ELSE inq[e]]
        /\ out'  = [e \in Conn |-> IF e \in gone THEN 0 ELSE out[e]]
        /\ peer' = [e \in Conn |-> IF e \in gone THEN "absent" ELSE peer[e]]
        /\ pc'   = [pc EXCEPT ![c] = IF last THEN "none" ELSE "recv"]
        /\ sock' = [sock EXCEPT ![c] = IF last THEN None ELSE @]
        /\ info' = [info EXCEPT ![c] = IF last THEN NoInfo ELSE @]
  /\ req' = [req EXCEPT ![c] = NoReq]
  /\ ptr' = [ptr EXCEPT ![c] = None]
  /\ UNCHANGED <<tableVars, mutex, idx, answer, roundVars>>

-----------------------------------------------------------------------------
(***************************************************************************)
(* Handling a request.                                                     *)
(***************************************************************************)

Incomplete(r) == \/ r.usuario = None
                 \/ r.type = "REGISTRO" /\ r.ip = None
                 \/ r.type = "ESTADO" /\ r.estado = None
                 \/ r.type = "DM" /\ r.destino = None

\* actualizar_actividad: the first row with the thread's socket number,
\* active or not, is marked as seen now.
Touched(r) ==
  [r EXCEPT !.estado = IF @ = "INACTIVO" THEN "ACTIVO" ELSE @,
            !.idle = FALSE, !.active = TRUE]

ActualizarActividad(c) ==
  /\ pc[c] = "touch"
  /\ rows' = [i \in Slot |-> IF First(i, Using(sock[c])) THEN Touched(rows[i])
                             ELSE rows[i]]
  /\ LET r == req[c] IN
     \/ /\ r.type \in {"REGISTRO", "ESTADO", "MOSTRAR", "EXIT", "DM"}
        /\ ~Incomplete(r)
        /\ Goto(c, "find") /\ UNCHANGED <<req, ptr, answer>>
     \/ /\ r.type \in {"REGISTRO", "ESTADO", "MOSTRAR"} /\ Incomplete(r)
        /\ Answer(c, "ERROR")
     \/ /\ r.type = "EXIT" /\ Incomplete(r)
        /\ Goto(c, "remove") /\ UNCHANGED <<req, ptr, answer>>
     \/ /\ r.type \in {"BROADCAST", "LISTA"}
        /\ Goto(c, "all") /\ UNCHANGED <<req, ptr, answer>>
     \/ /\ r.type = "MENSAJE" \/ (r.type = "DM" /\ Incomplete(r))
        /\ Idle(c)
  /\ UNCHANGED <<count, mutex, idx, info, netVars, roundVars>>

\* Mutant: actualizar_actividad takes no mutex.
TouchUnlocked(c) == ActualizarActividad(c)

Touch(c) == Unlocked /\ ActualizarActividad(c)

\* find_client_by_username; the pointer it returns is used after the unlock.
Find(c) ==
  /\ pc[c] = "find" /\ Unlocked
  /\ LET n == IF req[c].type = "DM" THEN req[c].destino ELSE req[c].usuario
         S == {i \in Active : rows[i].username = n}
     IN \/ S = {} /\ ptr' = [ptr EXCEPT ![c] = None]
        \/ \E i \in Slot : First(i, S) /\ ptr' = [ptr EXCEPT ![c] = i]
  /\ Goto(c, "use")
  /\ UNCHANGED <<tableVars, mutex, req, idx, info, answer, netVars, roundVars>>

InUse(c, t) == pc[c] = "use" /\ req[c].type = t

\* REGISTRO: the address is searched without the mutex.
HandleRegister(c) ==
  /\ InUse(c, "REGISTRO")
  /\ LET taken == ptr[c] # None \/ \E i \in Active : rows[i].ip = req[c].ip
     IN \/ taken /\ Answer(c, "ERROR") /\ UNCHANGED info
        \/ /\ ~taken
           /\ info' = [info EXCEPT ![c] =
                [username |-> req[c].usuario, ip |-> req[c].ip]]
           /\ Goto(c, "add") /\ UNCHANGED <<req, ptr, answer>>
  /\ UNCHANGED <<tableVars, mutex, idx, netVars, roundVars>>

\* Mutant: add_client does not take the mutex.
AddClientReadUnlocked(c) ==
  /\ pc[c] = "add"
  /\ idx' = [idx EXCEPT ![c] = count]
  /\ Goto(c, "store")
  /\ UNCHANGED <<tableVars, mutex, req, ptr, info, answer, netVars, roundVars>>

\* add_client: clients[client_count++] = client, read and then written.
AddClientRead(c) ==
  /\ pc[c] = "add" /\ Lock(c)
  /\ idx' = [idx EXCEPT ![c] = count]
  /\ Goto(c, "store")
  /\ UNCHANGED <<tableVars, req, ptr, info, answer, netVars, roundVars>>

NewRow(c) == [socket |-> sock[c], username |-> info[c].username,
              ip |-> info[c].ip, estado |-> "ACTIVO", active |-> TRUE,
              idle |-> FALSE]

\* A full table is only reported on stderr: the answer is OK all the same.
AddClientWrite(c) ==
  /\ pc[c] = "store"
  /\ \/ /\ idx[c] < MaxClients
        /\ rows'  = [rows EXCEPT ![idx[c]] = NewRow(c)]
        /\ count' = idx[c] + 1
     \/ idx[c] >= MaxClients /\ UNCHANGED tableVars
  /\ Unlock(c)
  /\ idx' = [idx EXCEPT ![c] = 0]
  /\ Answer(c, "OK")
  /\ UNCHANGED <<info, netVars, roundVars>>

HandleEstado(c) ==
  /\ InUse(c, "ESTADO")
  /\ \/ ptr[c] = None /\ Answer(c, "ERROR") /\ UNCHANGED rows
     \/ /\ ptr[c] # None /\ rows[ptr[c]].estado = req[c].estado
        /\ Answer(c, "ERROR") /\ UNCHANGED rows
     \/ /\ ptr[c] # None /\ rows[ptr[c]].estado # req[c].estado
        /\ rows' = [rows EXCEPT ![ptr[c]].estado = req[c].estado]
        /\ Answer(c, "OK")
  /\ UNCHANGED <<count, mutex, idx, info, netVars, roundVars>>

HandleMostrar(c) ==
  /\ InUse(c, "MOSTRAR")
  /\ Answer(c, IF ptr[c] = None THEN "ERROR" ELSE "INFO")
  /\ UNCHANGED <<tableVars, mutex, idx, info, netVars, roundVars>>

\* The message goes to the socket in the row the pointer points to.
SendDirectMessage(c) ==
  /\ InUse(c, "DM")
  /\ \/ ptr[c] = None /\ UNCHANGED out
     \/ ptr[c] # None /\ Send(rows[ptr[c]].socket)
  /\ Idle(c)
  /\ UNCHANGED <<tableVars, mutex, idx, info, kernel, sock, inq, peer, roundVars>>

HandleExit(c) ==
  /\ InUse(c, "EXIT")
  /\ \/ ptr[c] = None /\ UNCHANGED rows
     \/ ptr[c] # None /\ rows' = [rows EXCEPT ![ptr[c]].active = FALSE]
  /\ Goto(c, "remove")
  /\ UNCHANGED <<count, mutex, req, localVars, answer, netVars, roundVars>>

\* Mutant: remove_client also decrements client_count.
RemoveClientDecrements(c) ==
  /\ pc[c] = "remove" /\ Unlocked
  /\ rows' = [i \in Slot |-> IF First(i, Using(sock[c]))
                             THEN [rows[i] EXCEPT !.active = FALSE] ELSE rows[i]]
  /\ count' = IF Using(sock[c]) = {} THEN count ELSE count - 1
  /\ Goto(c, "close")
  /\ UNCHANGED <<mutex, req, localVars, answer, netVars, roundVars>>

\* remove_client: the first row with the number, whoever's it is.
RemoveClient(c) ==
  /\ pc[c] = "remove" /\ Unlocked
  /\ rows' = [i \in Slot |-> IF First(i, Using(sock[c]))
                             THEN [rows[i] EXCEPT !.active = FALSE] ELSE rows[i]]
  /\ Goto(c, "close")
  /\ UNCHANGED <<count, mutex, req, localVars, answer, netVars, roundVars>>

\* broadcast_message and list_connected_users take the mutex and send before
\* they give it back: to the socket of one active row after the other, or to
\* the thread's own.
LockAll(c) ==
  /\ pc[c] = "all" /\ Lock(c)
  /\ Goto(c, IF req[c].type = "BROADCAST" THEN "bcast" ELSE "list")
  /\ UNCHANGED <<tableVars, req, localVars, answer, netVars, roundVars>>

BroadcastSend(c) ==
  /\ pc[c] = "bcast"
  /\ \E i \in Slot : /\ First(i, {j \in Active : j >= idx[c]})
                     /\ Send(rows[i].socket)
                     /\ idx' = [idx EXCEPT ![c] = i + 1]
  /\ UNCHANGED <<tableVars, mutex, pc, req, ptr, info, answer, kernel, sock, inq,
                 peer, roundVars>>

BroadcastEnd(c) ==
  /\ pc[c] = "bcast" /\ {j \in Active : j >= idx[c]} = {}
  /\ Unlock(c) /\ Idle(c)
  /\ idx' = [idx EXCEPT ![c] = 0]
  /\ UNCHANGED <<tableVars, info, netVars, roundVars>>

SendList(c) ==
  /\ pc[c] = "list"
  /\ Send(sock[c])
  /\ Unlock(c) /\ Idle(c)
  /\ UNCHANGED <<tableVars, idx, info, kernel, sock, inq, peer, roundVars>>

SendReply(c) ==
  /\ pc[c] = "reply"
  /\ Send(sock[c])
  /\ Idle(c)
  /\ UNCHANGED <<tableVars, mutex, idx, info, kernel, sock, inq, peer, roundVars>>

-----------------------------------------------------------------------------
(***************************************************************************)
(* Time, the inactivity thread and the programs at the other end.          *)
(***************************************************************************)

\* More than 30 seconds have passed since an active row was last seen.  A round
\* that is under way has read the time already.
TimePasses(i) ==
  /\ i \in Active \cap MayIdle /\ ~rows[i].idle /\ scan = None
  /\ rows' = [rows EXCEPT ![i].idle = TRUE]
  /\ UNCHANGED <<count, mutex, pc, req, localVars, answer, netVars, roundVars>>

\* Mutants: the loop starts at 1; the mutex is not taken.
WakesAtOne ==
  /\ scan = None /\ (\E i \in Active : rows[i].idle) /\ Lock(Inactivity)
  /\ scan' = 1
  /\ UNCHANGED <<tableVars, pc, req, localVars, answer, netVars, due>>

WakesUnlocked ==
  /\ scan = None /\ (\E i \in Active : rows[i].idle) /\ scan' = 0
  /\ UNCHANGED <<tableVars, mutex, pc, req, localVars, answer, netVars, due>>

\* One round of check_inactivity: lock, test row after row, and write to a row
\* that passed the test, though others write to it without the mutex between.
\* A round that starts while no active row is idle finds nobody (no step makes one
\* so during a round) and is left out.
InactivityWakes ==
  /\ scan = None /\ (\E i \in Active : rows[i].idle) /\ Lock(Inactivity)
  /\ scan' = 0
  /\ UNCHANGED <<tableVars, pc, req, localVars, answer, netVars, due>>

Due(i) == i \in Active /\ rows[i].estado = "ACTIVO" /\ rows[i].idle

InactivityTests ==
  /\ scan # None /\ ~due /\ scan < count
  /\ \/ Due(scan) /\ due' = TRUE /\ UNCHANGED scan
     \/ ~Due(scan) /\ scan' = scan + 1 /\ UNCHANGED due
  /\ UNCHANGED <<tableVars, mutex, pc, req, localVars, answer, netVars>>

InactivityMarks ==
  /\ due
  /\ rows' = [rows EXCEPT ![scan].estado = "INACTIVO"]
  /\ due' = FALSE /\ scan' = scan + 1
  /\ UNCHANGED <<count, mutex, pc, req, localVars, answer, netVars>>

InactivitySleeps ==
  /\ scan # None /\ ~due /\ scan >= count
  /\ Unlock(Inactivity)
  /\ scan' = None
  /\ UNCHANGED <<tableVars, pc, req, localVars, answer, netVars, due>>

CheckInactivity == \/ InactivityWakes \/ InactivityTests
                   \/ InactivityMarks \/ InactivitySleeps

\* A program sends REGISTRO once, before anything else, and EXIT last.
PeerSend(c) ==
  /\ peer[c] \in {"fresh", "open"} /\ Len(inq[c]) < InCap
  /\ \E r \in Script[c] :
       /\ r.type = "REGISTRO" <=> peer[c] = "fresh"
       /\ inq' = [inq EXCEPT ![c] = Append(@, r)]
       /\ peer' = [peer EXCEPT ![c] = IF r.type = "EXIT" THEN "leaving" ELSE "open"]
  /\ UNCHANGED <<tableVars, mutex, pc, req, localVars, answer, kernel, sock, out,
                 roundVars>>

PeerRead(c) ==
  /\ peer[c] \in {"fresh", "open", "leaving"} /\ out[c] > 0
  /\ out' = [out EXCEPT ![c] = @ - 1]
  /\ UNCHANGED <<tableVars, mutex, pc, req, localVars, answer, kernel, sock, inq,
                 peer, roundVars>>

PeerClose(c) ==
  /\ peer[c] \in {"fresh", "open", "leaving"}
  /\ peer' = [peer EXCEPT ![c] = "closed"]
  /\ out' = [out EXCEPT ![c] = 0]
  /\ UNCHANGED <<tableVars, mutex, pc, req, localVars, answer, kernel, sock, inq,
                 roundVars>>

-----------------------------------------------------------------------------

Thread(c) ==
  \/ Receive(c) \/ EndOfStream(c) \/ Touch(c) \/ Find(c) \/ HandleRegister(c)
  \/ AddClientRead(c) \/ AddClientWrite(c) \/ HandleEstado(c)
  \/ HandleMostrar(c) \/ SendDirectMessage(c) \/ HandleExit(c)
  \/ RemoveClient(c) \/ LockAll(c) \/ BroadcastSend(c) \/ BroadcastEnd(c)
  \/ SendList(c) \/ SendReply(c) \/ Close(c)

Peer(c) == PeerSend(c) \/ PeerRead(c) \/ PeerClose(c)

Next == \/ \E c \in Conn : Accept(c) \/ Thread(c) \/ Peer(c)
        \/ \E i \in Slot : TimePasses(i)
        \/ CheckInactivity

Spec == Init /\ [][Next]_vars

\* The scheduler runs every thread that can run, the kernel wakes a writer whose
\* socket drains, and the programs in Reader keep calling recv.
LiveSpec ==
  /\ Spec /\ WF_vars(CheckInactivity)
  /\ \A c \in Conn : /\ WF_vars(Thread(c))
                     /\ SF_vars(BroadcastSend(c)) /\ SF_vars(SendList(c))
  /\ \A c \in Reader : WF_vars(PeerRead(c))

-----------------------------------------------------------------------------
(***************************************************************************)
(* Properties.                                                             *)
(***************************************************************************)

Label == {"none", "recv", "touch", "find", "use", "add", "store", "remove",
          "all", "bcast", "list", "reply", "close"}
AnswerKind == {"NONE", "OK", "ERROR", "INFO"}

\* Every variable keeps its type.
TypeOK ==
  /\ rows \in [Slot -> Row \cup {None}] /\ count \in 0 .. MaxClients
  /\ mutex \in Conn \cup {Inactivity, None}
  /\ kernel \in [Fd -> Conn \cup {None}] /\ sock \in [Conn -> Fd \cup {None}]
  /\ pc \in [Conn -> Label] /\ req \in [Conn -> Request]
  /\ ptr \in [Conn -> Slot \cup {None}] /\ idx \in [Conn -> 0 .. MaxClients]
  /\ info \in [Conn -> [username : Name \cup {None}, ip : IP \cup {None}]]
  /\ answer \in [Conn -> AnswerKind]
  /\ inq \in [Conn -> Seq(Request)] /\ out \in [Conn -> 0 .. OutCap]
  /\ peer \in [Conn -> {"absent", "fresh", "open", "leaving", "closed"}]
  /\ scan \in 0 .. MaxClients \cup {None} /\ due \in BOOLEAN

\* What a thread relies on at each label: its socket number, a request with the
\* fields its handler reads, and a pointer to a row that was written, which
\* bears the name that was looked for although the lock was given back.
ThreadOK ==
  \A c \in Conn :
    /\ pc[c] # "none" => sock[c] \in Fd
    /\ pc[c] \in {"find", "use"} =>
         /\ ~Incomplete(req[c])
         /\ req[c].type \in {"REGISTRO", "ESTADO", "MOSTRAR", "EXIT", "DM"}
    /\ pc[c] \in {"add", "store"} => info[c].username \in Name /\ info[c].ip \in IP
    /\ ptr[c] # None => rows[ptr[c]] # None

RoundOK == due => scan \in Slot /\ rows[scan] # None

\* A thread holds the mutex exactly while it is inside a section that has steps.
LockDiscipline ==
  /\ \A c \in Conn : mutex = c <=> pc[c] \in {"store", "bcast", "list"}
  /\ mutex = Inactivity <=> scan # None

\* The table is written from row 0 up, the thread inside add_client has the next
\* index, and a row that passed the inactivity test has not been seen since.
TableOK ==
  /\ \A i \in Slot : rows[i] # None <=> i < count
  /\ \A c \in Conn : pc[c] = "store" => idx[c] = count
  /\ due => rows[scan].idle
  /\ \A c \in Conn : ptr[c] # None /\ pc[c] = "use" =>
       rows[ptr[c]].username =
         IF req[c].type = "DM" THEN req[c].destino ELSE req[c].usuario

\* The inductive invariant: no thread of a server whose mutex works is ever led
\* astray by the table, in handle_client, add_client and check_inactivity.
IInv == TypeOK /\ ThreadOK /\ RoundOK /\ LockDiscipline /\ TableOK

\* A row, once written, names the same user, address and socket for ever: no
\* registration overwrites another (add_client).
RowsAreKept ==
  [][\A i \in Slot : rows[i] # None =>
       /\ rows'[i] # None
       /\ rows'[i].username = rows[i].username
       /\ rows'[i].ip = rows[i].ip
       /\ rows'[i].socket = rows[i].socket]_vars

\* The status of a row changes only by an ESTADO that names its user, whoever
\* sends it (handle_client does not compare); by a request that arrives on its
\* number, which makes an INACTIVO user ACTIVO; or to INACTIVO, because no
\* request has arrived on its number for 30 seconds: none comes between the
\* test of check_inactivity and its write.  (An ESTADO from another number may
\* come between them, since line 342 takes no mutex; the status it sets is
\* overwritten.)
StatusHasAReason ==
  [][\A i \in Rows : rows'[i].estado # rows[i].estado =>
       \/ \E c \in Conn : /\ InUse(c, "ESTADO")
                          /\ req[c].usuario = rows[i].username
                          /\ rows'[i].estado = req[c].estado
       \/ \E c \in Conn : /\ pc[c] = "touch" /\ sock[c] = rows[i].socket
                          /\ rows[i].estado = "INACTIVO"
                          /\ rows'[i].estado = "ACTIVO"
       \/ rows[i].idle /\ rows'[i].estado = "INACTIVO"]_vars

\* README.md:153: an ACTIVO user who does nothing for 30 seconds becomes
\* INACTIVO, leaves or is seen again.  Two exceptions, which the code has: a
\* peer that neither reads nor goes away keeps the thread that sends to it, the
\* mutex and with it check_inactivity waiting for ever (the peers of Reader do
\* read); and other threads may keep taking the mutex for ever, to register, to
\* broadcast or to list.
IdleBecomesInactive ==
  \A i \in Slot :
    \/ []<>~(i \in Active /\ rows[i].estado = "ACTIVO" /\ rows[i].idle)
    \/ []<>(mutex \notin {None, Inactivity})

\* c's registration was answered OK and its thread still serves c.
Member(c) ==
  /\ info[c] # NoInfo /\ sock[c] \in Fd /\ kernel[sock[c]] = c
  /\ pc[c] \notin {"add", "store", "remove", "close"}

\* README.md:152: every client gets the broadcasts.  broadcast_message writes to
\* the active rows, so a member must have one, with its name and its number.
MembersAreListed ==
  \A c \in Conn : Member(c) => \E i \in Active : /\ rows[i].socket = sock[c]
                                                 /\ rows[i].username = info[c].username

\* README.md:159: no two clients have the same name or address.
UniqueUsers ==
  \A i, j \in Active : i # j => /\ rows[i].username # rows[j].username
                                /\ rows[i].ip # rows[j].ip
=============================================================================
