----------------------------- MODULE LinuxServer -----------------------------
(***************************************************************************)
(* The Linux chat server: server/server.c and server/server_utils.c.       *)
(*                                                                         *)
(* One detached thread per accepted connection runs handle_client.  The    *)
(* threads share the table `clients`, guarded by `clients_mutex`.  A table *)
(* entry names a connection only by its descriptor NUMBER, and the kernel  *)
(* gives a closed number to the next connection, so the model keeps the    *)
(* kernel's descriptor table (`kernel`) apart from the number each thread  *)
(* holds (`sock`).  Sends can block, because a socket buffer is finite,    *)
(* and most of them happen while the mutex is held.                        *)
(***************************************************************************)
EXTENDS Integers, Sequences, FiniteSets

CONSTANTS
  Conn,        \* connections; each one that is accepted has its own thread
  Name,        \* user names
  LongName,    \* names of 50 bytes or more: strncpy leaves no terminator
  IP,          \* addresses
  PeerIP,      \* the address getpeername reports for a connection
  Estado,      \* status strings
  Fd,          \* descriptor numbers the process may use
  MaxClients,  \* MAX_CLIENTS
  Script,      \* the requests the program behind each connection may send
  InCap,       \* bound: requests waiting in a socket's receive buffer
  OutCap,      \* bound: messages a send buffer holds before send() blocks
  ListCap,     \* users whose LISTA entries fit in the 1024-byte buffer
  Reader,      \* connections whose remote program keeps reading
  None         \* NULL, "no thread", "no connection", "field missing"

WireType == {"REGISTRO", "ESTADO", "MOSTRAR", "EXIT", "MENSAJE",
             "BROADCAST", "DM", "LISTA"}

\* `usuario` also stands for nombre_emisor, `destino` for nombre_destinatario.
Request == [type : WireType \cup {"NONE", "EOF"}, usuario : Name \cup {None},
            destino : Name \cup {None}, estado : Estado \cup {None}]

NoReq  == [type |-> "NONE", usuario |-> None, destino |-> None, estado |-> None]
EofReq == [NoReq EXCEPT !.type = "EOF"]

ASSUME SizeAssumption ==
  /\ MaxClients \in Nat \ {0}
  /\ InCap \in Nat \ {0} /\ OutCap \in Nat \ {0} /\ ListCap \in Nat
  /\ Fd \subseteq Nat

ASSUME DataAssumption ==
  /\ LongName \subseteq Name
  /\ PeerIP \in [Conn -> IP]
  /\ "ACTIVO" \in Estado
  /\ Reader \subseteq Conn
  /\ Script \in [Conn -> SUBSET {r \in Request : r.type \in WireType}]

Slot  == 0 .. MaxClients - 1
NoFd  == -1                                    \* emisor_socket = -1
Entry == [socket : Fd, username : Name, ip : IP, estado : Estado]

Session == [username : Name, estado : Estado]  \* an entry, as a user sees it

ASSUME NoneAssumption ==
  None \notin Conn \cup Name \cup Estado \cup Entry \cup Session

Kind  == {"OK", "ERROR", "NOUSER", "LISTA", "TRUNCADA", "INFO", "DM",
          "BROADCAST"}
\* What is written to `sock`; NOUSER ("Usuario no encontrado") is not.
Answers == {"OK", "ERROR", "LISTA", "TRUNCADA", "INFO"}
Reply == [to : Fd \cup {NoFd}, kind : Kind \cup {"NONE"}]
NoReply == [to |-> NoFd, kind |-> "NONE"]
Message(fd, k) == [to |-> fd, kind |-> k]

Label == {"none", "first", "loop", "lock", "cs", "sendcs", "reply",
          "refuse", "close"}

VARIABLES
  up,       \* the process is running
  clients,  \* the shared table: Slot -> Entry or None
  mutex,    \* the thread that holds clients_mutex
  kernel,   \* the kernel's descriptor table: Fd -> connection
  sock,     \* handle_client's local `sock`
  pc,       \* where each connection's thread is
  req,      \* the request a thread is handling
  reply,    \* the message a thread is about to send, and to which descriptor
  pos,      \* the loop index of broadcast_message
  inq,      \* requests sent by the peer, not yet received
  out,      \* messages sent to the peer, not yet read by it
  peer      \* the remote end: absent, open, closed (FIN), reset (RST)

vars == <<up, clients, mutex, kernel, sock, pc, req, reply, pos, inq, out, peer>>
netVars    == <<inq, out, peer>>
threadVars == <<req, reply, pos>>

EmptyTable == [s \in Slot |-> None]

Init ==
  /\ up = TRUE
  /\ clients = EmptyTable
  /\ mutex   = None
  /\ kernel  = [f \in Fd |-> None]
  /\ sock    = [c \in Conn |-> NoFd]
  /\ pc      = [c \in Conn |-> "none"]
  /\ req     = [c \in Conn |-> NoReq]
  /\ reply   = [c \in Conn |-> NoReply]
  /\ pos     = [c \in Conn |-> 0]
  /\ inq     = [c \in Conn |-> <<>>]
  /\ out     = [c \in Conn |-> <<>>]
  /\ peer    = [c \in Conn |-> "absent"]

-----------------------------------------------------------------------------
(***************************************************************************)
(* The table.                                                              *)
(***************************************************************************)

Occupied(s) == clients[s] # None

\* strcmp(stored, n) = 0.  A long name is stored without its terminator, so
\* strcmp runs on into ip_address and never answers "equal".
SameName(stored, n) == stored = n /\ n \notin LongName

HasName(s, n) == Occupied(s) /\ SameName(clients[s].username, n)

\* A scan from slot 0 that breaks at the first slot of S stops at s.
First(s, S) == s \in S /\ \A t \in S : s <= t

Named(n)  == {s \in Slot : HasName(s, n)}
Free      == {s \in Slot : ~Occupied(s)}
\* Mutant: the test of the socket is missing.
UsingAny(fd) == {s \in Slot : Occupied(s)}

Using(fd) == {s \in Slot : Occupied(s) /\ clients[s].socket = fd}

\* Mutant: half of the duplicate check.
DuplicateIP(n, ip) == \E s \in Slot : Occupied(s) /\ clients[s].ip = ip

Duplicate(n, ip) ==
  \E s \in Slot : HasName(s, n) \/ (Occupied(s) /\ clients[s].ip = ip)

-----------------------------------------------------------------------------
(***************************************************************************)
(* send() on descriptor number fd.                                         *)
(***************************************************************************)

NotOpen(fd) == fd \in Fd => kernel[fd] = None

Send(fd, k) ==
  \/ NotOpen(fd) /\ UNCHANGED <<out, peer>>                       \* EBADF
  \/ /\ ~NotOpen(fd)
     /\ LET d == kernel[fd] IN
        \/ /\ peer[d] = "open"
           /\ Len(out[d]) < OutCap                     \* otherwise it blocks
           /\ out' = [out EXCEPT ![d] = Append(@, k)]
           /\ UNCHANGED peer
        \/ /\ peer[d] = "closed"                    \* the peer answers RST
           /\ peer' = [peer EXCEPT ![d] = "reset"]
           /\ UNCHANGED out
        \/ /\ peer[d] = "reset"       \* an error return; or SIGPIPE, below
           /\ UNCHANGED <<out, peer>>

-----------------------------------------------------------------------------
(***************************************************************************)
(* Accepting, receiving and closing.                                       *)
(***************************************************************************)

\* main: accept() takes the lowest free descriptor and a detached thread
\* starts in handle_client.  With no descriptor left accept() fails and main
\* just loops.
Accept(c) ==
  /\ up /\ pc[c] = "none"
  /\ \E f \in Fd :
       /\ kernel[f] = None /\ \A g \in Fd : kernel[g] = None => f <= g
       /\ kernel' = [kernel EXCEPT ![f] = c]
       /\ sock'   = [sock EXCEPT ![c] = f]
  /\ pc'   = [pc EXCEPT ![c] = "first"]
  /\ peer' = [peer EXCEPT ![c] = "open"]
  /\ UNCHANGED <<up, clients, mutex, threadVars, inq, out>>

Incomplete(r) == \/ r.usuario = None
                 \/ r.type = "ESTADO" /\ r.estado = None
                 \/ r.type = "DM" /\ r.destino = None

\* Where the if-chain of handle_client takes request r, received at `from`.
Dispatch(from, r) ==
  CASE from = "first" /\ r.type # "REGISTRO"                      -> "refuse"
    [] from = "loop" /\ r.type = "MENSAJE"                        -> "loop"
    [] r.type \in {"REGISTRO", "ESTADO", "MOSTRAR"} /\ Incomplete(r) -> "reply"
    [] from = "loop" /\ r.type \in {"BROADCAST", "DM"} /\ Incomplete(r) -> "loop"
    [] from = "loop" /\ r.type = "EXIT" /\ ~Incomplete(r)         -> "reply"
    [] OTHER                                                      -> "lock"

\* recv() returns whatever has arrived.  Requests are not framed: the parser
\* reads the first one and the others in the same buffer are lost.
Receive(c) ==
  /\ up /\ pc[c] \in {"first", "loop"}
  /\ \E k \in 1 .. Len(inq[c]) : inq' = [inq EXCEPT ![c] = SubSeq(@, k + 1, Len(@))]
  /\ LET r == Head(inq[c])
         next == Dispatch(pc[c], r)
     IN /\ pc'    = [pc EXCEPT ![c] = next]
        /\ req'   = [req EXCEPT ![c] = IF next = "loop" THEN NoReq ELSE r]
        /\ reply' = [reply EXCEPT ![c] =
             CASE next = "refuse"                     -> Message(sock[c], "ERROR")
               [] next = "reply" /\ r.type = "EXIT"   -> Message(sock[c], "OK")
               [] next = "reply" /\ r.type # "EXIT"   -> Message(sock[c], "ERROR")
               [] OTHER                               -> NoReply]
  /\ UNCHANGED <<up, clients, mutex, kernel, sock, pos, out, peer>>

\* Mutant: the thread closes without remove_client.
EndOfStreamNoRemove(c) ==
  /\ up /\ pc[c] \in {"first", "loop"}
  /\ inq[c] = <<>> /\ peer[c] \in {"closed", "reset"}
  /\ pc' = [pc EXCEPT ![c] = "close"]
  /\ UNCHANGED <<up, clients, mutex, kernel, sock, threadVars, netVars>>

\* Mutant: the loop ends on 0 but tries again on -1.
EndOfStreamZero(c) ==
  /\ up /\ pc[c] \in {"first", "loop"}
  /\ inq[c] = <<>> /\ peer[c] = "closed"
  /\ pc'  = [pc EXCEPT ![c] = IF pc[c] = "first" THEN "close" ELSE "lock"]
  /\ req' = [req EXCEPT ![c] = IF pc[c] = "first" THEN NoReq ELSE EofReq]
  /\ UNCHANGED <<up, clients, mutex, kernel, sock, reply, pos, netVars>>

\* recv() returns 0 or -1: nothing is left to read and the peer is gone.
\* Before the registration the thread closes; after it, it removes first.
EndOfStream(c) ==
  /\ up /\ pc[c] \in {"first", "loop"}
  /\ inq[c] = <<>> /\ peer[c] \in {"closed", "reset"}
  /\ pc'  = [pc EXCEPT ![c] = IF pc[c] = "first" THEN "close" ELSE "lock"]
  /\ req' = [req EXCEPT ![c] = IF pc[c] = "first" THEN NoReq ELSE EofReq]
  /\ UNCHANGED <<up, clients, mutex, kernel, sock, reply, pos, netVars>>

\* close(sock) and return: the number is free for the next accept().
Close(c) ==
  /\ up /\ pc[c] = "close"
  /\ kernel' = [kernel EXCEPT ![sock[c]] = None]
  /\ sock'   = [sock EXCEPT ![c] = NoFd]
  /\ pc'     = [pc EXCEPT ![c] = "none"]
  /\ req'    = [req EXCEPT ![c] = NoReq]
  /\ peer'   = [peer EXCEPT ![c] = "absent"]
  /\ inq'    = [inq EXCEPT ![c] = <<>>]
  /\ out'    = [out EXCEPT ![c] = <<>>]
  /\ UNCHANGED <<up, clients, mutex, reply, pos>>

-----------------------------------------------------------------------------
(***************************************************************************)
(* The handlers, inside and outside the mutex.                             *)
(***************************************************************************)

Acquire(c) ==
  /\ up /\ pc[c] = "lock" /\ mutex = None
  /\ mutex' = c
  /\ pc' = [pc EXCEPT ![c] = "cs"]
  /\ UNCHANGED <<up, clients, kernel, sock, threadVars, netVars>>

InCS(c, T) == up /\ pc[c] = "cs" /\ mutex = c /\ req[c].type \in T

\* Mutant: the unlock is missing on a return path.
NoUnlockSend(c, m) == /\ pc'    = [pc EXCEPT ![c] = "reply"]
                      /\ reply' = [reply EXCEPT ![c] = m]
                      /\ UNCHANGED <<mutex, req>>

\* Ways a critical section ends: back to recv, or with a message to send
\* after the unlock, or with one to send before it.
Idle(c) == /\ pc'    = [pc EXCEPT ![c] = "loop"]
           /\ req'   = [req EXCEPT ![c] = NoReq]
           /\ reply' = [reply EXCEPT ![c] = NoReply]
UnlockThenSend(c, m) == /\ mutex' = None
                        /\ pc'    = [pc EXCEPT ![c] = "reply"]
                        /\ reply' = [reply EXCEPT ![c] = m]
                        /\ UNCHANGED req
\* Mutant: the DM is sent after the unlock.
SendLater(c, m) == UnlockThenSend(c, m)
SendThenUnlock(c, m) == /\ pc'    = [pc EXCEPT ![c] = "sendcs"]
                        /\ reply' = [reply EXCEPT ![c] = m]
                        /\ UNCHANGED <<mutex, req>>

NewEntry(c) == [socket |-> sock[c], username |-> req[c].usuario,
                ip |-> PeerIP[c], estado |-> "ACTIVO"]

\* register_client.  A full table is answered like a duplicate.
RegisterClient(c) ==
  /\ InCS(c, {"REGISTRO"})
  /\ LET known == Duplicate(req[c].usuario, PeerIP[c])
     IN \/ /\ known \/ Free = {}
           /\ UnlockThenSend(c, Message(sock[c], "ERROR"))
           /\ UNCHANGED clients
        \/ /\ ~known
           /\ \E s \in Slot : /\ First(s, Free)
                              /\ clients' = [clients EXCEPT ![s] = NewEntry(c)]
           /\ UnlockThenSend(c, Message(sock[c], "OK"))
  /\ UNCHANGED <<up, kernel, sock, pos, netVars>>

\* handle_estado: the answer to a user that was found is sent under the mutex.
HandleEstado(c) ==
  /\ InCS(c, {"ESTADO"})
  /\ LET n == req[c].usuario
         e == req[c].estado
     IN \/ /\ Named(n) = {}
           /\ UnlockThenSend(c, Message(sock[c], "ERROR"))
           /\ UNCHANGED clients
        \/ \E s \in Slot :
             /\ First(s, Named(n))
             /\ clients' = [clients EXCEPT ![s].estado = e]
             /\ SendThenUnlock(c, Message(sock[c],
                  IF clients[s].estado = e THEN "ERROR" ELSE "OK"))
  /\ UNCHANGED <<up, kernel, sock, pos, netVars>>

\* handle_mostrar.
HandleMostrar(c) ==
  /\ InCS(c, {"MOSTRAR"})
  /\ \/ /\ Named(req[c].usuario) = {}
        /\ UnlockThenSend(c, Message(sock[c], "ERROR"))
     \/ /\ Named(req[c].usuario) # {}
        /\ SendThenUnlock(c, Message(sock[c], "INFO"))
  /\ UNCHANGED <<up, clients, kernel, sock, pos, netVars>>

\* send_direct_message: the scan remembers the last slot of the sender; when
\* the receiver is not found the error goes, after the unlock, to that socket
\* or to -1.
SendDirectMessage(c) ==
  /\ InCS(c, {"DM"})
  /\ \/ \E s \in Slot :
          /\ First(s, Named(req[c].destino))
          /\ SendThenUnlock(c, Message(clients[s].socket, "DM"))
     \/ /\ Named(req[c].destino) = {}
        /\ \E fd \in Fd \cup {NoFd} :
             /\ IF Named(req[c].usuario) = {} THEN fd = NoFd
                ELSE \E s \in Named(req[c].usuario) :
                       /\ \A t \in Named(req[c].usuario) : t <= s
                       /\ fd = clients[s].socket
             /\ UnlockThenSend(c, Message(fd, "NOUSER"))
  /\ UNCHANGED <<up, clients, kernel, sock, pos, netVars>>

\* list_connected_users copies the list under the mutex and sends it after;
\* a list longer than the buffer is cut, and is then no longer JSON.
ListConnectedUsers(c) ==
  /\ InCS(c, {"LISTA"})
  /\ UnlockThenSend(c, Message(sock[c],
       IF Cardinality(Slot \ Free) > ListCap THEN "TRUNCADA" ELSE "LISTA"))
  /\ UNCHANGED <<up, clients, kernel, sock, pos, netVars>>

\* broadcast_message: one send per occupied slot, the mutex held throughout.
NextOccupied(c) == {s \in Slot : s >= pos[c] /\ Occupied(s)}

BroadcastSend(c) ==
  /\ InCS(c, {"BROADCAST"})
  /\ \E s \in Slot : /\ First(s, NextOccupied(c))
                     /\ Send(clients[s].socket, "BROADCAST")
                     /\ pos' = [pos EXCEPT ![c] = s + 1]
  /\ UNCHANGED <<up, clients, mutex, kernel, sock, pc, req, reply, inq>>

BroadcastEnd(c) ==
  /\ InCS(c, {"BROADCAST"})
  /\ NextOccupied(c) = {}
  /\ mutex' = None
  /\ pos' = [pos EXCEPT ![c] = 0]
  /\ Idle(c)
  /\ UNCHANGED <<up, clients, kernel, sock, netVars>>

\* remove_client, called by handle_exit (the thread goes back to recv) and
\* after the receive loop (the thread goes on to close).
RemoveClient(c) ==
  /\ InCS(c, {"EXIT", "EOF"})
  /\ \/ Using(sock[c]) = {} /\ UNCHANGED clients
     \/ \E s \in Slot : /\ First(s, Using(sock[c]))
                        /\ clients' = [clients EXCEPT ![s] = None]
  /\ mutex' = None
  /\ IF req[c].type = "EXIT" THEN Idle(c)
     ELSE pc' = [pc EXCEPT ![c] = "close"] /\ UNCHANGED <<req, reply>>
  /\ UNCHANGED <<up, kernel, sock, pos, netVars>>

\* The send that ends a critical section, and the unlock after it.
SendUnlock(c) ==
  /\ up /\ pc[c] = "sendcs"
  /\ Send(reply[c].to, reply[c].kind)
  /\ mutex' = None
  /\ Idle(c)
  /\ UNCHANGED <<up, clients, kernel, sock, pos, inq>>

\* A send outside the mutex.  After the answer to EXIT comes remove_client;
\* after "Registro invalido" comes close.
SendReply(c) ==
  /\ up /\ pc[c] \in {"reply", "refuse"}
  /\ Send(reply[c].to, reply[c].kind)
  /\ \/ pc[c] = "reply" /\ req[c].type # "EXIT" /\ Idle(c)
     \/ /\ pc[c] = "refuse" \/ req[c].type = "EXIT"
        /\ pc' = [pc EXCEPT ![c] = IF pc[c] = "refuse" THEN "close" ELSE "lock"]
        /\ reply' = [reply EXCEPT ![c] = NoReply]
        /\ UNCHANGED req
  /\ UNCHANGED <<up, clients, mutex, kernel, sock, pos, inq>>

\* The descriptors thread c may write to in its next step.
WritesTo(c) ==
  CASE pc[c] \in {"reply", "refuse", "sendcs"} -> {reply[c].to}
    [] pc[c] = "cs" /\ req[c].type = "BROADCAST" ->
         {clients[s].socket : s \in {t \in Slot : First(t, NextOccupied(c))}}
    [] OTHER -> {}

\* Writing to a connection that was reset raises SIGPIPE.  No send passes
\* MSG_NOSIGNAL and nothing changes the signal's default action, so the whole
\* process ends: every thread, the table and every descriptor.
SigPipe(c) ==
  /\ up
  /\ \E fd \in WritesTo(c) : ~NotOpen(fd) /\ peer[kernel[fd]] = "reset"
  /\ up' = FALSE
  /\ clients' = EmptyTable
  /\ mutex'   = None
  /\ kernel'  = [f \in Fd |-> None]
  /\ sock'    = [d \in Conn |-> NoFd]
  /\ pc'      = [d \in Conn |-> "none"]
  /\ req'     = [d \in Conn |-> NoReq]
  /\ reply'   = [d \in Conn |-> NoReply]
  /\ pos'     = [d \in Conn |-> 0]
  /\ inq'     = [d \in Conn |-> <<>>]
  /\ out'     = [d \in Conn |-> <<>>]
  /\ peer'    = [d \in Conn |-> "absent"]

-----------------------------------------------------------------------------
(***************************************************************************)
(* The programs at the other end, as far as the server sees them, and the  *)
(* operator who starts the server again.                                   *)
(***************************************************************************)

\* A program sends its registration once, on a fresh connection: one that
\* arrives after the first recv meets a thread that has already refused it.
PeerSend(c) ==
  /\ peer[c] = "open" /\ Len(inq[c]) < InCap
  /\ \E r \in Script[c] :
       /\ r.type = "REGISTRO" =>
            /\ pc[c] = "first"
            /\ \A k \in 1 .. Len(inq[c]) : inq[c][k].type # "REGISTRO"
       /\ inq' = [inq EXCEPT ![c] = Append(@, r)]
  /\ UNCHANGED <<up, clients, mutex, kernel, sock, pc, threadVars, out, peer>>

PeerRead(c) ==
  /\ peer[c] = "open" /\ out[c] # <<>>
  /\ out' = [out EXCEPT ![c] = Tail(@)]
  /\ UNCHANGED <<up, clients, mutex, kernel, sock, pc, threadVars, inq, peer>>

\* The program exits, closes or is killed.  With unread data TCP sends RST at
\* once, otherwise FIN.
PeerClose(c) ==
  /\ peer[c] = "open"
  /\ peer' = [peer EXCEPT ![c] = IF out[c] = <<>> THEN "closed" ELSE "reset"]
  /\ out'  = [out EXCEPT ![c] = <<>>]
  /\ UNCHANGED <<up, clients, mutex, kernel, sock, pc, threadVars, inq>>

Restart ==
  /\ ~up /\ up' = TRUE
  /\ UNCHANGED <<clients, mutex, kernel, sock, pc, threadVars, netVars>>

-----------------------------------------------------------------------------

Thread(c) ==
  \/ Receive(c) \/ EndOfStream(c) \/ Acquire(c) \/ RegisterClient(c)
  \/ HandleEstado(c) \/ HandleMostrar(c) \/ SendDirectMessage(c)
  \/ ListConnectedUsers(c) \/ BroadcastSend(c) \/ BroadcastEnd(c)
  \/ RemoveClient(c) \/ SendUnlock(c) \/ SendReply(c) \/ Close(c)

Environment(c) == PeerSend(c) \/ PeerRead(c) \/ PeerClose(c)

Next == \/ \E c \in Conn : Accept(c) \/ Thread(c) \/ SigPipe(c) \/ Environment(c)
        \/ Restart

Spec == Init /\ [][Next]_vars

\* The scheduler runs every thread that can run, the kernel wakes a writer
\* whose socket drains, and the programs in Reader keep calling recv.
Fairness ==
  /\ \A c \in Conn : /\ WF_vars(Thread(c))
                     /\ SF_vars(SendUnlock(c))
                     /\ SF_vars(BroadcastSend(c))
  /\ \A c \in Reader : WF_vars(PeerRead(c))

LiveSpec == Spec /\ Fairness

-----------------------------------------------------------------------------
(***************************************************************************)
(* Properties.                                                             *)
(***************************************************************************)

ProcessOK == /\ up \in BOOLEAN
             /\ clients \in [Slot -> Entry \cup {None}]
             /\ mutex \in Conn \cup {None}
HandlesOK == /\ kernel \in [Fd -> Conn \cup {None}]
             /\ sock \in [Conn -> Fd \cup {NoFd}]
ThreadOK  == /\ pc \in [Conn -> Label]
             /\ req \in [Conn -> Request]
             /\ reply \in [Conn -> Reply]
             /\ pos \in [Conn -> 0 .. MaxClients]
NetOK     == /\ inq \in [Conn -> Seq(Request)]
             /\ out \in [Conn -> Seq(Kind)]
             /\ peer \in [Conn -> {"absent", "open", "closed", "reset"}]

\* Every variable keeps its type.
TypeOK == ProcessOK /\ HandlesOK /\ ThreadOK /\ NetOK

\* A thread holds the mutex exactly while it is between a lock and the
\* matching unlock: no return path of a handler keeps it.
LockDiscipline == \A c \in Conn : mutex = c <=> pc[c] \in {"cs", "sendcs"}

\* Slot s belongs to connection c: its descriptor number is, now, c's.
Owns(c, s) == Occupied(s) /\ kernel[clients[s].socket] = c
Registered(c) == \E s \in Slot : Owns(c, s)

\* The connection that registered slot s is still there to remove it.
Live(s) ==
  \E c \in Conn : /\ Owns(c, s)
                  /\ sock[c] = clients[s].socket
                  /\ PeerIP[c] = clients[s].ip
                  /\ pc[c] \notin {"none", "first", "refuse", "close"}

\* Every entry of the table holds the number of an open descriptor, that of
\* the connection that registered it, whose thread has yet to remove it: a
\* send to an entry never lands on a later connection that was given the same
\* number.  (remove_client always runs before close.)
EntriesAreLive == \A s \in Slot : Occupied(s) => Live(s)

\* No two entries share an address, or a name that strcmp can compare
\* (register_client checks and inserts under one lock).
UniqueUsers ==
  \A s, t \in Slot : s # t /\ Occupied(s) /\ Occupied(t) =>
    /\ clients[s].ip # clients[t].ip
    /\ clients[s].username = clients[t].username =>
         clients[s].username \in LongName

\* When a DM is written, the descriptor is that of an entry with the
\* receiver's name: the receiver cannot have left since it was looked up
\* (the send is made before the unlock).
DirectMessageTarget ==
  \A c \in Conn : reply[c].kind = "DM" =>
    \E s \in Named(req[c].destino) : clients[s].socket = reply[c].to

\* The table has c under the name that c's request gives for its sender.
AsksAsItself(c) ==
  \E s \in Slot : Owns(c, s) /\ SameName(clients[s].username, req[c].usuario)

\* Every answer but one is written to the connection that asked, whatever other
\* threads closed and accepted meanwhile.  The one, "Usuario no encontrado", is
\* written after the unlock to the last slot with the sender's name that the
\* scan met (server_utils.c:186-198): it reaches the connection that asked if
\* that one is registered under the name in its message.  Of any other DM (a
\* name of somebody else, of nobody, a long one, or after EXIT) the property
\* promises nothing: the error may go to the user of that name, to whoever has
\* been given that user's number since, or to -1.
AnswerReachesAsker ==
  \A c \in Conn :
    \/ reply[c].kind \in Answers
    \/ reply[c].kind = "NOUSER" /\ AsksAsItself(c)
    => reply[c].to \in Fd /\ kernel[reply[c].to] = c

\* The strengthening that makes the invariants above inductive: a thread and
\* the kernel agree on its descriptor, a request that reaches the table has
\* the fields its handler reads, and a message waits to be sent only at a send.
Descriptors ==
  /\ \A c \in Conn : pc[c] # "none" <=> sock[c] \in Fd
  /\ \A c \in Conn : sock[c] \in Fd => kernel[sock[c]] = c
  /\ \A f \in Fd : kernel[f] # None => sock[kernel[f]] = f

FieldsPresent ==
  \A c \in Conn :
    /\ req[c].type \in {"REGISTRO", "ESTADO"} /\ pc[c] \in {"lock", "cs"} =>
         req[c].usuario \in Name
    /\ req[c].type = "ESTADO" /\ pc[c] \in {"lock", "cs"} =>
         req[c].estado \in Estado

PendingReply ==
  \A c \in Conn :
    /\ pc[c] \in {"reply", "refuse", "sendcs"} <=> reply[c].kind # "NONE"
    /\ reply[c].kind \in Answers => reply[c].to = sock[c]

IInv == /\ TypeOK /\ LockDiscipline /\ Descriptors /\ FieldsPresent
        /\ PendingReply /\ UniqueUsers /\ EntriesAreLive

\* While the process lives, nobody leaves the table except through its own
\* EXIT or the end of its own connection.
LeavesByItself ==
  [][\A c \in Conn : up' /\ Registered(c) /\ ~Registered(c)' =>
       req[c].type \in {"EXIT", "EOF"}]_vars

\* The table, read through the kernel's descriptors, is a chat room.
SessionOf(c) ==
  IF Registered(c)
  THEN LET s == CHOOSE t \in Slot : Owns(c, t)
       IN [username |-> clients[s].username, estado |-> clients[s].estado]
  ELSE None

Room == INSTANCE ChatRoom WITH room <- [c \in Conn |-> SessionOf(c)]

\* The server implements the chat room: every step of every thread is a step
\* of the room or leaves it as it is.
ImplementsRoom == Room!Spec

\* Whoever takes the mutex gives it back, though it sends while holding it,
\* provided every peer keeps reading or goes away.
LockReleased == \A c \in Conn : mutex = c ~> mutex # c

\* A user whose program is gone is removed, unless other threads keep taking
\* the mutex for ever (a pthread mutex does not queue its waiters).
GoneIsReleased ==
  \A c \in Conn : \/ []<>~(Registered(c) /\ peer[c] \in {"closed", "reset"})
                  \/ []<>(mutex \notin {c, None})

=============================================================================
