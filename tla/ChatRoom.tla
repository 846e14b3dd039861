------------------------------- MODULE ChatRoom -------------------------------
(***************************************************************************)
(* What a chat server promises about who is in the room, with no sockets,  *)
(* no threads and no table: connections enter under a user name, change    *)
(* their status and leave, and no two connections in the room share an     *)
(* address or a name (README.md: "No es posible conectarse con dos         *)
(* clientes teniendo el mismo nombre o direccion IP").  Names too long for *)
(* the server to compare are exempt from the second half.                  *)
(***************************************************************************)

CONSTANTS Conn, Name, LongName, PeerIP, Estado, None

VARIABLE room       \* room[c]: the session of connection c, or None

Present == {c \in Conn : room[c] # None}

\* c may not enter as n while somebody with its address or its name is in.
Clash(c, n) ==
  \E d \in Present : \/ PeerIP[d] = PeerIP[c]
                     \/ room[d].username = n /\ n \notin LongName

Init == room = [c \in Conn |-> None]

Enter(c, n) ==
  /\ c \notin Present
  /\ ~Clash(c, n)
  /\ room' = [room EXCEPT ![c] = [username |-> n, estado |-> "ACTIVO"]]

ChangeEstado(c, e) ==
  /\ c \in Present
  /\ room' = [room EXCEPT ![c].estado = e]

Leave(c) ==
  /\ c \in Present
  /\ room' = [room EXCEPT ![c] = None]

\* The server process ends; nobody is in the room any more.
Shutdown == room' = [c \in Conn |-> None]

Next == \/ \E c \in Conn : \/ \E n \in Name : Enter(c, n)
                           \/ \E e \in Estado : ChangeEstado(c, e)
                           \/ Leave(c)
        \/ Shutdown

Spec == Init /\ [][Next]_room

===============================================================================
