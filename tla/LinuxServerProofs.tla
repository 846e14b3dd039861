-------------------------- MODULE LinuxServerProofs --------------------------
(***************************************************************************)
(* Proofs about LinuxServer, for every number of connections, names,       *)
(* descriptors and slots.                                                  *)
(***************************************************************************)
EXTENDS LinuxServer, SequenceTheorems, TLAPS

\* None is no connection, name, status or entry.
LEMMA NoneIsNothing ==
  /\ None \notin Conn /\ None \notin Name /\ None \notin Estado
  /\ None \notin Entry /\ NoFd \notin Fd
BY NoneAssumption, SizeAssumption DEF NoFd

LEMMA Constants ==
  /\ NoReq \in Request /\ EofReq \in Request /\ NoReply \in Reply
  /\ \A fd \in Fd \cup {NoFd}, k \in Kind : Message(fd, k) \in Reply
BY DEF NoReq, EofReq, NoReply, Request, Reply, Message, WireType, Kind

\* What a receive takes from a queue is a request, and leaves a queue.
LEMMA Received ==
  ASSUME NEW q \in Seq(Request), NEW k \in 1 .. Len(q)
  PROVE  Head(q) \in Request /\ SubSeq(q, k + 1, Len(q)) \in Seq(Request)
<1>1. q # <<>>
  OBVIOUS
<1>2. Head(q) \in Request
  BY <1>1, HeadTailProperties
<1>3. \A i \in k + 1 .. Len(q) : q[i] \in Request
  OBVIOUS
<1>4. SubSeq(q, k + 1, Len(q)) \in Seq(Request)
  BY <1>3, SubSeqProperties
<1> QED BY <1>2, <1>4

-----------------------------------------------------------------------------
\* What a send may change: the queue and the state of one peer.
LEMMA SendType ==
  ASSUME HandlesOK, NetOK, NEW fd, NEW k \in Kind, Send(fd, k), UNCHANGED inq
  PROVE  NetOK'
<1> USE DEF NetOK
<1>1. CASE UNCHANGED out
  BY <1>1 DEF Send
<1>2. ASSUME NEW d \in Conn, UNCHANGED peer,
             out' = [out EXCEPT ![d] = Append(@, k)]
      PROVE  NetOK'
  <2>1. Append(out[d], k) \in Seq(Kind)
    OBVIOUS
  <2> QED BY <1>2, <2>1
<1> QED BY <1>1, <1>2 DEF Send, NotOpen, HandlesOK

-----------------------------------------------------------------------------
(***************************************************************************)
(* Types.  Each action leaves most of the parts of TypeOK alone.           *)
(***************************************************************************)

LEMMA PendingKind ==
  ASSUME ThreadOK, PendingReply, NEW c \in Conn,
         pc[c] \in {"reply", "refuse", "sendcs"}
  PROVE  reply[c].kind \in Kind /\ reply[c].to \in Fd \cup {NoFd}
BY DEF ThreadOK, PendingReply, Reply

\* What an action leaves alone keeps its type.
LEMMA Same ==
  /\ ProcessOK /\ UNCHANGED <<up, clients, mutex>> => ProcessOK'
  /\ HandlesOK /\ UNCHANGED <<kernel, sock>> => HandlesOK'
  /\ ThreadOK /\ UNCHANGED <<pc, req, reply, pos>> => ThreadOK'
  /\ NetOK /\ UNCHANGED <<inq, out, peer>> => NetOK'
<1>1. ProcessOK /\ UNCHANGED <<up, clients, mutex>> => ProcessOK'
  BY DEF ProcessOK
<1>2. HandlesOK /\ UNCHANGED <<kernel, sock>> => HandlesOK'
  BY DEF HandlesOK
<1>3. ThreadOK /\ UNCHANGED <<pc, req, reply, pos>> => ThreadOK'
  BY DEF ThreadOK
<1>4. NetOK /\ UNCHANGED <<inq, out, peer>> => NetOK'
  BY DEF NetOK
<1> QED BY <1>1, <1>2, <1>3, <1>4

LEMMA TypeInit == Init => TypeOK
<1> SUFFICES ASSUME Init PROVE TypeOK
  OBVIOUS
<1>1. ProcessOK
  BY DEF Init, ProcessOK, EmptyTable
<1>2. HandlesOK
  BY DEF Init, HandlesOK
<1>3. ThreadOK
  BY Constants, SizeAssumption DEF Init, ThreadOK, Label
<1>4. NetOK
  BY DEF Init, NetOK
<1> QED BY <1>1, <1>2, <1>3, <1>4 DEF TypeOK

LEMMA TypeStep ==
  TypeOK /\ FieldsPresent /\ Descriptors /\ PendingReply /\ [Next]_vars
    => TypeOK'
<1> SUFFICES ASSUME ProcessOK, HandlesOK, ThreadOK, NetOK, FieldsPresent,
                    Descriptors, PendingReply, [Next]_vars
             PROVE  TypeOK'
  BY DEF TypeOK
<1>1. ASSUME NEW c \in Conn, Accept(c) PROVE TypeOK'
  <2>1. HandlesOK'
    BY <1>1 DEF Accept, HandlesOK
  <2>2. ThreadOK'
    BY <1>1 DEF Accept, ThreadOK, Label, threadVars
  <2>3. NetOK'
    BY <1>1 DEF Accept, NetOK
  <2> QED BY <1>1, <2>1, <2>2, <2>3, Same DEF Accept, threadVars, TypeOK
<1>2. ASSUME NEW c \in Conn, Receive(c) PROVE TypeOK'
  <2>1. ThreadOK'
    BY <1>2, Received, Constants DEF Receive, ThreadOK, NetOK, HandlesOK,
       Label, Dispatch, Kind
  <2>2. NetOK'
    BY <1>2, Received DEF Receive, NetOK
  <2> QED BY <1>2, <2>1, <2>2, Same DEF Receive, TypeOK
<1>3. ASSUME NEW c \in Conn, EndOfStream(c) PROVE TypeOK'
  <2>1. ThreadOK'
    BY <1>3, Constants DEF EndOfStream, ThreadOK, Label
  <2> QED BY <1>3, <2>1, Same DEF EndOfStream, netVars, TypeOK
<1>4. ASSUME NEW c \in Conn, Acquire(c) PROVE TypeOK'
  <2>1. ProcessOK'
    BY <1>4 DEF Acquire, ProcessOK
  <2>2. ThreadOK'
    BY <1>4 DEF Acquire, ThreadOK, Label, threadVars
  <2> QED BY <1>4, <2>1, <2>2, Same DEF Acquire, netVars, TypeOK
<1>5. ASSUME NEW c \in Conn, RegisterClient(c) PROVE TypeOK'
  <2>1. ProcessOK'
    <3>1. NewEntry(c) \in Entry
      BY <1>5, DataAssumption
         DEF RegisterClient, InCS, NewEntry, Entry, FieldsPresent, Descriptors
    <3> QED BY <1>5, <3>1 DEF RegisterClient, UnlockThenSend, ProcessOK
  <2>2. ThreadOK'
    BY <1>5, Constants DEF RegisterClient, UnlockThenSend, ThreadOK,
       HandlesOK, Label, Kind
  <2> QED BY <1>5, <2>1, <2>2, Same DEF RegisterClient, netVars, TypeOK
<1>6. ASSUME NEW c \in Conn, HandleEstado(c) PROVE TypeOK'
  <2>1. ProcessOK'
    BY <1>6 DEF HandleEstado, InCS, UnlockThenSend, SendThenUnlock, ProcessOK,
       FieldsPresent, Entry, First, Named, HasName, Occupied
  <2>2. ThreadOK'
    BY <1>6, Constants DEF HandleEstado, UnlockThenSend, SendThenUnlock,
       ThreadOK, HandlesOK, Label, Kind
  <2> QED BY <1>6, <2>1, <2>2, Same DEF HandleEstado, netVars, TypeOK
<1>7. ASSUME NEW c \in Conn, HandleMostrar(c) PROVE TypeOK'
  <2>1. ProcessOK'
    BY <1>7 DEF HandleMostrar, UnlockThenSend, SendThenUnlock, ProcessOK
  <2>2. ThreadOK'
    BY <1>7, Constants DEF HandleMostrar, UnlockThenSend, SendThenUnlock,
       ThreadOK, HandlesOK, Label, Kind
  <2> QED BY <1>7, <2>1, <2>2, Same DEF HandleMostrar, netVars, TypeOK
<1>8. ASSUME NEW c \in Conn, SendDirectMessage(c) PROVE TypeOK'
  <2>1. ProcessOK'
    BY <1>8 DEF SendDirectMessage, UnlockThenSend, SendThenUnlock, ProcessOK
  <2>2. ThreadOK'
    BY <1>8, Constants DEF SendDirectMessage, UnlockThenSend, SendThenUnlock,
       ThreadOK, ProcessOK, Entry, First, Named, HasName, Occupied, Label,
       Kind
  <2> QED BY <1>8, <2>1, <2>2, Same DEF SendDirectMessage, netVars, TypeOK
<1>9. ASSUME NEW c \in Conn, ListConnectedUsers(c) PROVE TypeOK'
  <2>1. ProcessOK'
    BY <1>9 DEF ListConnectedUsers, UnlockThenSend, ProcessOK
  <2>2. ThreadOK'
    BY <1>9, Constants DEF ListConnectedUsers, UnlockThenSend, ThreadOK, HandlesOK,
       Label, Kind
  <2> QED BY <1>9, <2>1, <2>2, Same DEF ListConnectedUsers, netVars, TypeOK
<1>10. ASSUME NEW c \in Conn, BroadcastSend(c) PROVE TypeOK'
  <2>1. ThreadOK'
    BY <1>10, SizeAssumption DEF BroadcastSend, ThreadOK, First, NextOccupied,
       Slot
  <2>2. NetOK'
    BY <1>10, SendType DEF BroadcastSend, Kind
  <2> QED BY <1>10, <2>1, <2>2, Same DEF BroadcastSend, TypeOK
<1>11. ASSUME NEW c \in Conn, BroadcastEnd(c) PROVE TypeOK'
  <2>1. ProcessOK'
    BY <1>11 DEF BroadcastEnd, ProcessOK
  <2>2. ThreadOK'
    BY <1>11, Constants, SizeAssumption DEF BroadcastEnd, Idle, ThreadOK,
       Label
  <2> QED BY <1>11, <2>1, <2>2, Same DEF BroadcastEnd, netVars, TypeOK
<1>12. ASSUME NEW c \in Conn, RemoveClient(c) PROVE TypeOK'
  <2>1. ProcessOK'
    BY <1>12 DEF RemoveClient, ProcessOK
  <2>2. ThreadOK'
    BY <1>12, Constants DEF RemoveClient, Idle, ThreadOK, Label
  <2> QED BY <1>12, <2>1, <2>2, Same DEF RemoveClient, netVars, TypeOK
<1>13. ASSUME NEW c \in Conn, SendUnlock(c) PROVE TypeOK'
  <2>1. ProcessOK'
    BY <1>13 DEF SendUnlock, ProcessOK
  <2>2. ThreadOK'
    BY <1>13, Constants DEF SendUnlock, Idle, ThreadOK, Label
  <2>3. NetOK'
    BY <1>13, SendType, PendingKind DEF SendUnlock
  <2> QED BY <1>13, <2>1, <2>2, <2>3, Same DEF SendUnlock, TypeOK
<1>14. ASSUME NEW c \in Conn, SendReply(c) PROVE TypeOK'
  <2>1. ThreadOK'
    BY <1>14, Constants DEF SendReply, Idle, ThreadOK, Label
  <2>2. NetOK'
    BY <1>14, SendType, PendingKind DEF SendReply
  <2> QED BY <1>14, <2>1, <2>2, Same DEF SendReply, TypeOK
<1>15. ASSUME NEW c \in Conn, Close(c) PROVE TypeOK'
  <2>1. HandlesOK'
    BY <1>15 DEF Close, HandlesOK
  <2>2. ThreadOK'
    BY <1>15, Constants DEF Close, ThreadOK, Label
  <2>3. NetOK'
    BY <1>15 DEF Close, NetOK
  <2> QED BY <1>15, <2>1, <2>2, <2>3, Same DEF Close, TypeOK
<1>16. ASSUME NEW c \in Conn, SigPipe(c) PROVE TypeOK'
  <2>1. ProcessOK'
    BY <1>16 DEF SigPipe, ProcessOK, EmptyTable
  <2>2. HandlesOK'
    BY <1>16 DEF SigPipe, HandlesOK
  <2>3. ThreadOK'
    BY <1>16, Constants, SizeAssumption DEF SigPipe, ThreadOK, Label
  <2>4. NetOK'
    BY <1>16 DEF SigPipe, NetOK
  <2> QED BY <2>1, <2>2, <2>3, <2>4 DEF TypeOK
<1>17. ASSUME NEW c \in Conn, PeerSend(c) PROVE TypeOK'
  <2>1. NetOK'
    <3>1. Script[c] \subseteq Request
      BY DataAssumption
    <3> QED BY <1>17, <3>1 DEF PeerSend, NetOK
  <2> QED BY <1>17, <2>1, Same DEF PeerSend, threadVars, TypeOK
<1>18. ASSUME NEW c \in Conn, PeerRead(c) PROVE TypeOK'
  <2>1. NetOK'
    BY <1>18 DEF PeerRead, NetOK
  <2> QED BY <1>18, <2>1, Same DEF PeerRead, threadVars, TypeOK
<1>19. ASSUME NEW c \in Conn, PeerClose(c) PROVE TypeOK'
  <2>1. NetOK'
    BY <1>19 DEF PeerClose, NetOK
  <2> QED BY <1>19, <2>1, Same DEF PeerClose, threadVars, TypeOK
<1>20. CASE Restart
  <2>1. ProcessOK'
    BY <1>20 DEF Restart, ProcessOK
  <2> QED BY <1>20, <2>1, Same DEF Restart, netVars, threadVars, TypeOK
<1>21. CASE UNCHANGED vars
  BY <1>21, Same DEF vars, TypeOK
<1> QED
  BY <1>1, <1>2, <1>3, <1>4, <1>5, <1>6, <1>7, <1>8, <1>9, <1>10, <1>11,
     <1>12, <1>13, <1>14, <1>15, <1>16, <1>17, <1>18, <1>19, <1>20, <1>21 DEF
     Next, Thread, Environment
-----------------------------------------------------------------------------
(***************************************************************************)
(* The parts of the strengthening, one lemma each.                            *)
(***************************************************************************)

\* Every return path of a handler gives the mutex back.
LEMMA LockStep ==
  LockDiscipline /\ ProcessOK /\ ThreadOK /\ [Next]_vars
    => LockDiscipline'
<1> SUFFICES ASSUME LockDiscipline, ProcessOK, ThreadOK, [Next]_vars
             PROVE  LockDiscipline'
  OBVIOUS
<1>1. ASSUME NEW c \in Conn, Accept(c) PROVE LockDiscipline'
  BY <1>1, NoneIsNothing DEF Accept, threadVars, LockDiscipline, ProcessOK,
     ThreadOK
<1>2. ASSUME NEW c \in Conn, Receive(c) PROVE LockDiscipline'
  BY <1>2, NoneIsNothing DEF Receive, Dispatch, LockDiscipline, ProcessOK,
     ThreadOK
<1>3. ASSUME NEW c \in Conn, EndOfStream(c) PROVE LockDiscipline'
  BY <1>3, NoneIsNothing DEF EndOfStream, LockDiscipline, ProcessOK, ThreadOK
<1>4. ASSUME NEW c \in Conn, Acquire(c) PROVE LockDiscipline'
  BY <1>4, NoneIsNothing DEF Acquire, threadVars, LockDiscipline, ProcessOK,
     ThreadOK
<1>5. ASSUME NEW c \in Conn, RegisterClient(c) PROVE LockDiscipline'
  BY <1>5, NoneIsNothing DEF RegisterClient, InCS, UnlockThenSend,
     LockDiscipline, ProcessOK, ThreadOK
<1>6. ASSUME NEW c \in Conn, HandleEstado(c) PROVE LockDiscipline'
  BY <1>6, NoneIsNothing DEF HandleEstado, InCS, UnlockThenSend,
     SendThenUnlock, LockDiscipline, ProcessOK, ThreadOK
<1>7. ASSUME NEW c \in Conn, HandleMostrar(c) PROVE LockDiscipline'
  BY <1>7, NoneIsNothing DEF HandleMostrar, InCS, UnlockThenSend,
     SendThenUnlock, LockDiscipline, ProcessOK, ThreadOK
<1>8. ASSUME NEW c \in Conn, SendDirectMessage(c) PROVE LockDiscipline'
  BY <1>8, NoneIsNothing DEF SendDirectMessage, InCS, UnlockThenSend,
     SendThenUnlock, LockDiscipline, ProcessOK, ThreadOK
<1>9. ASSUME NEW c \in Conn, ListConnectedUsers(c) PROVE LockDiscipline'
  BY <1>9, NoneIsNothing DEF ListConnectedUsers, InCS, UnlockThenSend,
     LockDiscipline, ProcessOK, ThreadOK
<1>10. ASSUME NEW c \in Conn, BroadcastSend(c) PROVE LockDiscipline'
  BY <1>10, NoneIsNothing DEF BroadcastSend, LockDiscipline, ProcessOK,
     ThreadOK
<1>11. ASSUME NEW c \in Conn, BroadcastEnd(c) PROVE LockDiscipline'
  BY <1>11, NoneIsNothing DEF BroadcastEnd, InCS, Idle, LockDiscipline,
     ProcessOK, ThreadOK
<1>12. ASSUME NEW c \in Conn, RemoveClient(c) PROVE LockDiscipline'
  BY <1>12, NoneIsNothing DEF RemoveClient, InCS, Idle, LockDiscipline,
     ProcessOK, ThreadOK
<1>13. ASSUME NEW c \in Conn, SendUnlock(c) PROVE LockDiscipline'
  BY <1>13, NoneIsNothing DEF SendUnlock, Idle, LockDiscipline, ProcessOK,
     ThreadOK
<1>14. ASSUME NEW c \in Conn, SendReply(c) PROVE LockDiscipline'
  BY <1>14, NoneIsNothing DEF SendReply, Idle, LockDiscipline, ProcessOK,
     ThreadOK
<1>15. ASSUME NEW c \in Conn, Close(c) PROVE LockDiscipline'
  BY <1>15, NoneIsNothing DEF Close, LockDiscipline, ProcessOK, ThreadOK
<1>16. ASSUME NEW c \in Conn, SigPipe(c) PROVE LockDiscipline'
  BY <1>16, NoneIsNothing DEF SigPipe, LockDiscipline, ProcessOK, ThreadOK
<1>17. ASSUME NEW c \in Conn,
            PeerSend(c) \/ PeerRead(c) \/ PeerClose(c)
      PROVE  LockDiscipline'
  BY <1>17, NoneIsNothing DEF PeerSend, PeerRead, PeerClose, threadVars,
     LockDiscipline, ProcessOK, ThreadOK
<1>18. CASE Restart
  BY <1>18 DEF Restart, LockDiscipline, ProcessOK, ThreadOK, threadVars
<1>19. CASE UNCHANGED vars
  BY <1>19 DEF vars, LockDiscipline, ProcessOK, ThreadOK
<1> QED
  BY <1>1, <1>2, <1>3, <1>4, <1>5, <1>6, <1>7, <1>8, <1>9, <1>10, <1>11,
     <1>12, <1>13, <1>14, <1>15, <1>16, <1>17, <1>18, <1>19 DEF Next, Thread,
     Environment

\* Accept and close keep a thread's descriptor and the kernel's in step.
LEMMA DescriptorsStep ==
  Descriptors /\ HandlesOK /\ ThreadOK /\ [Next]_vars
    => Descriptors'
<1> SUFFICES ASSUME Descriptors, HandlesOK, ThreadOK, [Next]_vars
             PROVE  Descriptors'
  OBVIOUS
<1>1. ASSUME NEW c \in Conn, Accept(c) PROVE Descriptors'
  BY <1>1, NoneIsNothing DEF Accept, threadVars, Descriptors, HandlesOK,
     ThreadOK
<1>2. ASSUME NEW c \in Conn, Receive(c) PROVE Descriptors'
  BY <1>2, NoneIsNothing DEF Receive, Dispatch, Descriptors, HandlesOK,
     ThreadOK
<1>3. ASSUME NEW c \in Conn, EndOfStream(c) PROVE Descriptors'
  BY <1>3, NoneIsNothing DEF EndOfStream, Descriptors, HandlesOK, ThreadOK
<1>4. ASSUME NEW c \in Conn, Acquire(c) PROVE Descriptors'
  BY <1>4, NoneIsNothing DEF Acquire, threadVars, Descriptors, HandlesOK,
     ThreadOK
<1>5. ASSUME NEW c \in Conn, RegisterClient(c) PROVE Descriptors'
  BY <1>5, NoneIsNothing DEF RegisterClient, InCS, UnlockThenSend,
     Descriptors, HandlesOK, ThreadOK
<1>6. ASSUME NEW c \in Conn, HandleEstado(c) PROVE Descriptors'
  BY <1>6, NoneIsNothing DEF HandleEstado, InCS, UnlockThenSend,
     SendThenUnlock, Descriptors, HandlesOK, ThreadOK
<1>7. ASSUME NEW c \in Conn, HandleMostrar(c) PROVE Descriptors'
  BY <1>7, NoneIsNothing DEF HandleMostrar, InCS, UnlockThenSend,
     SendThenUnlock, Descriptors, HandlesOK, ThreadOK
<1>8. ASSUME NEW c \in Conn, SendDirectMessage(c) PROVE Descriptors'
  BY <1>8, NoneIsNothing DEF SendDirectMessage, InCS, UnlockThenSend,
     SendThenUnlock, Descriptors, HandlesOK, ThreadOK
<1>9. ASSUME NEW c \in Conn, ListConnectedUsers(c) PROVE Descriptors'
  BY <1>9, NoneIsNothing DEF ListConnectedUsers, InCS, UnlockThenSend,
     Descriptors, HandlesOK, ThreadOK
<1>10. ASSUME NEW c \in Conn, BroadcastEnd(c) PROVE Descriptors'
  BY <1>10, NoneIsNothing DEF BroadcastEnd, InCS, Idle, Descriptors,
     HandlesOK, ThreadOK
<1>11. ASSUME NEW c \in Conn, RemoveClient(c) PROVE Descriptors'
  BY <1>11, NoneIsNothing DEF RemoveClient, InCS, Idle, Descriptors,
     HandlesOK, ThreadOK
<1>12. ASSUME NEW c \in Conn, SendUnlock(c) PROVE Descriptors'
  BY <1>12, NoneIsNothing DEF SendUnlock, Idle, Descriptors, HandlesOK,
     ThreadOK
<1>13. ASSUME NEW c \in Conn, SendReply(c) PROVE Descriptors'
  BY <1>13, NoneIsNothing DEF SendReply, Idle, Descriptors, HandlesOK,
     ThreadOK
<1>14. ASSUME NEW c \in Conn, Close(c) PROVE Descriptors'
  BY <1>14, NoneIsNothing DEF Close, Descriptors, HandlesOK, ThreadOK
<1>15. ASSUME NEW c \in Conn, SigPipe(c) PROVE Descriptors'
  BY <1>15, NoneIsNothing DEF SigPipe, Descriptors, HandlesOK, ThreadOK
<1>16. ASSUME NEW c \in Conn,
            PeerSend(c) \/ PeerRead(c) \/ PeerClose(c) \/
            BroadcastSend(c)
      PROVE  Descriptors'
  BY <1>16, NoneIsNothing DEF PeerSend, PeerRead, PeerClose, BroadcastSend,
     threadVars, Descriptors, HandlesOK, ThreadOK
<1>17. CASE Restart
  BY <1>17 DEF Restart, Descriptors, HandlesOK, ThreadOK, threadVars
<1>18. CASE UNCHANGED vars
  BY <1>18 DEF vars, Descriptors, HandlesOK, ThreadOK
<1> QED
  BY <1>1, <1>2, <1>3, <1>4, <1>5, <1>6, <1>7, <1>8, <1>9, <1>10, <1>11,
     <1>12, <1>13, <1>14, <1>15, <1>16, <1>17, <1>18 DEF Next, Thread,
     Environment

\* Only complete requests pass the dispatch.
LEMMA FieldsStep ==
  FieldsPresent /\ ThreadOK /\ NetOK /\ [Next]_vars
    => FieldsPresent'
<1> SUFFICES ASSUME FieldsPresent, ThreadOK, NetOK, [Next]_vars
             PROVE  FieldsPresent'
  OBVIOUS
<1>1. ASSUME NEW c \in Conn, Accept(c) PROVE FieldsPresent'
  BY <1>1, NoneIsNothing DEF Accept, threadVars, FieldsPresent, ThreadOK
<1>2. ASSUME NEW c \in Conn, Receive(c) PROVE FieldsPresent'
  BY <1>2, Received, NoneIsNothing DEF Receive, Dispatch, Incomplete, Request,
     NetOK, FieldsPresent, ThreadOK
<1>3. ASSUME NEW c \in Conn, EndOfStream(c) PROVE FieldsPresent'
  BY <1>3, NoneIsNothing DEF EndOfStream, EofReq, NoReq, FieldsPresent,
     ThreadOK
<1>4. ASSUME NEW c \in Conn, Acquire(c) PROVE FieldsPresent'
  BY <1>4, NoneIsNothing DEF Acquire, threadVars, FieldsPresent, ThreadOK
<1>5. ASSUME NEW c \in Conn, RegisterClient(c) PROVE FieldsPresent'
  BY <1>5, NoneIsNothing DEF RegisterClient, InCS, UnlockThenSend,
     FieldsPresent, ThreadOK
<1>6. ASSUME NEW c \in Conn, HandleEstado(c) PROVE FieldsPresent'
  BY <1>6, NoneIsNothing DEF HandleEstado, InCS, UnlockThenSend,
     SendThenUnlock, FieldsPresent, ThreadOK
<1>7. ASSUME NEW c \in Conn, HandleMostrar(c) PROVE FieldsPresent'
  BY <1>7, NoneIsNothing DEF HandleMostrar, InCS, UnlockThenSend,
     SendThenUnlock, FieldsPresent, ThreadOK
<1>8. ASSUME NEW c \in Conn, SendDirectMessage(c) PROVE FieldsPresent'
  BY <1>8, NoneIsNothing DEF SendDirectMessage, InCS, UnlockThenSend,
     SendThenUnlock, FieldsPresent, ThreadOK
<1>9. ASSUME NEW c \in Conn, ListConnectedUsers(c) PROVE FieldsPresent'
  BY <1>9, NoneIsNothing DEF ListConnectedUsers, InCS, UnlockThenSend,
     FieldsPresent, ThreadOK
<1>10. ASSUME NEW c \in Conn, BroadcastEnd(c) PROVE FieldsPresent'
  BY <1>10, NoneIsNothing DEF BroadcastEnd, InCS, Idle, FieldsPresent,
     ThreadOK
<1>11. ASSUME NEW c \in Conn, RemoveClient(c) PROVE FieldsPresent'
  BY <1>11, NoneIsNothing DEF RemoveClient, InCS, Idle, FieldsPresent,
     ThreadOK
<1>12. ASSUME NEW c \in Conn, SendUnlock(c) PROVE FieldsPresent'
  BY <1>12, NoneIsNothing DEF SendUnlock, Idle, FieldsPresent, ThreadOK
<1>13. ASSUME NEW c \in Conn, SendReply(c) PROVE FieldsPresent'
  BY <1>13, NoneIsNothing DEF SendReply, Idle, FieldsPresent, ThreadOK
<1>14. ASSUME NEW c \in Conn, Close(c) PROVE FieldsPresent'
  BY <1>14, NoneIsNothing DEF Close, FieldsPresent, ThreadOK
<1>15. ASSUME NEW c \in Conn, SigPipe(c) PROVE FieldsPresent'
  BY <1>15, NoneIsNothing DEF SigPipe, FieldsPresent, ThreadOK
<1>16. ASSUME NEW c \in Conn,
            PeerSend(c) \/ PeerRead(c) \/ PeerClose(c) \/
            BroadcastSend(c)
      PROVE  FieldsPresent'
  BY <1>16, NoneIsNothing DEF PeerSend, PeerRead, PeerClose, BroadcastSend,
     threadVars, FieldsPresent, ThreadOK
<1>17. CASE Restart
  BY <1>17 DEF Restart, FieldsPresent, ThreadOK, threadVars
<1>18. CASE UNCHANGED vars
  BY <1>18 DEF vars, FieldsPresent, ThreadOK
<1> QED
  BY <1>1, <1>2, <1>3, <1>4, <1>5, <1>6, <1>7, <1>8, <1>9, <1>10, <1>11,
     <1>12, <1>13, <1>14, <1>15, <1>16, <1>17, <1>18 DEF Next, Thread,
     Environment

\* A message waits only at a send, and an answer is for the thread's own peer.
LEMMA PendingStep ==
  PendingReply /\ ThreadOK /\ [Next]_vars
    => PendingReply'
<1> SUFFICES ASSUME PendingReply, ThreadOK, [Next]_vars
             PROVE  PendingReply'
  OBVIOUS
<1>1. ASSUME NEW c \in Conn, Accept(c) PROVE PendingReply'
  BY <1>1, NoneIsNothing DEF Accept, threadVars, PendingReply, ThreadOK,
     NoReply, Message, Answers
<1>2. ASSUME NEW c \in Conn, Receive(c) PROVE PendingReply'
  BY <1>2, NoneIsNothing DEF Receive, Dispatch, PendingReply, ThreadOK,
     NoReply, Message, Answers
<1>3. ASSUME NEW c \in Conn, EndOfStream(c) PROVE PendingReply'
  BY <1>3, NoneIsNothing DEF EndOfStream, PendingReply, ThreadOK, NoReply,
     Message, Answers
<1>4. ASSUME NEW c \in Conn, Acquire(c) PROVE PendingReply'
  BY <1>4, NoneIsNothing DEF Acquire, threadVars, PendingReply, ThreadOK,
     NoReply, Message, Answers
<1>5. ASSUME NEW c \in Conn, RegisterClient(c) PROVE PendingReply'
  BY <1>5, NoneIsNothing DEF RegisterClient, InCS, UnlockThenSend,
     PendingReply, ThreadOK, NoReply, Message, Answers
<1>6. ASSUME NEW c \in Conn, HandleEstado(c) PROVE PendingReply'
  BY <1>6, NoneIsNothing DEF HandleEstado, InCS, UnlockThenSend,
     SendThenUnlock, PendingReply, ThreadOK, NoReply, Message, Answers
<1>7. ASSUME NEW c \in Conn, HandleMostrar(c) PROVE PendingReply'
  BY <1>7, NoneIsNothing DEF HandleMostrar, InCS, UnlockThenSend,
     SendThenUnlock, PendingReply, ThreadOK, NoReply, Message, Answers
<1>8. ASSUME NEW c \in Conn, SendDirectMessage(c) PROVE PendingReply'
  BY <1>8, NoneIsNothing DEF SendDirectMessage, InCS, UnlockThenSend,
     SendThenUnlock, PendingReply, ThreadOK, NoReply, Message, Answers
<1>9. ASSUME NEW c \in Conn, ListConnectedUsers(c) PROVE PendingReply'
  BY <1>9, NoneIsNothing DEF ListConnectedUsers, InCS, UnlockThenSend,
     PendingReply, ThreadOK, NoReply, Message, Answers
<1>10. ASSUME NEW c \in Conn, BroadcastEnd(c) PROVE PendingReply'
  BY <1>10, NoneIsNothing DEF BroadcastEnd, InCS, Idle, PendingReply,
     ThreadOK, NoReply, Message, Answers
<1>11. ASSUME NEW c \in Conn, RemoveClient(c) PROVE PendingReply'
  BY <1>11, NoneIsNothing DEF RemoveClient, InCS, Idle, PendingReply,
     ThreadOK, NoReply, Message, Answers
<1>12. ASSUME NEW c \in Conn, SendUnlock(c) PROVE PendingReply'
  BY <1>12, NoneIsNothing DEF SendUnlock, Idle, PendingReply, ThreadOK,
     NoReply, Message, Answers
<1>13. ASSUME NEW c \in Conn, SendReply(c) PROVE PendingReply'
  BY <1>13, NoneIsNothing DEF SendReply, Idle, PendingReply, ThreadOK,
     NoReply, Message, Answers
<1>14. ASSUME NEW c \in Conn, Close(c) PROVE PendingReply'
  BY <1>14, NoneIsNothing DEF Close, PendingReply, ThreadOK, NoReply, Message,
     Answers
<1>15. ASSUME NEW c \in Conn, SigPipe(c) PROVE PendingReply'
  BY <1>15, NoneIsNothing DEF SigPipe, PendingReply, ThreadOK, NoReply,
     Message, Answers
<1>16. ASSUME NEW c \in Conn,
            PeerSend(c) \/ PeerRead(c) \/ PeerClose(c) \/
            BroadcastSend(c)
      PROVE  PendingReply'
  BY <1>16, NoneIsNothing DEF PeerSend, PeerRead, PeerClose, BroadcastSend,
     threadVars, PendingReply, ThreadOK, NoReply, Message, Answers
<1>17. CASE Restart
  BY <1>17 DEF Restart, PendingReply, ThreadOK, NoReply, Message, Answers,
     threadVars
<1>18. CASE UNCHANGED vars
  BY <1>18 DEF vars, PendingReply, ThreadOK, NoReply, Message, Answers
<1> QED
  BY <1>1, <1>2, <1>3, <1>4, <1>5, <1>6, <1>7, <1>8, <1>9, <1>10, <1>11,
     <1>12, <1>13, <1>14, <1>15, <1>16, <1>17, <1>18 DEF Next, Thread,
     Environment

\* register_client admits no entry that clashes with one it has scanned.
LEMMA UniqueStep ==
  UniqueUsers /\ ProcessOK /\ [Next]_vars
    => UniqueUsers'
<1> SUFFICES ASSUME UniqueUsers, ProcessOK, [Next]_vars
             PROVE  UniqueUsers'
  OBVIOUS
<1>1. ASSUME NEW c \in Conn, RegisterClient(c) PROVE UniqueUsers'
  <2>1. CASE UNCHANGED clients
    BY <2>1 DEF UniqueUsers, Occupied
  <2>2. ASSUME ~Duplicate(req[c].usuario, PeerIP[c]),
               NEW s \in Slot,
               clients' = [clients EXCEPT ![s] = NewEntry(c)]
        PROVE  UniqueUsers'
    BY <2>2 DEF UniqueUsers, Duplicate, HasName, SameName, Occupied, NewEntry,
       ProcessOK
  <2> QED BY <1>1, <2>1, <2>2 DEF RegisterClient
<1>2. ASSUME NEW c \in Conn, HandleEstado(c) PROVE UniqueUsers'
  <2>1. CASE UNCHANGED clients
    BY <2>1 DEF UniqueUsers, Occupied
  <2>2. ASSUME NEW s \in Slot, s \in Named(req[c].usuario), NEW e,
               clients' = [clients EXCEPT ![s].estado = e]
        PROVE  UniqueUsers'
    BY <2>2, NoneIsNothing
       DEF UniqueUsers, Named, HasName, Occupied, ProcessOK, Entry
  <2> QED BY <1>2, <2>1, <2>2 DEF HandleEstado, First
<1>3. ASSUME NEW c \in Conn, RemoveClient(c) PROVE UniqueUsers'
  BY <1>3, NoneIsNothing DEF RemoveClient, InCS, Idle, UniqueUsers, ProcessOK,
     Occupied
<1>4. ASSUME NEW c \in Conn, SigPipe(c) PROVE UniqueUsers'
  BY <1>4, NoneIsNothing DEF SigPipe, EmptyTable, UniqueUsers, ProcessOK,
     Occupied
<1>5. ASSUME NEW c \in Conn,
            Receive(c) \/ EndOfStream(c) \/ Acquire(c) \/
            HandleMostrar(c) \/ SendDirectMessage(c) \/
            ListConnectedUsers(c) \/ BroadcastSend(c) \/
            BroadcastEnd(c) \/ SendUnlock(c) \/ SendReply(c) \/
            Close(c) \/ Accept(c) \/ PeerSend(c) \/ PeerRead(c) \/
            PeerClose(c)
      PROVE  UniqueUsers'
  BY <1>5, NoneIsNothing DEF Receive, EndOfStream, Acquire, HandleMostrar,
     SendDirectMessage, ListConnectedUsers, BroadcastSend, BroadcastEnd,
     SendUnlock, SendReply, Close, Accept, PeerSend, PeerRead, PeerClose,
     threadVars, netVars, UniqueUsers, ProcessOK, Occupied
<1>6. CASE Restart
  BY <1>6 DEF Restart, UniqueUsers, ProcessOK, Occupied, threadVars
<1>7. CASE UNCHANGED vars
  BY <1>7 DEF vars, UniqueUsers, ProcessOK, Occupied
<1> QED
  BY <1>1, <1>2, <1>3, <1>4, <1>5, <1>6, <1>7 DEF Next, Thread, Environment

\* A descriptor number stands in one entry at most: its connection has one
\* address.  So remove_client, which clears the first match, clears them all.
LEMMA OneEntry ==
  ASSUME EntriesAreLive, UniqueUsers, NEW s \in Slot, NEW t \in Slot,
         Occupied(s), Occupied(t), clients[s].socket = clients[t].socket
  PROVE  s = t
BY DEF EntriesAreLive, Live, UniqueUsers, Owns

\* remove_client before close, and one entry per address, keep entries live.
LEMMA EntriesStep ==
  EntriesAreLive /\ UniqueUsers /\ Descriptors /\ FieldsPresent /\ ProcessOK
     /\ HandlesOK /\ ThreadOK /\ [Next]_vars
    => EntriesAreLive'
<1> SUFFICES ASSUME EntriesAreLive, UniqueUsers, Descriptors, FieldsPresent,
                    ProcessOK, HandlesOK, ThreadOK,
                    [Next]_vars
             PROVE  EntriesAreLive'
  OBVIOUS
<1>1. ASSUME NEW c \in Conn, Accept(c) PROVE EntriesAreLive'
  BY <1>1, NoneIsNothing DEF Accept, threadVars, EntriesAreLive, Live, Owns,
     Occupied, ProcessOK, HandlesOK, ThreadOK
<1>2. ASSUME NEW c \in Conn, Receive(c) PROVE EntriesAreLive'
  BY <1>2, NoneIsNothing DEF Receive, Dispatch, EntriesAreLive, Live, Owns,
     Occupied, ProcessOK, HandlesOK, ThreadOK
<1>3. ASSUME NEW c \in Conn, EndOfStream(c) PROVE EntriesAreLive'
  BY <1>3, NoneIsNothing DEF EndOfStream, EntriesAreLive, Live, Owns,
     Occupied, ProcessOK, HandlesOK, ThreadOK
<1>4. ASSUME NEW c \in Conn, Acquire(c) PROVE EntriesAreLive'
  BY <1>4, NoneIsNothing DEF Acquire, threadVars, EntriesAreLive, Live, Owns,
     Occupied, ProcessOK, HandlesOK, ThreadOK
<1>5. ASSUME NEW c \in Conn, RegisterClient(c) PROVE EntriesAreLive'
  <2>1. CASE UNCHANGED clients
    BY <1>5, <2>1 DEF RegisterClient, UnlockThenSend, InCS, Live, EntriesAreLive,
       Owns, Occupied, ThreadOK
  <2>2. ASSUME NEW s \in Slot,
               clients' = [clients EXCEPT ![s] = NewEntry(c)]
        PROVE  EntriesAreLive'
    <3>1. /\ sock[c] \in Fd /\ kernel[sock[c]] = c
          /\ pc' = [pc EXCEPT ![c] = "reply"] /\ pc[c] = "cs"
          /\ UNCHANGED <<kernel, sock>>
      BY <1>5 DEF RegisterClient, UnlockThenSend, InCS, Descriptors
    <3>2. NewEntry(c) # None
      BY <1>5, <3>1, DataAssumption, NoneIsNothing
         DEF RegisterClient, InCS, FieldsPresent, Entry, NewEntry
    <3>3. Live(s)'
      BY <2>2, <3>1, <3>2 DEF Live, NewEntry, Owns, Occupied, ProcessOK, ThreadOK
    <3>4. ASSUME NEW t \in Slot, t # s, Occupied(t)' PROVE Live(t)'
      BY <2>2, <3>1, <3>4 DEF Live, EntriesAreLive, Owns, Occupied, ProcessOK,
         ThreadOK
    <3> QED BY <3>3, <3>4 DEF EntriesAreLive
  <2> QED BY <1>5, <2>1, <2>2 DEF RegisterClient
<1>6. ASSUME NEW c \in Conn, HandleEstado(c) PROVE EntriesAreLive'
  <2>1. /\ pc[c] = "cs" /\ UNCHANGED <<kernel, sock>>
        /\ pc' = [pc EXCEPT ![c] = "reply"] \/ pc' = [pc EXCEPT ![c] = "sendcs"]
    BY <1>6 DEF HandleEstado, InCS, UnlockThenSend, SendThenUnlock
  <2>2. ASSUME NEW t \in Slot, Occupied(t)'
        PROVE  /\ Occupied(t)
               /\ clients'[t].socket = clients[t].socket
               /\ clients'[t].ip = clients[t].ip
    BY <1>6, <2>2, NoneIsNothing DEF HandleEstado, First, Named, HasName, Occupied,
       ProcessOK, Entry
  <2> QED BY <2>1, <2>2 DEF EntriesAreLive, Live, Owns, ThreadOK
<1>7. ASSUME NEW c \in Conn, HandleMostrar(c) PROVE EntriesAreLive'
  BY <1>7, NoneIsNothing DEF HandleMostrar, InCS, UnlockThenSend,
     SendThenUnlock, EntriesAreLive, Live, Owns, Occupied, ProcessOK,
     HandlesOK, ThreadOK
<1>8. ASSUME NEW c \in Conn, SendDirectMessage(c) PROVE EntriesAreLive'
  BY <1>8, NoneIsNothing DEF SendDirectMessage, InCS, UnlockThenSend,
     SendThenUnlock, EntriesAreLive, Live, Owns, Occupied, ProcessOK,
     HandlesOK, ThreadOK
<1>9. ASSUME NEW c \in Conn, ListConnectedUsers(c) PROVE EntriesAreLive'
  BY <1>9, NoneIsNothing DEF ListConnectedUsers, InCS, UnlockThenSend,
     EntriesAreLive, Live, Owns, Occupied, ProcessOK, HandlesOK, ThreadOK
<1>10. ASSUME NEW c \in Conn, BroadcastSend(c) PROVE EntriesAreLive'
  BY <1>10, NoneIsNothing DEF BroadcastSend, EntriesAreLive, Live, Owns,
     Occupied, ProcessOK, HandlesOK, ThreadOK
<1>11. ASSUME NEW c \in Conn, BroadcastEnd(c) PROVE EntriesAreLive'
  BY <1>11, NoneIsNothing DEF BroadcastEnd, InCS, Idle, EntriesAreLive, Live,
     Owns, Occupied, ProcessOK, HandlesOK, ThreadOK
<1>12. ASSUME NEW c \in Conn, RemoveClient(c) PROVE EntriesAreLive'
  <2> SUFFICES ASSUME NEW t \in Slot, Occupied(t)' PROVE Live(t)'
    BY DEF EntriesAreLive
  <2>1. /\ Occupied(t) /\ clients'[t] = clients[t] /\ clients[t].socket # sock[c]
    <3>1. CASE Using(sock[c]) = {} /\ UNCHANGED clients
      BY <3>1 DEF Using, Occupied
    <3>2. ASSUME NEW s \in Slot, First(s, Using(sock[c])),
                 clients' = [clients EXCEPT ![s] = None]
          PROVE  Occupied(t) /\ clients'[t] = clients[t] /\ clients[t].socket # sock[c]
      BY <3>2, OneEntry DEF First, Using, Occupied, ProcessOK
    <3> QED BY <1>12, <3>1, <3>2 DEF RemoveClient
  <2>2. /\ UNCHANGED <<kernel, sock>> /\ pc[c] = "cs"
        /\ pc' = [pc EXCEPT ![c] = "loop"] \/ pc' = [pc EXCEPT ![c] = "close"]
    BY <1>12 DEF RemoveClient, Idle, InCS
  <2> QED BY <2>1, <2>2 DEF EntriesAreLive, Live, Owns, Occupied, ThreadOK
<1>13. ASSUME NEW c \in Conn, SendUnlock(c) PROVE EntriesAreLive'
  BY <1>13, NoneIsNothing DEF SendUnlock, Idle, EntriesAreLive, Live, Owns,
     Occupied, ProcessOK, HandlesOK, ThreadOK
<1>14. ASSUME NEW c \in Conn, SendReply(c) PROVE EntriesAreLive'
  BY <1>14, NoneIsNothing DEF SendReply, Idle, EntriesAreLive, Live, Owns,
     Occupied, ProcessOK, HandlesOK, ThreadOK
<1>15. ASSUME NEW c \in Conn, Close(c) PROVE EntriesAreLive'
  <2> SUFFICES ASSUME NEW t \in Slot, Occupied(t)' PROVE Live(t)'
    BY DEF EntriesAreLive
  <2>1. Occupied(t) /\ UNCHANGED clients
    BY <1>15 DEF Close, Occupied
  <2>2. PICK d \in Conn : /\ Owns(d, t) /\ sock[d] = clients[t].socket
                          /\ PeerIP[d] = clients[t].ip
                          /\ pc[d] \notin {"none", "first", "refuse", "close"}
    BY <2>1 DEF EntriesAreLive, Live
  <2>3. d # c /\ sock[c] \in Fd /\ kernel[sock[c]] = c
    BY <1>15, <2>2 DEF Close, Descriptors
  <2>4. clients[t].socket \in Fd /\ clients[t].socket # sock[c]
    BY <2>1, <2>2, <2>3 DEF Owns, Occupied, ProcessOK, Entry
  <2> QED BY <1>15, <2>1, <2>2, <2>3, <2>4
          DEF Close, Live, Owns, Occupied, HandlesOK, ThreadOK
<1>16. ASSUME NEW c \in Conn, SigPipe(c) PROVE EntriesAreLive'
  BY <1>16 DEF SigPipe, EmptyTable, EntriesAreLive, Occupied
<1>17. ASSUME NEW c \in Conn,
            PeerSend(c) \/ PeerRead(c) \/ PeerClose(c)
      PROVE  EntriesAreLive'
  BY <1>17, NoneIsNothing DEF PeerSend, PeerRead, PeerClose, threadVars,
     netVars, EntriesAreLive, Live, Owns, Occupied, ProcessOK, HandlesOK,
     ThreadOK
<1>18. CASE Restart
  BY <1>18 DEF Restart, EntriesAreLive, Live, Owns, Occupied, ProcessOK,
     HandlesOK, ThreadOK, threadVars
<1>19. CASE UNCHANGED vars
  BY <1>19 DEF vars, EntriesAreLive, Live, Owns, Occupied, ProcessOK,
     HandlesOK, ThreadOK
<1> QED
  BY <1>1, <1>2, <1>3, <1>4, <1>5, <1>6, <1>7, <1>8, <1>9, <1>10, <1>11,
     <1>12, <1>13, <1>14, <1>15, <1>16, <1>17, <1>18, <1>19 DEF Next, Thread,
     Environment

-----------------------------------------------------------------------------
(***************************************************************************)
(* The invariant and what follows from it.                                 *)
(***************************************************************************)

LEMMA InvInit == Init => IInv
<1> SUFFICES ASSUME Init PROVE IInv
  OBVIOUS
<1>1. TypeOK
  BY TypeInit
<1>2. LockDiscipline
  BY NoneIsNothing DEF Init, LockDiscipline
<1>3. Descriptors
  BY NoneIsNothing DEF Init, Descriptors
<1>4. FieldsPresent
  BY DEF Init, FieldsPresent
<1>5. PendingReply
  BY DEF Init, PendingReply, NoReply, Answers
<1>6. UniqueUsers /\ EntriesAreLive
  BY DEF Init, UniqueUsers, EntriesAreLive, Occupied, EmptyTable
<1> QED BY <1>1, <1>2, <1>3, <1>4, <1>5, <1>6 DEF IInv

LEMMA InvStep == IInv /\ [Next]_vars => IInv'
<1> SUFFICES ASSUME IInv, [Next]_vars PROVE IInv'
  OBVIOUS
<1>1. /\ TypeOK /\ ProcessOK /\ HandlesOK /\ ThreadOK /\ NetOK
      /\ LockDiscipline /\ Descriptors /\ FieldsPresent /\ PendingReply
      /\ UniqueUsers /\ EntriesAreLive
  BY DEF IInv, TypeOK
<1> QED
  BY <1>1, TypeStep, LockStep, DescriptorsStep, FieldsStep, PendingStep,
     UniqueStep, EntriesStep DEF IInv

\* In every reachable state, whatever the number of connections, descriptors
\* and slots, the inductive invariant holds.
THEOREM Invariance == Spec => []IInv
BY InvInit, InvStep, PTL DEF Spec

\* The server never leaves its state space.
THEOREM TypeCorrect == Spec => []TypeOK
<1>1. IInv => TypeOK
  BY DEF IInv
<1> QED BY <1>1, Invariance, PTL

\* The mutex is held exactly between a lock and the matching unlock
\* (every handler of server_utils.c, every return path).
THEOREM MutualExclusion == Spec => []LockDiscipline
<1>1. IInv => LockDiscipline
  BY DEF IInv
<1> QED BY <1>1, Invariance, PTL

\* An entry of the table never names a descriptor that was closed or given to
\* another connection (remove_client before close, handle_client).
THEOREM NoStaleEntry == Spec => []EntriesAreLive
<1>1. IInv => EntriesAreLive
  BY DEF IInv
<1> QED BY <1>1, Invariance, PTL

\* register_client keeps addresses, and names strcmp can compare, unique.
THEOREM Uniqueness == Spec => []UniqueUsers
<1>1. IInv => UniqueUsers
  BY DEF IInv
<1> QED BY <1>1, Invariance, PTL

\* "Usuario no encontrado" of a connection that asks under its own name waits to
\* be written to its own number.
ErrorForSender ==
  \A c \in Conn : reply[c].kind = "NOUSER" /\ AsksAsItself(c) =>
    reply[c].to = sock[c]

\* c's entry, which bears the name in c's request, is the only one the scan can
\* have met under that name.
LEMMA SenderIsFound ==
  ASSUME IInv, NEW c \in Conn, NEW s \in Slot, Owns(c, s),
         SameName(clients[s].username, req[c].usuario)
  PROVE  Named(req[c].usuario) = {s} /\ clients[s].socket = sock[c]
<1>1. Occupied(s) /\ clients[s].username = req[c].usuario
      /\ req[c].usuario \notin LongName
  BY DEF Owns, SameName
<1>2. clients[s].socket = sock[c]
  BY <1>1 DEF IInv, EntriesAreLive, Live, Owns
<1>3. ASSUME NEW t \in Named(req[c].usuario) PROVE t = s
  BY <1>1, <1>3 DEF Named, HasName, SameName, IInv, UniqueUsers
<1>4. s \in Named(req[c].usuario)
  BY <1>1 DEF Named, HasName, SameName
<1> QED BY <1>2, <1>3, <1>4

LEMMA ErrorForSenderStep ==
  IInv /\ IInv' /\ ErrorForSender /\ [Next]_vars => ErrorForSender'
<1> SUFFICES ASSUME IInv, IInv', ErrorForSender, [Next]_vars,
                    NEW c \in Conn, reply'[c].kind = "NOUSER", AsksAsItself(c)'
             PROVE  reply'[c].to = sock'[c]
  BY DEF ErrorForSender
<1>1. PICK s \in Slot : Owns(c, s)' /\ SameName(clients[s].username, req[c].usuario)'
  BY DEF AsksAsItself
<1>2. CASE reply'[c] = reply[c] /\ req'[c] = req[c] /\ AsksAsItself(c)
                 /\ sock'[c] = sock[c]
  BY <1>2 DEF ErrorForSender
<1>3. ASSUME NEW d \in Conn, SendDirectMessage(d), d = c
      PROVE  reply'[c].to = sock'[c]
  <2>1. UNCHANGED <<clients, kernel, sock, req>>
    BY <1>3 DEF SendDirectMessage, SendThenUnlock, UnlockThenSend
  <2>2. Owns(c, s) /\ SameName(clients[s].username, req[c].usuario)
    BY <1>1, <2>1 DEF Owns, Occupied, SameName
  <2>3. Named(req[c].usuario) = {s} /\ clients[s].socket = sock[c]
    BY <2>2, SenderIsFound
  <2>4. ASSUME NEW fd, SendThenUnlock(c, Message(fd, "DM")) PROVE FALSE
    BY <2>4 DEF SendThenUnlock, Message, IInv, TypeOK, ThreadOK
  <2>5. PICK fd \in Fd \cup {NoFd} :
          /\ fd = clients[s].socket
          /\ UnlockThenSend(c, Message(fd, "NOUSER"))
    BY <1>3, <2>3, <2>4 DEF SendDirectMessage
  <2> QED BY <2>1, <2>3, <2>5 DEF UnlockThenSend, Message, IInv, TypeOK, ThreadOK
<1>4. ASSUME ~SendDirectMessage(c)
      PROVE  reply'[c] = reply[c] /\ req'[c] = req[c] /\ sock'[c] = sock[c]
  <2>1. NoReply.kind # "NOUSER"
    BY DEF NoReply
  <2>2. ASSUME NEW d \in Conn, Thread(d), ~SendDirectMessage(d)
        PROVE  reply'[c] = reply[c] /\ req'[c] = req[c] /\ sock'[c] = sock[c]
    <3>1. CASE d = c
      <4>1. reply'[c] = reply[c] \/ reply'[c].kind # "NOUSER"
        BY <2>2, <3>1, <2>1 DEF Thread, Receive, EndOfStream, Acquire, RegisterClient,
           HandleEstado, HandleMostrar, ListConnectedUsers, BroadcastSend,
           BroadcastEnd, RemoveClient, SendUnlock, SendReply, Close, Idle, Message,
           UnlockThenSend, SendThenUnlock, threadVars, IInv, TypeOK, ThreadOK
      <4>2. reply[c].kind = "NOUSER" /\ pc[c] \in {"reply", "refuse", "sendcs"}
        BY <4>1 DEF IInv, PendingReply
      <4>3. SendUnlock(c) \/ SendReply(c)
        BY <2>2, <3>1, <4>2 DEF Thread, Receive, EndOfStream, Acquire,
           RegisterClient, HandleEstado, HandleMostrar, ListConnectedUsers,
           BroadcastSend, BroadcastEnd, RemoveClient, Close, InCS
      <4>4. reply'[c] = NoReply
        BY <4>3 DEF SendUnlock, SendReply, Idle, IInv, TypeOK, ThreadOK
      <4> QED BY <4>4 DEF NoReply
    <3>2. CASE d # c
      BY <2>2, <3>2 DEF Thread, Receive, EndOfStream, Acquire, RegisterClient,
         HandleEstado, HandleMostrar, ListConnectedUsers, BroadcastSend,
         BroadcastEnd, RemoveClient, SendUnlock, SendReply, Close, Idle,
         UnlockThenSend, SendThenUnlock, threadVars, IInv, TypeOK, ThreadOK,
         HandlesOK
    <3> QED BY <3>1, <3>2
  <2>3. ASSUME NEW d \in Conn, SendDirectMessage(d)
        PROVE  reply'[c] = reply[c] /\ req'[c] = req[c] /\ sock'[c] = sock[c]
    BY <1>4, <2>3 DEF SendDirectMessage, UnlockThenSend, SendThenUnlock, IInv,
       TypeOK, ThreadOK
  <2>4. ASSUME NEW d \in Conn, Accept(d)
        PROVE  reply'[c] = reply[c] /\ req'[c] = req[c] /\ sock'[c] = sock[c]
    <3>1. UNCHANGED <<reply, req>> /\ pc[d] = "none"
      BY <2>4 DEF Accept, threadVars
    <3>2. pc[c] # "none"
      BY <3>1 DEF IInv, PendingReply
    <3> QED BY <2>4, <3>1, <3>2 DEF Accept, IInv, TypeOK, HandlesOK
  <2>5. ASSUME NEW d \in Conn, SigPipe(d) PROVE FALSE
    BY <2>5, <2>1 DEF SigPipe
  <2>6. ASSUME NEW d \in Conn, Environment(d)
        PROVE  reply'[c] = reply[c] /\ req'[c] = req[c] /\ sock'[c] = sock[c]
    BY <2>6 DEF Environment, PeerSend, PeerRead, PeerClose, threadVars
  <2> QED BY <2>2, <2>3, <2>4, <2>5, <2>6 DEF Next, Restart, vars, threadVars
<1>5. ASSUME reply[c].kind = "NOUSER" PROVE AsksAsItself(c) \/ SendDirectMessage(c)
  <2>1. CASE UNCHANGED <<clients, kernel>> /\ req'[c] = req[c]
    BY <1>1, <2>1 DEF AsksAsItself, Owns, Occupied, SameName
  <2>2. ASSUME NEW d \in Conn, Accept(d) \/ Close(d), ~SendDirectMessage(c)
        PROVE  Owns(c, s) /\ SameName(clients[s].username, req[c].usuario)
    <3>1. UNCHANGED clients /\ req'[c] = req[c]
      BY <1>4, <2>2 DEF Accept, Close
    <3>2. clients[s].socket \in Fd /\ pc[c] \notin {"none", "close"}
      BY <1>1, <1>5, <3>1 DEF Owns, Occupied, IInv, TypeOK, ProcessOK, Entry, PendingReply
    <3>3. kernel[clients[s].socket] = c
      BY <1>1, <2>2, <3>1, <3>2, NoneIsNothing DEF Accept, Close, Owns, IInv,
         TypeOK, HandlesOK, Descriptors
    <3> QED BY <1>1, <3>1, <3>3 DEF Owns, Occupied, SameName
  <2>3. ASSUME NEW d \in Conn, RegisterClient(d), ~SendDirectMessage(c)
        PROVE  Owns(c, s) /\ SameName(clients[s].username, req[c].usuario)
    <3>1. UNCHANGED kernel /\ req'[c] = req[c]
      BY <1>4, <2>3 DEF RegisterClient
    <3>2. d # c /\ sock[d] \in Fd /\ kernel[sock[d]] = d
      BY <1>5, <2>3 DEF RegisterClient, InCS, IInv, PendingReply, Descriptors
    <3>3. clients'[s] = clients[s]
      <4>1. ASSUME NEW t \in Slot, clients' = [clients EXCEPT ![t] = NewEntry(d)], t = s
            PROVE  FALSE
        <5>1. clients'[s].socket = sock[d]
          BY <4>1 DEF NewEntry, IInv, TypeOK, ProcessOK
        <5> QED BY <1>1, <3>1, <3>2, <5>1 DEF Owns
      <4> QED BY <2>3, <4>1 DEF RegisterClient, IInv, TypeOK, ProcessOK
    <3> QED BY <1>1, <3>1, <3>3 DEF Owns, Occupied, SameName
  <2>4. ASSUME NEW d \in Conn, HandleEstado(d), ~SendDirectMessage(c)
        PROVE  Owns(c, s) /\ SameName(clients[s].username, req[c].usuario)
    <3>1. UNCHANGED kernel /\ req'[c] = req[c]
      BY <1>4, <2>4 DEF HandleEstado
    <3>2. Occupied(s) /\ clients'[s].socket = clients[s].socket
          /\ clients'[s].username = clients[s].username
      <4>1. ASSUME NEW t \in Slot, First(t, Named(req[d].usuario)), NEW e,
                   clients' = [clients EXCEPT ![t].estado = e]
            PROVE  Occupied(s) /\ clients'[s].socket = clients[s].socket
                   /\ clients'[s].username = clients[s].username
        <5>1. clients[t] \in Entry
          BY <4>1 DEF First, Named, HasName, Occupied, IInv, TypeOK, ProcessOK
        <5>2. CASE s = t
          BY <4>1, <5>1, <5>2, NoneIsNothing DEF Entry, Occupied, IInv, TypeOK,
             ProcessOK
        <5>3. CASE s # t
          BY <1>1, <4>1, <5>3 DEF Owns, Occupied, IInv, TypeOK, ProcessOK
        <5> QED BY <5>2, <5>3
      <4>2. CASE UNCHANGED clients
        BY <1>1, <4>2 DEF Owns, Occupied
      <4> QED BY <2>4, <4>1, <4>2 DEF HandleEstado
    <3> QED BY <1>1, <3>1, <3>2 DEF Owns, SameName
  <2>5. ASSUME NEW d \in Conn, RemoveClient(d), ~SendDirectMessage(c)
        PROVE  Owns(c, s) /\ SameName(clients[s].username, req[c].usuario)
    <3>1. UNCHANGED kernel /\ req'[c] = req[c]
      BY <1>4, <2>5 DEF RemoveClient
    <3>2. clients'[s] = clients[s]
      BY <1>1, <2>5 DEF RemoveClient, Owns, Occupied, IInv, TypeOK, ProcessOK
    <3> QED BY <1>1, <3>1, <3>2 DEF Owns, Occupied, SameName
  <2>6. ASSUME NEW d \in Conn, SigPipe(d) PROVE FALSE
    BY <2>6 DEF SigPipe, NoReply
  <2>7. UNCHANGED <<clients, kernel>>
        \/ \E d \in Conn : \/ Accept(d) \/ Close(d) \/ RegisterClient(d)
                          \/ HandleEstado(d) \/ RemoveClient(d) \/ SigPipe(d)
    BY DEF Next, Thread, Environment, Restart, vars, Receive, EndOfStream, Acquire,
       HandleMostrar, SendDirectMessage, ListConnectedUsers, BroadcastSend,
       BroadcastEnd, SendUnlock, SendReply, PeerSend, PeerRead, PeerClose
  <2> QED BY <1>4, <2>1, <2>2, <2>3, <2>4, <2>5, <2>6, <2>7 DEF AsksAsItself
<1> QED BY <1>2, <1>3, <1>4, <1>5

\* Every answer is written to the connection that asked (send_json_response,
\* list_connected_users, handle_mostrar), also the error of a direct message
\* whose receiver is not there, if its sender is registered under the name it
\* gives (send_direct_message).
THEOREM AnswersReachTheirAsker == Spec => []AnswerReachesAsker
<1>1. ASSUME IInv, ErrorForSender PROVE AnswerReachesAsker
  <2> SUFFICES ASSUME NEW c \in Conn,
                      \/ reply[c].kind \in Answers
                      \/ reply[c].kind = "NOUSER" /\ AsksAsItself(c)
               PROVE  reply[c].to \in Fd /\ kernel[reply[c].to] = c
    BY DEF AnswerReachesAsker
  <2>1. reply[c].to = sock[c] /\ pc[c] \in {"reply", "refuse", "sendcs"}
    BY <1>1 DEF IInv, PendingReply, Answers, ErrorForSender
  <2> QED BY <1>1, <2>1 DEF IInv, Descriptors
<1>2. Init => ErrorForSender
  BY DEF Init, ErrorForSender, NoReply
<1> QED BY <1>1, <1>2, ErrorForSenderStep, Invariance, PTL DEF Spec

\* While the process runs, only its own EXIT or the end of its own connection
\* takes a user out of the table.
THEOREM LeavingIsOwn == Spec => LeavesByItself
<1>1. ASSUME IInv, [Next]_vars, NEW c \in Conn, up', Registered(c), ~Registered(c)'
      PROVE  req[c].type \in {"EXIT", "EOF"}
  <2>1. PICK s \in Slot : Owns(c, s)
    BY <1>1 DEF Registered
  <2>2. ~Owns(c, s)'
    BY <1>1 DEF Registered
  <2>3. /\ sock[c] = clients[s].socket /\ sock[c] \in Fd /\ kernel[sock[c]] = c
        /\ pc[c] \notin {"none", "close"} /\ Occupied(s)
    BY <1>1, <2>1 DEF IInv, EntriesAreLive, Live, Owns, Descriptors, TypeOK,
       HandlesOK
  <2>4. clients' # clients \/ kernel' # kernel
    BY <2>1, <2>2 DEF Owns, Occupied
  <2>5. ASSUME NEW d \in Conn, Accept(d) PROVE FALSE
    BY <2>1, <2>2, <2>3, <2>5, <1>1, NoneIsNothing DEF Accept, Owns, Occupied, IInv,
       TypeOK, HandlesOK
  <2>6. ASSUME NEW d \in Conn, Close(d) PROVE FALSE
    <3>1. d # c /\ sock[d] # sock[c]
      BY <2>3, <2>6, <1>1 DEF Close, IInv, Descriptors
    <3> QED BY <3>1, <2>1, <2>2, <2>3, <2>6, <1>1
            DEF Close, Owns, Occupied, IInv, TypeOK, HandlesOK
  <2>7. ASSUME NEW d \in Conn, RegisterClient(d) PROVE FALSE
    BY <2>1, <2>2, <2>3, <2>7, <1>1
       DEF RegisterClient, First, Free, Owns, Occupied, IInv, TypeOK, ProcessOK
  <2>8. ASSUME NEW d \in Conn, HandleEstado(d) PROVE FALSE
    <3>1. /\ clients[s] \in Entry /\ clients \in [Slot -> Entry \cup {None}]
          /\ UNCHANGED kernel
      BY <2>3, <2>8, <1>1 DEF HandleEstado, Occupied, IInv, TypeOK, ProcessOK
    <3>2. ASSUME NEW t \in Slot, t \in Named(req[d].usuario),
                 NEW e \in Estado, clients' = [clients EXCEPT ![t].estado = e]
          PROVE  clients'[s].socket = clients[s].socket /\ Occupied(s)'
      BY <3>1, <3>2, NoneIsNothing DEF Occupied, Entry
    <3>3. req[d].estado \in Estado
      BY <2>8, <1>1 DEF HandleEstado, InCS, IInv, FieldsPresent
    <3> QED BY <2>1, <2>2, <2>4, <2>8, <3>1, <3>2, <3>3
            DEF HandleEstado, First, Owns
  <2>9. ASSUME NEW d \in Conn, RemoveClient(d)
        PROVE  req[c].type \in {"EXIT", "EOF"}
    <3>1. s \in Using(sock[d])
      BY <2>1, <2>2, <2>3, <2>9, <1>1
         DEF RemoveClient, First, Using, Owns, Occupied, IInv, TypeOK, ProcessOK
    <3>2. sock[d] = sock[c] /\ pc[d] # "none"
      BY <3>1, <2>3, <2>9 DEF Using, RemoveClient, InCS
    <3>3. d = c
      BY <3>2, <2>3, <1>1 DEF IInv, Descriptors
    <3> QED BY <2>9, <3>3 DEF RemoveClient, InCS
  <2>10. ASSUME NEW d \in Conn, SigPipe(d) PROVE FALSE
    BY <2>10, <1>1 DEF SigPipe
  <2> QED
    BY <1>1, <2>4, <2>5, <2>6, <2>7, <2>8, <2>9, <2>10
       DEF Next, Thread, Environment, Receive, EndOfStream, Acquire,
           HandleMostrar, SendDirectMessage, ListConnectedUsers, BroadcastSend,
           BroadcastEnd, SendUnlock, SendReply, PeerSend, PeerRead, PeerClose,
           Restart, vars
<1>2. IInv /\ [Next]_vars =>
        [\A c \in Conn : up' /\ Registered(c) /\ ~Registered(c)' =>
           req[c].type \in {"EXIT", "EOF"}]_vars
  BY <1>1
<1> QED BY <1>2, Invariance, PTL DEF Spec, LeavesByItself

-----------------------------------------------------------------------------
(***************************************************************************)
(* A direct message is written while its receiver cannot leave.            *)
(***************************************************************************)

\* A thread about to write a DM holds the mutex.
HeldForDM == \A c \in Conn : reply[c].kind = "DM" => pc[c] = "sendcs"

LEMMA DMStep ==
  IInv /\ HeldForDM /\ DirectMessageTarget /\ [Next]_vars
    => HeldForDM' /\ DirectMessageTarget'
<1> SUFFICES ASSUME IInv, HeldForDM, DirectMessageTarget, [Next]_vars
             PROVE  HeldForDM' /\ DirectMessageTarget'
  OBVIOUS
<1> DEFINE Kept(d) ==
      reply[d]' = reply[d] /\ req[d]' = req[d] /\ pc[d]' = pc[d]
<1>1. ASSUME UNCHANGED clients,
             \A d \in Conn : Kept(d) \/ reply'[d].kind # "DM"
      PROVE  HeldForDM' /\ DirectMessageTarget'
  BY <1>1 DEF HeldForDM, DirectMessageTarget, Named, HasName, Occupied
<1>2. ASSUME NEW c \in Conn, SendDirectMessage(c)
      PROVE  HeldForDM' /\ DirectMessageTarget'
  <2>1. ASSUME NEW s \in Named(req[c].destino),
               SendThenUnlock(c, Message(clients[s].socket, "DM"))
        PROVE  HeldForDM' /\ DirectMessageTarget'
    <3>1. UNCHANGED <<clients, req>>
      BY <1>2, <2>1 DEF SendDirectMessage, SendThenUnlock
    <3>2. reply'[c].to = clients[s].socket /\ pc'[c] = "sendcs"
      BY <2>1 DEF SendThenUnlock, Message, IInv, TypeOK, ThreadOK
    <3>3. ASSUME NEW d \in Conn, d # c PROVE Kept(d)
      BY <2>1, <3>3 DEF SendThenUnlock, IInv, TypeOK, ThreadOK
    <3> QED BY <3>1, <3>2, <3>3
            DEF HeldForDM, DirectMessageTarget, Named, HasName, Occupied
  <2>2. ASSUME NEW fd, UnlockThenSend(c, Message(fd, "NOUSER"))
        PROVE  HeldForDM' /\ DirectMessageTarget'
    <3>1. \A d \in Conn : Kept(d) \/ reply'[d].kind # "DM"
      BY <2>2 DEF UnlockThenSend, Message, IInv, TypeOK, ThreadOK
    <3> QED BY <1>1, <1>2, <3>1 DEF SendDirectMessage
  <2> QED BY <1>2, <2>1, <2>2 DEF SendDirectMessage, First
\* The actions that change the table hold the mutex themselves.
<1>3. ASSUME NEW c \in Conn,
             RegisterClient(c) \/ HandleEstado(c) \/ RemoveClient(c)
      PROVE  HeldForDM' /\ DirectMessageTarget'
  <2>1. \A d \in Conn : reply[d].kind # "DM"
    <3>1. mutex = c /\ pc[c] = "cs"
      BY <1>3 DEF RegisterClient, HandleEstado, RemoveClient, InCS
    <3> QED BY <3>1 DEF HeldForDM, IInv, LockDiscipline
  <2>2. \A d \in Conn : reply'[d].kind # "DM"
    BY <1>3, <2>1 DEF RegisterClient, HandleEstado, RemoveClient, Idle, Message,
       UnlockThenSend, SendThenUnlock, NoReply, IInv, TypeOK, ThreadOK
  <2> QED BY <2>2 DEF HeldForDM, DirectMessageTarget
<1>4. ASSUME NEW c \in Conn, SigPipe(c) PROVE HeldForDM' /\ DirectMessageTarget'
  BY <1>4 DEF SigPipe, NoReply, HeldForDM, DirectMessageTarget
<1>5. ASSUME NEW c \in Conn,
             Accept(c) \/ Receive(c) \/ EndOfStream(c) \/ Close(c) \/ Acquire(c)
      PROVE  HeldForDM' /\ DirectMessageTarget'
  <2>1. UNCHANGED clients
    BY <1>5 DEF Accept, Receive, EndOfStream, Close, Acquire
  <2>2. reply[c].kind # "DM"
    BY <1>5 DEF Accept, Receive, EndOfStream, Close, Acquire, HeldForDM
  <2>3. \A d \in Conn : Kept(d) \/ reply'[d].kind # "DM"
    BY <1>5, <2>2 DEF Accept, Receive, EndOfStream, Close, Acquire, Message,
       NoReply, threadVars, IInv, TypeOK, ThreadOK
  <2> QED BY <1>1, <2>1, <2>3
<1>6. ASSUME NEW c \in Conn,
             HandleMostrar(c) \/ ListConnectedUsers(c) \/ BroadcastEnd(c)
               \/ SendUnlock(c) \/ SendReply(c)
      PROVE  HeldForDM' /\ DirectMessageTarget'
  <2>1. UNCHANGED clients
    BY <1>6 DEF HandleMostrar, ListConnectedUsers, BroadcastEnd, SendUnlock,
       SendReply
  <2>2. reply'[c].kind # "DM"
    BY <1>6 DEF HandleMostrar, ListConnectedUsers, BroadcastEnd, SendUnlock,
       SendReply, Idle, Message, NoReply, UnlockThenSend, SendThenUnlock, IInv,
       TypeOK, ThreadOK
  <2>3. \A d \in Conn \ {c} : Kept(d)
    BY <1>6 DEF HandleMostrar, ListConnectedUsers, BroadcastEnd, SendUnlock,
       SendReply, Idle, UnlockThenSend, SendThenUnlock, IInv, TypeOK, ThreadOK
  <2> QED BY <1>1, <2>1, <2>2, <2>3
<1>7. ASSUME NEW c \in Conn,
             BroadcastSend(c) \/ PeerSend(c) \/ PeerRead(c) \/ PeerClose(c)
      PROVE  HeldForDM' /\ DirectMessageTarget'
  BY <1>1, <1>7 DEF BroadcastSend, PeerSend, PeerRead, PeerClose, threadVars
<1>8. CASE Restart
  BY <1>1, <1>8 DEF Restart, threadVars
<1>9. CASE UNCHANGED vars
  BY <1>1, <1>9 DEF vars
<1> QED
  BY <1>2, <1>3, <1>4, <1>5, <1>6, <1>7, <1>8, <1>9
     DEF Next, Thread, Environment

\* A DM is written to the descriptor of the user it names, who is still in the
\* table (send_direct_message sends before it unlocks).
THEOREM DMReachesItsReceiver == Spec => []DirectMessageTarget
<1>1. Init => HeldForDM /\ DirectMessageTarget
  BY DEF Init, HeldForDM, DirectMessageTarget, NoReply
<1> QED BY <1>1, DMStep, Invariance, PTL DEF Spec

-----------------------------------------------------------------------------
(***************************************************************************)
(* LinuxServer implements ChatRoom: every step of a thread is a step of    *)
(* the room, or leaves the room as it is.                                  *)
(***************************************************************************)

rooms == [c \in Conn |-> SessionOf(c)]

SessionAt(s) == [username |-> clients[s].username, estado |-> clients[s].estado]

\* A connection's session is what its one slot says.
SessionFacts ==
  \A c \in Conn :
    /\ ~Registered(c) => SessionOf(c) = None
    /\ \A s \in Slot : Owns(c, s) =>
         /\ SessionOf(c) = SessionAt(s) /\ SessionOf(c) # None
         /\ PeerIP[c] = clients[s].ip

LEMMA SessionsAreSlots == IInv => SessionFacts
<1> SUFFICES ASSUME IInv, NEW c \in Conn, NEW s \in Slot, Owns(c, s)
             PROVE  /\ SessionOf(c) = SessionAt(s) /\ SessionOf(c) # None
                    /\ PeerIP[c] = clients[s].ip
  BY DEF SessionFacts, SessionOf
<1>1. \A t \in Slot : Owns(c, t) =>
        sock[c] = clients[t].socket /\ PeerIP[c] = clients[t].ip
  BY DEF IInv, EntriesAreLive, Live, Owns
<1>2. \A t \in Slot : Owns(c, t) => t = s
  BY <1>1, OneEntry DEF IInv, Owns
<1>3. SessionOf(c) = SessionAt(s)
  BY <1>2 DEF SessionOf, SessionAt, Registered
<1>4. SessionAt(s) # None
  <2>1. clients[s] \in Entry
    BY DEF Owns, Occupied, IInv, TypeOK, ProcessOK
  <2>2. SessionAt(s) \in Session
    BY <2>1 DEF SessionAt, Session, Entry
  <2> QED BY <2>2, NoneAssumption
<1> QED BY <1>1, <1>3, <1>4

\* Sessions change only with the table and the descriptors that own its slots.
LEMMA SameSessions ==
  ASSUME UNCHANGED clients,
         \A c \in Conn, s \in Slot : Owns(c, s)' = Owns(c, s)
  PROVE  UNCHANGED rooms
<1>1. ASSUME NEW c \in Conn PROVE SessionOf(c)' = SessionOf(c)
  <2>1. Registered(c)' = Registered(c)
    BY DEF Registered
  <2>2. (CHOOSE t \in Slot : Owns(c, t))' = CHOOSE t \in Slot : Owns(c, t)
    OBVIOUS
  <2> QED BY <2>1, <2>2 DEF SessionOf
<1> QED BY <1>1 DEF rooms

LEMMA RoomInit == Init => Room!Init
<1> SUFFICES ASSUME Init, NEW c \in Conn PROVE SessionOf(c) = None
  BY DEF Room!Init
<1>1. ~Registered(c)
  BY DEF Init, EmptyTable, Registered, Owns, Occupied
<1> QED BY <1>1 DEF SessionOf

\* register_client admits a user: Enter.
LEMMA RegisterEnters ==
  ASSUME IInv, SessionFacts, SessionFacts', NEW c \in Conn, RegisterClient(c)
  PROVE  [Room!Next]_rooms
<1>1. CASE UNCHANGED clients
  BY <1>1, SameSessions DEF RegisterClient, Owns, Occupied
<1>2. ASSUME NEW s \in Slot, s \in Free, ~Duplicate(req[c].usuario, PeerIP[c]),
             clients' = [clients EXCEPT ![s] = NewEntry(c)]
      PROVE  Room!Next
  <2> DEFINE n == req[c].usuario
  <2>1. /\ sock[c] \in Fd /\ kernel[sock[c]] = c /\ kernel' = kernel /\ n \in Name
        /\ clients \in [Slot -> Entry \cup {None}] /\ ~Occupied(s)
    BY <1>2 DEF RegisterClient, InCS, IInv, Descriptors, FieldsPresent, TypeOK,
       ProcessOK, Free
  <2>2. NewEntry(c) # None
    BY <2>1, DataAssumption, NoneIsNothing DEF Entry, NewEntry
  <2>3. Owns(c, s)' /\ SessionAt(s)' = [username |-> n, estado |-> "ACTIVO"]
    BY <1>2, <2>1, <2>2 DEF Owns, Occupied, SessionAt, NewEntry
  <2>4. SessionOf(c)' = [username |-> n, estado |-> "ACTIVO"]
    BY <2>3 DEF SessionFacts
  <2>5. ~Registered(c)
    BY <1>2 DEF Registered, SessionFacts, Duplicate, Owns
  <2>6. ASSUME NEW d \in Conn, d # c PROVE SessionOf(d)' = SessionOf(d)
    <3>1. \A t \in Slot : Owns(d, t)' = Owns(d, t)
      BY <1>2, <2>1, <2>2, <2>6 DEF Owns, Occupied, NewEntry
    <3>2. \A t \in Slot : Owns(d, t) => SessionAt(t)' = SessionAt(t)
      BY <1>2, <2>1 DEF Owns, Occupied, SessionAt
    <3> QED BY <3>1, <3>2 DEF SessionFacts, Registered
  <2>7. ASSUME NEW d \in Conn, SessionOf(d) # None
        PROVE  PeerIP[d] # PeerIP[c] /\ ~(SessionOf(d).username = n /\ n \notin LongName)
    <3>1. PICK t \in Slot : Owns(d, t)
      BY <2>7 DEF SessionFacts, Registered
    <3>2. PeerIP[d] = clients[t].ip /\ SessionOf(d).username = clients[t].username
      BY <3>1 DEF SessionFacts, SessionAt
    <3> QED BY <1>2, <3>1, <3>2 DEF Duplicate, HasName, SameName, Owns
  <2>8. rooms' = [rooms EXCEPT ![c] = [username |-> n, estado |-> "ACTIVO"]]
    BY <2>4, <2>6 DEF rooms
  <2>9. Room!Enter(c, n)
    BY <2>5, <2>7, <2>8 DEF Room!Enter, Room!Clash, Room!Present, rooms, SessionFacts
  <2> QED BY <2>1, <2>9 DEF Room!Next
<1> QED BY <1>1, <1>2 DEF RegisterClient, First

\* handle_estado changes the status of the user it names: ChangeEstado.
LEMMA EstadoChanges ==
  ASSUME IInv, SessionFacts, SessionFacts', NEW c \in Conn, HandleEstado(c)
  PROVE  [Room!Next]_rooms
<1>1. CASE UNCHANGED clients
  BY <1>1, SameSessions DEF HandleEstado, Owns, Occupied
<1>2. ASSUME NEW s \in Slot, s \in Named(req[c].usuario), NEW e \in Estado,
             clients' = [clients EXCEPT ![s].estado = e]
      PROVE  Room!Next
  <2>1. /\ kernel' = kernel /\ clients[s] \in Entry /\ Occupied(s)
        /\ clients \in [Slot -> Entry \cup {None}]
    BY <1>2 DEF HandleEstado, Named, HasName, Occupied, IInv, TypeOK, ProcessOK
  <2>2. PICK d \in Conn : Owns(d, s)
    BY <2>1 DEF IInv, EntriesAreLive, Live
  <2>3. ASSUME NEW t \in Slot
        PROVE  /\ Occupied(t)' = Occupied(t)
               /\ Occupied(t) => clients'[t].socket = clients[t].socket
               /\ t # s => SessionAt(t)' = SessionAt(t)
               /\ SessionAt(s)' = [SessionAt(s) EXCEPT !.estado = e]
    BY <1>2, <2>1, NoneIsNothing DEF Occupied, SessionAt, Entry
  <2>4. \A b \in Conn, t \in Slot : Owns(b, t)' = Owns(b, t)
    BY <2>1, <2>3 DEF Owns
  <2>5. SessionOf(d)' = [SessionOf(d) EXCEPT !.estado = e] /\ SessionOf(d) # None
    BY <2>2, <2>3, <2>4 DEF SessionFacts
  <2>6. ASSUME NEW b \in Conn, b # d PROVE SessionOf(b)' = SessionOf(b)
    <3>1. \A t \in Slot : Owns(b, t) => t # s
      BY <2>2, <2>6 DEF Owns
    <3> QED BY <2>3, <2>4, <3>1 DEF SessionFacts, Registered
  <2>7. Room!ChangeEstado(d, e)
    BY <2>5, <2>6 DEF Room!ChangeEstado, Room!Present
  <2> QED BY <2>7 DEF Room!Next
<1>3. req[c].estado \in Estado
  BY DEF HandleEstado, InCS, IInv, FieldsPresent
<1> QED BY <1>1, <1>2, <1>3 DEF HandleEstado, First

\* remove_client takes out the thread's own user: Leave.
LEMMA RemoveLeaves ==
  ASSUME IInv, SessionFacts, SessionFacts', NEW c \in Conn, RemoveClient(c)
  PROVE  [Room!Next]_rooms
<1>1. CASE UNCHANGED clients
  BY <1>1, SameSessions DEF RemoveClient, Owns, Occupied
<1>2. ASSUME NEW s \in Slot, s \in Using(sock[c]),
             clients' = [clients EXCEPT ![s] = None]
      PROVE  Room!Next
  <2>1. /\ kernel' = kernel /\ clients \in [Slot -> Entry \cup {None}]
        /\ Owns(c, s)
    BY <1>2 DEF RemoveClient, InCS, Using, Owns, IInv, Descriptors, TypeOK, ProcessOK
  <2>2. \A t \in Slot : Owns(c, t) => t = s
    BY <2>1, OneEntry DEF IInv, EntriesAreLive, Live, Owns
  <2>3. \A b \in Conn, t \in Slot : Owns(b, t)' = (Owns(b, t) /\ t # s)
    BY <1>2, <2>1 DEF Owns, Occupied
  <2>4. SessionOf(c)' = None /\ SessionOf(c) # None
    BY <2>1, <2>2, <2>3 DEF SessionFacts, Registered
  <2>5. ASSUME NEW b \in Conn, b # c PROVE SessionOf(b)' = SessionOf(b)
    <3>1. \A t \in Slot : Owns(b, t) => t # s /\ SessionAt(t)' = SessionAt(t)
      BY <1>2, <2>1, <2>5 DEF Owns, SessionAt
    <3> QED BY <2>3, <3>1 DEF SessionFacts, Registered
  <2>6. Room!Leave(c)
    BY <2>4, <2>5 DEF Room!Leave, Room!Present
  <2> QED BY <2>6 DEF Room!Next
<1> QED BY <1>1, <1>2 DEF RemoveClient, First

LEMMA RoomStep ==
  IInv /\ SessionFacts /\ SessionFacts' /\ [Next]_vars => [Room!Next]_rooms
<1> SUFFICES ASSUME IInv, SessionFacts, SessionFacts', [Next]_vars
             PROVE  [Room!Next]_rooms
  OBVIOUS
<1>1. ASSUME NEW c \in Conn, Accept(c) PROVE UNCHANGED rooms
  <2>1. \A d \in Conn, s \in Slot : Owns(d, s)' = Owns(d, s)
    BY <1>1, NoneIsNothing DEF Accept, Owns, Occupied, IInv, EntriesAreLive, Live,
       TypeOK, HandlesOK
  <2> QED BY <1>1, <2>1, SameSessions DEF Accept
<1>2. ASSUME NEW c \in Conn, Close(c) PROVE UNCHANGED rooms
  <2>1. sock[c] \in Fd /\ kernel[sock[c]] = c /\ pc[c] = "close"
    BY <1>2 DEF Close, IInv, Descriptors
  <2>2. \A s \in Slot : Occupied(s) => clients[s].socket # sock[c]
    BY <2>1 DEF IInv, EntriesAreLive, Live, Owns
  <2>3. \A d \in Conn, s \in Slot : Owns(d, s)' = Owns(d, s)
    BY <1>2, <2>2 DEF Close, Owns, Occupied, IInv, TypeOK, HandlesOK
  <2> QED BY <1>2, <2>3, SameSessions DEF Close
<1>3. ASSUME NEW c \in Conn, SigPipe(c) PROVE Room!Shutdown
  <2>1. \A d \in Conn : ~Registered(d)'
    BY <1>3 DEF SigPipe, EmptyTable, Registered, Owns, Occupied
  <2> QED BY <2>1 DEF SessionFacts, Room!Shutdown
<1>4. CASE UNCHANGED <<clients, kernel>>
  BY <1>4, SameSessions DEF Owns, Occupied
<1> QED
  BY <1>1, <1>2, <1>3, <1>4, RegisterEnters, EstadoChanges, RemoveLeaves
     DEF Next, Thread, Environment, Receive, EndOfStream, Acquire, HandleMostrar,
         SendDirectMessage, ListConnectedUsers, BroadcastSend, BroadcastEnd,
         SendUnlock, SendReply, PeerSend, PeerRead, PeerClose, Restart, vars,
         Room!Next, netVars, threadVars

\* The Linux server implements the chat room, for any number of connections,
\* descriptors and slots.
THEOREM ServerImplementsRoom == Spec => ImplementsRoom
<1>1. Spec => []SessionFacts
  BY SessionsAreSlots, Invariance, PTL
<1>2. IInv /\ SessionFacts /\ SessionFacts' /\ [Next]_vars
        => [Room!Next]_([c \in Conn |-> SessionOf(c)])
  BY RoomStep DEF rooms
<1> QED BY <1>1, <1>2, RoomInit, Invariance, PTL
        DEF Spec, ImplementsRoom, Room!Spec
=============================================================================
