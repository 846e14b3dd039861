---------------------------- MODULE WebBridgeProofs ----------------------------
(***************************************************************************)
(* Proofs about WebBridge, for all pages, names and connections.           *)
(***************************************************************************)
EXTENDS WebBridge, SequenceTheorems, FiniteSetTheorems, WellFoundedInduction, TLAPS

(***************************************************************************)
(* The inductive invariant, in parts.                                      *)
(***************************************************************************)

Status == {None, "pending", "registered", "failed", "disconnected"}
Events == [event : {"register"}, arg : Name] \cup [event : {"clientMessage"}, arg : Typed]
          \cup [event : {"disconnect"}, arg : {None}]

PageTypes ==
  /\ page \in [Browser -> {"out", "connecting", "in", "gone"}]
  /\ inputs \in Nat /\ fails \in Nat /\ said \in Nat /\ inputs <= MaxEvents
  /\ toBridge \in [Browser -> Seq(Events)]
  /\ toPage \in [Browser -> Seq({"OK", "ERROR"})]

MapTypes ==
  /\ clientRegistrationStatus \in [Browser -> Status]
  /\ pendingMessages \in [Browser -> Seq(Request)]
  /\ clientConnections \in [Browser -> Tcp \cup {None}]
  /\ usernameToSocketId \in [Name -> Browser \cup {None}]
  /\ tcpClient \in [Browser -> Tcp \cup {None}]
  /\ username \in [Browser -> Name \cup {None}]
  /\ retries \in [Browser -> Nat] /\ farewells \subseteq Browser

SocketTypes ==
  /\ owner \in [Tcp -> Browser \cup {None}] /\ userData \in [Tcp -> Name \cup {None}]
  /\ tcp \in [Tcp -> {"free", "connecting", "open", "closed"}]
  /\ listening \in [Tcp -> BOOLEAN]
  /\ busy \in Tcp \cup {None}
  /\ server \in {"linux", "windows"} /\ members \subseteq Tcp /\ greeted \subseteq Tcp
  /\ owes \in [Tcp -> {None, "OK", "EXIT"}]

\* What the buffers hold is never the end of a connection.
Fragment == {x \in Token : x.kind # "FIN"}
StreamTypes ==
  /\ deferred \in [Tcp -> Seq(Request)] /\ up \in [Tcp -> Seq(Request)]
  /\ down \in [Tcp -> Seq(Token)] /\ buffer \in [Tcp -> Seq(Fragment)]

FateTypes ==
  /\ asked \in [Browser -> Nat] /\ written \in [Browser -> Seq(Nat)]
  /\ refused \in [Browser -> SUBSET Nat]

Connections ==
  /\ \A t \in Tcp : tcp[t] # "free" => owner[t] # None /\ userData[t] # None
  /\ busy # None => tcp[busy] = "open"
  /\ \A t \in Tcp : owner[t] # None => tcpClient[owner[t]] # None
  /\ \A t \in Tcp : owner[t] = None <=> tcp[t] = "free"
  /\ \A b \in Browser :
       /\ tcpClient[b] # None => owner[tcpClient[b]] = b
       /\ clientConnections[b] \in {None, tcpClient[b]}
       /\ (clientRegistrationStatus[b] # None \/ retries[b] > 0 \/ b \in farewells) =>
            tcpClient[b] # None
       /\ clientConnections[b] = None =>
            clientRegistrationStatus[b] = None /\ pendingMessages[b] = <<>>

Leaving ==
  \A b \in Browser :
    /\ \A i \in DOMAIN toBridge[b] :
         toBridge[b][i].event = "disconnect" => page[b] = "gone" /\ i = Len(toBridge[b])
    /\ (page[b] = "gone" /\ toBridge[b] # <<>>) =>
         toBridge[b][Len(toBridge[b])].event = "disconnect"
    /\ b \in farewells => page[b] = "gone" /\ toBridge[b] = <<>>
    /\ Forgotten(b) => clientConnections[b] = None

\* What was written, waits in the queue q and was refused of n messages of a page,
\* in the order of the page.
Fate(w, q, r, n, gone) ==
  /\ \A i, j \in DOMAIN w : i < j => w[i] < w[j]
  /\ \A i, j \in DOMAIN q : i < j => q[i].id < q[j].id
  /\ \A i \in DOMAIN w, j \in DOMAIN q : w[i] < q[j].id
  /\ {w[i] : i \in DOMAIN w} \subseteq 1 .. n /\ Ids(q) \subseteq 1 .. n /\ r \subseteq 1 .. n
  /\ {w[i] : i \in DOMAIN w} \cap r = {} /\ Ids(q) \cap r = {}
  /\ gone \/ {w[i] : i \in DOMAIN w} \cup Ids(q) \cup r = 1 .. n
Fates ==
  \A b \in Browser :
    /\ Fate(written[b], pendingMessages[b], refused[b], asked[b], page[b] = "gone")
    /\ clientRegistrationStatus[b] = "registered" => pendingMessages[b] = <<>>

Endings == \A b \in Browser : Ended(b) => page[b] = "gone"

\* The connections that RegistroFirst sets aside.
Excused(t) == page[owner[t]] = "gone" \/ t \in misled
Openings ==
  /\ first = [t \in Tcp |-> first[t]]
  /\ \A t \in Tcp :
       /\ listening[t] => first[t] = None /\ tcp[t] # "open"
       /\ tcp[t] = "free" => first[t] = None /\ deferred[t] = <<>>
       /\ up[t] # <<>> => first[t] # None
       /\ (tcp[t] # "free" /\ ~listening[t] /\ tcpClient[owner[t]] = t) =>
            first[t] # None \/ page[owner[t]] = "gone"
       /\ deferred[t] # <<>> =>
            Head(deferred[t]).type = "REGISTRO" \/ first[t] # None \/ Excused(t)
  /\ \A b \in Browser, t \in Tcp :
       (clientRegistrationStatus[b] = "registered" /\ t = tcpClient[b]) =>
         first[t] # None \/ Excused(t)

Stream(t) == buffer[t] \o down[t]
Opener(x) == x.kind \in {"{", "FIN"}
Paired(s) ==
  /\ s # <<>> => Opener(s[1])
  /\ \A i \in 1 .. Len(s) - 1 : /\ s[i].kind = "{" => ~Opener(s[i + 1])
                                /\ s[i].kind # "{" => Opener(s[i + 1])
Whole(s) == s # <<>> => s[Len(s)].kind # "{"
Streams ==
  \A t \in Tcp :
    /\ (tcp[t] = "free" \/ listening[t]) => down[t] = <<>> /\ buffer[t] = <<>>
    /\ tcp[t] # "open" => down[t] = <<>>
    /\ t \notin odd \cup reopened =>
         Paired(Stream(t)) /\ (tcp[t] = "open" => Whole(Stream(t)))

BridgeInv ==
  /\ PageTypes /\ MapTypes /\ SocketTypes /\ StreamTypes /\ FateTypes
  /\ Connections /\ Leaving /\ Endings /\ Fates
  /\ Openings /\ RegistroFirst /\ Streams /\ NothingWithheld

\* What comes from the chat server.
FromServer(t) ==
  ServerReads(t) \/ ServerAnswers(t) \/ ServerRemoves(t) \/ OtherSays(t) \/ ServerEnds(t)

-----------------------------------------------------------------------------
(***************************************************************************)
(* Sequences and constants.                                                *)
(***************************************************************************)

LEMMA BridgeConstants ==
  /\ None \notin Browser /\ None \notin Name /\ None \notin Tcp /\ Tcp \subseteq Nat
  /\ MaxEvents \in Nat /\ MaxFail \in Nat /\ MaxSay \in Nat
  /\ Said \subseteq Bracket
  /\ None \notin {"pending", "registered", "failed", "disconnected"} /\ None # "REGISTRO"
BY BridgeAssumption DEF Bracket

LEMMA TailInSeq ==
  ASSUME NEW S, NEW s \in Seq(S), s # <<>>
  PROVE  /\ Tail(s) \in Seq(S) /\ Head(s) \in S /\ Head(s) = s[1]
         /\ Len(Tail(s)) = Len(s) - 1 /\ Len(s) \in Nat \ {0}
         /\ \A i \in 1 .. Len(s) - 1 : Tail(s)[i] = s[i + 1]
BY HeadTailProperties

LEMMA ConcatInSeq ==
  ASSUME NEW S, NEW s \in Seq(S), NEW u \in Seq(S)
  PROVE  s \o u \in Seq(S)
BY ConcatProperties

LEMMA SuffixInSeq ==
  ASSUME NEW S, NEW s \in Seq(S), NEW k \in 0 .. Len(s)
  PROVE  /\ SubSeq(s, k + 1, Len(s)) \in Seq(S) /\ SubSeq(s, 1, k) \in Seq(S)
         /\ SubSeq(s, 1, k) \o SubSeq(s, k + 1, Len(s)) = s
<1>1. \A i \in 1 .. Len(s) : s[i] \in S
  OBVIOUS
<1>2. SubSeq(s, k + 1, Len(s)) \in Seq(S)
  BY <1>1, SubSeqProperties
<1>3. SubSeq(s, 1, k) \in Seq(S)
  BY <1>1, SubSeqProperties
<1>4. SubSeq(s, 1, k) \o SubSeq(s, k + 1, Len(s)) = s
  <2>1. /\ 1 \in 1 .. Len(s) + 1 /\ k \in 1 - 1 .. Len(s) /\ Len(s) \in k .. Len(s)
        /\ Len(s) \in Nat
    OBVIOUS
  <2>2. SubSeq(s, 1, k) \o SubSeq(s, k + 1, Len(s)) = SubSeq(s, 1, Len(s))
    BY <2>1, ConcatAdjacentSubSeq
  <2> QED BY <2>2, SubSeqFull
<1> QED BY <1>2, <1>3, <1>4

-----------------------------------------------------------------------------
(***************************************************************************)
(* The variables of the pages.                                             *)
(***************************************************************************)

LEMMA EmitTypes ==
  ASSUME PageTypes, NEW b \in Browser, NEW e \in Events, Emit(b, e)
  PROVE  toBridge' \in [Browser -> Seq(Events)]
BY DEF Emit, PageTypes

LEMMA EventTypes ==
  ASSUME PageTypes, NEW b \in Browser, NEW event, Event(b, event)
  PROVE  /\ toBridge' \in [Browser -> Seq(Events)] /\ Head(toBridge[b]) \in Events
         /\ Head(toBridge[b]).event = event
<1>1. toBridge[b] \in Seq(Events) /\ toBridge[b] # <<>>
  BY DEF PageTypes, Event
<1>2. Tail(toBridge[b]) \in Seq(Events) /\ Head(toBridge[b]) \in Events
  BY <1>1, TailInSeq
<1> QED BY <1>2 DEF PageTypes, Event

LEMMA TellTypes ==
  ASSUME PageTypes, NEW b \in Browser, NEW a \in Seq({"OK", "ERROR"}), Tell(b, a)
  PROVE  toPage' \in [Browser -> Seq({"OK", "ERROR"})]
BY ConcatInSeq DEF Tell, PageTypes

LEMMA ClosedTypes ==
  ASSUME PageTypes, NEW b \in Browser, NEW a \in Seq({"OK", "ERROR"}), Closed(b, a)
  PROVE  toPage' \in [Browser -> Seq({"OK", "ERROR"})]
<1>1. Append(a, "ERROR") \in Seq({"OK", "ERROR"})
  OBVIOUS
<1> QED BY <1>1, TellTypes DEF Closed

LEMMA PageStep == ASSUME BridgeInv, [Next]_bridgeVars PROVE PageTypes'
<1> USE BridgeConstants DEF pageVars, worldVars
<1>0. PageTypes
  BY DEF BridgeInv
<1>1. ASSUME NEW b \in Browser, NEW n \in Name, Click(b, n) PROVE PageTypes'
  <2>1. [event |-> "register", arg |-> n] \in Events
    BY DEF Events
  <2>2. toBridge' \in [Browser -> Seq(Events)]
    BY <1>0, <1>1, <2>1, EmitTypes DEF Click
  <2>3. inputs' \in Nat /\ inputs' <= MaxEvents
    BY <1>0, <1>1 DEF PageTypes, Click, Input, More
  <2> QED BY <1>0, <1>1, <2>2, <2>3 DEF PageTypes, Click
<1>2. ASSUME NEW b \in Browser, NEW type \in Typed, SendMessage(b, type) PROVE PageTypes'
  <2>1. [event |-> "clientMessage", arg |-> type] \in Events
    BY DEF Events
  <2>2. toBridge' \in [Browser -> Seq(Events)]
    BY <1>0, <1>2, <2>1, EmitTypes DEF SendMessage
  <2>3. inputs' \in Nat /\ inputs' <= MaxEvents
    BY <1>0, <1>2 DEF PageTypes, SendMessage, Input, More
  <2>4. page' \in [Browser -> {"out", "connecting", "in", "gone"}]
    BY <1>0, <1>2 DEF PageTypes, SendMessage
  <2> QED BY <1>0, <1>2, <2>2, <2>3, <2>4 DEF PageTypes, SendMessage
<1>3. ASSUME NEW b \in Browser, Leave(b) PROVE PageTypes'
  <2>1. [event |-> "disconnect", arg |-> None] \in Events
    BY DEF Events
  <2>2. toBridge' \in [Browser -> Seq(Events)]
    BY <1>0, <1>3, <2>1, EmitTypes DEF Leave
  <2>3. <<>> \in Seq({"OK", "ERROR"})
    OBVIOUS
  <2>4. toPage' \in [Browser -> Seq({"OK", "ERROR"})]
    BY <1>0, <1>3, <2>3 DEF PageTypes, Leave
  <2>5. page' \in [Browser -> {"out", "connecting", "in", "gone"}]
    BY <1>0, <1>3 DEF PageTypes, Leave
  <2> QED BY <1>0, <1>3, <2>2, <2>4, <2>5 DEF PageTypes, Leave
<1>4. ASSUME NEW b \in Browser, ServerMessage(b) PROVE PageTypes'
  <2>1. Tail(toPage[b]) \in Seq({"OK", "ERROR"})
    BY <1>0, <1>4, TailInSeq DEF PageTypes, ServerMessage
  <2> QED BY <1>0, <1>4, <2>1 DEF PageTypes, ServerMessage
<1>5. ASSUME NEW b \in Browser, Register(b) PROVE PageTypes'
  BY <1>0, <1>5, EventTypes DEF PageTypes, Register
<1>6. ASSUME NEW b \in Browser, ClientMessage(b) PROVE PageTypes'
  <2>1. <<"ERROR">> \in Seq({"OK", "ERROR"})
    OBVIOUS
  <2>2. toPage' \in [Browser -> Seq({"OK", "ERROR"})]
    BY <1>0, <1>6, <2>1, TellTypes DEF ClientMessage, PageTypes
  <2> QED BY <1>0, <1>6, <2>2, EventTypes DEF PageTypes, ClientMessage
<1>7. ASSUME NEW b \in Browser, Disconnect(b) PROVE PageTypes'
  BY <1>0, <1>7, EventTypes DEF PageTypes, Disconnect
<1>8. ASSUME NEW b \in Browser, Farewell(b) PROVE PageTypes'
  BY <1>0, <1>8 DEF PageTypes, Farewell
<1>9. ASSUME NEW t \in Tcp, owner[t] \in Browser, Broken(t), fails' \in Nat PROVE PageTypes'
  <2>1. <<"ERROR">> \in Seq({"OK", "ERROR"})
    OBVIOUS
  <2>2. toPage' \in [Browser -> Seq({"OK", "ERROR"})]
    BY <1>0, <1>9, <2>1, ClosedTypes DEF Broken
  <2> QED BY <1>0, <1>9, <2>2 DEF PageTypes, Broken
<1>10. \A t \in Tcp : tcp[t] # "free" => owner[t] \in Browser
  BY DEF BridgeInv, Connections, SocketTypes
<1>11. ASSUME NEW b \in Browser, Retry(b) PROVE PageTypes'
  <2>1. tcpClient[b] \in Tcp /\ owner[tcpClient[b]] = b
    BY <1>11 DEF BridgeInv, Connections, MapTypes, Retry
  <2> QED BY <1>0, <1>9, <1>11, <2>1 DEF PageTypes, Retry
<1>12. ASSUME NEW t \in Tcp, Connect(t) PROVE PageTypes'
  BY <1>0, <1>12 DEF PageTypes, Connect, Opened
<1>13. ASSUME NEW t \in Tcp, ConnectEnded(t) PROVE PageTypes'
  <2>1. <<"ERROR">> \in Seq({"OK", "ERROR"})
    OBVIOUS
  <2>2. owner[t] \in Browser /\ Closed(owner[t], <<"ERROR">>)
    BY <1>10, <1>13 DEF ConnectEnded
  <2>3. toPage' \in [Browser -> Seq({"OK", "ERROR"})]
    BY <1>0, <2>1, <2>2, ClosedTypes
  <2> QED BY <1>0, <1>13, <2>3 DEF PageTypes, ConnectEnded, Opened
<1>14. ASSUME NEW t \in Tcp, Close(t) PROVE PageTypes'
  <2>1. <<>> \in Seq({"OK", "ERROR"})
    OBVIOUS
  <2>2. toPage' \in [Browser -> Seq({"OK", "ERROR"})]
    BY <1>0, <1>10, <1>14, <2>1, ClosedTypes DEF Close
  <2> QED BY <1>0, <1>14, <2>2 DEF PageTypes, Close
<1>15. ASSUME NEW t \in Tcp, Data(t) PROVE PageTypes'
  BY <1>0, <1>15 DEF PageTypes, Data
<1>16. ASSUME Object PROVE PageTypes'
  <2>1. owner[busy] \in Browser
    BY <1>16 DEF BridgeInv, Connections, SocketTypes, Object
  <2>2. ASSUME NEW m, Process(owner[busy], m) PROVE toPage' \in [Browser -> Seq({"OK", "ERROR"})]
    <3>1. /\ <<"OK">> \in Seq({"OK", "ERROR"}) /\ <<"ERROR">> \in Seq({"OK", "ERROR"})
          /\ Passed(m) \in Seq({"OK", "ERROR"})
      <4>1. /\ <<"OK">> \in Seq({"OK", "ERROR"}) /\ <<"ERROR">> \in Seq({"OK", "ERROR"})
            /\ <<>> \in Seq({"OK", "ERROR"})
        OBVIOUS
      <4>2. Passed(m) \in {<<>>, <<"OK">>, <<"ERROR">>}
        <5>1. CASE m.kind \in {"OK", "ERROR"}
          <6>1. Passed(m) = <<m.kind>>
            BY <5>1 DEF Passed
          <6> QED BY <5>1, <6>1, Zenon
        <5>2. CASE m.kind \notin {"OK", "ERROR"}
          BY <5>2 DEF Passed
        <5> QED BY <5>1, <5>2
      <4> QED BY <4>1, <4>2
    <3>3. /\ <<"OK">> \o Passed(m) \in Seq({"OK", "ERROR"})
          /\ <<"ERROR">> \o Passed(m) \in Seq({"OK", "ERROR"})
      BY <3>1, ConcatInSeq
    <3>2. \E a \in Seq({"OK", "ERROR"}) : Tell(owner[busy], a)
      BY <2>2, <3>1, <3>3 DEF Process
    <3> QED BY <1>0, <2>1, <3>2, TellTypes
  <2>3. toPage' \in [Browser -> Seq({"OK", "ERROR"})]
    BY <1>0, <1>16, <2>2 DEF Object, PageTypes
  <2> QED BY <1>0, <1>16, <2>3 DEF PageTypes, Object
<1>17. ASSUME EndData PROVE PageTypes'
  BY <1>0, <1>17 DEF PageTypes, EndData
<1>18. ASSUME NEW t \in Tcp, Error(t) PROVE PageTypes'
  <2>1. fails' \in Nat
    BY <1>0, <1>18 DEF PageTypes, Error
  <2> QED BY <1>9, <1>10, <1>18, <2>1 DEF Error
<1>19. ASSUME NEW t \in Tcp, FromServer(t) PROVE PageTypes'
  BY <1>0, <1>19 DEF PageTypes, FromServer, ServerReads, ServerAnswers, ServerRemoves, OtherSays,
                     ServerEnds
<1>20. CASE UNCHANGED bridgeVars
  BY <1>0, <1>20 DEF PageTypes, bridgeVars
<1> QED BY <1>1, <1>2, <1>3, <1>4, <1>5, <1>6, <1>7, <1>8, <1>11, <1>12, <1>14, <1>15, <1>16,
           <1>17, <1>18, <1>13, <1>19, <1>20 DEF Next, EventLoop, FromServer

-----------------------------------------------------------------------------
(***************************************************************************)
(* What the bridge knows of each page.                                     *)
(***************************************************************************)

LEMMA RegisterArg ==
  ASSUME PageTypes, NEW b \in Browser, Register(b)
  PROVE  Head(toBridge[b]).arg \in Name
<1>1. Head(toBridge[b]) \in Events /\ Head(toBridge[b]).event = "register"
  BY EventTypes DEF Register
<1> QED BY <1>1 DEF Events

LEMMA MessageArg ==
  ASSUME PageTypes, NEW b \in Browser, ClientMessage(b)
  PROVE  Head(toBridge[b]).arg \in Typed
<1>1. Head(toBridge[b]) \in Events /\ Head(toBridge[b]).event = "clientMessage"
  BY EventTypes DEF ClientMessage
<1> QED BY <1>1 DEF Events

\* Only these steps change what the bridge knows of its pages.
LEMMA MapFrame ==
  ASSUME [Next]_bridgeVars
  PROVE  \/ UNCHANGED <<mapVars, socketVars, timerVars>>
         \/ \E b \in Browser : Register(b) \/ ClientMessage(b) \/ Disconnect(b) \/ Farewell(b) \/ Retry(b)
         \/ \E t \in Tcp : Connect(t) \/ ConnectEnded(t) \/ Close(t) \/ Error(t)
         \/ Object
<1> USE DEF mapVars, socketVars, timerVars, tcpVars
<1>1. ASSUME NEW b \in Browser, NEW n \in Name, Click(b, n)
      PROVE  UNCHANGED <<mapVars, socketVars, timerVars>>
  BY <1>1 DEF Click
<1>2. ASSUME NEW b \in Browser, NEW type \in Typed, SendMessage(b, type)
      PROVE  UNCHANGED <<mapVars, socketVars, timerVars>>
  BY <1>2 DEF SendMessage
<1>3. ASSUME NEW b \in Browser, Leave(b) \/ ServerMessage(b)
      PROVE  UNCHANGED <<mapVars, socketVars, timerVars>>
  BY <1>3 DEF Leave, ServerMessage
<1>4. ASSUME NEW t \in Tcp, Data(t) \/ FromServer(t)
      PROVE  UNCHANGED <<mapVars, socketVars, timerVars>>
  BY <1>4 DEF Data, FromServer, ServerReads, ServerAnswers, ServerRemoves, OtherSays, ServerEnds
<1>5. CASE EndData \/ UNCHANGED bridgeVars
  BY <1>5 DEF EndData, bridgeVars
<1> QED BY <1>1, <1>2, <1>3, <1>4, <1>5 DEF Next, EventLoop, FromServer

\* The browser of a connection that is in use.
LEMMA OwnerTypes ==
  ASSUME SocketTypes, Connections, NEW t \in Tcp, tcp[t] # "free"
  PROVE  owner[t] \in Browser /\ userData[t] \in Name
BY DEF SocketTypes, Connections

LEMMA ClosedStatus ==
  ASSUME MapTypes, NEW b \in Browser, NEW a, Closed(b, a)
  PROVE  /\ clientRegistrationStatus' \in [Browser -> Status]
         /\ \A c \in Browser :
              \/ clientRegistrationStatus'[c] = clientRegistrationStatus[c]
              \/ c = b /\ clientRegistrationStatus[c] = "registered"
                 /\ clientRegistrationStatus'[c] = "disconnected"
BY DEF Closed, MapTypes, Status

LEMMA ProcessStatus ==
  ASSUME MapTypes, NEW b \in Browser, NEW m, Process(b, m)
  PROVE  /\ clientRegistrationStatus' \in [Browser -> Status]
         /\ pendingMessages' \in [Browser -> Seq(Request)]
         /\ \A c \in Browser :
              \/ /\ clientRegistrationStatus'[c] = clientRegistrationStatus[c]
                 /\ pendingMessages'[c] = pendingMessages[c]
              \/ /\ c = b /\ clientRegistrationStatus[c] = "pending"
                 /\ clientRegistrationStatus'[c] = "registered" /\ pendingMessages'[c] = <<>>
              \/ /\ c = b /\ clientRegistrationStatus[c] = "pending"
                 /\ clientRegistrationStatus'[c] = "failed" /\ pendingMessages'[c] = pendingMessages[c]
<1> DEFINE s == clientRegistrationStatus
<1>1. <<>> \in Seq(Request)
  OBVIOUS
<1>2. CASE s[b] = "pending" /\ m.kind \in {"OK", "EXITOSO"}
  <2>1. /\ s' = [s EXCEPT ![b] = "registered"]
        /\ pendingMessages' = [pendingMessages EXCEPT ![b] = <<>>]
    BY <1>2 DEF Process, Flush
  <2> QED BY <1>1, <1>2, <2>1 DEF MapTypes, Status
<1>3. CASE s[b] = "pending" /\ m.kind = "ERROR"
  <2>1. /\ s' = [s EXCEPT ![b] = "failed"] /\ UNCHANGED pendingMessages
    BY <1>3 DEF Process
  <2> QED BY <1>3, <2>1 DEF MapTypes, Status
<1>4. CASE ~(s[b] = "pending" /\ m.kind \in {"OK", "EXITOSO", "ERROR"})
  <2>1. UNCHANGED <<s, pendingMessages>>
    BY <1>4 DEF Process
  <2> QED BY <2>1 DEF MapTypes
<1> QED BY <1>2, <1>3, <1>4

LEMMA MapStep == ASSUME BridgeInv, [Next]_bridgeVars PROVE MapTypes'
<1> USE BridgeConstants
<1>0. PageTypes /\ MapTypes /\ SocketTypes /\ FateTypes /\ Connections
  BY DEF BridgeInv
<1>1. CASE UNCHANGED <<mapVars, socketVars, timerVars>>
  BY <1>0, <1>1 DEF MapTypes, mapVars, socketVars, timerVars
<1>2. ASSUME NEW b \in Browser, Register(b) PROVE MapTypes'
  <2> DEFINE arg == Head(toBridge[b]).arg
  <2>1. arg \in Name
    BY <1>0, <1>2, RegisterArg
  <2>2. PICK t \in Tcp : tcpClient' = [tcpClient EXCEPT ![b] = t] /\ Save(b, t)
    BY <1>2 DEF Register
  <2>3. clientRegistrationStatus' = [clientRegistrationStatus EXCEPT ![b] = "pending"]
    BY <1>2 DEF Register
  <2>4. /\ UNCHANGED <<pendingMessages, usernameToSocketId, timerVars>>
        /\ username' = [username EXCEPT ![b] = arg]
    BY <1>2 DEF Register
  <2> HIDE DEF arg
  <2> QED BY <1>0, <2>1, <2>2, <2>3, <2>4 DEF MapTypes, Save, Status, timerVars
<1>3. ASSUME NEW b \in Browser, ClientMessage(b) PROVE MapTypes'
  <2> DEFINE m == [type |-> Head(toBridge[b]).arg, id |-> asked[b] + 1, name |-> username[b]]
  <2>1. m \in Request
    BY <1>0, <1>3, MessageArg DEF Request, FateTypes, MapTypes
  <2>2. pendingMessages' \in [Browser -> Seq(Request)]
    <3>1. UNCHANGED pendingMessages \/ pendingMessages' = [pendingMessages EXCEPT ![b] = Append(@, m)]
      BY <1>3 DEF ClientMessage
    <3> HIDE DEF m
    <3>2. Append(pendingMessages[b], m) \in Seq(Request)
      BY <1>0, <2>1 DEF MapTypes
    <3> QED BY <1>0, <3>1, <3>2 DEF MapTypes
  <2> QED BY <1>0, <1>3, <2>2 DEF MapTypes, ClientMessage, socketVars, timerVars
<1>4. ASSUME NEW b \in Browser, Disconnect(b) PROVE MapTypes'
  <2>1. usernameToSocketId' \in [Name -> Browser \cup {None}]
    BY <1>0, <1>4 DEF MapTypes, Disconnect
  <2>2. farewells' \subseteq Browser
    BY <1>0, <1>4 DEF MapTypes, Disconnect
  <2> QED BY <1>0, <1>4, <2>1, <2>2 DEF MapTypes, Disconnect, socketVars
<1>5. ASSUME NEW b \in Browser, Farewell(b) PROVE MapTypes'
  <2>1. <<>> \in Seq(Request)
    OBVIOUS
  <2> QED BY <1>0, <1>5, <2>1 DEF MapTypes, Farewell, socketVars, Status
<1>6. ASSUME NEW t \in Tcp, tcp[t] # "free", Broken(t), retries' \in [Browser -> Nat] PROVE MapTypes'
  BY <1>0, <1>6, OwnerTypes, ClosedStatus DEF MapTypes, Broken, socketVars
<1>7. ASSUME NEW b \in Browser, Retry(b) PROVE MapTypes'
  <2>1. tcpClient[b] \in Tcp /\ tcp[tcpClient[b]] # "free"
    <3>1. retries[b] > 0
      BY <1>7 DEF Retry
    <3>2. tcpClient[b] # None /\ owner[tcpClient[b]] = b
      BY <1>0, <3>1 DEF Connections
    <3>3. tcpClient[b] \in Tcp /\ owner[tcpClient[b]] # None
      BY <1>0, <3>2 DEF MapTypes
    <3> QED BY <1>0, <3>3 DEF Connections
  <2>2. \/ Broken(tcpClient[b]) /\ UNCHANGED retries
        \/ retries' = [retries EXCEPT ![b] = @ - 1] /\ UNCHANGED <<mapVars, socketVars, farewells>>
    BY <1>7 DEF Retry
  <2>3. CASE Broken(tcpClient[b]) /\ UNCHANGED retries
    BY <1>0, <1>6, <2>1, <2>3 DEF MapTypes
  <2>4. CASE retries' = [retries EXCEPT ![b] = @ - 1] /\ UNCHANGED <<mapVars, socketVars, farewells>>
    <3>1. retries' \in [Browser -> Nat]
      BY <1>0, <1>7, <2>4 DEF MapTypes, Retry
    <3> QED BY <1>0, <2>4, <3>1 DEF MapTypes, mapVars, socketVars
  <2> QED BY <2>2, <2>3, <2>4
<1>8. ASSUME NEW t \in Tcp, Connect(t) \/ ConnectEnded(t) PROVE MapTypes'
  <2>1. owner[t] \in Browser /\ userData[t] \in Name
    BY <1>0, <1>8, OwnerTypes DEF Connect, ConnectEnded
  <2>2. Opened(t)
    BY <1>8 DEF Connect, ConnectEnded
  <2>3. usernameToSocketId' \in [Name -> Browser \cup {None}]
    BY <1>0, <2>1, <2>2 DEF MapTypes, Opened
  <2>4. UNCHANGED <<pendingMessages, clientConnections, tcpClient, username, farewells>>
    BY <2>2 DEF Opened, socketVars
  <2>5. /\ clientRegistrationStatus' \in [Browser -> Status]
        /\ retries' \in [Browser -> Nat]
    <3>1. CASE Connect(t)
      BY <1>0, <3>1 DEF MapTypes, Connect
    <3>2. CASE ConnectEnded(t)
      <4>1. Closed(owner[t], <<"ERROR">>) /\ SetTimer(owner[t])
        BY <3>2 DEF ConnectEnded
      <4>2. clientRegistrationStatus' \in [Browser -> Status]
        BY <1>0, <2>1, <4>1, ClosedStatus
      <4>3. retries' \in [Browser -> Nat]
        BY <1>0, <2>1, <4>1 DEF MapTypes, SetTimer
      <4> QED BY <4>2, <4>3
    <3> QED BY <1>8, <3>1, <3>2
  <2> QED BY <1>0, <2>3, <2>4, <2>5 DEF MapTypes
<1>9. ASSUME NEW t \in Tcp, Close(t) PROVE MapTypes'
  BY <1>0, <1>9, OwnerTypes, ClosedStatus DEF MapTypes, Close, socketVars, timerVars
<1>10. ASSUME NEW t \in Tcp, Error(t) PROVE MapTypes'
  <2>1. owner[t] \in Browser /\ tcp[t] # "free" /\ Broken(t)
    BY <1>0, <1>10, OwnerTypes DEF Error
  <2>2. retries' \in [Browser -> Nat]
    BY <1>0, <1>10, <2>1 DEF MapTypes, Error, SetTimer
  <2> QED BY <1>6, <2>1, <2>2
<1>11. ASSUME Object PROVE MapTypes'
  <2>1. owner[busy] \in Browser
    BY <1>0, <1>11, OwnerTypes DEF Object, Connections, SocketTypes
  <2>2. \/ \E m : Process(owner[busy], m)
        \/ UNCHANGED <<clientRegistrationStatus, pendingMessages>>
    BY <1>11 DEF Object
  <2>3. /\ clientRegistrationStatus' \in [Browser -> Status]
        /\ pendingMessages' \in [Browser -> Seq(Request)]
    BY <1>0, <2>1, <2>2, ProcessStatus DEF MapTypes
  <2> QED BY <1>0, <1>11, <2>3 DEF MapTypes, Object, socketVars, timerVars
<1> QED BY <1>1, <1>2, <1>3, <1>4, <1>5, <1>7, <1>8, <1>9, <1>10, <1>11, MapFrame

-----------------------------------------------------------------------------
(***************************************************************************)
(* The TCP connections.                                                    *)
(***************************************************************************)

LEMMA DestroyTypes ==
  ASSUME SocketTypes, NEW t \in Tcp, Destroy(t)
  PROVE  /\ tcp' \in [Tcp -> {"free", "connecting", "open", "closed"}] /\ tcp'[t] = "closed"
         /\ \A s \in Tcp \ {t} : tcp'[s] = tcp[s]
         /\ members' \subseteq Tcp /\ greeted' \subseteq Tcp /\ owes' \in [Tcp -> {None, "OK", "EXIT"}]
BY DEF Destroy, SocketTypes

\* What a retry does: the latest connection connects again, breaks, or nothing.
LEMMA RetryCases ==
  ASSUME MapTypes, SocketTypes, Connections, NEW b \in Browser, Retry(b)
  PROVE  /\ tcpClient[b] \in Tcp /\ tcp[tcpClient[b]] # "free" /\ owner[tcpClient[b]] = b
         /\ busy = None
         /\ \/ /\ clientRegistrationStatus[b] = "pending" /\ tcp[tcpClient[b]] = "closed"
               /\ tcp' = [tcp EXCEPT ![tcpClient[b]] = "connecting"]
               /\ UNCHANGED <<pageVars, toBridge, mapVars, socketVars, owner, userData, listening, deferred,
                              up, down, buffer, first, reopened, misled, odd, busy, farewells, worldVars,
                              fateVars>>
            \/ Broken(tcpClient[b])
            \/ UNCHANGED <<pageVars, toBridge, mapVars, socketVars, tcpVars, busy, farewells, worldVars,
                           fateVars>>
<1>1. retries[b] > 0 /\ busy = None
  BY DEF Retry
<1>2. tcpClient[b] # None /\ owner[tcpClient[b]] = b
  BY <1>1 DEF Connections
<1>3. tcpClient[b] \in Tcp /\ owner[tcpClient[b]] # None
  BY <1>2, BridgeConstants DEF MapTypes
<1>4. tcp[tcpClient[b]] # "free"
  BY <1>3 DEF Connections
<1> QED BY <1>1, <1>2, <1>3, <1>4 DEF Retry

LEMMA ReadsTypes ==
  ASSUME StreamTypes, NEW t \in Tcp, ServerReads(t)
  PROVE  /\ Head(up[t]) \in Request /\ up' \in [Tcp -> Seq(Request)]
         /\ Head(up[t]).type \in {"ESTADO", "LISTA", "EXIT", "REGISTRO", "FIN"}
<1>1. PICK k \in 1 .. Len(up[t]) : up' = [up EXCEPT ![t] = SubSeq(@, k + 1, Len(@))]
  BY DEF ServerReads
<1>2. up[t] \in Seq(Request)
  BY DEF StreamTypes
<1>3. up[t] # <<>> /\ k \in 0 .. Len(up[t])
  BY <1>2
<1>4. SubSeq(up[t], k + 1, Len(up[t])) \in Seq(Request)
  BY <1>2, <1>3, SuffixInSeq
<1>5. Head(up[t]) \in Request
  BY <1>2, <1>3, TailInSeq
<1> QED BY <1>1, <1>4, <1>5 DEF StreamTypes, Request, Typed

SocketFacts == <<owner, userData, tcp, listening, busy, server, members, greeted, owes>>

\* Only these steps change the connections.
LEMMA SocketFrame ==
  ASSUME [Next]_bridgeVars
  PROVE  \/ UNCHANGED SocketFacts
         \/ \E b \in Browser : Register(b) \/ Retry(b)
         \/ \E t \in Tcp : Connect(t) \/ ConnectEnded(t) \/ Close(t) \/ Error(t) \/ Data(t)
         \/ EndData
         \/ \E t \in Tcp : ServerReads(t) \/ ServerAnswers(t) \/ ServerRemoves(t) \/ ServerEnds(t)
<1> USE DEF tcpVars, worldVars, SocketFacts
<1>1. ASSUME NEW b \in Browser, NEW n \in Name, Click(b, n)
      PROVE  UNCHANGED SocketFacts
  BY <1>1 DEF Click
<1>2. ASSUME NEW b \in Browser, NEW type \in Typed, SendMessage(b, type)
      PROVE  UNCHANGED SocketFacts
  BY <1>2 DEF SendMessage
<1>3. ASSUME NEW b \in Browser, Leave(b) \/ ServerMessage(b)
      PROVE  UNCHANGED SocketFacts
  BY <1>3 DEF Leave, ServerMessage
<1>4. ASSUME NEW b \in Browser, ClientMessage(b) \/ Disconnect(b) \/ Farewell(b)
      PROVE  UNCHANGED SocketFacts
  BY <1>4 DEF ClientMessage, Disconnect, Farewell
<1>5. ASSUME NEW t \in Tcp, OtherSays(t)
      PROVE  UNCHANGED SocketFacts
  BY <1>5 DEF OtherSays
<1>6. CASE Object \/ UNCHANGED bridgeVars
  BY <1>6 DEF Object, bridgeVars
<1> QED BY <1>1, <1>2, <1>3, <1>4, <1>5, <1>6 DEF Next, EventLoop, FromServer

LEMMA SocketStep == ASSUME BridgeInv, [Next]_bridgeVars PROVE SocketTypes'
<1> USE BridgeConstants
<1>0. PageTypes /\ MapTypes /\ SocketTypes /\ StreamTypes /\ Connections
  BY DEF BridgeInv
<1>1. CASE UNCHANGED SocketFacts
  BY <1>0, <1>1 DEF SocketTypes, SocketFacts
<1>2. ASSUME NEW b \in Browser, Register(b) PROVE SocketTypes'
  <2> DEFINE arg == Head(toBridge[b]).arg
  <2>1. arg \in Name
    BY <1>0, <1>2, RegisterArg
  <2>2. PICK t \in Tcp : /\ owner' = [owner EXCEPT ![t] = b] /\ userData' = [userData EXCEPT ![t] = arg]
                         /\ tcp' = [tcp EXCEPT ![t] = "connecting"]
                         /\ listening' = [listening EXCEPT ![t] = TRUE]
    BY <1>2 DEF Register
  <2>3. UNCHANGED <<busy, server, members, greeted, owes>>
    BY <1>2 DEF Register, worldVars
  <2> HIDE DEF arg
  <2> QED BY <1>0, <2>1, <2>2, <2>3 DEF SocketTypes
<1>3. ASSUME NEW t \in Tcp, Broken(t) PROVE SocketTypes'
  BY <1>0, <1>3, DestroyTypes DEF SocketTypes, Broken
<1>4. ASSUME NEW b \in Browser, Retry(b) PROVE SocketTypes'
  BY <1>0, <1>3, <1>4, RetryCases DEF SocketTypes, tcpVars, worldVars
<1>5. ASSUME NEW t \in Tcp, Connect(t) PROVE SocketTypes'
  <2>1. /\ tcp' = [tcp EXCEPT ![t] = "open"] /\ listening' = [listening EXCEPT ![t] = FALSE]
        /\ UNCHANGED <<owner, userData, busy, server, members, greeted, owes>>
    BY <1>5 DEF Connect, Opened
  <2> QED BY <1>0, <2>1 DEF SocketTypes
<1>6. ASSUME NEW t \in Tcp, ConnectEnded(t) PROVE SocketTypes'
  <2> DEFINE w == tcpClient[owner[t]]
  <2>1. /\ tcp' = [tcp EXCEPT ![t] = "open", ![w] = "closed"]
        /\ listening' = [listening EXCEPT ![t] = FALSE]
        /\ members' = members \ {w} /\ greeted' = greeted \ {w} /\ owes' = [owes EXCEPT ![w] = None]
        /\ UNCHANGED <<owner, userData, busy, server>>
    BY <1>6 DEF ConnectEnded, Opened
  <2> HIDE DEF w
  <2> QED BY <1>0, <2>1 DEF SocketTypes
<1>7. ASSUME NEW t \in Tcp, Close(t) PROVE SocketTypes'
  BY <1>0, <1>7, DestroyTypes DEF SocketTypes, Close
<1>8. ASSUME NEW t \in Tcp, Error(t) PROVE SocketTypes'
  BY <1>3, <1>8 DEF Error
<1>9. ASSUME NEW t \in Tcp, Data(t) PROVE SocketTypes'
  BY <1>0, <1>9 DEF SocketTypes, Data, worldVars
<1>10. CASE EndData
  BY <1>0, <1>10 DEF SocketTypes, EndData, tcpVars, worldVars
<1>11. ASSUME NEW t \in Tcp, ServerReads(t) PROVE SocketTypes'
  <2>1. UNCHANGED <<owner, userData, tcp, listening, busy, server>> /\ greeted' = greeted \cup {t}
    BY <1>11 DEF ServerReads
  <2>2. Refused(t) \/ Handled(t, Head(up[t]))
    BY <1>11 DEF ServerReads
  <2>3. \/ UNCHANGED <<members, owes>>
        \/ members' = members \cup {t} /\ owes' = [owes EXCEPT ![t] = "OK"]
        \/ owes' = [owes EXCEPT ![t] = "EXIT"] /\ UNCHANGED members
        \/ members' = members \ {t} /\ UNCHANGED owes
    <3>1. Head(up[t]).type \in {"ESTADO", "LISTA", "EXIT", "REGISTRO", "FIN"}
      BY <1>0, <1>11, ReadsTypes
    <3> QED BY <2>2, <3>1 DEF Handled, Refused, Registered, Left
  <2> QED BY <1>0, <2>1, <2>3 DEF SocketTypes
<1>12. ASSUME NEW t \in Tcp, ServerAnswers(t) \/ ServerRemoves(t) \/ ServerEnds(t) PROVE SocketTypes'
  <2>1. UNCHANGED <<owner, userData, tcp, listening, busy, server, greeted>>
    BY <1>12 DEF ServerAnswers, ServerRemoves, ServerEnds, tcpVars
  <2>2. members' \subseteq members /\ owes' = [owes EXCEPT ![t] = None]
    BY <1>12 DEF ServerAnswers, ServerRemoves, ServerEnds
  <2> QED BY <1>0, <2>1, <2>2 DEF SocketTypes
<1> QED BY <1>1, <1>2, <1>4, <1>5, <1>7, <1>8, <1>9, <1>10, <1>11, <1>12, <1>6, SocketFrame

-----------------------------------------------------------------------------
(***************************************************************************)
(* What is written and read.                                               *)
(***************************************************************************)

LEMMA TokenTypes ==
  /\ Message \subseteq Fragment /\ Fragment \subseteq Token
  /\ \A mark \in Mark : Reply(mark) \in Token /\ Reply(mark).kind = mark
  /\ \A a \in Kind : Reply(a) \in Message /\ Reply(a).kind = a /\ Reply(a).bracket = None
  /\ \A m \in Message : m.kind \notin Mark
  /\ \A x \in Token : x \in Message \/ \E mark \in Mark : x = Reply(mark)
<1>1. \A m \in Message : m.kind \notin Mark
  BY DEF Message, Mark, Kind
<1>2. \A mark \in Mark : Reply(mark) \in Token /\ Reply(mark).kind = mark
  BY DEF Token, Reply, Mark
<1>3. \A a \in Kind : Reply(a) \in Message /\ Reply(a).kind = a /\ Reply(a).bracket = None
  BY DEF Message, Reply, Bracket
<1>4. Message \subseteq Fragment
  BY <1>1 DEF Fragment, Token, Mark
<1>5. \A x \in Token : x \in Message \/ \E mark \in Mark : x = Reply(mark)
  BY DEF Token
<1> QED BY <1>1, <1>2, <1>3, <1>4, <1>5 DEF Fragment

LEMMA OneInSeq == \A S : \A a \in S : <<a>> \in Seq(S)
OBVIOUS

LEMMA HeadOfConcat ==
  ASSUME NEW S, NEW a \in S, NEW s \in Seq(S)
  PROVE  <<a>> \o s # <<>> /\ Head(<<a>> \o s) = a
<1> DEFINE u == <<a>> \o s
<1>1. <<a>> \in Seq(S) /\ Len(<<a>>) = 1 /\ <<a>>[1] = a /\ Len(s) \in Nat
  OBVIOUS
<1>2. u \in Seq(S) /\ Len(u) = 1 + Len(s)
  BY <1>1, ConcatProperties
<1>3. u[1] = a
  <2>1. 1 \in 1 .. Len(<<a>>) + Len(s) /\ 1 <= Len(<<a>>)
    BY <1>1
  <2>2. u[1] = <<a>>[1]
    BY <1>1, <2>1, ConcatProperties
  <2> QED BY <1>1, <2>2
<1> HIDE DEF u
<1>4. u # <<>>
  BY <1>1, <1>2
<1>5. Head(u) = u[1]
  BY <1>2, <1>4, TailInSeq
<1> QED BY <1>3, <1>4, <1>5 DEF u

LEMMA PairOfTokens ==
  ASSUME NEW S, NEW a \in S, NEW b \in S
  PROVE  <<a>> \o <<b>> = <<a, b>>
<1>1. <<a>> \in Seq(S) /\ <<b>> \in Seq(S) /\ <<a, b>> \in Seq(S)
  OBVIOUS
<1>2. <<a>> \o <<b>> \in Seq(S) /\ Len(<<a>> \o <<b>>) = 2
  BY <1>1, ConcatProperties
<1>3. (<<a>> \o <<b>>)[1] = a /\ (<<a>> \o <<b>>)[2] = b
  BY <1>1, ConcatProperties
<1>4. Len(<<a, b>>) = 2 /\ <<a,b>>[1] = a /\ <<a,b>>[2] = b
  OBVIOUS
<1>5. \A i \in 1 .. 2 : (<<a>> \o <<b>>)[i] = <<a, b>>[i]
  <2>1. \A i \in 1 .. 2 : i = 1 \/ i = 2
    OBVIOUS
  <2> QED BY <1>3, <1>4, <2>1, Zenon
<1> QED BY <1>1, <1>2, <1>4, <1>5, SeqEqual

LEMMA TokensTypes ==
  ASSUME NEW m \in Message
  PROVE  /\ Tokens(m) \in Seq(Fragment) /\ Tokens(m) \in Seq(Token)
         /\ m.bracket = None => Tokens(m) = <<Reply("{"), m>>
<1> DEFINE mid == IF m.bracket = None THEN <<>> ELSE <<Reply(m.bracket)>>
<1>1. m \in Fragment /\ Reply("{") \in Fragment /\ Reply("}") \in Fragment
  BY TokenTypes DEF Mark, Fragment
<1>2. m.bracket \in {None, "{", "}"}
  BY DEF Message, Bracket
<1>3. mid \in Seq(Fragment) /\ (m.bracket = None => mid = <<>>)
  <2>1. <<>> \in Seq(Fragment)
    OBVIOUS
  <2>2. <<Reply("{")>> \in Seq(Fragment) /\ <<Reply("}")>> \in Seq(Fragment)
    BY <1>1, OneInSeq, Zenon
  <2> QED BY <1>2, <2>1, <2>2, Zenon
<1>4. Tokens(m) = <<Reply("{")>> \o mid \o <<m>>
  BY DEF Tokens
<1> HIDE DEF mid
<1>5. <<Reply("{")>> \in Seq(Fragment) /\ <<m>> \in Seq(Fragment)
  BY <1>1, OneInSeq, Zenon
<1>6. Tokens(m) \in Seq(Fragment)
  BY <1>3, <1>4, <1>5, ConcatInSeq
<1>7. m.bracket = None => <<Reply("{")>> \o mid = <<Reply("{")>>
  BY <1>3, <1>5, ConcatEmptySeq
<1>8. <<Reply("{")>> \o <<m>> = <<Reply("{"), m>>
  BY <1>1, PairOfTokens
<1> QED BY <1>4, <1>6, <1>7, <1>8, TokenTypes, SeqMonotonic

LEMMA OwnTypes ==
  ASSUME NEW type \in Typed \cup {"REGISTRO", "FIN"}, NEW n \in Name \cup {None}
  PROVE  Own(type, n) \in Request /\ <<Own(type, n)>> \in Seq(Request)
BY DEF Own, Request

LEMMA WriteTypes ==
  ASSUME StreamTypes, NEW t \in Tcp, NEW r \in Seq(Request), Write(t, r)
  PROVE  deferred' \in [Tcp -> Seq(Request)] /\ up' \in [Tcp -> Seq(Request)]
<1>1. deferred[t] \o r \in Seq(Request) /\ up[t] \o r \in Seq(Request)
  BY ConcatInSeq DEF StreamTypes
<1> QED BY <1>1 DEF StreamTypes, Write

LEMMA DestroyStreams ==
  ASSUME StreamTypes, NEW t \in Tcp, Destroy(t), UNCHANGED buffer
  PROVE  StreamTypes'
<1>1. <<>> \in Seq(Request) /\ <<>> \in Seq(Token)
  OBVIOUS
<1> QED BY <1>1 DEF StreamTypes, Destroy

LEMMA SendTypes ==
  ASSUME StreamTypes, NEW t \in Tcp, NEW x \in Seq(Token), Send(t, x)
  PROVE  down' \in [Tcp -> Seq(Token)]
<1>1. down[t] \o x \in Seq(Token)
  BY ConcatInSeq DEF StreamTypes
<1> QED BY <1>1 DEF StreamTypes, Send

LEMMA HandledSends ==
  ASSUME NEW t \in Tcp, NEW r, Handled(t, r) \/ Refused(t),
         r.type \in {"ESTADO", "LISTA", "EXIT", "REGISTRO", "FIN"}
  PROVE  \/ UNCHANGED down
         \/ \E a \in Kind : Send(t, Tokens(Reply(a)))
         \/ Send(t, Tokens(Reply("ERROR")) \o <<Reply("FIN")>>)
         \/ Send(t, <<Reply("FIN")>>)
<1>1. "OK" \in Kind /\ "ERROR" \in Kind /\ "OTRO" \in Kind
  BY DEF Kind
<1>2. CASE Refused(t)
  BY <1>2 DEF Refused
<1>3. CASE Handled(t, r)
  BY <1>1, <1>3 DEF Handled, Registered, Left
<1> QED BY <1>2, <1>3

\* What is sent unasked, or after the registration.
LEMMA ServerSends ==
  ASSUME NEW t \in Tcp
  PROVE  /\ ServerAnswers(t) => \E x \in Seq(Token) : Send(t, x)
         /\ OtherSays(t) => \E x \in Seq(Token) : Send(t, x)
         /\ ServerEnds(t) => \E x \in Seq(Token) : Send(t, x)
<1>1. ServerAnswers(t) => \E x \in Seq(Token) : Send(t, x)
  <2>1. \A a \in Kind : Tokens(Reply(a)) \in Seq(Token)
    BY TokenTypes, TokensTypes
  <2>2. "EXITOSO" \in Kind /\ "OK" \in Kind
    BY DEF Kind
  <2> QED BY <2>1, <2>2 DEF ServerAnswers
<1>2. OtherSays(t) => \E x \in Seq(Token) : Send(t, x)
  <2>1. \A x \in Said : [kind |-> "CHAT", bracket |-> x] \in Message
    BY BridgeConstants DEF Message, Kind
  <2>2. \A x \in Said : Tokens([kind |-> "CHAT", bracket |-> x]) \in Seq(Token)
    BY <2>1, TokensTypes
  <2> QED BY <2>2 DEF OtherSays
<1>3. ServerEnds(t) => \E x \in Seq(Token) : Send(t, x)
  <2>1. <<Reply("FIN")>> \in Seq(Token)
    BY TokenTypes, OneInSeq, Zenon DEF Mark
  <2> QED BY <2>1 DEF ServerEnds
<1> QED BY <1>1, <1>2, <1>3

\* Data moves the first k fragments into the buffer.
LEMMA DataMoves ==
  ASSUME StreamTypes, NEW t \in Tcp, Data(t)
  PROVE  /\ buffer' \in [Tcp -> Seq(Fragment)] /\ down' \in [Tcp -> Seq(Token)]
         /\ buffer'[t] \o down'[t] = buffer[t] \o down[t]
         /\ \A s \in Tcp \ {t} : buffer'[s] = buffer[s] /\ down'[s] = down[s]
<1>1. PICK k \in 1 .. Len(down[t]) :
        /\ \A i \in 1 .. k : down[t][i].kind # "FIN"
        /\ buffer' = [buffer EXCEPT ![t] = @ \o SubSeq(down[t], 1, k)]
        /\ down' = [down EXCEPT ![t] = SubSeq(@, k + 1, Len(@))]
  BY DEF Data
<1> DEFINE u == SubSeq(down[t], 1, k)
           v == SubSeq(down[t], k + 1, Len(down[t]))
<1>2. /\ buffer[t] \in Seq(Fragment) /\ buffer[t] \in Seq(Token)
      /\ down[t] \in Seq(Token) /\ k \in 0 .. Len(down[t])
  BY TokenTypes, SeqMonotonic DEF StreamTypes
<1>3. u \in Seq(Token) /\ v \in Seq(Token) /\ u \o v = down[t]
  BY <1>2, SuffixInSeq
<1>4. u \in Seq(Fragment)
  <2>1. \A i \in 1 .. k : down[t][i] \in Token
    BY <1>2
  <2>2. \A i \in 1 .. k : down[t][i] \in Fragment
    BY <1>1, <2>1 DEF Fragment
  <2> QED BY <1>2, <2>2, SubSeqProperties
<1>5. buffer' = [buffer EXCEPT ![t] = buffer[t] \o u] /\ down' = [down EXCEPT ![t] = v]
  BY <1>1
<1> HIDE DEF u, v
<1>6. buffer[t] \o u \in Seq(Fragment)
  BY <1>2, <1>4, ConcatInSeq
<1>7. (buffer[t] \o u) \o v = buffer[t] \o (u \o v)
  <2>1. \A x, y, z \in Seq(Token) : (x \o y) \o z = x \o (y \o z)
    BY ConcatAssociative
  <2> QED BY <1>2, <1>3, <2>1
<1>8. buffer'[t] = buffer[t] \o u /\ down'[t] = v
  BY <1>5 DEF StreamTypes
<1>9. buffer'[t] \o down'[t] = buffer[t] \o down[t]
  BY <1>3, <1>7, <1>8, Zenon
<1>10. \A s \in Tcp \ {t} : buffer'[s] = buffer[s] /\ down'[s] = down[s]
  BY <1>5 DEF StreamTypes
<1>11. buffer' \in [Tcp -> Seq(Fragment)] /\ down' \in [Tcp -> Seq(Token)]
  BY <1>3, <1>6, <1>5 DEF StreamTypes
<1> QED BY <1>9, <1>10, <1>11

LEMMA HasLeast ==
  ASSUME NEW S, S \subseteq Nat, S # {}
  PROVE  \E i \in S : \A j \in S : i <= j
<1> DEFINE R == OpToRel(<, Nat)
<1>1. \A m, n \in Nat : <<m, n>> \in R <=> m < n
  BY DEF OpToRel
<1>2. IsWellFoundedOn(R, Nat)
  BY NatLessThanWellFounded
<1> HIDE DEF R
<1>3. PICK i \in S : \A j \in S : ~(<<j, i>> \in R)
  BY <1>2, WFMin
<1>4. \A j \in S : ~(j < i)
  BY <1>1, <1>3
<1> QED BY <1>4

\* Where the first object of a buffer begins and ends.
LEMMA FirstObject ==
  ASSUME NEW s \in Seq(Token), foundComplete(s)
  PROVE  /\ jsonStart(s) \in Begins(s) /\ \A i \in Begins(s) : jsonStart(s) <= i
         /\ jsonEnd(s) \in Ends(s) /\ \A j \in Ends(s) : jsonEnd(s) <= j
         /\ jsonEnd(s) \in 1 .. Len(s) /\ jsonStart(s) < jsonEnd(s)
<1>1. /\ Begins(s) \subseteq Nat /\ Begins(s) # {}
      /\ Ends(s) \subseteq Nat /\ Ends(s) # {} /\ Ends(s) \subseteq 1 .. Len(s)
      /\ \A j \in Ends(s) : j > jsonStart(s)
  BY DEF foundComplete, Begins, Ends
<1>2. jsonStart(s) \in Begins(s) /\ \A i \in Begins(s) : jsonStart(s) <= i
  <2>1. \E i \in Begins(s) : \A j \in Begins(s) : i <= j
    BY <1>1, HasLeast
  <2> QED BY <2>1 DEF jsonStart
<1>3. jsonEnd(s) \in Ends(s) /\ \A j \in Ends(s) : jsonEnd(s) <= j
  <2>1. \E i \in Ends(s) : \A j \in Ends(s) : i <= j
    BY <1>1, HasLeast
  <2> QED BY <2>1 DEF jsonEnd
<1>4. jsonStart(s) < jsonEnd(s)
  <2>1. jsonStart(s) \in Nat /\ jsonEnd(s) \in Nat /\ jsonEnd(s) > jsonStart(s)
    BY <1>1, <1>2, <1>3
  <2> QED BY <2>1
<1> QED BY <1>1, <1>2, <1>3, <1>4

\* Only these steps change what is written and read.
LEMMA StreamFrame ==
  ASSUME [Next]_bridgeVars
  PROVE  \/ UNCHANGED <<deferred, up, down, buffer>>
         \/ \E b \in Browser : ClientMessage(b) \/ Disconnect(b) \/ Farewell(b) \/ Retry(b)
         \/ \E t \in Tcp : Connect(t) \/ ConnectEnded(t) \/ Close(t) \/ Error(t) \/ Data(t)
         \/ Object
         \/ \E t \in Tcp : FromServer(t)
<1> USE DEF tcpVars
<1>1. ASSUME NEW b \in Browser, NEW n \in Name, Click(b, n)
      PROVE  UNCHANGED <<deferred, up, down, buffer>>
  BY <1>1 DEF Click
<1>2. ASSUME NEW b \in Browser, NEW type \in Typed, SendMessage(b, type)
      PROVE  UNCHANGED <<deferred, up, down, buffer>>
  BY <1>2 DEF SendMessage
<1>3. ASSUME NEW b \in Browser, Leave(b) \/ ServerMessage(b)
      PROVE  UNCHANGED <<deferred, up, down, buffer>>
  BY <1>3 DEF Leave, ServerMessage
<1>4. ASSUME NEW b \in Browser, Register(b)
      PROVE  UNCHANGED <<deferred, up, down, buffer>>
  BY <1>4 DEF Register
<1>5. CASE EndData \/ UNCHANGED bridgeVars
  BY <1>5 DEF EndData, bridgeVars
<1> QED BY <1>1, <1>2, <1>3, <1>4, <1>5 DEF Next, EventLoop, FromServer

LEMMA StreamStep == ASSUME BridgeInv, [Next]_bridgeVars PROVE StreamTypes'
<1> USE BridgeConstants
<1>0. PageTypes /\ MapTypes /\ SocketTypes /\ StreamTypes /\ FateTypes /\ Connections
  BY DEF BridgeInv
<1>1. CASE UNCHANGED <<deferred, up, down, buffer>>
  BY <1>0, <1>1 DEF StreamTypes
<1>2. ASSUME NEW b \in Browser, ClientMessage(b) PROVE StreamTypes'
  <2> DEFINE m == [type |-> Head(toBridge[b]).arg, id |-> asked[b] + 1, name |-> username[b]]
  <2>1. m \in Request
    BY <1>0, <1>2, MessageArg DEF Request, FateTypes, MapTypes
  <2>2. UNCHANGED <<down, buffer>>
    BY <1>2 DEF ClientMessage
  <2>3. UNCHANGED <<deferred, up>> \/ (clientConnections[b] # None /\ Write(clientConnections[b], <<m>>))
    <3>1. CASE MayWrite(b)
      BY <1>2, <3>1 DEF ClientMessage, MayWrite
    <3>2. CASE ~MayWrite(b)
      BY <1>2, <3>2 DEF ClientMessage
    <3> QED BY <3>1, <3>2
  <2> HIDE DEF m
  <2>4. clientConnections[b] # None => clientConnections[b] \in Tcp
    BY <1>0 DEF MapTypes
  <2>5. <<m>> \in Seq(Request)
    BY <2>1
  <2> QED BY <1>0, <2>2, <2>3, <2>4, <2>5, WriteTypes DEF StreamTypes
<1>3. ASSUME NEW b \in Browser, Disconnect(b) PROVE StreamTypes'
  <2>1. UNCHANGED <<deferred, up>>
        \/ (clientConnections[b] # None /\ Write(clientConnections[b], <<Own("EXIT", username[b])>>))
    <3>1. CASE clientConnections[b] = None
      BY <1>3, <3>1 DEF Disconnect
    <3>2. CASE clientConnections[b] # None
      BY <1>3, <3>2 DEF Disconnect
    <3> QED BY <3>1, <3>2
  <2>2. UNCHANGED <<down, buffer>>
    BY <1>3 DEF Disconnect
  <2>3. clientConnections[b] # None => clientConnections[b] \in Tcp
    BY <1>0 DEF MapTypes
  <2>4. <<Own("EXIT", username[b])>> \in Seq(Request)
    BY <1>0, OwnTypes DEF MapTypes, Typed
  <2> QED BY <1>0, <2>1, <2>2, <2>3, <2>4, WriteTypes DEF StreamTypes
<1>4. ASSUME NEW b \in Browser, Farewell(b) PROVE StreamTypes'
  <2>1. tcpClient[b] \in Tcp
    BY <1>0, <1>4 DEF MapTypes, Connections, Farewell
  <2>2. Write(tcpClient[b], <<Own("FIN", None)>>) /\ UNCHANGED <<down, buffer>>
    BY <1>4 DEF Farewell
  <2>3. <<Own("FIN", None)>> \in Seq(Request)
    BY OwnTypes
  <2> QED BY <1>0, <2>1, <2>2, <2>3, WriteTypes DEF StreamTypes
<1>5. ASSUME NEW t \in Tcp, Broken(t) PROVE StreamTypes'
  BY <1>0, <1>5, DestroyStreams DEF Broken
<1>6. ASSUME NEW b \in Browser, Retry(b) PROVE StreamTypes'
  <2>1. tcpClient[b] \in Tcp /\ (UNCHANGED <<deferred, up, down, buffer>> \/ Broken(tcpClient[b]))
    BY <1>0, <1>6, RetryCases DEF tcpVars
  <2> QED BY <1>1, <1>5, <2>1
<1>7. ASSUME NEW t \in Tcp, Connect(t) PROVE StreamTypes'
  <2> DEFINE w == tcpClient[owner[t]]
             hello == IF listening[t] THEN <<Own("REGISTRO", userData[t])>> ELSE <<>>
  <2>1. hello \in Seq(Request) /\ <<>> \in Seq(Request)
    <3>1. userData[t] \in Name \cup {None}
      BY <1>0 DEF SocketTypes
    <3>2. <<Own("REGISTRO", userData[t])>> \in Seq(Request) /\ <<>> \in Seq(Request)
      BY <3>1, OwnTypes
    <3> QED BY <3>2
  <2>2. /\ up' = [s \in Tcp |-> IF s = t THEN Opening(t, IF w = t THEN hello ELSE <<>>)
                                ELSE IF s = w /\ tcp[w] = "open" THEN up[s] \o hello
                                ELSE up[s]]
        /\ deferred' = [s \in Tcp |-> IF s = t THEN <<>>
                                      ELSE IF s = w /\ tcp[w] = "connecting"
                                      THEN deferred[s] \o hello ELSE deferred[s]]
        /\ UNCHANGED <<down, buffer>>
    BY <1>7 DEF Connect, Opened
  <2> HIDE DEF hello, w
  <2>3. /\ Opening(t, hello) \in Seq(Request) /\ Opening(t, <<>>) \in Seq(Request)
        /\ \A s \in Tcp : up[s] \in Seq(Request) /\ up[s] \o hello \in Seq(Request)
        /\ \A s \in Tcp : deferred[s] \in Seq(Request) /\ deferred[s] \o hello \in Seq(Request)
    BY <1>0, <2>1, ConcatInSeq DEF Opening, StreamTypes
  <2>4. up' \in [Tcp -> Seq(Request)]
    BY <2>2, <2>3
  <2>5. deferred' \in [Tcp -> Seq(Request)]
    BY <2>1, <2>2, <2>3
  <2> QED BY <1>0, <2>2, <2>4, <2>5 DEF StreamTypes
<1>8. ASSUME NEW t \in Tcp, ConnectEnded(t) PROVE StreamTypes'
  <2> DEFINE w == tcpClient[owner[t]]
  <2>1. <<>> \in Seq(Request) /\ <<>> \in Seq(Token)
    OBVIOUS
  <2>2. /\ up' = [up EXCEPT ![t] = Opening(t, <<>>), ![w] = <<>>]
        /\ deferred' = [deferred EXCEPT ![t] = <<>>, ![w] = <<>>]
        /\ down' = [down EXCEPT ![w] = <<>>] /\ UNCHANGED buffer
    BY <1>8 DEF ConnectEnded, Opened
  <2>3. Opening(t, <<>>) \in Seq(Request)
    BY <1>0, <2>1, ConcatInSeq DEF Opening, StreamTypes
  <2> HIDE DEF w
  <2> QED BY <1>0, <2>1, <2>2, <2>3 DEF StreamTypes
<1>9. ASSUME NEW t \in Tcp, Close(t) PROVE StreamTypes'
  BY <1>0, <1>9, DestroyStreams DEF Close
<1>10. ASSUME NEW t \in Tcp, Error(t) PROVE StreamTypes'
  BY <1>5, <1>10 DEF Error
<1>11. ASSUME NEW t \in Tcp, Data(t) PROVE StreamTypes'
  <2>1. UNCHANGED <<deferred, up>>
    BY <1>11 DEF Data
  <2> QED BY <1>0, <1>11, <2>1, DataMoves DEF StreamTypes
<1>12. ASSUME Object PROVE StreamTypes'
  <2>1. busy \in Tcp /\ owner[busy] \in Browser /\ UNCHANGED down
    BY <1>0, <1>12, OwnerTypes DEF SocketTypes, Connections, Object
  <2> DEFINE s == buffer[busy]
             q == pendingMessages[owner[busy]]
  <2>2. s \in Seq(Fragment) /\ s \in Seq(Token)
    BY <1>0, <2>1, TokenTypes, SeqMonotonic DEF StreamTypes
  <2>3. buffer' = [buffer EXCEPT ![busy] = SubSeq(s, jsonEnd(s) + 1, Len(s))] /\ foundComplete(s)
    BY <1>12 DEF Object
  <2>4. \/ UNCHANGED <<deferred, up>>
        \/ tcpClient[owner[busy]] # None /\ Write(tcpClient[owner[busy]], q)
    <3>1. UNCHANGED <<deferred, up>> \/ \E m : Process(owner[busy], m)
      BY <1>12 DEF Object
    <3>2. tcpClient[owner[busy]] # None
      BY <1>0, <2>1, BridgeConstants DEF Connections
    <3> QED BY <3>1, <3>2 DEF Process, Flush
  <2> HIDE DEF s, q
  <2>5. SubSeq(s, jsonEnd(s) + 1, Len(s)) \in Seq(Fragment)
    <3>1. jsonEnd(s) \in 0 .. Len(s)
      BY <2>2, <2>3, FirstObject
    <3> QED BY <2>2, <3>1, SuffixInSeq
  <2>6. q \in Seq(Request)
    BY <1>0, <2>1 DEF MapTypes, q
  <2>7. tcpClient[owner[busy]] # None => tcpClient[owner[busy]] \in Tcp
    BY <1>0, <2>1 DEF MapTypes
  <2>8. deferred' \in [Tcp -> Seq(Request)] /\ up' \in [Tcp -> Seq(Request)]
    BY <1>0, <2>4, <2>6, <2>7, WriteTypes DEF StreamTypes
  <2> QED BY <1>0, <2>1, <2>3, <2>5, <2>8 DEF StreamTypes
<1>13. ASSUME NEW t \in Tcp, NEW x \in Seq(Token), Send(t, x), UNCHANGED <<deferred, buffer>>,
              up' \in [Tcp -> Seq(Request)]
       PROVE  StreamTypes'
  BY <1>0, <1>13, SendTypes DEF StreamTypes
<1>14. ASSUME NEW t \in Tcp, ServerReads(t) PROVE StreamTypes'
  <2>1. UNCHANGED <<deferred, buffer>> /\ (Refused(t) \/ Handled(t, Head(up[t])))
    BY <1>14 DEF ServerReads
  <2>2. UNCHANGED down \/ \E x \in Seq(Token) : Send(t, x)
    <3>1. /\ <<Reply("FIN")>> \in Seq(Token)
          /\ \A a \in Kind : Tokens(Reply(a)) \in Seq(Token)
      BY TokenTypes, TokensTypes, OneInSeq, Zenon DEF Mark
    <3>2. "ERROR" \in Kind
      BY DEF Kind
    <3>3. Tokens(Reply("ERROR")) \o <<Reply("FIN")>> \in Seq(Token)
      BY <3>1, <3>2, ConcatInSeq
    <3>4. Head(up[t]).type \in {"ESTADO", "LISTA", "EXIT", "REGISTRO", "FIN"}
      BY <1>0, <1>14, ReadsTypes
    <3>5. \/ UNCHANGED down
          \/ \E a \in Kind : Send(t, Tokens(Reply(a)))
          \/ Send(t, Tokens(Reply("ERROR")) \o <<Reply("FIN")>>)
          \/ Send(t, <<Reply("FIN")>>)
      BY <2>1, <3>4, HandledSends
    <3> QED BY <3>1, <3>3, <3>5
  <2>3. up' \in [Tcp -> Seq(Request)]
    BY <1>0, <1>14, ReadsTypes
  <2>4. CASE UNCHANGED down
    BY <1>0, <2>1, <2>3, <2>4 DEF StreamTypes
  <2> QED BY <1>13, <2>1, <2>2, <2>3, <2>4
<1>15. ASSUME NEW t \in Tcp, ServerAnswers(t) \/ ServerRemoves(t) \/ OtherSays(t) \/ ServerEnds(t)
       PROVE  StreamTypes'
  <2>1. UNCHANGED <<deferred, up, buffer>>
    BY <1>15 DEF ServerAnswers, ServerRemoves, OtherSays, ServerEnds, tcpVars
  <2>2. UNCHANGED down \/ \E x \in Seq(Token) : Send(t, x)
    <3>1. CASE ServerAnswers(t)
      BY <3>1, ServerSends
    <3>2. CASE ServerRemoves(t)
      BY <3>2 DEF ServerRemoves, tcpVars
    <3>3. CASE OtherSays(t)
      BY <3>3, ServerSends
    <3>4. CASE ServerEnds(t)
      BY <3>4, ServerSends
    <3> QED BY <1>15, <3>1, <3>2, <3>3, <3>4
  <2>3. CASE UNCHANGED down
    BY <1>0, <2>1, <2>3 DEF StreamTypes
  <2> QED BY <1>0, <1>13, <2>1, <2>2, <2>3 DEF StreamTypes
<1> QED BY <1>1, <1>2, <1>3, <1>4, <1>6, <1>7, <1>9, <1>10, <1>11, <1>12, <1>14, <1>15, <1>8,
           StreamFrame DEF FromServer

-----------------------------------------------------------------------------
(***************************************************************************)
(* The fate of a page's messages.                                          *)
(***************************************************************************)

\* The next message is written.
LEMMA FateWritten ==
  ASSUME NEW w \in Seq(Nat), NEW r, NEW n \in Nat, NEW gone, Fate(w, <<>>, r, n, gone)
  PROVE  Fate(Append(w, n + 1), <<>>, r, n + 1, gone)
<1> DEFINE v == Append(w, n + 1)
<1>1. /\ DOMAIN w = 1 .. Len(w) /\ DOMAIN v = 1 .. Len(w) + 1 /\ Len(w) \in Nat
      /\ \A i \in 1 .. Len(w) : v[i] = w[i]
      /\ v[Len(w) + 1] = n + 1
  OBVIOUS
<1> HIDE DEF v
<1> DEFINE out == {w[i] : i \in DOMAIN w}
<1>2. Ids(<<>>) = {} /\ \A j \in DOMAIN <<>> : FALSE
  BY DEF Ids
<1>3. /\ \A i, j \in 1 .. Len(w) : i < j => w[i] < w[j]
      /\ out \subseteq 1 .. n /\ r \subseteq 1 .. n /\ out \cap r = {}
      /\ gone \/ out \cup r = 1 .. n
  BY <1>1, <1>2 DEF Fate
<1>4. \A i \in 1 .. Len(w) : w[i] \in 1 .. n
  BY <1>1, <1>3
<1>5. {v[i] : i \in DOMAIN v} = out \cup {n + 1}
  BY <1>1
<1>6. \A i, j \in DOMAIN v : i < j => v[i] < v[j]
  <2> SUFFICES ASSUME NEW i \in DOMAIN v, NEW j \in DOMAIN v, i < j PROVE v[i] < v[j]
    OBVIOUS
  <2>1. i \in 1 .. Len(w)
    BY <1>1
  <2>2. CASE j \in 1 .. Len(w)
    BY <1>1, <1>3, <2>1, <2>2
  <2>3. CASE j = Len(w) + 1
    BY <1>1, <1>4, <2>1, <2>3
  <2> QED BY <1>1, <2>2, <2>3
<1>7. /\ out \cup {n + 1} \subseteq 1 .. n + 1 /\ r \subseteq 1 .. n + 1
      /\ (out \cup {n + 1}) \cap r = {}
      /\ gone \/ (out \cup {n + 1}) \cup r = 1 .. n + 1
  <2> HIDE DEF out
  <2> QED BY <1>3
<1>8. Fate(v, <<>>, r, n + 1, gone)
  <2>1. /\ {v[i] : i \in DOMAIN v} \subseteq 1 .. n + 1 /\ r \subseteq 1 .. n + 1
        /\ {v[i] : i \in DOMAIN v} \cap r = {}
        /\ gone \/ {v[i] : i \in DOMAIN v} \cup r = 1 .. n + 1
    BY <1>5, <1>7, Zenon
  <2> QED BY <1>6, <1>2, <2>1 DEF Fate
<1> QED BY <1>8 DEF v

\* The next message is queued.
LEMMA FateQueued ==
  ASSUME NEW w, NEW q \in Seq(Request), NEW r, NEW n \in Nat, NEW gone, Fate(w, q, r, n, gone),
         NEW m \in Request, m.id = n + 1
  PROVE  Fate(w, Append(q, m), r, n + 1, gone)
<1> DEFINE p == Append(q, m)
<1>1. /\ DOMAIN q = 1 .. Len(q) /\ DOMAIN p = 1 .. Len(q) + 1 /\ Len(q) \in Nat
      /\ \A i \in 1 .. Len(q) : p[i] = q[i]
      /\ p[Len(q) + 1] = m
  OBVIOUS
<1> HIDE DEF p
<1> DEFINE out == {w[i] : i \in DOMAIN w}
<1>2. /\ \A i \in 1 .. Len(q) : q[i].id \in 1 .. n
      /\ \A i, j \in 1 .. Len(q) : i < j => q[i].id < q[j].id
      /\ \A i \in DOMAIN w, j \in 1 .. Len(q) : w[i] < q[j].id
      /\ \A i \in DOMAIN w : w[i] \in 1 .. n
      /\ out \subseteq 1 .. n /\ r \subseteq 1 .. n /\ out \cap r = {}
      /\ Ids(q) \subseteq 1 .. n /\ Ids(q) \cap r = {}
      /\ gone \/ out \cup Ids(q) \cup r = 1 .. n
  BY <1>1 DEF Fate, Ids
<1>3. Ids(p) = Ids(q) \cup {n + 1}
  BY <1>1 DEF Ids
<1>4. \A i, j \in DOMAIN p : i < j => p[i].id < p[j].id
  BY <1>1, <1>2
<1>5. \A i \in DOMAIN w, j \in DOMAIN p : w[i] < p[j].id
  BY <1>1, <1>2
<1>6. /\ out \subseteq 1 .. n + 1 /\ r \subseteq 1 .. n + 1 /\ Ids(p) \subseteq 1 .. n + 1
      /\ Ids(p) \cap r = {}
      /\ gone \/ out \cup Ids(p) \cup r = 1 .. n + 1
  <2> HIDE DEF out
  <2> QED BY <1>2, <1>3
<1>7. \A i, j \in DOMAIN w : i < j => w[i] < w[j]
  BY DEF Fate
<1>8. Fate(w, p, r, n + 1, gone)
  BY <1>2, <1>4, <1>5, <1>6, <1>7 DEF Fate
<1> QED BY <1>8 DEF p

\* The next message is refused.
LEMMA FateRefused ==
  ASSUME NEW w, NEW q, NEW r, NEW n \in Nat, NEW gone, Fate(w, q, r, n, gone)
  PROVE  Fate(w, q, r \cup {n + 1}, n + 1, gone)
<1> DEFINE out == {w[i] : i \in DOMAIN w}
<1>1. /\ out \subseteq 1 .. n /\ Ids(q) \subseteq 1 .. n /\ r \subseteq 1 .. n
      /\ out \cap r = {} /\ Ids(q) \cap r = {}
      /\ gone \/ out \cup Ids(q) \cup r = 1 .. n
  BY DEF Fate
<1>2. /\ out \subseteq 1 .. n + 1 /\ Ids(q) \subseteq 1 .. n + 1 /\ r \cup {n + 1} \subseteq 1 .. n + 1
      /\ out \cap (r \cup {n + 1}) = {} /\ Ids(q) \cap (r \cup {n + 1}) = {}
      /\ gone \/ out \cup Ids(q) \cup (r \cup {n + 1}) = 1 .. n + 1
  <2> HIDE DEF out
  <2> QED BY <1>1
<1> QED BY <1>2 DEF Fate

\* The queue is written.
LEMMA FateFlushed ==
  ASSUME NEW w \in Seq(Nat), NEW q \in Seq(Request), NEW r, NEW n \in Nat, NEW gone,
         Fate(w, q, r, n, gone)
  PROVE  /\ Fate(w \o [i \in DOMAIN q |-> q[i].id], <<>>, r, n, gone)
         /\ w \o [i \in DOMAIN q |-> q[i].id] \in Seq(Nat)
<1> DEFINE p == [i \in DOMAIN q |-> q[i].id]
           v == w \o p
<1>1. DOMAIN q = 1 .. Len(q) /\ Len(q) \in Nat /\ \A i \in 1 .. Len(q) : q[i] \in Request
  OBVIOUS
<1>2. p \in Seq(Nat) /\ Len(p) = Len(q) /\ \A i \in 1 .. Len(q) : p[i] = q[i].id
  <2>1. \A i \in 1 .. Len(q) : q[i].id \in Nat
    BY <1>1 DEF Request
  <2> QED BY <1>1, <2>1
<1> HIDE DEF p
<1>3. Len(w) \in Nat /\ DOMAIN w = 1 .. Len(w) /\ \A i \in 1 .. Len(w) : w[i] \in Nat
  OBVIOUS
<1>4. /\ v \in Seq(Nat) /\ Len(v) = Len(w) + Len(q)
       /\ \A i \in 1 .. Len(w) + Len(q) : v[i] = IF i <= Len(w) THEN w[i] ELSE p[i - Len(w)]
  <2>1. /\ v \in Seq(Nat) /\ Len(v) = Len(w) + Len(p)
        /\ \A i \in 1 .. Len(w) + Len(p) : v[i] = IF i <= Len(w) THEN w[i] ELSE p[i - Len(w)]
    BY <1>2, ConcatProperties, Zenon
  <2> HIDE DEF v
  <2> QED BY <1>2, <2>1, Zenon
<1> HIDE DEF v
<1>5. DOMAIN v = 1 .. Len(w) + Len(q)
  BY <1>4
<1>6. /\ \A i \in 1 .. Len(w) : v[i] = w[i]
      /\ \A i \in 1 .. Len(w) + Len(q) : i > Len(w) =>
           i - Len(w) \in 1 .. Len(q) /\ v[i] = q[i - Len(w)].id
  <2>1. \A i \in 1 .. Len(w) : v[i] = w[i]
    BY <1>1, <1>3, <1>4
  <2>2. ASSUME NEW i \in 1 .. Len(w) + Len(q), i > Len(w)
        PROVE  i - Len(w) \in 1 .. Len(q) /\ v[i] = q[i - Len(w)].id
    <3>1. i - Len(w) \in 1 .. Len(q) /\ ~(i <= Len(w))
      BY <1>1, <1>3, <2>2
    <3>2. v[i] = p[i - Len(w)]
      BY <1>4, <3>1, Zenon
    <3> QED BY <1>2, <3>1, <3>2
  <2> QED BY <2>1, <2>2
<1>7. \A i \in 1 .. Len(q) : q[i].id \in Nat
  BY <1>1 DEF Request
<1>8. /\ \A i, j \in 1 .. Len(w) : i < j => w[i] < w[j]
      /\ \A i, j \in 1 .. Len(q) : i < j => q[i].id < q[j].id
      /\ \A i \in 1 .. Len(w), j \in 1 .. Len(q) : w[i] < q[j].id
  BY <1>1, <1>3 DEF Fate
<1>9. \A i, j \in DOMAIN v : i < j => v[i] < v[j]
  <2> SUFFICES ASSUME NEW i \in DOMAIN v, NEW j \in DOMAIN v, i < j PROVE v[i] < v[j]
    OBVIOUS
  <2>1. CASE j <= Len(w)
    <3>1. i \in 1 .. Len(w) /\ j \in 1 .. Len(w)
      BY <1>1, <1>3, <1>5, <2>1
    <3> QED BY <1>6, <1>8, <3>1
  <2>2. CASE i <= Len(w) /\ j > Len(w)
    <3>1. i \in 1 .. Len(w) /\ j - Len(w) \in 1 .. Len(q) /\ v[j] = q[j - Len(w)].id
      BY <1>1, <1>6, <1>3, <1>5, <2>2
    <3> QED BY <1>6, <1>8, <3>1
  <2>3. CASE i > Len(w)
    <3>1. /\ i - Len(w) \in 1 .. Len(q) /\ j - Len(w) \in 1 .. Len(q)
          /\ v[j] = q[j - Len(w)].id /\ v[i] = q[i - Len(w)].id
      <4>1. j > Len(w)
        BY <1>3, <1>5, <2>3
      <4> QED BY <1>6, <1>5, <2>3, <4>1
    <3>2. i - Len(w) < j - Len(w)
      BY <1>3, <1>5
    <3> QED BY <1>8, <3>1, <3>2
  <2> QED BY <1>1, <1>3, <1>5, <2>1, <2>2, <2>3
<1>10. {v[i] : i \in DOMAIN v} = {w[i] : i \in DOMAIN w} \cup Ids(q)
  <2>1. ASSUME NEW i \in DOMAIN v PROVE v[i] \in {w[k] : k \in DOMAIN w} \cup Ids(q)
    <3>1. CASE i <= Len(w)
      <4>1. i \in DOMAIN w /\ v[i] = w[i]
        BY <1>6, <1>3, <1>5, <3>1
      <4> QED BY <4>1
    <3>2. CASE i > Len(w)
      <4>1. i - Len(w) \in DOMAIN q /\ v[i] = q[i - Len(w)].id
        BY <1>1, <1>6, <1>5, <3>2
      <4> QED BY <4>1 DEF Ids
    <3> QED BY <1>1, <1>3, <1>5, <3>1, <3>2
  <2>2. \A k \in DOMAIN w : k \in DOMAIN v /\ v[k] = w[k]
    BY <1>1, <1>6, <1>3, <1>5
  <2>3. \A k \in DOMAIN q : k + Len(w) \in DOMAIN v /\ v[k + Len(w)] = q[k].id
    <3> SUFFICES ASSUME NEW k \in DOMAIN q PROVE k + Len(w) \in DOMAIN v /\ v[k + Len(w)] = q[k].id
      OBVIOUS
    <3>1. k + Len(w) \in 1 .. Len(w) + Len(q) /\ k + Len(w) > Len(w) /\ (k + Len(w)) - Len(w) = k
      BY <1>1, <1>3
    <3> QED BY <1>6, <1>5, <3>1
  <2> QED BY <2>1, <2>2, <2>3 DEF Ids
<1>11. Ids(<<>>) = {} /\ \A j \in DOMAIN <<>> : FALSE
  BY DEF Ids
<1>12. Fate(v, <<>>, r, n, gone)
  <2>1. /\ {v[i] : i \in DOMAIN v} \subseteq 1 .. n /\ r \subseteq 1 .. n
        /\ {v[i] : i \in DOMAIN v} \cap r = {}
        /\ gone \/ {v[i] : i \in DOMAIN v} \cup r = 1 .. n
    BY <1>10 DEF Fate
  <2> QED BY <1>9, <1>11, <2>1 DEF Fate
<1> QED BY <1>12, <1>4 DEF p, v

\* A page that has left does not come back.
LEMMA GoneStays ==
  ASSUME PageTypes, [Next]_bridgeVars
  PROVE  \A b \in Browser : page[b] = "gone" => page'[b] = "gone"
<1> USE DEF pageVars
<1>1. ASSUME NEW c \in Browser, NEW n \in Name, Click(c, n)
      PROVE  \A b \in Browser : page[b] = "gone" => page'[b] = "gone"
  BY <1>1 DEF Click, PageTypes
<1>2. ASSUME NEW c \in Browser, NEW type \in Typed, SendMessage(c, type)
      PROVE  \A b \in Browser : page[b] = "gone" => page'[b] = "gone"
  BY <1>2 DEF SendMessage, PageTypes
<1>3. ASSUME NEW c \in Browser, Leave(c) \/ ServerMessage(c)
      PROVE  \A b \in Browser : page[b] = "gone" => page'[b] = "gone"
  BY <1>3 DEF Leave, ServerMessage, PageTypes
<1>4. ASSUME NEW c \in Browser, Register(c) \/ ClientMessage(c) \/ Disconnect(c) \/ Farewell(c) \/ Retry(c)
      PROVE  UNCHANGED page
  BY <1>4 DEF Register, ClientMessage, Disconnect, Farewell, Retry, Broken
<1>5. ASSUME NEW t \in Tcp, Connect(t) \/ ConnectEnded(t) \/ Close(t) \/ Data(t) \/ Error(t)
      PROVE  UNCHANGED page
  BY <1>5 DEF Connect, ConnectEnded, Opened, Close, Data, Error, Broken
<1>6. ASSUME NEW t \in Tcp, FromServer(t)
      PROVE  UNCHANGED page
  BY <1>6 DEF FromServer, ServerReads, ServerAnswers, ServerRemoves, OtherSays, ServerEnds
<1>7. CASE Object \/ EndData \/ UNCHANGED bridgeVars
  BY <1>7 DEF Object, EndData, bridgeVars
<1> QED BY <1>1, <1>2, <1>3, <1>4, <1>5, <1>6, <1>7 DEF Next, EventLoop, FromServer

\* Only these steps change the fate of messages, and only Object decides that a
\* page is registered.
LEMMA FateFrame ==
  ASSUME MapTypes, SocketTypes, Connections, [Next]_bridgeVars
  PROVE  \/ /\ UNCHANGED <<asked, written, refused, pendingMessages>>
            /\ \A b \in Browser : clientRegistrationStatus'[b] = "registered" =>
                                    clientRegistrationStatus[b] = "registered"
         \/ \E b \in Browser : ClientMessage(b) \/ Farewell(b)
         \/ Object
<1> DEFINE Kept == /\ UNCHANGED <<asked, written, refused, pendingMessages>>
                   /\ \A b \in Browser : clientRegistrationStatus'[b] = "registered" =>
                                           clientRegistrationStatus[b] = "registered"
<1> USE DEF fateVars, mapVars
<1>1. ASSUME NEW c \in Browser, NEW n \in Name, Click(c, n) PROVE Kept
  BY <1>1 DEF Click
<1>2. ASSUME NEW c \in Browser, NEW type \in Typed, SendMessage(c, type) PROVE Kept
  BY <1>2 DEF SendMessage
<1>3. ASSUME NEW c \in Browser, Leave(c) \/ ServerMessage(c) \/ Disconnect(c) PROVE Kept
  BY <1>3 DEF Leave, ServerMessage, Disconnect
<1>4. ASSUME NEW c \in Browser, Register(c) PROVE Kept
  BY <1>4 DEF Register, MapTypes
<1>5. ASSUME NEW t \in Tcp, Connect(t) \/ Data(t) \/ FromServer(t)
      PROVE  Kept
  BY <1>5 DEF Connect, Opened, Data, FromServer, ServerReads, ServerAnswers, ServerRemoves, OtherSays,
              ServerEnds, tcpVars
<1>6. ASSUME NEW t \in Tcp, tcp[t] # "free", Broken(t) \/ Close(t) \/ ConnectEnded(t) PROVE Kept
  <2>1. owner[t] \in Browser
    BY <1>6, OwnerTypes
  <2>2. \E a : Closed(owner[t], a)
    BY <1>6 DEF Broken, Close, ConnectEnded
  <2>3. UNCHANGED <<asked, written, refused, pendingMessages>>
    BY <1>6 DEF Broken, Close, ConnectEnded, Opened
  <2> QED BY <2>1, <2>2, <2>3, ClosedStatus
<1>7. ASSUME NEW t \in Tcp, Error(t) \/ Close(t) \/ ConnectEnded(t) PROVE Kept
  BY <1>6, <1>7 DEF Error, Close, ConnectEnded
<1>8. ASSUME NEW b \in Browser, Retry(b) PROVE Kept
  BY <1>6, <1>8, RetryCases
<1>9. ASSUME EndData \/ UNCHANGED bridgeVars PROVE Kept
  BY <1>9 DEF EndData, bridgeVars
<1> HIDE DEF Kept
<1>10. Kept \/ (\E b \in Browser : ClientMessage(b) \/ Farewell(b)) \/ Object
  BY <1>1, <1>2, <1>3, <1>4, <1>5, <1>7, <1>8, <1>9 DEF Next, EventLoop, FromServer
<1> QED BY <1>10 DEF Kept

LEMMA FateOfGone ==
  ASSUME NEW w, NEW q, NEW r, NEW n, NEW gone, NEW left, Fate(w, q, r, n, gone), gone => left
  PROVE  Fate(w, q, r, n, left)
BY DEF Fate

LEMMA FateForgotten ==
  ASSUME NEW w, NEW q, NEW r, NEW n, NEW gone, Fate(w, q, r, n, gone)
  PROVE  Fate(w, <<>>, r, n, TRUE)
<1>1. Ids(<<>>) = {} /\ \A j \in DOMAIN <<>> : FALSE
  BY DEF Ids
<1> QED BY <1>1 DEF Fate

LEMMA FateStep == ASSUME BridgeInv, [Next]_bridgeVars PROVE FateTypes' /\ Fates'
<1> USE BridgeConstants
<1>0. PageTypes /\ MapTypes /\ SocketTypes /\ FateTypes /\ Connections /\ Leaving /\ Fates
  BY DEF BridgeInv
<1> DEFINE gone(b) == page[b] = "gone"
<1>1. \A b \in Browser : gone(b) => gone(b)'
  BY <1>0, GoneStays
<1>2. ASSUME UNCHANGED <<asked, written, refused, pendingMessages>>,
             \A b \in Browser : clientRegistrationStatus'[b] = "registered" =>
                                  clientRegistrationStatus[b] = "registered"
      PROVE  FateTypes' /\ Fates'
  <2>1. ASSUME NEW b \in Browser
        PROVE  Fate(written[b], pendingMessages[b], refused[b], asked[b], gone(b)')
    BY <1>0, <1>1, FateOfGone DEF Fates
  <2>2. Fates'
    BY <1>0, <1>2, <2>1 DEF Fates
  <2> QED BY <1>0, <1>2, <2>2 DEF FateTypes
<1>3. ASSUME NEW b \in Browser, ClientMessage(b) PROVE FateTypes' /\ Fates'
  <2> DEFINE m == [type |-> Head(toBridge[b]).arg, id |-> asked[b] + 1, name |-> username[b]]
             s == clientRegistrationStatus
  <2>1. m \in Request /\ m.id = asked[b] + 1 /\ asked[b] \in Nat
    BY <1>0, <1>3, MessageArg DEF Request, FateTypes, MapTypes
  <2>2. /\ asked' = [asked EXCEPT ![b] = @ + 1] /\ UNCHANGED <<s, page>>
    BY <1>3 DEF ClientMessage
  <2>3. \/ /\ s[b] = "registered" /\ written' = [written EXCEPT ![b] = Append(@, asked[b] + 1)]
           /\ UNCHANGED <<pendingMessages, refused>>
        \/ /\ s[b] # "registered" /\ pendingMessages' = [pendingMessages EXCEPT ![b] = Append(@, m)]
           /\ UNCHANGED <<written, refused>>
        \/ /\ refused' = [refused EXCEPT ![b] = @ \cup {asked[b] + 1}]
           /\ UNCHANGED <<written, pendingMessages>>
    <3>1. CASE MayWrite(b)
      BY <1>3, <2>1, <3>1 DEF ClientMessage, MayWrite
    <3>2. CASE ~MayWrite(b) /\ clientConnections[b] # None /\ s[b] = "pending"
      BY <1>3, <2>1, <3>2 DEF ClientMessage
    <3>3. CASE ~MayWrite(b) /\ ~(clientConnections[b] # None /\ s[b] = "pending")
      BY <1>3, <2>1, <3>3 DEF ClientMessage
    <3> QED BY <3>1, <3>2, <3>3
  <2> HIDE DEF m
  <2>4. /\ written[b] \in Seq(Nat) /\ pendingMessages[b] \in Seq(Request) /\ refused[b] \in SUBSET Nat
        /\ Fate(written[b], pendingMessages[b], refused[b], asked[b], gone(b))
        /\ s[b] = "registered" => pendingMessages[b] = <<>>
    BY <1>0 DEF FateTypes, MapTypes, Fates
  <2>5. /\ FateTypes'
        /\ Fate(written'[b], pendingMessages'[b], refused'[b], asked'[b], gone(b)')
        /\ s'[b] = "registered" => pendingMessages'[b] = <<>>
        /\ \A c \in Browser \ {b} : /\ written'[c] = written[c] /\ pendingMessages'[c] = pendingMessages[c]
                                    /\ refused'[c] = refused[c] /\ asked'[c] = asked[c]
    <3>1. asked' \in [Browser -> Nat] /\ asked'[b] = asked[b] + 1 /\ gone(b)' = gone(b)
      BY <1>0, <2>1, <2>2 DEF FateTypes
    <3>2. CASE /\ s[b] = "registered" /\ written' = [written EXCEPT ![b] = Append(@, asked[b] + 1)]
               /\ UNCHANGED <<pendingMessages, refused>>
      <4>1. Fate(Append(written[b], asked[b] + 1), <<>>, refused[b], asked[b] + 1, gone(b))
        BY <2>1, <2>4, <3>2, FateWritten
      <4>2. Append(written[b], asked[b] + 1) \in Seq(Nat)
        BY <2>1, <2>4
      <4> HIDE DEF gone
      <4> QED BY <1>0, <2>2, <2>4, <3>1, <3>2, <4>1, <4>2 DEF FateTypes
    <3>3. CASE /\ s[b] # "registered" /\ pendingMessages' = [pendingMessages EXCEPT ![b] = Append(@, m)]
               /\ UNCHANGED <<written, refused>>
      <4>1. Fate(written[b], Append(pendingMessages[b], m), refused[b], asked[b] + 1, gone(b))
        BY <2>1, <2>4, FateQueued
      <4> HIDE DEF gone
      <4> QED BY <1>0, <2>2, <3>1, <3>3, <4>1 DEF FateTypes, MapTypes
    <3>4. CASE /\ refused' = [refused EXCEPT ![b] = @ \cup {asked[b] + 1}]
               /\ UNCHANGED <<written, pendingMessages>>
      <4>1. Fate(written[b], pendingMessages[b], refused[b] \cup {asked[b] + 1}, asked[b] + 1, gone(b))
        BY <2>1, <2>4, FateRefused
      <4>2. refused[b] \cup {asked[b] + 1} \in SUBSET Nat
        BY <2>1, <2>4
      <4> HIDE DEF gone
      <4> QED BY <1>0, <2>2, <2>4, <3>1, <3>4, <4>1, <4>2 DEF FateTypes
    <3> QED BY <2>3, <3>2, <3>3, <3>4
  <2>6. Fates'
    <3>1. \A c \in Browser : gone(c)' = gone(c)
      BY <2>2
    <3> QED BY <1>0, <2>2, <2>5, <3>1 DEF Fates
  <2> QED BY <2>5, <2>6
<1>4. ASSUME NEW b \in Browser, Farewell(b) PROVE FateTypes' /\ Fates'
  <2>1. /\ pendingMessages' = [pendingMessages EXCEPT ![b] = <<>>]
        /\ clientRegistrationStatus' = [clientRegistrationStatus EXCEPT ![b] = None]
        /\ UNCHANGED <<asked, written, refused, page>>
    BY <1>4 DEF Farewell, fateVars, pageVars
  <2>2. page[b] = "gone"
    BY <1>0, <1>4 DEF Leaving, Farewell
  <2>3. Fate(written[b], <<>>, refused[b], asked[b], TRUE)
    BY <1>0, FateForgotten DEF Fates
  <2>4. Fate(written[b], <<>>, refused[b], asked[b], page[b] = "gone")
    BY <2>2, <2>3, FateOfGone
  <2>5. ASSUME NEW c \in Browser
        PROVE  /\ Fate(written'[c], pendingMessages'[c], refused'[c], asked'[c], page'[c] = "gone")
               /\ clientRegistrationStatus'[c] = "registered" => pendingMessages'[c] = <<>>
    BY <1>0, <2>1, <2>4 DEF MapTypes, Fates
  <2>6. Fates'
    BY <2>5 DEF Fates
  <2> QED BY <1>0, <2>1, <2>6 DEF FateTypes
<1>5. ASSUME Object PROVE FateTypes' /\ Fates'
  <2> DEFINE b == owner[busy]
             q == pendingMessages[b]
             ids == [i \in DOMAIN q |-> q[i].id]
             s == clientRegistrationStatus
  <2>1. b \in Browser /\ UNCHANGED <<asked, refused, page>>
    BY <1>0, <1>5, OwnerTypes DEF SocketTypes, Connections, Object
  <2>2. \/ /\ UNCHANGED <<written, pendingMessages>>
           /\ \A c \in Browser : s'[c] = "registered" => s[c] = "registered"
        \/ /\ written' = [written EXCEPT ![b] = @ \o ids]
           /\ pendingMessages' = [pendingMessages EXCEPT ![b] = <<>>]
           /\ s' = [s EXCEPT ![b] = "registered"]
    <3>1. CASE UNCHANGED <<written, pendingMessages, s>>
      BY <3>1
    <3>2. ASSUME NEW m, Process(b, m), s[b] = "pending", m.kind \in {"OK", "EXITOSO"}
          PROVE  /\ written' = [written EXCEPT ![b] = @ \o ids]
                 /\ pendingMessages' = [pendingMessages EXCEPT ![b] = <<>>]
                 /\ s' = [s EXCEPT ![b] = "registered"]
      BY <3>2 DEF Process, Flush
    <3>3. ASSUME NEW m, Process(b, m), ~(s[b] = "pending" /\ m.kind \in {"OK", "EXITOSO"})
          PROVE  /\ UNCHANGED <<written, pendingMessages>>
                 /\ \A c \in Browser : s'[c] = "registered" => s[c] = "registered"
      <4>1. CASE s[b] = "pending" /\ m.kind = "ERROR"
        <5>1. UNCHANGED <<written, pendingMessages>> /\ s' = [s EXCEPT ![b] = "failed"]
          BY <3>3, <4>1 DEF Process
        <5> QED BY <1>0, <5>1 DEF MapTypes
      <4>2. CASE ~(s[b] = "pending" /\ m.kind = "ERROR")
        BY <3>3, <4>2 DEF Process
      <4> QED BY <4>1, <4>2
    <3>4. UNCHANGED <<written, pendingMessages, s>> \/ \E m : Process(b, m)
      BY <1>5 DEF Object
    <3> QED BY <3>1, <3>2, <3>3, <3>4
  <2>3. CASE /\ UNCHANGED <<written, pendingMessages>>
             /\ \A c \in Browser : s'[c] = "registered" => s[c] = "registered"
    BY <1>2, <2>1, <2>3
  <2>4. CASE /\ written' = [written EXCEPT ![b] = @ \o ids]
             /\ pendingMessages' = [pendingMessages EXCEPT ![b] = <<>>]
             /\ s' = [s EXCEPT ![b] = "registered"]
    <3>1. /\ written[b] \in Seq(Nat) /\ q \in Seq(Request) /\ asked[b] \in Nat
          /\ Fate(written[b], q, refused[b], asked[b], gone(b))
      BY <1>0, <2>1 DEF FateTypes, MapTypes, Fates
    <3>2. /\ Fate(written[b] \o ids, <<>>, refused[b], asked[b], gone(b))
          /\ written[b] \o ids \in Seq(Nat)
      <4> HIDE DEF q, gone
      <4> QED BY <3>1, FateFlushed DEF ids
    <3> HIDE DEF ids, q, b
    <3>3. ASSUME NEW c \in Browser
          PROVE  /\ Fate(written'[c], pendingMessages'[c], refused'[c], asked'[c], gone(c)')
                 /\ s'[c] = "registered" => pendingMessages'[c] = <<>>
      <4>1. gone(c)' = gone(c) /\ refused'[c] = refused[c] /\ asked'[c] = asked[c]
        BY <2>1
      <4>2. CASE c = b
        <5>1. written'[c] = written[b] \o ids /\ pendingMessages'[c] = <<>>
          BY <1>0, <2>4, <4>2 DEF FateTypes, MapTypes
        <5> HIDE DEF gone
        <5> QED BY <3>2, <4>1, <4>2, <5>1
      <4>3. CASE c # b
        <5>1. written'[c] = written[c] /\ pendingMessages'[c] = pendingMessages[c] /\ s'[c] = s[c]
          BY <1>0, <2>4, <4>3 DEF FateTypes, MapTypes
        <5> QED BY <1>0, <4>1, <5>1 DEF Fates
      <4> QED BY <4>2, <4>3
    <3>4. Fates'
      BY <3>3 DEF Fates
    <3> QED BY <1>0, <2>1, <2>4, <3>2, <3>4 DEF FateTypes
  <2> QED BY <2>2, <2>3, <2>4
<1> QED BY <1>0, <1>2, <1>3, <1>4, <1>5, FateFrame

-----------------------------------------------------------------------------
(***************************************************************************)
(* Who has which connection.                                               *)
(***************************************************************************)

LEMMA ConnectionsKept ==
  ASSUME Connections, UNCHANGED <<owner, userData, tcpClient, clientConnections>>,
         \A t \in Tcp : tcp'[t] = "free" <=> tcp[t] = "free",
         busy' # None => tcp'[busy'] = "open",
         \A b \in Browser :
           /\ clientRegistrationStatus'[b] # None => clientRegistrationStatus[b] # None
           /\ retries'[b] > 0 => tcpClient[b] # None
           /\ b \in farewells' => tcpClient[b] # None
           /\ clientConnections[b] = None => pendingMessages'[b] = <<>>
  PROVE  Connections'
BY DEF Connections

LEMMA ConnectionsStep == ASSUME BridgeInv, [Next]_bridgeVars PROVE Connections'
<1> USE BridgeConstants
<1>0. PageTypes /\ MapTypes /\ SocketTypes /\ Connections /\ Leaving
  BY DEF BridgeInv
<1> DEFINE Quiet == /\ UNCHANGED <<clientRegistrationStatus, pendingMessages, clientConnections, tcpClient, retries>>
                    /\ UNCHANGED <<owner, userData, farewells>>
<1>1. ASSUME Quiet, \A t \in Tcp : tcp'[t] = "free" <=> tcp[t] = "free",
             busy' # None => tcp'[busy'] = "open"
      PROVE  Connections'
  <2>1. \A b \in Browser :
           /\ clientRegistrationStatus'[b] # None => clientRegistrationStatus[b] # None
           /\ retries'[b] > 0 => tcpClient[b] # None
           /\ b \in farewells' => tcpClient[b] # None
           /\ clientConnections[b] = None => pendingMessages'[b] = <<>>
    BY <1>0, <1>1 DEF Connections
  <2> QED BY <1>0, <1>1, <2>1, ConnectionsKept
<1> USE DEF mapVars, socketVars, timerVars, tcpVars
<1>2. ASSUME NEW b \in Browser, NEW n \in Name, Click(b, n) PROVE Connections'
  <2>1. Quiet /\ UNCHANGED <<tcp, busy>>
    BY <1>2 DEF Click
  <2> QED BY <1>0, <1>1, <2>1 DEF Connections
<1>3. ASSUME NEW b \in Browser, NEW type \in Typed, SendMessage(b, type) PROVE Connections'
  <2>1. Quiet /\ UNCHANGED <<tcp, busy>>
    BY <1>3 DEF SendMessage
  <2> QED BY <1>0, <1>1, <2>1 DEF Connections
<1>4. ASSUME NEW b \in Browser, Leave(b) \/ ServerMessage(b) PROVE Connections'
  <2>1. Quiet /\ UNCHANGED <<tcp, busy>>
    BY <1>4 DEF Leave, ServerMessage
  <2> QED BY <1>0, <1>1, <2>1 DEF Connections
<1>5. ASSUME NEW b \in Browser, Register(b) PROVE Connections'
  <2> DEFINE arg == Head(toBridge[b]).arg
  <2>1. arg \in Name
    BY <1>0, <1>5, RegisterArg
  <2>2. PICK t \in Tcp : /\ owner[t] = None
                         /\ owner' = [owner EXCEPT ![t] = b] /\ userData' = [userData EXCEPT ![t] = arg]
                         /\ tcp' = [tcp EXCEPT ![t] = "connecting"]
                         /\ tcpClient' = [tcpClient EXCEPT ![b] = t]
                         /\ clientConnections' = [clientConnections EXCEPT ![b] = t]
    BY <1>5 DEF Register, Save
  <2>3. /\ UNCHANGED <<busy, retries, farewells, pendingMessages>> /\ busy = None
        /\ clientRegistrationStatus' = [clientRegistrationStatus EXCEPT ![b] = "pending"]
    BY <1>5 DEF Register, Event
  <2> HIDE DEF arg
  <2>4. \A s \in Tcp : /\ tcp'[s] # "free" => owner'[s] # None /\ userData'[s] # None
                       /\ owner'[s] = None <=> tcp'[s] = "free"
    BY <1>0, <2>1, <2>2 DEF SocketTypes, Connections
  <2>5. \A s \in Tcp : owner'[s] # None => tcpClient'[owner'[s]] # None
    <3>1. \A c \in Browser : tcpClient'[c] # None <=> (c = b \/ tcpClient[c] # None)
      BY <1>0, <2>2 DEF MapTypes
    <3>2. \A s \in Tcp : owner'[s] # None => owner'[s] = b \/ (owner'[s] = owner[s] /\ owner[s] # None)
      BY <1>0, <2>2 DEF SocketTypes
    <3>3. \A s \in Tcp : owner'[s] \in Browser \cup {None}
      BY <1>0, <2>2 DEF SocketTypes
    <3> QED BY <1>0, <3>1, <3>2, <3>3 DEF Connections
  <2>6. ASSUME NEW c \in Browser
        PROVE  /\ tcpClient'[c] # None => owner'[tcpClient'[c]] = c
               /\ clientConnections'[c] \in {None, tcpClient'[c]}
               /\ (clientRegistrationStatus'[c] # None \/ retries'[c] > 0 \/ c \in farewells') =>
                    tcpClient'[c] # None
               /\ clientConnections'[c] = None =>
                    clientRegistrationStatus'[c] = None /\ pendingMessages'[c] = <<>>
    <3>1. CASE c = b
      BY <1>0, <2>2, <3>1 DEF SocketTypes, MapTypes
    <3>2. CASE c # b
      <4>1. tcpClient[c] # None => tcpClient[c] \in Tcp /\ owner[tcpClient[c]] = c /\ tcpClient[c] # t
        BY <1>0, <2>2 DEF MapTypes, Connections
      <4> QED BY <1>0, <2>2, <2>3, <3>2, <4>1 DEF SocketTypes, MapTypes, Connections
    <3> QED BY <3>1, <3>2
  <2> QED BY <2>3, <2>4, <2>5, <2>6 DEF Connections
<1>6. ASSUME NEW b \in Browser, ClientMessage(b) PROVE Connections'
  <2>1. UNCHANGED <<owner, userData, tcpClient, clientConnections, clientRegistrationStatus, retries,
                    farewells, tcp, busy>>
    BY <1>6 DEF ClientMessage
  <2>2. \/ UNCHANGED pendingMessages
        \/ /\ clientConnections[b] # None
           /\ \E m : pendingMessages' = [pendingMessages EXCEPT ![b] = Append(@, m)]
    <3>1. CASE MayWrite(b)
      BY <1>6, <3>1 DEF ClientMessage
    <3>2. CASE ~MayWrite(b)
      BY <1>6, <3>2 DEF ClientMessage
    <3> QED BY <3>1, <3>2
  <2>3. \A c \in Browser : clientConnections[c] = None => pendingMessages'[c] = <<>>
    BY <1>0, <2>2 DEF Connections, MapTypes
  <2> QED BY <1>0, <2>1, <2>3 DEF Connections
<1>7. ASSUME NEW b \in Browser, Disconnect(b) PROVE Connections'
  <2>1. UNCHANGED <<owner, userData, tcpClient, clientConnections, clientRegistrationStatus, retries,
                    pendingMessages, tcp, busy>>
    BY <1>7 DEF Disconnect
  <2>2. UNCHANGED farewells \/ (clientConnections[b] # None /\ farewells' = farewells \cup {b})
    BY <1>7 DEF Disconnect
  <2>3. \A c \in farewells' : c \in farewells \/ (c = b /\ tcpClient[b] # None)
    BY <1>0, <2>2 DEF Connections
  <2> QED BY <1>0, <2>1, <2>3 DEF Connections
<1>8. ASSUME NEW b \in Browser, Farewell(b) PROVE Connections'
  <2>1. /\ UNCHANGED <<owner, userData, tcpClient, retries, tcp, busy>>
        /\ farewells' = farewells \ {b}
        /\ clientConnections' = [clientConnections EXCEPT ![b] = None]
        /\ clientRegistrationStatus' = [clientRegistrationStatus EXCEPT ![b] = None]
        /\ pendingMessages' = [pendingMessages EXCEPT ![b] = <<>>]
    BY <1>8 DEF Farewell
  <2> QED BY <1>0, <2>1 DEF Connections, MapTypes
<1>9. ASSUME NEW t \in Tcp, tcp[t] # "free", busy = None, busy' = None, Destroy(t),
             \E a : Closed(owner[t], a),
             UNCHANGED <<owner, userData, tcpClient, clientConnections, pendingMessages, farewells>>,
             \A b \in Browser : retries'[b] > 0 => retries[b] > 0 \/ b = owner[t]
      PROVE  Connections'
  <2>1. \A s \in Tcp : tcp'[s] = "free" <=> tcp[s] = "free"
    BY <1>0, <1>9, DestroyTypes
  <2>2. owner[t] \in Browser /\ tcpClient[owner[t]] # None
    BY <1>0, <1>9, OwnerTypes DEF Connections
  <2>3. \A b \in Browser : clientRegistrationStatus'[b] # None => clientRegistrationStatus[b] # None
    <3>1. PICK a : Closed(owner[t], a)
      BY <1>9
    <3> QED BY <1>0, <2>2, <3>1, ClosedStatus
  <2>4. \A b \in Browser : /\ retries'[b] > 0 => tcpClient[b] # None
                           /\ b \in farewells' => tcpClient[b] # None
                           /\ clientConnections[b] = None => pendingMessages'[b] = <<>>
    BY <1>0, <1>9, <2>2 DEF Connections
  <2> QED BY <1>0, <1>9, <2>1, <2>3, <2>4, ConnectionsKept
<1>10. ASSUME NEW b \in Browser, Retry(b) PROVE Connections'
  <2> DEFINE t == tcpClient[b]
  <2>1. t \in Tcp /\ tcp[t] # "free" /\ owner[t] = b /\ busy = None
    BY <1>0, <1>10, RetryCases
  <2>2. \/ Broken(t) /\ UNCHANGED retries
        \/ /\ UNCHANGED <<mapVars, socketVars, owner, userData, farewells, busy>>
           /\ retries' = [retries EXCEPT ![b] = @ - 1]
           /\ UNCHANGED tcp \/ tcp' = [tcp EXCEPT ![t] = "connecting"]
    BY <1>10 DEF Retry
  <2> HIDE DEF t
  <2>3. CASE Broken(t) /\ UNCHANGED retries
    BY <1>9, <2>1, <2>3 DEF Broken
  <2>4. CASE /\ UNCHANGED <<mapVars, socketVars, owner, userData, farewells, busy>>
             /\ retries' = [retries EXCEPT ![b] = @ - 1]
             /\ UNCHANGED tcp \/ tcp' = [tcp EXCEPT ![t] = "connecting"]
    <3>1. \A s \in Tcp : tcp'[s] = "free" <=> tcp[s] = "free"
      BY <1>0, <2>1, <2>4 DEF SocketTypes
    <3>2. \A c \in Browser : retries'[c] > 0 => tcpClient[c] # None
      <4>1. \A c \in Browser : retries'[c] > 0 => retries[c] > 0
        BY <1>0, <2>4 DEF MapTypes
      <4> QED BY <1>0, <4>1 DEF Connections
    <3>3. \A c \in Browser : /\ c \in farewells' => tcpClient[c] # None
                             /\ clientConnections[c] = None => pendingMessages'[c] = <<>>
                             /\ clientRegistrationStatus'[c] = clientRegistrationStatus[c]
      BY <1>0, <2>4 DEF Connections
    <3> QED BY <1>0, <2>1, <2>4, <3>1, <3>2, <3>3, ConnectionsKept
  <2> QED BY <2>2, <2>3, <2>4
<1>11. ASSUME NEW t \in Tcp, Connect(t) PROVE Connections'
  <2>1. Quiet /\ UNCHANGED busy /\ tcp' = [tcp EXCEPT ![t] = "open"] /\ tcp[t] # "free" /\ busy = None
    BY <1>11 DEF Connect, Opened
  <2> QED BY <1>0, <1>1, <2>1 DEF SocketTypes
<1>12. ASSUME NEW t \in Tcp, ConnectEnded(t) PROVE Connections'
  <2> DEFINE w == tcpClient[owner[t]]
  <2>1. /\ UNCHANGED <<owner, userData, tcpClient, clientConnections, pendingMessages, farewells, busy>>
        /\ tcp' = [tcp EXCEPT ![t] = "open", ![w] = "closed"] /\ tcp[t] = "connecting" /\ busy = None
        /\ Closed(owner[t], <<"ERROR">>) /\ retries' = [retries EXCEPT ![owner[t]] = @ + 1]
    BY <1>12 DEF ConnectEnded, Opened, SetTimer
  <2>2. owner[t] \in Browser /\ w \in Tcp /\ tcp[w] # "free"
    <3>1. owner[t] \in Browser /\ w # None
      BY <1>0, <2>1, OwnerTypes DEF Connections
    <3>2. w \in Tcp /\ owner[w] = owner[t] /\ owner[t] # None
      BY <1>0, <3>1 DEF MapTypes, Connections
    <3> QED BY <1>0, <3>1, <3>2 DEF Connections
  <2>3. \A s \in Tcp : tcp'[s] = "free" <=> tcp[s] = "free"
    <3> HIDE DEF w
    <3> QED BY <1>0, <2>1, <2>2 DEF SocketTypes
  <2>4. \A b \in Browser : clientRegistrationStatus'[b] # None => clientRegistrationStatus[b] # None
    BY <1>0, <2>1, <2>2, ClosedStatus
  <2>5. \A b \in Browser : /\ retries'[b] > 0 => tcpClient[b] # None
                           /\ b \in farewells' => tcpClient[b] # None
                           /\ clientConnections[b] = None => pendingMessages'[b] = <<>>
    <3>1. \A b \in Browser : retries'[b] > 0 => retries[b] > 0 \/ b = owner[t]
      BY <1>0, <2>1 DEF MapTypes
    <3> QED BY <1>0, <2>1, <2>2, <3>1 DEF Connections
  <2> QED BY <1>0, <2>1, <2>3, <2>4, <2>5, ConnectionsKept
<1>13. ASSUME NEW t \in Tcp, Close(t) PROVE Connections'
  <2>1. /\ UNCHANGED <<owner, userData, tcpClient, clientConnections, pendingMessages, farewells, retries, busy>>
        /\ tcp[t] # "free" /\ busy = None /\ Destroy(t) /\ Closed(owner[t], <<>>)
    BY <1>13 DEF Close
  <2> QED BY <1>9, <2>1
<1>14. ASSUME NEW t \in Tcp, Error(t) PROVE Connections'
  <2>1. /\ tcp[t] # "free" /\ busy = None /\ Broken(t)
        /\ retries' = [retries EXCEPT ![owner[t]] = @ + 1]
    BY <1>14 DEF Error, SetTimer
  <2>2. \A b \in Browser : retries'[b] > 0 => retries[b] > 0 \/ b = owner[t]
    BY <1>0, <2>1 DEF MapTypes
  <2> QED BY <1>9, <2>1, <2>2 DEF Broken
<1>15. ASSUME NEW t \in Tcp, Data(t) PROVE Connections'
  <2>1. Quiet /\ UNCHANGED tcp /\ busy' = t /\ tcp[t] = "open"
    BY <1>15 DEF Data
  <2> QED BY <1>1, <2>1
<1>16. ASSUME Object PROVE Connections'
  <2>1. owner[busy] \in Browser
    BY <1>0, <1>16, OwnerTypes DEF SocketTypes, Connections, Object
  <2>2. /\ UNCHANGED <<owner, userData, tcpClient, clientConnections, retries, farewells, tcp, busy>>
        /\ UNCHANGED <<clientRegistrationStatus, pendingMessages>> \/ \E m : Process(owner[busy], m)
    BY <1>16 DEF Object
  <2>3. \A b \in Browser : /\ clientRegistrationStatus'[b] # None => clientRegistrationStatus[b] # None
                           /\ pendingMessages[b] = <<>> => pendingMessages'[b] = <<>>
    <3>1. CASE UNCHANGED <<clientRegistrationStatus, pendingMessages>>
      BY <3>1
    <3>2. ASSUME NEW m, Process(owner[busy], m)
          PROVE  \A b \in Browser : /\ clientRegistrationStatus'[b] # None => clientRegistrationStatus[b] # None
                                    /\ pendingMessages[b] = <<>> => pendingMessages'[b] = <<>>
      BY <1>0, <2>1, <3>2, ProcessStatus
    <3> QED BY <2>2, <3>1, <3>2
  <2> QED BY <1>0, <2>2, <2>3 DEF Connections
<1>17. ASSUME EndData PROVE Connections'
  <2>1. Quiet /\ UNCHANGED tcp /\ busy' = None
    BY <1>17 DEF EndData
  <2> QED BY <1>1, <2>1
<1>18. ASSUME NEW t \in Tcp, FromServer(t) PROVE Connections'
  <2>1. Quiet /\ UNCHANGED <<tcp, busy>>
    BY <1>18 DEF FromServer, ServerReads, ServerAnswers, ServerRemoves, OtherSays, ServerEnds
  <2> QED BY <1>0, <1>1, <2>1 DEF Connections
<1>19. CASE UNCHANGED bridgeVars
  <2>1. Quiet /\ UNCHANGED <<tcp, busy>>
    BY <1>19 DEF bridgeVars
  <2> QED BY <1>0, <1>1, <2>1 DEF Connections
<1> QED BY <1>2, <1>3, <1>4, <1>5, <1>6, <1>7, <1>8, <1>10, <1>11, <1>13, <1>14, <1>15, <1>16, <1>17,
           <1>18, <1>19, <1>12 DEF Next, EventLoop, FromServer

-----------------------------------------------------------------------------
(***************************************************************************)
(* Pages that leave.                                                       *)
(***************************************************************************)

\* What is in flight from a page, and what is remembered of it.
Departed(s, gone, saying, saved) ==
  /\ \A i \in DOMAIN s : s[i].event = "disconnect" => gone /\ i = Len(s)
  /\ (gone /\ s # <<>>) => s[Len(s)].event = "disconnect"
  /\ saying => gone /\ s = <<>>
  /\ (gone /\ s = <<>> /\ ~saying) => saved = None

LEMMA LeavingIs ==
  Leaving <=> \A b \in Browser : Departed(toBridge[b], page[b] = "gone", b \in farewells, clientConnections[b])
BY DEF Leaving, Departed, Forgotten

LEMMA LeftEmits ==
  ASSUME NEW s \in Seq(Events), NEW gone, NEW saying, NEW saved, Departed(s, gone, saying, saved), NEW e \in Events
  PROVE  /\ ~gone /\ e.event # "disconnect" => Departed(Append(s, e), FALSE, saying, saved)
         /\ ~gone /\ e.event = "disconnect" => Departed(Append(s, e), TRUE, saying, saved)
<1> DEFINE u == Append(s, e)
<1>1. /\ Len(u) = Len(s) + 1 /\ DOMAIN u = 1 .. Len(s) + 1 /\ DOMAIN s = 1 .. Len(s) /\ Len(s) \in Nat
      /\ u[Len(s) + 1] = e /\ \A i \in 1 .. Len(s) : u[i] = s[i]
      /\ u # <<>>
  OBVIOUS
<1> HIDE DEF u
<1>2. ASSUME ~gone
      PROVE  ~saying /\ \A i \in DOMAIN u : i # Len(u) => u[i].event # "disconnect"
  BY <1>1, <1>2 DEF Departed
<1>3. ASSUME ~gone, e.event # "disconnect" PROVE Departed(u, FALSE, saying, saved)
  <2>1. \A i \in DOMAIN u : u[i].event # "disconnect"
    BY <1>1, <1>2, <1>3
  <2> QED BY <1>2, <1>3, <2>1 DEF Departed
<1>4. ASSUME ~gone, e.event = "disconnect" PROVE Departed(u, TRUE, saying, saved)
  <2>1. u[Len(u)].event = "disconnect" /\ \A i \in DOMAIN u : u[i].event = "disconnect" => i = Len(u)
    BY <1>1, <1>2, <1>4
  <2> QED BY <1>1, <1>2, <1>4, <2>1 DEF Departed
<1> QED BY <1>3, <1>4 DEF u

LEMMA LeftHandled ==
  ASSUME NEW s \in Seq(Events), NEW gone, NEW saying, NEW saved, Departed(s, gone, saying, saved), s # <<>>
  PROVE  /\ ~saying
         /\ Head(s).event # "disconnect" => \A t : Departed(Tail(s), gone, saying, t)
         /\ Head(s).event = "disconnect" => gone /\ Tail(s) = <<>>
<1> DEFINE u == Tail(s)
<1>1. /\ Len(u) = Len(s) - 1 /\ DOMAIN u = 1 .. Len(s) - 1 /\ DOMAIN s = 1 .. Len(s)
      /\ Len(s) \in Nat \ {0}
      /\ \A i \in 1 .. Len(s) - 1 : u[i] = s[i + 1]
      /\ Head(s) = s[1] /\ u \in Seq(Events)
  BY TailInSeq
<1> HIDE DEF u
<1>2. u = <<>> <=> Len(s) = 1
  BY <1>1, EmptySeq
<1>3. ~saying
  BY DEF Departed
<1>4. ASSUME Head(s).event # "disconnect", NEW t PROVE Departed(u, gone, saying, t)
  <2>1. \A i \in DOMAIN u : u[i].event = "disconnect" => gone /\ i = Len(u)
    BY <1>1 DEF Departed
  <2>2. gone => s[Len(s)].event = "disconnect" /\ Len(s) # 1
    BY <1>1, <1>4 DEF Departed
  <2>3. gone => u # <<>> /\ u[Len(u)].event = "disconnect"
    BY <1>1, <2>2
  <2> QED BY <1>3, <2>1, <2>3 DEF Departed
<1>5. ASSUME Head(s).event = "disconnect" PROVE gone /\ u = <<>>
  BY <1>1, <1>5, <1>2 DEF Departed
<1> QED BY <1>3, <1>4, <1>5 DEF u

\* Only these steps have to do with pages that leave.
LEMMA LeavingFrame ==
  ASSUME [Next]_bridgeVars
  PROVE  \/ UNCHANGED <<page, toBridge, farewells, clientConnections>>
         \/ \E b \in Browser :
              \/ \E n \in Name : Click(b, n)
              \/ \E type \in Typed : SendMessage(b, type)
              \/ Leave(b) \/ ServerMessage(b)
              \/ Register(b) \/ ClientMessage(b) \/ Disconnect(b) \/ Farewell(b)
<1> USE DEF pageVars, mapVars, timerVars
<1>1. ASSUME NEW b \in Browser, Retry(b) PROVE UNCHANGED <<page, toBridge, farewells, clientConnections>>
  BY <1>1 DEF Retry, Broken
<1>2. ASSUME NEW t \in Tcp, Connect(t) \/ ConnectEnded(t) \/ Close(t) \/ Data(t) \/ Error(t)
      PROVE  UNCHANGED <<page, toBridge, farewells, clientConnections>>
  BY <1>2 DEF Connect, ConnectEnded, Opened, Close, Data, Error, Broken
<1>3. ASSUME NEW t \in Tcp, FromServer(t)
      PROVE  UNCHANGED <<page, toBridge, farewells, clientConnections>>
  BY <1>3 DEF FromServer, ServerReads, ServerAnswers, ServerRemoves, OtherSays, ServerEnds
<1>4. ASSUME Object \/ EndData \/ UNCHANGED bridgeVars
      PROVE  UNCHANGED <<page, toBridge, farewells, clientConnections>>
  BY <1>4 DEF Object, EndData, bridgeVars
<1> QED BY <1>1, <1>2, <1>3, <1>4 DEF Next, EventLoop, FromServer

LEMMA LeavingStep == ASSUME BridgeInv, [Next]_bridgeVars PROVE Leaving'
<1> USE BridgeConstants
<1>0. PageTypes /\ MapTypes /\ Connections /\ Leaving
  BY DEF BridgeInv
<1> DEFINE L(b) == Departed(toBridge[b], page[b] = "gone", b \in farewells, clientConnections[b])
<1>1. \A b \in Browser : L(b) /\ toBridge[b] \in Seq(Events)
  BY <1>0, LeavingIs DEF PageTypes
<1>2. SUFFICES ASSUME NEW b \in Browser PROVE L(b)'
  BY DEF Leaving, Departed, Forgotten
<1>3. CASE UNCHANGED <<page, toBridge, farewells, clientConnections>>
  BY <1>1, <1>3
<1>4. ASSUME NEW c \in Browser, NEW n \in Name, Click(c, n) PROVE L(b)'
  <2> DEFINE e == [event |-> "register", arg |-> n]
  <2>1. e \in Events /\ e.event # "disconnect"
    BY DEF Events
  <2>2. /\ page' = [page EXCEPT ![c] = "connecting"] /\ toBridge' = [toBridge EXCEPT ![c] = Append(@, e)]
        /\ page[c] # "gone" /\ UNCHANGED <<farewells, clientConnections>>
    BY <1>4 DEF Click, Emit, mapVars, timerVars
  <2> HIDE DEF e
  <2>3. Departed(Append(toBridge[c], e), FALSE, c \in farewells, clientConnections[c])
    BY <1>1, <2>1, <2>2, LeftEmits
  <2>4. toBridge'[c] = Append(toBridge[c], e) /\ page'[c] # "gone"
    BY <1>0, <2>2 DEF PageTypes
  <2>5. b # c => toBridge'[b] = toBridge[b] /\ page'[b] = page[b]
    BY <1>0, <2>2 DEF PageTypes
  <2> QED BY <1>1, <2>2, <2>3, <2>4, <2>5 DEF Departed
<1>5. ASSUME NEW c \in Browser, NEW type \in Typed, SendMessage(c, type) PROVE L(b)'
  <2> DEFINE e == [event |-> "clientMessage", arg |-> type]
  <2>1. e \in Events /\ e.event # "disconnect"
    BY DEF Events
  <2>2. /\ page' = [page EXCEPT ![c] = IF type = "EXIT" THEN "out" ELSE @]
        /\ toBridge' = [toBridge EXCEPT ![c] = Append(@, e)]
        /\ page[c] = "in" /\ UNCHANGED <<farewells, clientConnections>>
    BY <1>5 DEF SendMessage, Emit, mapVars, timerVars
  <2> HIDE DEF e
  <2>3. Departed(Append(toBridge[c], e), FALSE, c \in farewells, clientConnections[c])
    BY <1>1, <2>1, <2>2, LeftEmits
  <2>4. toBridge'[c] = Append(toBridge[c], e) /\ page'[c] # "gone"
    BY <1>0, <2>2 DEF PageTypes
  <2>5. b # c => toBridge'[b] = toBridge[b] /\ page'[b] = page[b]
    BY <1>0, <2>2 DEF PageTypes
  <2> QED BY <1>1, <2>2, <2>3, <2>4, <2>5 DEF Departed
<1>6. ASSUME NEW c \in Browser, Leave(c) PROVE L(b)'
  <2> DEFINE e == [event |-> "disconnect", arg |-> None]
  <2>1. e \in Events /\ e.event = "disconnect"
    BY DEF Events
  <2>2. /\ page' = [page EXCEPT ![c] = "gone"] /\ toBridge' = [toBridge EXCEPT ![c] = Append(@, e)]
        /\ page[c] # "gone" /\ UNCHANGED <<farewells, clientConnections>>
    BY <1>6 DEF Leave, Emit, mapVars, timerVars
  <2> HIDE DEF e
  <2>3. Departed(Append(toBridge[c], e), TRUE, c \in farewells, clientConnections[c])
    BY <1>1, <2>1, <2>2, LeftEmits
  <2>4. toBridge'[c] = Append(toBridge[c], e) /\ page'[c] = "gone"
    BY <1>0, <2>2 DEF PageTypes
  <2>5. b # c => toBridge'[b] = toBridge[b] /\ page'[b] = page[b]
    BY <1>0, <2>2 DEF PageTypes
  <2> QED BY <1>1, <2>2, <2>3, <2>4, <2>5 DEF Departed
<1>7. ASSUME NEW c \in Browser, ServerMessage(c) PROVE L(b)'
  <2>1. UNCHANGED <<toBridge, farewells, clientConnections>>
    BY <1>7 DEF ServerMessage, mapVars, timerVars
  <2>2. page'[b] = "gone" <=> page[b] = "gone"
    BY <1>0, <1>7 DEF PageTypes, ServerMessage
  <2> QED BY <1>1, <2>1, <2>2 DEF Departed
<1>8. ASSUME NEW c \in Browser, NEW event, Event(c, event), event # "disconnect", UNCHANGED <<page, farewells>>,
             b # c => clientConnections'[b] = clientConnections[b]
      PROVE  L(b)'
  <2>1. toBridge' = [toBridge EXCEPT ![c] = Tail(@)] /\ toBridge[c] # <<>> /\ Head(toBridge[c]).event = event
    BY <1>8 DEF Event
  <2>2. \A t : Departed(Tail(toBridge[c]), page[c] = "gone", c \in farewells, t)
    BY <1>1, <1>8, <2>1, LeftHandled
  <2>3. toBridge'[c] = Tail(toBridge[c]) /\ (b # c => toBridge'[b] = toBridge[b])
    BY <1>0, <2>1 DEF PageTypes
  <2> QED BY <1>1, <1>8, <2>2, <2>3
<1>9. ASSUME NEW c \in Browser, Register(c) PROVE L(b)'
  <2>1. Event(c, "register") /\ UNCHANGED <<page, farewells>>
    BY <1>9 DEF Register, pageVars, timerVars
  <2>2. \E t : clientConnections' = [clientConnections EXCEPT ![c] = t]
    BY <1>9 DEF Register, Save
  <2> QED BY <1>0, <1>8, <2>1, <2>2 DEF MapTypes
<1>10. ASSUME NEW c \in Browser, ClientMessage(c) PROVE L(b)'
  <2>1. Event(c, "clientMessage") /\ UNCHANGED <<page, farewells, clientConnections>>
    BY <1>10 DEF ClientMessage, timerVars
  <2> QED BY <1>8, <2>1
<1>11. ASSUME NEW c \in Browser, Disconnect(c) PROVE L(b)'
  <2>1. /\ toBridge' = [toBridge EXCEPT ![c] = Tail(@)] /\ toBridge[c] # <<>>
        /\ Head(toBridge[c]).event = "disconnect" /\ UNCHANGED <<page, clientConnections>>
        /\ farewells' = IF clientConnections[c] = None THEN farewells ELSE farewells \cup {c}
    BY <1>11 DEF Disconnect, Event, pageVars
  <2>2. page[c] = "gone" /\ Tail(toBridge[c]) = <<>> /\ c \notin farewells
    BY <1>1, <2>1, LeftHandled
  <2>3. toBridge'[c] = <<>> /\ (b # c => toBridge'[b] = toBridge[b])
    BY <1>0, <2>1, <2>2 DEF PageTypes
  <2>4. CASE b = c
    BY <2>1, <2>2, <2>3, <2>4 DEF Departed
  <2>5. CASE b # c
    BY <1>1, <2>1, <2>3, <2>5
  <2> QED BY <2>4, <2>5
<1>12. ASSUME NEW c \in Browser, Farewell(c) PROVE L(b)'
  <2>1. /\ UNCHANGED <<page, toBridge>> /\ c \in farewells /\ farewells' = farewells \ {c}
        /\ clientConnections' = [clientConnections EXCEPT ![c] = None]
    BY <1>12 DEF Farewell, pageVars
  <2>2. b # c => clientConnections'[b] = clientConnections[b]
    BY <1>0, <2>1 DEF MapTypes
  <2>3. clientConnections'[c] = None
    BY <1>0, <2>1 DEF MapTypes
  <2>4. CASE b = c
    BY <1>1, <2>1, <2>3, <2>4 DEF Departed
  <2>5. CASE b # c
    BY <1>1, <2>1, <2>2, <2>5
  <2> QED BY <2>4, <2>5
<1> QED BY <1>3, <1>4, <1>5, <1>6, <1>7, <1>9, <1>10, <1>11, <1>12, LeavingFrame

-----------------------------------------------------------------------------
(***************************************************************************)
(* What is written first.                                                  *)
(***************************************************************************)

LEMMA EndingsStep == ASSUME BridgeInv, [Next]_bridgeVars PROVE Endings'
<1> USE BridgeConstants
<1>0. PageTypes /\ MapTypes /\ Leaving /\ Endings
  BY DEF BridgeInv
<1>1. \A b \in Browser : page[b] = "gone" => page'[b] = "gone"
  BY <1>0, GoneStays
<1>2. ASSUME UNCHANGED <<clientConnections, tcpClient>> PROVE Endings'
  BY <1>0, <1>1, <1>2 DEF Endings, Ended
<1>3. CASE UNCHANGED <<mapVars, socketVars, timerVars>>
  BY <1>2, <1>3 DEF mapVars, socketVars
<1>4. ASSUME NEW b \in Browser, Register(b) PROVE Endings'
  <2>1. PICK t \in Tcp : tcpClient' = [tcpClient EXCEPT ![b] = t] /\ Save(b, t)
    BY <1>4 DEF Register
  <2> QED BY <1>0, <1>1, <2>1 DEF Endings, Ended, Save, MapTypes
<1>5. ASSUME NEW b \in Browser, Farewell(b) PROVE Endings'
  <2>1. /\ UNCHANGED tcpClient /\ page[b] = "gone"
        /\ clientConnections' = [clientConnections EXCEPT ![b] = None]
    BY <1>0, <1>5 DEF Farewell, Leaving, socketVars
  <2> QED BY <1>0, <1>1, <2>1 DEF Endings, Ended, MapTypes
<1>6. ASSUME NEW b \in Browser, ClientMessage(b) \/ Disconnect(b) \/ Retry(b) PROVE Endings'
  BY <1>2, <1>6 DEF ClientMessage, Disconnect, Retry, Broken, mapVars, socketVars
<1>7. ASSUME NEW t \in Tcp, Connect(t) \/ ConnectEnded(t) \/ Close(t) \/ Error(t) PROVE Endings'
  BY <1>2, <1>7 DEF Connect, ConnectEnded, Opened, Close, Error, Broken, socketVars
<1>8. ASSUME Object PROVE Endings'
  BY <1>2, <1>8 DEF Object, socketVars
<1> QED BY <1>3, <1>4, <1>5, <1>6, <1>7, <1>8, MapFrame

\* Steps that open no connection: whatever is written on one was preceded by
\* something, or the connection is set aside.
LEMMA OpeningsKept ==
  ASSUME SocketTypes, Connections, Openings, RegistroFirst,
         UNCHANGED <<owner, tcpClient, listening>>, misled \subseteq misled',
         \A b \in Browser : page[b] = "gone" => page'[b] = "gone",
         first' = [s \in Tcp |-> first'[s]],
         \A s \in Tcp :
           /\ tcp'[s] = "free" <=> tcp[s] = "free"
           /\ tcp'[s] = "open" => tcp[s] = "open"
           /\ \/ first'[s] = first[s]
              \/ tcp[s] = "open" /\ first[s] = None /\ first'[s] # None /\ Excused(s)'
           /\ up'[s] # <<>> => first'[s] # None
           /\ tcp[s] = "free" => deferred'[s] = deferred[s]
           /\ deferred'[s] # <<>> => \/ deferred[s] # <<>> /\ Head(deferred'[s]) = Head(deferred[s])
                                     \/ first'[s] # None \/ Excused(s)',
         \A b \in Browser, s \in Tcp :
           (clientRegistrationStatus'[b] = "registered" /\ s = tcpClient[b]) =>
             clientRegistrationStatus[b] = "registered" \/ first'[s] # None \/ Excused(s)'
  PROVE  Openings' /\ RegistroFirst'
<1>1. \A s \in Tcp : owner[s] # None => owner[s] \in Browser
  BY DEF SocketTypes
<1>2. \A s \in Tcp : tcp[s] # "free" => (Excused(s) => Excused(s)')
  BY <1>1 DEF Excused, Connections
<1>3. \A s \in Tcp : tcp[s] = "free" => first'[s] = None /\ deferred'[s] = <<>>
  BY DEF Openings
<1>4. \A s \in Tcp : first[s] # None => first'[s] # None
  OBVIOUS
<1>5. ASSUME NEW s \in Tcp
      PROVE  /\ listening'[s] => first'[s] = None /\ tcp'[s] # "open"
             /\ tcp'[s] = "free" => first'[s] = None /\ deferred'[s] = <<>>
             /\ up'[s] # <<>> => first'[s] # None
             /\ (tcp'[s] # "free" /\ ~listening'[s] /\ tcpClient'[owner'[s]] = s) =>
                  first'[s] # None \/ page'[owner'[s]] = "gone"
             /\ deferred'[s] # <<>> =>
                  Head(deferred'[s]).type = "REGISTRO" \/ first'[s] # None \/ Excused(s)'
  <2>1. listening'[s] => first'[s] = None /\ tcp'[s] # "open"
    BY DEF Openings
  <2>2. (tcp'[s] # "free" /\ ~listening'[s] /\ tcpClient'[owner'[s]] = s) =>
           first'[s] # None \/ page'[owner'[s]] = "gone"
    <3>1. (tcp[s] # "free" /\ ~listening[s] /\ tcpClient[owner[s]] = s) =>
             first[s] # None \/ page[owner[s]] = "gone"
      BY DEF Openings
    <3>2. tcp[s] # "free" => owner[s] \in Browser
      BY <1>1 DEF Connections
    <3> QED BY <1>4, <3>1, <3>2
  <2>3. deferred'[s] # <<>> =>
           Head(deferred'[s]).type = "REGISTRO" \/ first'[s] # None \/ Excused(s)'
    <3>1. deferred[s] # <<>> => Head(deferred[s]).type = "REGISTRO" \/ first[s] # None \/ Excused(s)
      BY DEF Openings
    <3> QED BY <1>2, <1>3, <1>4, <3>1
  <2> QED BY <1>3, <2>1, <2>2, <2>3
<1>6. ASSUME NEW b \in Browser, NEW u \in Tcp, clientRegistrationStatus'[b] = "registered",
             u = tcpClient'[b]
      PROVE  first'[u] # None \/ Excused(u)'
  <2>0. u = tcpClient[b]
    BY <1>6
  <2>1. CASE clientRegistrationStatus[b] = "registered"
    <3>1. first[u] # None \/ Excused(u)
      BY <2>0, <2>1 DEF Openings
    <3>2. owner[u] = b
      BY <2>0, BridgeConstants DEF Connections
    <3>3. tcp[u] # "free"
      BY <3>2, BridgeConstants DEF Connections
    <3> QED BY <1>2, <1>4, <3>1, <3>3
  <2>2. CASE clientRegistrationStatus[b] # "registered"
    BY <1>6, <2>0, <2>2
  <2> QED BY <2>1, <2>2
<1>7. Openings'
  BY <1>5, <1>6 DEF Openings
<1>8. ASSUME NEW s \in Tcp
      PROVE  first'[s] \in {None, "REGISTRO"} \/ page'[owner'[s]] = "gone" \/ s \in misled'
  <2>1. first[s] \in {None, "REGISTRO"} \/ Excused(s)
    BY DEF RegistroFirst, Excused
  <2>2. first'[s] = first[s] \/ Excused(s)'
    OBVIOUS
  <2>3. first[s] \in {None, "REGISTRO"} \/ tcp[s] # "free"
    BY DEF Openings
  <2>4. first'[s] \in {None, "REGISTRO"} \/ Excused(s)'
    BY <1>2, <2>1, <2>2, <2>3
  <2> QED BY <2>4 DEF Excused
<1> QED BY <1>7, <1>8 DEF RegistroFirst

LEMMA HeadOfBoth ==
  ASSUME NEW S, NEW s \in Seq(S), NEW u \in Seq(S)
  PROVE  /\ s \o <<>> = s /\ <<>> \o u = u
         /\ s # <<>> => s \o u # <<>> /\ Head(s \o u) = Head(s)
<1>1. s \o <<>> = s /\ <<>> \o u = u
  BY ConcatEmptySeq
<1>2. ASSUME s # <<>> PROVE s \o u # <<>> /\ Head(s \o u) = Head(s)
  <2> DEFINE v == s \o u
  <2>1. v \in Seq(S) /\ Len(v) = Len(s) + Len(u) /\ Len(s) \in Nat \ {0} /\ Len(u) \in Nat
    <3>1. Len(s) \in Nat \ {0} /\ Len(u) \in Nat
      BY <1>2, TailInSeq
    <3> QED BY <3>1, ConcatProperties
  <2>2. v[1] = s[1]
    <3>1. 1 \in 1 .. Len(s) + Len(u) /\ 1 <= Len(s)
      BY <2>1
    <3> QED BY <3>1, ConcatProperties
  <2> HIDE DEF v
  <2>3. v # <<>>
    BY <2>1
  <2>4. Head(v) = v[1] /\ Head(s) = s[1]
    BY <1>2, <2>1, <2>3, TailInSeq
  <2> QED BY <2>2, <2>3, <2>4 DEF v
<1> QED BY <1>1, <1>2

LEMMA TypeIsNotNone == \A r \in Request : r.type # None
BY BridgeAssumption DEF Request, Typed

\* Something is written on a connection.
LEMMA WriteOpenings ==
  ASSUME SocketTypes, StreamTypes, Openings, NEW t \in Tcp, NEW r \in Seq(Request), Write(t, r),
         UNCHANGED <<owner, tcp>>,
         (tcp[t] # "free" /\ r # <<>>) => first[t] # None \/ Excused(t)'
  PROVE  /\ first' = [s \in Tcp |-> first'[s]]
         /\ \A s \in Tcp :
              /\ \/ first'[s] = first[s]
                 \/ tcp[s] = "open" /\ first[s] = None /\ first'[s] # None /\ Excused(s)'
              /\ up'[s] # <<>> => first'[s] # None
              /\ tcp[s] = "free" => deferred'[s] = deferred[s]
              /\ deferred'[s] # <<>> => \/ deferred[s] # <<>> /\ Head(deferred'[s]) = Head(deferred[s])
                                        \/ first'[s] # None \/ Excused(s)'
<1> USE BridgeConstants
<1>1. r # <<>> => Head(r).type # None
  <2>1. r # <<>> => Head(r) \in Request
    BY TailInSeq
  <2> QED BY <2>1, TypeIsNotNone
<1>2. /\ deferred' = [deferred EXCEPT ![t] = IF tcp[t] = "connecting" THEN deferred[t] \o r ELSE deferred[t]]
      /\ up' = [up EXCEPT ![t] = IF tcp[t] = "open" THEN up[t] \o r ELSE up[t]]
      /\ first' = [first EXCEPT ![t] = IF tcp[t] = "open" /\ first[t] = None /\ r # <<>>
                                       THEN Head(r).type ELSE first[t]]
  BY DEF Write
<1>3. first = [s \in Tcp |-> first[s]]
  BY DEF Openings
<1>4. first' = [s \in Tcp |-> first'[s]]
  BY <1>2, <1>3
<1>5. first'[t] = IF tcp[t] = "open" /\ first[t] = None /\ r # <<>> THEN Head(r).type ELSE first[t]
  BY <1>2, <1>3
<1>6. \A s \in Tcp \ {t} : first'[s] = first[s] /\ up'[s] = up[s] /\ deferred'[s] = deferred[s]
  BY <1>2, <1>3 DEF StreamTypes
<1>7. /\ deferred'[t] = IF tcp[t] = "connecting" THEN deferred[t] \o r ELSE deferred[t]
      /\ up'[t] = IF tcp[t] = "open" THEN up[t] \o r ELSE up[t]
  BY <1>2 DEF StreamTypes
<1>8. r = <<>> => deferred'[t] = deferred[t] /\ up'[t] = up[t]
  <2>1. deferred[t] \o <<>> = deferred[t] /\ up[t] \o <<>> = up[t]
    BY ConcatEmptySeq DEF StreamTypes
  <2> QED BY <1>7, <2>1, Zenon
<1>9. up[t] # <<>> => first[t] # None
  BY DEF Openings
<1>10. first[t] # None => first'[t] = first[t]
  BY <1>5
<1>11. /\ \/ first'[t] = first[t]
          \/ tcp[t] = "open" /\ first[t] = None /\ first'[t] # None /\ Excused(t)'
       /\ up'[t] # <<>> => first'[t] # None
       /\ tcp[t] = "free" => deferred'[t] = deferred[t]
       /\ deferred'[t] # <<>> => \/ deferred[t] # <<>> /\ Head(deferred'[t]) = Head(deferred[t])
                                 \/ first'[t] # None \/ Excused(t)'
  <2>1. CASE r = <<>>
    BY <1>5, <1>8, <1>9, <2>1
  <2>2. CASE r # <<>>
    BY <1>1, <1>5, <1>7, <1>9, <1>10, <2>2
  <2> QED BY <2>1, <2>2
<1>12. \A s \in Tcp : up[s] # <<>> => first[s] # None
  BY DEF Openings
<1> QED BY <1>4, <1>6, <1>11, <1>12

LEMMA OpeningsStep == ASSUME BridgeInv, [Next]_bridgeVars PROVE Openings' /\ RegistroFirst'
<1> USE BridgeConstants
<1>0. /\ PageTypes /\ MapTypes /\ SocketTypes /\ StreamTypes /\ Connections /\ Openings /\ RegistroFirst
      /\ Leaving /\ Endings /\ FateTypes
  BY DEF BridgeInv
<1> DEFINE s == clientRegistrationStatus
<1>a. \A b \in Browser : page[b] = "gone" => page'[b] = "gone"
  BY <1>0, GoneStays
<1>c. /\ first = [t \in Tcp |-> first[t]]
      /\ \A t \in Tcp : up[t] # <<>> => first[t] # None
  BY <1>0 DEF Openings
<1>d. StreamTypes'
  BY StreamStep
<1>1. ASSUME UNCHANGED <<owner, tcpClient, listening, misled, first, tcp, deferred>>,
             \A t \in Tcp : up'[t] # <<>> => up[t] # <<>>,
             \A b \in Browser : s'[b] = "registered" => s[b] = "registered"
      PROVE  Openings' /\ RegistroFirst'
  <2> HIDE DEF s
  <2>1. \A t \in Tcp : up'[t] # <<>> => first'[t] # None
    BY <1>1, <1>c
  <2>2. first' = [t \in Tcp |-> first'[t]]
    BY <1>1, <1>c
  <2> QED BY <1>0, <1>1, <1>a, <2>1, <2>2, OpeningsKept DEF s
<1>2. ASSUME NEW t \in Tcp, NEW r \in Seq(Request), Write(t, r),
             UNCHANGED <<owner, tcpClient, listening, tcp>>, misled \subseteq misled',
             (tcp[t] # "free" /\ r # <<>>) => first[t] # None \/ Excused(t)',
             \A b \in Browser, u \in Tcp : (s'[b] = "registered" /\ u = tcpClient[b]) =>
               s[b] = "registered" \/ first[u] # None \/ Excused(u)'
      PROVE  Openings' /\ RegistroFirst'
  <2> HIDE DEF s
  <2>1. /\ first' = [u \in Tcp |-> first'[u]]
        /\ \A u \in Tcp :
             /\ \/ first'[u] = first[u]
                \/ tcp[u] = "open" /\ first[u] = None /\ first'[u] # None /\ Excused(u)'
             /\ up'[u] # <<>> => first'[u] # None
             /\ tcp[u] = "free" => deferred'[u] = deferred[u]
             /\ deferred'[u] # <<>> => \/ deferred[u] # <<>> /\ Head(deferred'[u]) = Head(deferred[u])
                                       \/ first'[u] # None \/ Excused(u)'
    BY <1>0, <1>2, WriteOpenings
  <2>2. \A b \in Browser, u \in Tcp : (s'[b] = "registered" /\ u = tcpClient[b]) =>
          s[b] = "registered" \/ first'[u] # None \/ Excused(u)'
    <3>1. \A u \in Tcp : first[u] # None => first'[u] # None
      BY <2>1
    <3> QED BY <1>2, <3>1
  <2> QED BY <1>0, <1>2, <1>a, <2>1, <2>2, OpeningsKept DEF s
<1>3. ASSUME NEW t \in Tcp, Destroy(t), tcp[t] # "free",
             UNCHANGED <<owner, tcpClient, listening, misled, first>>,
             \A b \in Browser : s'[b] = "registered" => s[b] = "registered"
      PROVE  Openings' /\ RegistroFirst'
  <2> HIDE DEF s
  <2>1. \A u \in Tcp : /\ tcp'[u] = "free" <=> tcp[u] = "free"
                       /\ tcp'[u] = "open" => tcp[u] = "open"
                       /\ up'[u] # <<>> => up[u] # <<>>
                       /\ deferred'[u] = deferred[u] \/ (deferred'[u] = <<>> /\ tcp[u] # "free")
    BY <1>0, <1>3 DEF Destroy, SocketTypes, StreamTypes
  <2>2. first' = [u \in Tcp |-> first'[u]] /\ \A u \in Tcp : up'[u] # <<>> => first'[u] # None
    BY <1>3, <1>c, <2>1
  <2> QED BY <1>0, <1>3, <1>a, <2>1, <2>2, OpeningsKept DEF s
<1> USE DEF mapVars, socketVars, timerVars, tcpVars
<1>4. ASSUME NEW b \in Browser, NEW n \in Name, Click(b, n) PROVE Openings' /\ RegistroFirst'
  BY <1>1, <1>4 DEF Click
<1>5. ASSUME NEW b \in Browser, NEW type \in Typed, SendMessage(b, type)
      PROVE  Openings' /\ RegistroFirst'
  BY <1>1, <1>5 DEF SendMessage
<1>6. ASSUME NEW b \in Browser, Leave(b) \/ ServerMessage(b) PROVE Openings' /\ RegistroFirst'
  BY <1>1, <1>6 DEF Leave, ServerMessage
<1>7. ASSUME NEW t \in Tcp, Data(t) \/ FromServer(t) PROVE Openings' /\ RegistroFirst'
  <2>1. CASE ServerReads(t)
    <3>1. UNCHANGED <<owner, tcpClient, listening, misled, first, tcp, deferred, s>>
      BY <2>1 DEF ServerReads
    <3>2. \A u \in Tcp : up'[u] # <<>> => up[u] # <<>>
      <4>1. PICK k \in 1 .. Len(up[t]) : up' = [up EXCEPT ![t] = SubSeq(@, k + 1, Len(@))]
        BY <2>1 DEF ServerReads
      <4>2. up[t] # <<>>
        BY <1>0, <4>1, EmptySeq DEF StreamTypes
      <4> QED BY <1>0, <4>1, <4>2 DEF StreamTypes
    <3> QED BY <1>1, <3>1, <3>2
  <2>2. CASE Data(t) \/ ServerAnswers(t) \/ ServerRemoves(t) \/ OtherSays(t) \/ ServerEnds(t)
    BY <1>1, <2>2 DEF Data, ServerAnswers, ServerRemoves, OtherSays, ServerEnds
  <2> QED BY <1>7, <2>1, <2>2 DEF FromServer
<1>8. ASSUME EndData \/ UNCHANGED bridgeVars PROVE Openings' /\ RegistroFirst'
  BY <1>1, <1>8 DEF EndData, bridgeVars
<1>9. ASSUME NEW b \in Browser, Register(b) PROVE Openings' /\ RegistroFirst'
  <2>1. PICK t \in Tcp : /\ owner[t] = None /\ owner' = [owner EXCEPT ![t] = b]
                         /\ tcp' = [tcp EXCEPT ![t] = "connecting"]
                         /\ listening' = [listening EXCEPT ![t] = TRUE]
                         /\ tcpClient' = [tcpClient EXCEPT ![b] = t]
    BY <1>9 DEF Register
  <2>2. UNCHANGED <<first, up, deferred, misled, page>> /\ s' = [s EXCEPT ![b] = "pending"]
    BY <1>9 DEF Register, pageVars
  <2>3. tcp[t] = "free" /\ first[t] = None /\ deferred[t] = <<>> /\ up[t] = <<>>
    BY <1>0, <2>1 DEF Connections, Openings
  <2>4. ASSUME NEW u \in Tcp, u # t
        PROVE  /\ listening'[u] => first'[u] = None /\ tcp'[u] # "open"
               /\ tcp'[u] = "free" => first'[u] = None /\ deferred'[u] = <<>>
               /\ up'[u] # <<>> => first'[u] # None
               /\ (tcp'[u] # "free" /\ ~listening'[u] /\ tcpClient'[owner'[u]] = u) =>
                    first'[u] # None \/ page'[owner'[u]] = "gone"
               /\ deferred'[u] # <<>> =>
                    Head(deferred'[u]).type = "REGISTRO" \/ first'[u] # None \/ Excused(u)'
    <3>1. owner'[u] = owner[u] /\ tcp'[u] = tcp[u] /\ listening'[u] = listening[u]
      BY <1>0, <2>1, <2>4 DEF SocketTypes
    <3>2. tcpClient'[owner[u]] = u /\ tcp[u] # "free" => tcpClient[owner[u]] = u
      <4>1. tcp[u] # "free" => owner[u] \in Browser
        BY <1>0, OwnerTypes
      <4> QED BY <1>0, <2>1, <2>4, <4>1 DEF MapTypes
    <3> QED BY <1>0, <2>2, <3>1, <3>2 DEF Openings, Excused
  <2>5. /\ listening'[t] => first'[t] = None /\ tcp'[t] # "open"
        /\ tcp'[t] = "connecting" /\ up'[t] = <<>> /\ listening'[t] /\ deferred'[t] = <<>>
    BY <1>0, <2>1, <2>2, <2>3 DEF SocketTypes
  <2>6. ASSUME NEW c \in Browser, NEW u \in Tcp, s'[c] = "registered", u = tcpClient'[c]
        PROVE  first'[u] # None \/ Excused(u)'
    <3>1. c # b /\ s[c] = "registered" /\ u = tcpClient[c]
      BY <1>0, <2>1, <2>2, <2>6 DEF MapTypes
    <3>2. u # t /\ owner'[u] = owner[u]
      <4>1. owner[u] = c
        BY <1>0, <3>1 DEF Connections
      <4> QED BY <1>0, <2>1, <3>1, <4>1 DEF SocketTypes
    <3>3. first[u] # None \/ Excused(u)
      BY <1>0, <3>1 DEF Openings
    <3> QED BY <2>2, <3>2, <3>3 DEF Excused
  <2>7. Openings'
    <3>1. first' = [u \in Tcp |-> first'[u]]
      BY <1>c, <2>2
    <3> HIDE DEF s
    <3> QED BY <2>4, <2>5, <2>6, <3>1 DEF Openings, s
  <2>8. RegistroFirst'
    <3>1. ASSUME NEW u \in Tcp
          PROVE  first'[u] \in {None, "REGISTRO"} \/ page'[owner'[u]] = "gone" \/ u \in misled'
      <4>1. u # t => owner'[u] = owner[u]
        BY <1>0, <2>1 DEF SocketTypes
      <4> QED BY <1>0, <2>2, <2>3, <4>1 DEF RegistroFirst
    <3> QED BY <3>1 DEF RegistroFirst
  <2> QED BY <2>7, <2>8
<1>10. ASSUME NEW b \in Browser, ClientMessage(b) PROVE Openings' /\ RegistroFirst'
  <2> DEFINE m == [type |-> Head(toBridge[b]).arg, id |-> asked[b] + 1, name |-> username[b]]
  <2>1. UNCHANGED <<owner, tcpClient, listening, misled, tcp, s>>
    BY <1>10 DEF ClientMessage
  <2>2. CASE MayWrite(b)
    <3>1. Write(clientConnections[b], <<m>>)
      BY <1>10, <2>2 DEF ClientMessage
    <3>2. m \in Request
      BY <1>0, <1>10, MessageArg DEF Request, FateTypes, MapTypes
    <3> HIDE DEF m
    <3>3. <<m>> \in Seq(Request)
      BY <3>2
    <3>4. clientConnections[b] \in Tcp /\ clientConnections[b] = tcpClient[b] /\ s[b] = "registered"
      BY <1>0, <2>2 DEF MayWrite, MapTypes, Connections
    <3>5. PICK t \in Tcp : t = clientConnections[b]
      BY <3>4
    <3>6. first[t] # None \/ Excused(t)
      BY <1>0, <3>4, <3>5 DEF Openings
    <3>7. Excused(t) => Excused(t)'
      <4>1. UNCHANGED page
        BY <1>10 DEF ClientMessage
      <4> QED BY <2>1, <4>1 DEF Excused
    <3> HIDE DEF s
    <3> QED BY <1>2, <2>1, <3>1, <3>3, <3>5, <3>6, <3>7
  <2>3. CASE ~MayWrite(b)
    <3>1. UNCHANGED <<first, deferred, up>>
      BY <1>10, <2>3 DEF ClientMessage
    <3> HIDE DEF s
    <3> QED BY <1>1, <2>1, <3>1
  <2> QED BY <2>2, <2>3
\* A page that has left is set aside, whatever is written for it.
<1>11. ASSUME NEW b \in Browser, page[b] = "gone", NEW t \in Tcp, owner[t] = b,
              NEW r \in Seq(Request), Write(t, r),
              UNCHANGED <<owner, tcpClient, listening, tcp, misled>>,
              \A c \in Browser : s'[c] = "registered" => s[c] = "registered"
       PROVE  Openings' /\ RegistroFirst'
  <2>1. Excused(t)'
    BY <1>11, <1>a DEF Excused
  <2> HIDE DEF s
  <2> QED BY <1>2, <1>11, <2>1
<1>12. ASSUME NEW b \in Browser, Disconnect(b) PROVE Openings' /\ RegistroFirst'
  <2>1. UNCHANGED <<owner, tcpClient, listening, misled, tcp, s>>
    BY <1>12 DEF Disconnect
  <2>2. page[b] = "gone"
    <3>1. toBridge[b] \in Seq(Events) /\ toBridge[b] # <<>> /\ Head(toBridge[b]).event = "disconnect"
      BY <1>0, <1>12 DEF Disconnect, Event, PageTypes
    <3>2. Head(toBridge[b]) = toBridge[b][1] /\ 1 \in DOMAIN toBridge[b]
      BY <3>1, TailInSeq
    <3> QED BY <1>0, <3>1, <3>2 DEF Leaving
  <2>3. CASE clientConnections[b] = None
    <3>1. UNCHANGED <<first, deferred, up>>
      BY <1>12, <2>3 DEF Disconnect
    <3> HIDE DEF s
    <3> QED BY <1>1, <2>1, <3>1
  <2>4. CASE clientConnections[b] # None
    <3>1. Write(clientConnections[b], <<Own("EXIT", username[b])>>)
      BY <1>12, <2>4 DEF Disconnect
    <3>2. clientConnections[b] \in Tcp /\ owner[clientConnections[b]] = b
      BY <1>0, <2>4 DEF MapTypes, Connections
    <3>3. <<Own("EXIT", username[b])>> \in Seq(Request)
      BY <1>0, OwnTypes DEF MapTypes, Typed
    <3> HIDE DEF s
    <3> QED BY <1>11, <2>1, <2>2, <3>1, <3>2, <3>3
  <2> QED BY <2>3, <2>4
<1>13. ASSUME NEW b \in Browser, Farewell(b) PROVE Openings' /\ RegistroFirst'
  <2>1. /\ UNCHANGED <<owner, tcpClient, listening, misled, tcp>>
        /\ Write(tcpClient[b], <<Own("FIN", None)>>) /\ b \in farewells
        /\ s' = [s EXCEPT ![b] = None]
    BY <1>13 DEF Farewell
  <2>2. page[b] = "gone" /\ tcpClient[b] \in Tcp /\ owner[tcpClient[b]] = b
    BY <1>0, <2>1 DEF Leaving, MapTypes, Connections
  <2>3. <<Own("FIN", None)>> \in Seq(Request)
    BY OwnTypes
  <2>4. \A c \in Browser : s'[c] = "registered" => s[c] = "registered"
    BY <1>0, <2>1 DEF MapTypes
  <2> HIDE DEF s
  <2> QED BY <1>11, <2>1, <2>2, <2>3, <2>4
<1>14. ASSUME NEW t \in Tcp, tcp[t] # "free", Broken(t) \/ Close(t) PROVE Openings' /\ RegistroFirst'
  <2>1. Destroy(t) /\ UNCHANGED <<owner, tcpClient, listening, misled, first>>
    BY <1>14 DEF Broken, Close
  <2>2. owner[t] \in Browser /\ \E a : Closed(owner[t], a)
    BY <1>0, <1>14, OwnerTypes DEF Broken, Close
  <2>3. \A b \in Browser : s'[b] = "registered" => s[b] = "registered"
    BY <1>0, <2>2, ClosedStatus
  <2> HIDE DEF s
  <2> QED BY <1>3, <1>14, <2>1, <2>3
<1>15. ASSUME NEW t \in Tcp, Error(t) \/ Close(t) PROVE Openings' /\ RegistroFirst'
  BY <1>14, <1>15 DEF Error, Close
<1>16. ASSUME NEW b \in Browser, Retry(b) PROVE Openings' /\ RegistroFirst'
  <2> DEFINE t == tcpClient[b]
  <2>1. /\ t \in Tcp /\ tcp[t] # "free"
        /\ \/ /\ tcp[t] = "closed" /\ tcp' = [tcp EXCEPT ![t] = "connecting"]
              /\ UNCHANGED <<owner, tcpClient, listening, misled, first, up, deferred, s>>
           \/ Broken(t)
           \/ UNCHANGED <<owner, tcpClient, listening, misled, first, up, deferred, tcp, s>>
    BY <1>0, <1>16, RetryCases
  <2> HIDE DEF t, s
  <2>2. CASE /\ tcp[t] = "closed" /\ tcp' = [tcp EXCEPT ![t] = "connecting"]
             /\ UNCHANGED <<owner, tcpClient, listening, misled, first, up, deferred, s>>
    <3>1. \A u \in Tcp : /\ tcp'[u] = "free" <=> tcp[u] = "free"
                         /\ tcp'[u] = "open" => tcp[u] = "open"
      BY <1>0, <2>2 DEF SocketTypes
    <3>2. first' = [u \in Tcp |-> first'[u]] /\ \A u \in Tcp : up'[u] # <<>> => first'[u] # None
      BY <2>2, <1>c
    <3> QED BY <1>0, <2>2, <1>a, <3>1, <3>2, OpeningsKept DEF s
  <2> QED BY <1>1, <1>14, <2>1, <2>2
<1>17. ASSUME Object PROVE Openings' /\ RegistroFirst'
  <2>0. busy \in Tcp /\ tcp[busy] = "open" /\ owner[busy] \in Browser
    BY <1>0, <1>17, OwnerTypes DEF Object, SocketTypes, Connections
  <2>1. PICK b \in Browser : b = owner[busy]
    BY <2>0
  <2>2. tcpClient[b] # None /\ tcpClient[b] \in Tcp /\ owner[tcpClient[b]] = b
    BY <1>0, <2>0, <2>1 DEF Connections, MapTypes
  <2>6. PICK w \in Tcp : w = tcpClient[b]
    BY <2>2
  <2>7. PICK q \in Seq(Request) : q = pendingMessages[b]
    BY <1>0 DEF MapTypes
  <2>8. UNCHANGED <<owner, tcpClient, listening, tcp, page>>
    BY <1>17 DEF Object
  <2>3. \/ /\ Write(w, q) /\ s' = [s EXCEPT ![b] = "registered"]
           /\ misled' = IF busy = w THEN misled ELSE misled \cup {w}
        \/ /\ UNCHANGED <<first, deferred, up, misled>>
           /\ UNCHANGED s \/ s' = [s EXCEPT ![b] = "failed"]
    <3>1. UNCHANGED <<first, deferred, up, misled, s>> \/ \E m : Process(b, m)
      BY <1>17, <2>1 DEF Object
    <3> QED BY <2>6, <2>7, <3>1 DEF Process, Flush
  <2>4. CASE /\ Write(w, q) /\ s' = [s EXCEPT ![b] = "registered"]
             /\ misled' = IF busy = w THEN misled ELSE misled \cup {w}
    <3>1. first[w] # None \/ Excused(w)'
      <4>1. CASE busy = w
        <5>1. tcp[w] = "open" /\ ~listening[w] /\ tcpClient[owner[w]] = w
          BY <1>0, <2>0, <2>1, <2>6, <4>1 DEF Openings
        <5>2. first[w] # None \/ page[owner[w]] = "gone"
          BY <1>0, <5>1 DEF Openings
        <5> QED BY <2>8, <5>2 DEF Excused
      <4>2. CASE busy # w
        BY <2>4, <4>2 DEF Excused
      <4> QED BY <4>1, <4>2
    <3>2. ASSUME NEW c \in Browser, NEW u \in Tcp, s'[c] = "registered", u = tcpClient[c]
          PROVE  s[c] = "registered" \/ first[u] # None \/ Excused(u)'
      <4>1. c = b \/ s'[c] = s[c]
        BY <1>0, <2>4 DEF MapTypes
      <4> QED BY <2>6, <3>1, <3>2, <4>1
    <3>3. misled \subseteq misled'
      BY <2>4
    <3> HIDE DEF s
    <3> QED BY <1>2, <2>4, <2>8, <3>1, <3>2, <3>3
  <2>5. CASE /\ UNCHANGED <<first, deferred, up, misled>>
             /\ UNCHANGED s \/ s' = [s EXCEPT ![b] = "failed"]
    <3>1. \A c \in Browser : s'[c] = "registered" => s[c] = "registered"
      BY <1>0, <2>5 DEF MapTypes
    <3> HIDE DEF s
    <3> QED BY <1>1, <2>5, <2>8, <3>1
  <2> QED BY <2>3, <2>4, <2>5
\* What a connection that opens, or closes, is left with.
<1>18. ASSUME NEW t \in Tcp, tcp[t] = "connecting", UNCHANGED <<owner, tcpClient, misled, page>>,
              first' = [u \in Tcp |-> first'[u]],
              \A b \in Browser : s'[b] = "registered" => s[b] = "registered",
              \A u \in Tcp :
                /\ listening'[u] <=> listening[u] /\ u # t
                /\ tcp'[u] = "free" <=> tcp[u] = "free"
                /\ (tcp'[u] = "open" /\ u # t) => tcp[u] = "open"
                /\ \/ first'[u] = first[u]
                   \/ /\ tcp'[u] = "open" /\ first[u] = None /\ first'[u] # None
                      /\ first'[u] = "REGISTRO" \/ Excused(u)
                /\ up'[u] # <<>> => first'[u] # None
                /\ tcp[u] = "free" => deferred'[u] = deferred[u]
                /\ deferred'[u] # <<>> =>
                     \/ deferred[u] # <<>> /\ Head(deferred'[u]) = Head(deferred[u])
                     \/ Head(deferred'[u]).type = "REGISTRO",
              (listening[t] /\ tcpClient[owner[t]] = t) => first'[t] # None \/ page[owner[t]] = "gone"
       PROVE  Openings' /\ RegistroFirst'
  <2>1. \A u \in Tcp : (Excused(u) <=> Excused(u)') /\ (first[u] # None => first'[u] # None)
    BY <1>18 DEF Excused
  <2>2. ASSUME NEW u \in Tcp
        PROVE  /\ listening'[u] => first'[u] = None /\ tcp'[u] # "open"
               /\ tcp'[u] = "free" => first'[u] = None /\ deferred'[u] = <<>>
               /\ up'[u] # <<>> => first'[u] # None
               /\ (tcp'[u] # "free" /\ ~listening'[u] /\ tcpClient'[owner'[u]] = u) =>
                    first'[u] # None \/ page'[owner'[u]] = "gone"
               /\ deferred'[u] # <<>> =>
                    Head(deferred'[u]).type = "REGISTRO" \/ first'[u] # None \/ Excused(u)'
    <3>1. /\ listening[u] => first[u] = None /\ tcp[u] # "open"
          /\ tcp[u] = "free" => first[u] = None /\ deferred[u] = <<>>
          /\ (tcp[u] # "free" /\ ~listening[u] /\ tcpClient[owner[u]] = u) =>
               first[u] # None \/ page[owner[u]] = "gone"
          /\ deferred[u] # <<>> =>
               Head(deferred[u]).type = "REGISTRO" \/ first[u] # None \/ Excused(u)
      BY <1>0 DEF Openings
    <3>2. listening'[u] => first'[u] = None /\ tcp'[u] # "open"
      BY <1>18, <3>1
    <3>3. tcp'[u] = "free" => first'[u] = None /\ deferred'[u] = <<>>
      BY <1>18, <3>1
    <3>4. (tcp'[u] # "free" /\ ~listening'[u] /\ tcpClient'[owner'[u]] = u) =>
             first'[u] # None \/ page'[owner'[u]] = "gone"
      BY <1>18, <2>1, <3>1
    <3>5. deferred'[u] # <<>> =>
             Head(deferred'[u]).type = "REGISTRO" \/ first'[u] # None \/ Excused(u)'
      BY <1>18, <2>1, <3>1
    <3> QED BY <1>18, <3>2, <3>3, <3>4, <3>5
  <2>3. ASSUME NEW b \in Browser, NEW u \in Tcp, s'[b] = "registered", u = tcpClient'[b]
        PROVE  first'[u] # None \/ Excused(u)'
    <3>1. s[b] = "registered" /\ u = tcpClient[b]
      BY <1>18, <2>3
    <3>2. first[u] # None \/ Excused(u)
      BY <1>0, <3>1 DEF Openings
    <3> QED BY <2>1, <3>2
  <2>4. Openings'
    <3> HIDE DEF s
    <3> QED BY <1>18, <2>2, <2>3 DEF Openings, s
  <2>5. RegistroFirst'
    <3>1. ASSUME NEW u \in Tcp
          PROVE  first'[u] \in {None, "REGISTRO"} \/ page'[owner'[u]] = "gone" \/ u \in misled'
      <4>1. first[u] \in {None, "REGISTRO"} \/ Excused(u)
        BY <1>0 DEF RegistroFirst, Excused
      <4> QED BY <1>18, <2>1, <4>1 DEF Excused
    <3> QED BY <3>1 DEF RegistroFirst
  <2> QED BY <2>4, <2>5
<1>19. ASSUME NEW t \in Tcp, Connect(t) PROVE Openings' /\ RegistroFirst'
  <2> DEFINE w == tcpClient[owner[t]]
             hello == IF listening[t] THEN <<Own("REGISTRO", userData[t])>> ELSE <<>>
             h == IF w = t THEN hello ELSE <<>>
  <2>1. /\ tcp[t] = "connecting" /\ tcp' = [tcp EXCEPT ![t] = "open"]
        /\ listening' = [listening EXCEPT ![t] = FALSE]
        /\ up' = [u \in Tcp |-> IF u = t THEN Opening(t, h)
                                ELSE IF u = w /\ tcp[w] = "open" THEN up[u] \o hello
                                ELSE up[u]]
        /\ deferred' = [u \in Tcp |-> IF u = t THEN <<>>
                                      ELSE IF u = w /\ tcp[w] = "connecting"
                                      THEN deferred[u] \o hello ELSE deferred[u]]
        /\ first' = [u \in Tcp |-> IF first[u] = None /\ tcp'[u] = "open" /\ up'[u] # <<>>
                                   THEN Head(up'[u]).type ELSE first[u]]
        /\ UNCHANGED <<owner, tcpClient, misled, page, s>>
    BY <1>19 DEF Connect, Opened
  <2>2. /\ hello \in Seq(Request) /\ h \in Seq(Request)
        /\ hello # <<>> => Head(hello).type = "REGISTRO"
        /\ listening[t] => hello # <<>>
        /\ ~listening[t] => hello = <<>>
        /\ w = t => h = hello
        /\ w # t => h = <<>>
    <3>1. userData[t] \in Name \cup {None}
      BY <1>0 DEF SocketTypes
    <3>2. /\ Own("REGISTRO", userData[t]) \in Request /\ Own("REGISTRO", userData[t]).type = "REGISTRO"
          /\ <<Own("REGISTRO", userData[t])>> \in Seq(Request)
      BY <3>1, OwnTypes DEF Own
    <3>3. <<>> \in Seq(Request)
      OBVIOUS
    <3>4. \A x : <<x>> # <<>> /\ Head(<<x>>) = x
      OBVIOUS
    <3> QED BY <3>2, <3>3, <3>4
  <2>3. owner[t] \in Browser
    BY <1>0, <2>1, OwnerTypes
  <2>4. w \in Tcp /\ owner[w] = owner[t]
    <3>1. w # None
      BY <1>0, <2>3 DEF Connections
    <3> QED BY <1>0, <2>3, <3>1 DEF MapTypes, Connections
  <2> HIDE DEF h, hello
  <2>5. \A u \in Tcp : /\ deferred[u] \in Seq(Request) /\ up[u] \in Seq(Request) /\ up'[u] \in Seq(Request)
                       /\ up'[u] # <<>> => Head(up'[u]).type # None
    <3>1. \A u \in Tcp : deferred[u] \in Seq(Request) /\ up[u] \in Seq(Request) /\ up'[u] \in Seq(Request)
      BY <1>0, <1>d DEF StreamTypes
    <3>2. ASSUME NEW u \in Tcp, up'[u] # <<>> PROVE Head(up'[u]).type # None
      <4>1. Head(up'[u]) \in Request
        BY <3>1, <3>2, TailInSeq
      <4> QED BY <4>1, TypeIsNotNone
    <3> QED BY <3>1, <3>2
  <2>6. \A u \in Tcp : /\ listening'[u] <=> listening[u] /\ u # t
                       /\ tcp'[u] = "free" <=> tcp[u] = "free"
                       /\ (tcp'[u] = "open" /\ u # t) => tcp[u] = "open"
                       /\ tcp'[t] = "open"
    BY <1>0, <2>1 DEF SocketTypes
  <2>7. \A u \in Tcp : /\ first'[u] = IF first[u] = None /\ tcp'[u] = "open" /\ up'[u] # <<>>
                                      THEN Head(up'[u]).type ELSE first[u]
                       /\ listening[u] => first[u] = None /\ tcp[u] # "open"
                       /\ (tcp[u] # "free" /\ ~listening[u] /\ tcpClient[owner[u]] = u) =>
                             first[u] # None \/ page[owner[u]] = "gone"
                       /\ deferred[u] # <<>> =>
                            Head(deferred[u]).type = "REGISTRO" \/ first[u] # None \/ Excused(u)
    BY <1>0, <2>1 DEF Openings
  <2>8. up'[t] = deferred[t] \o h
    BY <2>1 DEF Opening
  <2>9. /\ \/ first'[t] = first[t]
           \/ /\ tcp'[t] = "open" /\ first[t] = None /\ first'[t] # None
              /\ first'[t] = "REGISTRO" \/ Excused(t)
        /\ up'[t] # <<>> => first'[t] # None
        /\ (listening[t] /\ w = t) => first'[t] # None
    <3>1. tcp'[t] = "open" /\ (listening[t] => first[t] = None)
      BY <2>6, <2>7
    <3>2. first'[t] = IF first[t] = None /\ up'[t] # <<>> THEN Head(up'[t]).type ELSE first[t]
      BY <2>7, <3>1
    <3>3. up'[t] # <<>> => Head(up'[t]).type # None /\ first'[t] # None
      BY <2>5, <3>2
    <3>4. CASE deferred[t] = <<>>
      <4>1. up'[t] = h
        BY <2>2, <2>5, <2>8, <3>4, HeadOfBoth
      <4>2. h # <<>> => Head(h).type = "REGISTRO"
        BY <2>2
      <4>3. (listening[t] /\ w = t) => up'[t] # <<>>
        BY <2>2, <4>1
      <4>4. first'[t] = first[t] \/ first'[t] = "REGISTRO"
        BY <3>2, <4>1, <4>2
      <4>5. first'[t] = first[t] \/ (first[t] = None /\ first'[t] # None)
        BY <3>2, <3>3
      <4> QED BY <3>1, <3>3, <4>3, <4>4, <4>5, Zenon
    <3>5. CASE deferred[t] # <<>>
      <4>1. up'[t] # <<>> /\ Head(up'[t]) = Head(deferred[t])
        BY <2>2, <2>5, <2>8, <3>5, HeadOfBoth
      <4>2. Head(deferred[t]).type = "REGISTRO" \/ first[t] # None \/ Excused(t)
        BY <2>7, <3>5
      <4>3. first'[t] = first[t] \/ first'[t] = "REGISTRO" \/ Excused(t)
        BY <3>2, <4>1, <4>2
      <4>4. first'[t] = first[t] \/ (first[t] = None /\ first'[t] # None)
        BY <3>2, <3>3
      <4> QED BY <3>1, <3>3, <4>1, <4>3, <4>4, Zenon
    <3> QED BY <3>4, <3>5
  <2>10. ASSUME NEW u \in Tcp, u # t
         PROVE  /\ \/ first'[u] = first[u]
                   \/ /\ tcp'[u] = "open" /\ first[u] = None /\ first'[u] # None
                      /\ first'[u] = "REGISTRO" \/ Excused(u)
                /\ up'[u] # <<>> => first'[u] # None
    <3>1. up[u] # <<>> => first[u] # None
      BY <1>c
    <3>2. CASE u = w /\ tcp[w] = "open"
      <4>1. first[u] # None \/ Excused(u)
        BY <2>4, <2>7, <3>2 DEF Excused
      <4>2. tcp'[u] = "open"
        BY <1>0, <2>1, <2>10, <3>2 DEF SocketTypes
      <4>3. first'[u] = IF first[u] = None /\ up'[u] # <<>> THEN Head(up'[u]).type ELSE first[u]
        BY <2>7, <4>2
      <4>4. up'[u] # <<>> => Head(up'[u]).type # None
        BY <2>5
      <4>5. first[u] # None => first'[u] = first[u]
        BY <4>3
      <4>6. (first[u] = None /\ up'[u] # <<>>) => first'[u] # None
        BY <4>3, <4>4
      <4>7. (first[u] = None /\ up'[u] = <<>>) => first'[u] = first[u]
        BY <4>3
      <4> QED BY <4>1, <4>2, <4>5, <4>6, <4>7, Zenon
    <3>3. CASE ~(u = w /\ tcp[w] = "open")
      <4>1. up'[u] = up[u]
        BY <2>1, <2>10, <3>3
      <4> QED BY <2>7, <3>1, <4>1
    <3> QED BY <3>2, <3>3
  <2>11. ASSUME NEW u \in Tcp
         PROVE  /\ tcp[u] = "free" => deferred'[u] = deferred[u]
                /\ deferred'[u] # <<>> =>
                     \/ deferred[u] # <<>> /\ Head(deferred'[u]) = Head(deferred[u])
                     \/ Head(deferred'[u]).type = "REGISTRO"
    <3>1. CASE u = t
      BY <2>1, <3>1
    <3>2. CASE u # t /\ u = w /\ tcp[w] = "connecting"
      <4>1. deferred'[u] = deferred[u] \o hello
        BY <2>1, <3>2
      <4>2. CASE deferred[u] = <<>>
        BY <2>2, <2>5, <3>2, <4>1, <4>2, HeadOfBoth
      <4>3. CASE deferred[u] # <<>>
        BY <2>2, <2>5, <3>2, <4>1, <4>3, HeadOfBoth
      <4> QED BY <4>2, <4>3
    <3>3. CASE u # t /\ ~(u = w /\ tcp[w] = "connecting")
      BY <2>1, <3>3
    <3> QED BY <3>1, <3>2, <3>3
  <2>12. first' = [u \in Tcp |-> first'[u]]
    BY <2>1
  <2>13. \A b \in Browser : s'[b] = "registered" => s[b] = "registered"
    BY <2>1
  <2>14. \A u \in Tcp : /\ \/ first'[u] = first[u]
                           \/ /\ tcp'[u] = "open" /\ first[u] = None /\ first'[u] # None
                              /\ first'[u] = "REGISTRO" \/ Excused(u)
                        /\ up'[u] # <<>> => first'[u] # None
    BY <2>9, <2>10
  <2>15. (listening[t] /\ tcpClient[owner[t]] = t) => first'[t] # None \/ page[owner[t]] = "gone"
    BY <2>9
  <2> HIDE DEF s, w
  <2> QED BY <1>18, <2>1, <2>6, <2>11, <2>12, <2>13, <2>14, <2>15
<1>20. ASSUME NEW t \in Tcp, ConnectEnded(t) PROVE Openings' /\ RegistroFirst'
  <2> DEFINE w == tcpClient[owner[t]]
  <2>1. /\ tcp[t] = "connecting" /\ tcp' = [tcp EXCEPT ![t] = "open", ![w] = "closed"]
        /\ listening' = [listening EXCEPT ![t] = FALSE] /\ Ended(owner[t])
        /\ up' = [up EXCEPT ![t] = Opening(t, <<>>), ![w] = <<>>]
        /\ deferred' = [deferred EXCEPT ![t] = <<>>, ![w] = <<>>]
        /\ first' = [u \in Tcp |-> IF first[u] = None /\ tcp'[u] = "open" /\ up'[u] # <<>>
                                   THEN Head(up'[u]).type ELSE first[u]]
        /\ UNCHANGED <<owner, tcpClient, misled, page>> /\ Closed(owner[t], <<"ERROR">>)
    BY <1>20 DEF ConnectEnded, Opened
  <2>2. owner[t] \in Browser
    BY <1>0, <2>1, OwnerTypes
  <2>3. page[owner[t]] = "gone"
    BY <1>0, <2>1, <2>2 DEF Endings
  <2>4. w \in Tcp /\ owner[w] = owner[t] /\ tcp[w] # "free"
    <3>1. w # None
      BY <1>0, <2>2 DEF Connections
    <3>2. w \in Tcp /\ owner[w] = owner[t] /\ owner[t] # None
      BY <1>0, <2>2, <3>1 DEF MapTypes, Connections
    <3> QED BY <1>0, <3>2 DEF Connections
  <2>5. \A b \in Browser : s'[b] = "registered" => s[b] = "registered"
    BY <1>0, <2>1, <2>2, ClosedStatus
  <2>6. \A u \in Tcp : up'[u] # <<>> => Head(up'[u]).type # None
    <3>1. ASSUME NEW u \in Tcp, up'[u] # <<>> PROVE Head(up'[u]).type # None
      <4>1. up'[u] \in Seq(Request)
        BY <1>d DEF StreamTypes
      <4>2. Head(up'[u]) \in Request
        BY <3>1, <4>1, TailInSeq
      <4> QED BY <4>2, TypeIsNotNone
    <3> QED BY <3>1
  <2> HIDE DEF w, s
  <2>7. \A u \in Tcp : /\ listening'[u] <=> listening[u] /\ u # t
                       /\ tcp'[u] = "free" <=> tcp[u] = "free"
                       /\ (tcp'[u] = "open" /\ u # t) => tcp[u] = "open"
    BY <1>0, <2>1, <2>4 DEF SocketTypes
  <2>8. \A u \in Tcp : (u = t /\ u # w) => tcp'[u] = "open"
    BY <1>0, <2>1, <2>4 DEF SocketTypes
  <2>9. \A u \in Tcp : /\ u = w => up'[u] = <<>> /\ deferred'[u] = <<>>
                       /\ u = t => deferred'[u] = <<>>
                       /\ (u # t /\ u # w) => up'[u] = up[u] /\ deferred'[u] = deferred[u]
    BY <1>0, <2>1, <2>4 DEF StreamTypes
  <2>10. \A u \in Tcp : first'[u] = IF first[u] = None /\ tcp'[u] = "open" /\ up'[u] # <<>>
                                    THEN Head(up'[u]).type ELSE first[u]
    BY <2>1
  <2>11. ASSUME NEW u \in Tcp
         PROVE  /\ \/ first'[u] = first[u]
                   \/ /\ tcp'[u] = "open" /\ first[u] = None /\ first'[u] # None
                      /\ first'[u] = "REGISTRO" \/ Excused(u)
                /\ up'[u] # <<>> => first'[u] # None
    <3>1. CASE u = w
      BY <2>9, <2>10, <3>1
    <3>2. CASE u = t /\ u # w
      BY <2>3, <2>6, <2>8, <2>10, <3>2 DEF Excused
    <3>3. CASE u # t /\ u # w
      BY <1>c, <2>9, <2>10, <3>3
    <3> QED BY <3>1, <3>2, <3>3
  <2>12. \A u \in Tcp : /\ tcp[u] = "free" => deferred'[u] = deferred[u]
                        /\ deferred'[u] # <<>> => deferred[u] # <<>> /\ Head(deferred'[u]) = Head(deferred[u])
    BY <2>1, <2>4, <2>9
  <2>13. first' = [u \in Tcp |-> first'[u]]
    BY <2>1
  <2>14. \A u \in Tcp : /\ \/ first'[u] = first[u]
                           \/ /\ tcp'[u] = "open" /\ first[u] = None /\ first'[u] # None
                              /\ first'[u] = "REGISTRO" \/ Excused(u)
                        /\ up'[u] # <<>> => first'[u] # None
    BY <2>11
  <2>15. tcp[t] = "connecting" /\ UNCHANGED <<owner, tcpClient, misled, page>>
    BY <2>1
  <2> QED BY <1>18, <2>3, <2>5, <2>7, <2>12, <2>13, <2>14, <2>15
<1> QED BY <1>4, <1>5, <1>6, <1>7, <1>8, <1>9, <1>10, <1>12, <1>13, <1>15, <1>16, <1>17, <1>19, <1>20
        DEF Next, EventLoop, FromServer

-----------------------------------------------------------------------------
(***************************************************************************)
(* What is read: on a connection where brackets balance, objects of two    *)
(* fragments, an opening bracket and the rest.                             *)
(***************************************************************************)

LEMMA PairedConcat ==
  ASSUME NEW s \in Seq(Token), NEW x \in Seq(Token), Paired(s), Whole(s), Paired(x), Whole(x)
  PROVE  Paired(s \o x) /\ Whole(s \o x)
<1> DEFINE u == s \o x
<1>1. /\ u \in Seq(Token) /\ Len(u) = Len(s) + Len(x) /\ Len(s) \in Nat /\ Len(x) \in Nat
      /\ \A i \in 1 .. Len(s) + Len(x) : u[i] = IF i <= Len(s) THEN s[i] ELSE x[i - Len(s)]
  <2>1. Len(s) \in Nat /\ Len(x) \in Nat
    OBVIOUS
  <2> QED BY <2>1, ConcatProperties
<1> HIDE DEF u
<1>2. /\ \A i \in 1 .. Len(s) : u[i] = s[i]
      /\ \A i \in Len(s) + 1 .. Len(u) : u[i] = x[i - Len(s)]
  <2>1. \A i \in 1 .. Len(s) : u[i] = s[i]
    BY <1>1
  <2>2. ASSUME NEW i \in Len(s) + 1 .. Len(u) PROVE u[i] = x[i - Len(s)]
    <3>1. i \in 1 .. Len(s) + Len(x) /\ ~(i <= Len(s))
      BY <1>1
    <3> QED BY <1>1, <3>1, Zenon
  <2> QED BY <2>1, <2>2
<1>3. Len(u) = Len(s) + Len(x) /\ Len(s) \in Nat /\ Len(x) \in Nat
  BY <1>1
<1>4. (s # <<>> <=> Len(s) >= 1) /\ (x # <<>> <=> Len(x) >= 1) /\ (u # <<>> <=> Len(u) >= 1)
  BY <1>1, EmptySeq
<1>5. u # <<>> => Opener(u[1])
  <2>1. CASE s # <<>>
    <3>1. u[1] = s[1]
      BY <1>1, <1>2, <1>4, <2>1
    <3> QED BY <2>1, <3>1 DEF Paired
  <2>2. CASE s = <<>> /\ x # <<>>
    <3>1. Len(s) = 0 /\ u[1] = x[1]
      <4>1. Len(s) = 0 /\ 1 \in Len(s) + 1 .. Len(u) /\ 1 - Len(s) = 1
        BY <1>1, <1>4, <2>2
      <4> QED BY <1>2, <4>1
    <3> QED BY <2>2, <3>1 DEF Paired
  <2> QED BY <1>1, <1>4, <2>1, <2>2
<1>6. ASSUME NEW i \in 1 .. Len(u) - 1
      PROVE  (u[i].kind = "{" => ~Opener(u[i + 1])) /\ (u[i].kind # "{" => Opener(u[i + 1]))
  <2>1. CASE i < Len(s)
    <3>1. i \in 1 .. Len(s) - 1 /\ u[i] = s[i] /\ u[i + 1] = s[i + 1]
      BY <1>1, <1>2, <2>1
    <3> QED BY <3>1 DEF Paired
  <2>2. CASE i = Len(s)
    <3>1. u[i] = s[Len(s)] /\ u[i + 1] = x[1] /\ s # <<>> /\ x # <<>>
      <4>1. i \in 1 .. Len(s) /\ i + 1 \in Len(s) + 1 .. Len(u) /\ (i + 1) - Len(s) = 1
            /\ Len(s) >= 1 /\ Len(x) >= 1
        BY <1>1, <2>2
      <4> QED BY <1>2, <1>4, <2>2, <4>1
    <3> QED BY <3>1 DEF Paired, Whole
  <2>3. CASE i > Len(s)
    <3>1. i - Len(s) \in 1 .. Len(x) - 1 /\ u[i] = x[i - Len(s)] /\ u[i + 1] = x[(i - Len(s)) + 1]
      <4>1. /\ i \in Len(s) + 1 .. Len(u) /\ i + 1 \in Len(s) + 1 .. Len(u)
            /\ (i + 1) - Len(s) = (i - Len(s)) + 1 /\ i - Len(s) \in 1 .. Len(x) - 1
        BY <1>1, <2>3
      <4> QED BY <1>2, <4>1
    <3> QED BY <3>1 DEF Paired
  <2>4. i < Len(s) \/ i = Len(s) \/ i > Len(s)
    BY <1>3
  <2> QED BY <2>1, <2>2, <2>3, <2>4
<1>7. u # <<>> => u[Len(u)].kind # "{"
  <2>1. CASE x # <<>>
    <3>1. Len(u) \in Len(s) + 1 .. Len(u) /\ Len(u) - Len(s) = Len(x)
      BY <1>1, <1>4, <2>1
    <3> QED BY <1>2, <2>1, <3>1 DEF Whole
  <2>2. CASE x = <<>> /\ s # <<>>
    <3>1. Len(u) = Len(s) /\ Len(s) \in 1 .. Len(s)
      BY <1>1, <1>4, <2>2
    <3> QED BY <1>2, <2>2, <3>1 DEF Whole
  <2>3. u # <<>> => s # <<>> \/ x # <<>>
    BY <1>4, <1>3
  <2> QED BY <2>1, <2>2, <2>3
<1>8. Paired(u) /\ Whole(u)
  BY <1>5, <1>6, <1>7 DEF Paired, Whole
<1> QED BY <1>8 DEF u

\* What a server sends: an answer, the end, or both.
LEMMA PairedAnswers ==
  /\ \A m \in Message : m.bracket = None => Paired(Tokens(m)) /\ Whole(Tokens(m))
  /\ Paired(<<Reply("FIN")>>) /\ Whole(<<Reply("FIN")>>)
  /\ Paired(<<>>) /\ Whole(<<>>)
<1>1. ASSUME NEW m \in Message, m.bracket = None PROVE Paired(Tokens(m)) /\ Whole(Tokens(m))
  <2> DEFINE x == Reply("{")
  <2>1. x.kind = "{" /\ m.kind \notin {"{", "}", "FIN"} /\ Tokens(m) = <<x, m>>
    BY <1>1, TokenTypes, TokensTypes DEF Mark
  <2> HIDE DEF x
  <2>2. ASSUME NEW u, Len(u) = 2, u[1] = x, u[2] = m PROVE Paired(u) /\ Whole(u)
    <3>1. Opener(u[1]) /\ ~Opener(u[2]) /\ u[1].kind = "{" /\ u[2].kind # "{"
      BY <2>1, <2>2 DEF Opener
    <3>2. \A i \in 1 .. Len(u) - 1 : i = 1 /\ i + 1 = 2
      BY <2>2
    <3> QED BY <2>2, <3>1, <3>2 DEF Paired, Whole
  <2>3. Len(<<x, m>>) = 2 /\ <<x, m>>[1] = x /\ <<x, m>>[2] = m
    OBVIOUS
  <2> QED BY <2>1, <2>2, <2>3, Zenon
<1>2. ASSUME NEW x, x.kind = "FIN" PROVE Paired(<<x>>) /\ Whole(<<x>>)
  <2>1. ASSUME NEW u, Len(u) = 1, u[1] = x PROVE Paired(u) /\ Whole(u)
    <3>1. Opener(u[1]) /\ u[1].kind # "{"
      BY <1>2, <2>1 DEF Opener
    <3>2. \A i \in 1 .. Len(u) - 1 : FALSE
      BY <2>1
    <3> QED BY <2>1, <3>1, <3>2 DEF Paired, Whole
  <2>2. Len(<<x>>) = 1 /\ <<x>>[1] = x
    OBVIOUS
  <2> QED BY <2>1, <2>2, Zenon
<1>3. Reply("FIN").kind = "FIN"
  BY TokenTypes DEF Mark
<1>4. Paired(<<>>) /\ Whole(<<>>)
  BY DEF Paired, Whole
<1> QED BY <1>1, <1>2, <1>3, <1>4

\* Of two fragments or more the first two are an object.
LEMMA PairedObject ==
  ASSUME NEW s \in Seq(Fragment), Paired(s)
  PROVE  /\ Len(s) >= 2 => foundComplete(s)
         /\ foundComplete(s) => Len(s) >= 2 /\ jsonEnd(s) = 2
<1>1. s \in Seq(Token) /\ Len(s) \in Nat /\ DOMAIN s = 1 .. Len(s) /\ \A i \in 1 .. Len(s) : s[i].kind # "FIN"
  BY TokenTypes, SeqMonotonic DEF Fragment
<1>2. foundComplete(s) => Len(s) >= 2
  <2>1. foundComplete(s) => /\ jsonEnd(s) \in 1 .. Len(s) /\ jsonStart(s) < jsonEnd(s)
                             /\ jsonStart(s) \in Begins(s)
    BY <1>1, FirstObject
  <2>2. Begins(s) \subseteq 1 .. Len(s)
    BY <1>1 DEF Begins
  <2> QED BY <1>1, <2>1, <2>2
<1>3. ASSUME Len(s) >= 2
      PROVE  jsonStart(s) = 1 /\ 2 \in Ends(s) /\ Begins(s) # {}
  <2>1. s[1].kind = "{" /\ s[2].kind # "{"
    <3>1. s # <<>> /\ 1 \in 1 .. Len(s) /\ 1 \in 1 .. Len(s) - 1 /\ 1 + 1 = 2
      BY <1>1, <1>3
    <3>2. s[1].kind = "{"
      BY <1>1, <3>1 DEF Paired, Opener
    <3>3. ~Opener(s[2])
      BY <3>1, <3>2 DEF Paired
    <3> QED BY <3>2, <3>3 DEF Opener
  <2>2. 1 \in Begins(s) /\ Begins(s) \subseteq 1 .. Len(s)
    <3>1. 1 \in DOMAIN s
      BY <1>1, <1>3
    <3> QED BY <1>1, <2>1, <3>1 DEF Begins, Opens
  <2>3. jsonStart(s) = 1
    <3>1. \E i \in Begins(s) : \A j \in Begins(s) : i <= j
      BY <1>1, <2>2
    <3>2. jsonStart(s) \in Begins(s) /\ \A j \in Begins(s) : jsonStart(s) <= j
      BY <3>1 DEF jsonStart
    <3> QED BY <1>1, <2>2, <3>2
  <2>4. Depth(s, 1, 2) = 0
    <3>1. {k \in 1 .. 2 : Opens(s[k])} = {1} /\ {k \in 1 .. 2 : Closes(s[k])} = {2}
      <4>1. 1 .. 2 = {1, 2}
        OBVIOUS
      <4> QED BY <2>1, <4>1, Zenon DEF Opens, Closes
    <3>2. Cardinality({1}) = 1 /\ Cardinality({2}) = 1
      BY FS_Singleton
    <3>3. Depth(s, 1, 2) = Cardinality({1}) - Cardinality({2})
      BY <3>1, Zenon DEF Depth
    <3> QED BY <3>2, <3>3
  <2>5. 2 \in Ends(s)
    BY <1>1, <1>3, <2>3, <2>4 DEF Ends
  <2> QED BY <2>2, <2>3, <2>5
<1>4. Len(s) >= 2 => foundComplete(s)
  BY <1>3 DEF foundComplete
<1>5. foundComplete(s) => jsonEnd(s) = 2
  <2> SUFFICES ASSUME foundComplete(s) PROVE jsonEnd(s) = 2
    OBVIOUS
  <2>1. jsonEnd(s) \in 1 .. Len(s) /\ jsonStart(s) < jsonEnd(s) /\ \A j \in Ends(s) : jsonEnd(s) <= j
    BY <1>1, FirstObject
  <2> QED BY <1>1, <1>2, <1>3, <2>1
<1> QED BY <1>2, <1>4, <1>5

\* A beginning is paired, and so is what follows the first object.
LEMMA PairedParts ==
  ASSUME NEW s \in Seq(Token), NEW x \in Seq(Token), Paired(s \o x)
  PROVE  /\ Paired(s)
         /\ (Len(s) >= 2 /\ s[2].kind # "{") =>
              LET r == SubSeq(s, 3, Len(s)) IN
              /\ r \in Seq(Token) /\ Paired(r \o x)
              /\ Whole(s \o x) => Whole(r \o x)
<1> DEFINE u == s \o x
<1>1. /\ u \in Seq(Token) /\ Len(u) = Len(s) + Len(x) /\ Len(s) \in Nat /\ Len(x) \in Nat
      /\ \A i \in 1 .. Len(s) + Len(x) : u[i] = IF i <= Len(s) THEN s[i] ELSE x[i - Len(s)]
  <2>1. Len(s) \in Nat /\ Len(x) \in Nat
    OBVIOUS
  <2> QED BY <2>1, ConcatProperties
<1>2. Paired(u)
  OBVIOUS
<1> HIDE DEF u
<1>3. Len(u) = Len(s) + Len(x) /\ Len(s) \in Nat /\ Len(x) \in Nat
  BY <1>1
<1>4. \A i \in 1 .. Len(s) : u[i] = s[i]
  BY <1>1
<1>5. (s # <<>> <=> Len(s) >= 1) /\ (u # <<>> <=> Len(u) >= 1)
  BY <1>1, EmptySeq
<1>6. Paired(s)
  <2>1. s # <<>> => Opener(s[1])
    <3>1. s # <<>> => u # <<>> /\ u[1] = s[1]
      BY <1>1, <1>4, <1>5
    <3> QED BY <1>2, <3>1 DEF Paired
  <2>2. ASSUME NEW i \in 1 .. Len(s) - 1
        PROVE  (s[i].kind = "{" => ~Opener(s[i + 1])) /\ (s[i].kind # "{" => Opener(s[i + 1]))
    <3>1. i \in 1 .. Len(u) - 1 /\ s[i] = u[i] /\ s[i + 1] = u[i + 1]
      BY <1>1, <1>4
    <3> QED BY <1>2, <3>1 DEF Paired
  <2> QED BY <2>1, <2>2 DEF Paired
<1>7. ASSUME Len(s) >= 2, s[2].kind # "{"
      PROVE  LET r == SubSeq(s, 3, Len(s)) IN
             r \in Seq(Token) /\ Paired(r \o x) /\ (Whole(u) => Whole(r \o x))
  <2> DEFINE r == SubSeq(s, 3, Len(s))
             v == r \o x
  <2>10. Len(s) >= 2
    BY <1>7
  <2>1. /\ r \in Seq(Token) /\ Len(r) = Len(s) - 2
        /\ \A i \in 1 .. Len(s) - 2 : r[i] = s[i + 2]
    <3>1. \A i \in 3 .. Len(s) : s[i] \in Token
      OBVIOUS
    <3>2. /\ r \in Seq(Token) /\ Len(r) = IF 3 <= Len(s) THEN Len(s) - 3 + 1 ELSE 0
          /\ \A i \in 1 .. Len(s) - 3 + 1 : r[i] = s[3 + i - 1]
      BY <1>1, <3>1, SubSeqProperties
    <3> HIDE DEF r
    <3>3. Len(r) = Len(s) - 2
      <4>1. Len(r) = IF 3 <= Len(s) THEN Len(s) - 3 + 1 ELSE 0
        BY <3>2
      <4>2. \A n \in Nat : n >= 2 => (IF 3 <= n THEN n - 3 + 1 ELSE 0) = n - 2
        OBVIOUS
      <4> QED BY <1>3, <2>10, <4>1, <4>2, Zenon
    <3>4. \A i \in 1 .. Len(s) - 2 : i \in 1 .. Len(s) - 3 + 1 /\ 3 + i - 1 = i + 2
      BY <1>1
    <3> QED BY <3>2, <3>3, <3>4
  <2> HIDE DEF r
  <2>2. /\ v \in Seq(Token) /\ Len(v) = Len(r) + Len(x)
        /\ \A i \in 1 .. Len(r) + Len(x) : v[i] = IF i <= Len(r) THEN r[i] ELSE x[i - Len(r)]
    BY <2>1, ConcatProperties
  <2> HIDE DEF v
  <2>3. Len(v) = Len(u) - 2 /\ Len(v) \in Nat
    <3>1. Len(r) = Len(s) - 2 /\ Len(v) = Len(r) + Len(x) /\ Len(u) = Len(s) + Len(x)
      BY <1>1, <2>1, <2>2
    <3> QED BY <1>3, <2>10, <3>1
  <2>4. ASSUME NEW i \in 1 .. Len(v) PROVE v[i] = u[i + 2] /\ i + 2 \in 1 .. Len(u)
    <3>1. CASE i <= Len(r)
      <4>1. i \in 1 .. Len(s) - 2 /\ i + 2 \in 1 .. Len(s)
        BY <1>1, <2>1, <3>1
      <4> QED BY <1>1, <1>4, <2>1, <2>2, <2>3, <3>1, <4>1
    <3>2. CASE ~(i <= Len(r))
      <4>1. i + 2 \in 1 .. Len(s) + Len(x) /\ ~(i + 2 <= Len(s)) /\ (i + 2) - Len(s) = i - Len(r)
        BY <1>1, <2>1, <2>2, <2>3, <3>2
      <4>2. u[i + 2] = x[(i + 2) - Len(s)]
        BY <1>1, <4>1, Zenon
      <4>3. v[i] = x[i - Len(r)]
        BY <2>2, <3>2, Zenon
      <4> QED BY <1>1, <4>1, <4>2, <4>3
    <3> QED BY <3>1, <3>2
  <2>5. v # <<>> <=> Len(v) >= 1
    BY <2>2, <2>3, EmptySeq
  <2>6. v # <<>> => Opener(v[1])
    <3>1. v # <<>> => 2 \in 1 .. Len(u) - 1 /\ u[2] = s[2] /\ v[1] = u[2 + 1]
      <4>1. Len(v) >= 1 => 1 \in 1 .. Len(v) /\ 1 + 2 = 2 + 1 /\ 2 \in 1 .. Len(u) - 1
        BY <2>3
      <4>2. 2 \in 1 .. Len(s)
        BY <1>3, <2>10
      <4> QED BY <1>4, <2>4, <2>5, <4>1, <4>2
    <3> QED BY <1>2, <1>7, <3>1 DEF Paired
  <2>7. ASSUME NEW i \in 1 .. Len(v) - 1
        PROVE  (v[i].kind = "{" => ~Opener(v[i + 1])) /\ (v[i].kind # "{" => Opener(v[i + 1]))
    <3>1. i + 2 \in 1 .. Len(u) - 1 /\ v[i] = u[i + 2] /\ v[i + 1] = u[(i + 2) + 1]
      <4>1. i \in 1 .. Len(v) /\ i + 1 \in 1 .. Len(v) /\ (i + 1) + 2 = (i + 2) + 1 /\ i + 2 \in 1 .. Len(u) - 1
        BY <2>3
      <4> QED BY <2>4, <4>1
    <3> QED BY <1>2, <3>1 DEF Paired
  <2>8. Whole(u) => Whole(v)
    <3>1. v # <<>> => u # <<>> /\ v[Len(v)] = u[Len(u)]
      <4>1. Len(v) >= 1 => Len(v) \in 1 .. Len(v) /\ Len(v) + 2 = Len(u) /\ Len(u) >= 1
        BY <1>1, <2>3
      <4> QED BY <1>5, <2>4, <2>5, <4>1
    <3> QED BY <3>1 DEF Whole
  <2>9. Paired(v)
    BY <2>6, <2>7 DEF Paired
  <2> QED BY <2>1, <2>8, <2>9 DEF r, v
<1> QED BY <1>6, <1>7 DEF u

LEMMA StreamsOf ==
  ASSUME StreamTypes, NEW t \in Tcp
  PROVE  /\ buffer[t] \in Seq(Fragment) /\ buffer[t] \in Seq(Token) /\ down[t] \in Seq(Token)
         /\ Stream(t) \in Seq(Token)
<1>1. buffer[t] \in Seq(Fragment) /\ buffer[t] \in Seq(Token) /\ down[t] \in Seq(Token)
  BY TokenTypes, SeqMonotonic DEF StreamTypes
<1> QED BY <1>1, ConcatInSeq DEF Stream

\* The server sends x on t: objects, as long as brackets balance.
LEMMA StreamSent ==
  ASSUME StreamTypes, Openings, Streams, NothingWithheld, NEW t \in Tcp, tcp[t] = "open",
         NEW x \in Seq(Token), Send(t, x), UNCHANGED <<buffer, busy, tcp, listening, reopened>>,
         odd \subseteq odd', odd' \subseteq odd \cup {t}, t \notin odd' => Paired(x) /\ Whole(x)
  PROVE  Streams' /\ NothingWithheld'
<1>1. down' = [down EXCEPT ![t] = down[t] \o x]
  BY DEF Send
<1>2. down'[t] = down[t] \o x /\ \A s \in Tcp \ {t} : down'[s] = down[s]
  BY <1>1 DEF StreamTypes
<1>3. t \notin odd' \cup reopened => Paired(Stream(t)') /\ Whole(Stream(t)')
  <2> SUFFICES ASSUME t \notin odd' \cup reopened PROVE Paired(Stream(t)') /\ Whole(Stream(t)')
    OBVIOUS
  <2>1. Paired(Stream(t)) /\ Whole(Stream(t)) /\ Stream(t) \in Seq(Token)
    BY StreamsOf DEF Streams
  <2>2. Stream(t)' = Stream(t) \o x
    <3>1. \A u, v, w \in Seq(Token) : (u \o v) \o w = u \o (v \o w)
      BY ConcatAssociative
    <3>2. Stream(t)' = buffer[t] \o (down[t] \o x)
      BY <1>2 DEF Stream
    <3>3. (buffer[t] \o down[t]) \o x = buffer[t] \o (down[t] \o x)
      <4>1. buffer[t] \in Seq(Token) /\ down[t] \in Seq(Token)
        BY StreamsOf
      <4> QED BY <3>1, <4>1, Zenon
    <3> QED BY <3>2, <3>3, Zenon DEF Stream
  <2> QED BY <2>1, <2>2, PairedConcat
<1>4. tcp[t] # "free" /\ ~listening[t]
  BY DEF Openings
<1>5. ASSUME NEW s \in Tcp
      PROVE  /\ (tcp'[s] = "free" \/ listening'[s]) => down'[s] = <<>> /\ buffer'[s] = <<>>
             /\ tcp'[s] # "open" => down'[s] = <<>>
             /\ s \notin odd' \cup reopened' =>
                  Paired(Stream(s)') /\ (tcp'[s] = "open" => Whole(Stream(s)'))
  <2>1. CASE s = t
    BY <1>3, <1>4, <2>1
  <2>2. CASE s # t
    <3>1. Stream(s)' = Stream(s) /\ down'[s] = down[s] /\ (s \in odd' <=> s \in odd)
      BY <1>2, <2>2 DEF Stream
    <3> QED BY <3>1 DEF Streams
  <2> QED BY <2>1, <2>2
<1>6. Streams'
  BY <1>5 DEF Streams
<1>7. NothingWithheld'
  BY DEF NothingWithheld
<1> QED BY <1>6, <1>7

\* Nothing more arrives on t.
LEMMA StreamClosed ==
  ASSUME SocketTypes, StreamTypes, Streams, NothingWithheld, NEW t \in Tcp, tcp[t] # "free", Destroy(t),
         UNCHANGED <<buffer, busy, listening, reopened, odd>>
  PROVE  Streams' /\ NothingWithheld'
<1>1. /\ down'[t] = <<>> /\ tcp'[t] = "closed"
      /\ \A s \in Tcp \ {t} : down'[s] = down[s] /\ tcp'[s] = tcp[s]
  BY DEF Destroy, StreamTypes, SocketTypes
<1>2. Stream(t)' = buffer[t]
  <2>1. buffer[t] \o <<>> = buffer[t]
    BY StreamsOf, ConcatEmptySeq
  <2> QED BY <1>1, <2>1 DEF Stream
<1>3. Paired(Stream(t)) => Paired(buffer[t])
  BY StreamsOf, PairedParts DEF Stream
<1>4. ASSUME NEW s \in Tcp
      PROVE  /\ (tcp'[s] = "free" \/ listening'[s]) => down'[s] = <<>> /\ buffer'[s] = <<>>
             /\ tcp'[s] # "open" => down'[s] = <<>>
             /\ s \notin odd' \cup reopened' =>
                  Paired(Stream(s)') /\ (tcp'[s] = "open" => Whole(Stream(s)'))
  <2>1. CASE s = t
    BY <1>1, <1>2, <1>3, <2>1 DEF Streams
  <2>2. CASE s # t
    <3>1. Stream(s)' = Stream(s) /\ down'[s] = down[s] /\ tcp'[s] = tcp[s]
      BY <1>1, <2>2 DEF Stream
    <3> QED BY <3>1 DEF Streams
  <2> QED BY <2>1, <2>2
<1>5. Streams'
  BY <1>4 DEF Streams
<1>6. NothingWithheld'
  BY DEF NothingWithheld
<1> QED BY <1>5, <1>6

\* Only these steps have to do with what is read.
LEMMA ReadFrame ==
  ASSUME [Next]_bridgeVars
  PROVE  \/ UNCHANGED <<down, buffer, busy, tcp, listening, reopened, odd>>
         \/ \E b \in Browser : Register(b) \/ Retry(b)
         \/ \E t \in Tcp : Connect(t) \/ ConnectEnded(t) \/ Close(t) \/ Error(t) \/ Data(t)
         \/ Object \/ EndData
         \/ \E t \in Tcp : FromServer(t)
<1> DEFINE Kept == UNCHANGED <<down, buffer, busy, tcp, listening, reopened, odd>>
<1> USE DEF tcpVars
<1>1. ASSUME NEW b \in Browser, NEW n \in Name, Click(b, n) PROVE Kept
  BY <1>1 DEF Click
<1>2. ASSUME NEW b \in Browser, NEW type \in Typed, SendMessage(b, type) PROVE Kept
  BY <1>2 DEF SendMessage
<1>3. ASSUME NEW b \in Browser, Leave(b) \/ ServerMessage(b) PROVE Kept
  BY <1>3 DEF Leave, ServerMessage
<1>4. ASSUME NEW b \in Browser, ClientMessage(b) \/ Disconnect(b) \/ Farewell(b) PROVE Kept
  BY <1>4 DEF ClientMessage, Disconnect, Farewell
<1>5. ASSUME UNCHANGED bridgeVars PROVE Kept
  BY <1>5 DEF bridgeVars
<1> HIDE DEF Kept
<1>6. \/ Kept
      \/ \E b \in Browser : Register(b) \/ Retry(b)
      \/ \E t \in Tcp : Connect(t) \/ ConnectEnded(t) \/ Close(t) \/ Error(t) \/ Data(t)
      \/ Object \/ EndData
      \/ \E t \in Tcp : FromServer(t)
  BY <1>1, <1>2, <1>3, <1>4, <1>5 DEF Next, EventLoop, FromServer
<1> QED BY <1>6 DEF Kept

LEMMA StreamsStep == ASSUME BridgeInv, [Next]_bridgeVars PROVE Streams' /\ NothingWithheld'
<1> USE BridgeConstants
<1>0. /\ MapTypes /\ SocketTypes /\ StreamTypes /\ Connections /\ Openings
      /\ Streams /\ NothingWithheld
  BY DEF BridgeInv
<1>1. ASSUME UNCHANGED <<down, buffer, busy, listening, reopened, odd>>,
             \A t \in Tcp : \/ tcp'[t] = tcp[t]
                            \/ down[t] = <<>> /\ tcp'[t] = "connecting"
                               /\ (tcp[t] = "free" => buffer[t] = <<>>)
      PROVE  Streams' /\ NothingWithheld'
  <2>1. \A t \in Tcp : Stream(t)' = Stream(t)
    BY <1>1 DEF Stream
  <2>2. Streams'
    BY <1>0, <1>1, <2>1 DEF Streams
  <2> QED BY <1>0, <1>1, <2>2 DEF NothingWithheld
<1>2. CASE UNCHANGED <<down, buffer, busy, tcp, listening, reopened, odd>>
  BY <1>1, <1>2
<1>3. ASSUME NEW b \in Browser, Register(b) PROVE Streams' /\ NothingWithheld'
  <2>1. PICK t \in Tcp : /\ owner[t] = None /\ tcp' = [tcp EXCEPT ![t] = "connecting"]
                         /\ listening' = [listening EXCEPT ![t] = TRUE]
    BY <1>3 DEF Register
  <2>2. UNCHANGED <<down, buffer, busy, reopened, odd>>
    BY <1>3 DEF Register
  <2>3. tcp[t] = "free" /\ down[t] = <<>> /\ buffer[t] = <<>>
    BY <1>0, <2>1 DEF Connections, Streams
  <2>4. \A s \in Tcp \ {t} : tcp'[s] = tcp[s] /\ listening'[s] = listening[s]
    BY <1>0, <2>1 DEF SocketTypes
  <2>5. tcp'[t] = "connecting"
    BY <1>0, <2>1 DEF SocketTypes
  <2>6. \A s \in Tcp : Stream(s)' = Stream(s)
    BY <2>2 DEF Stream
  <2>7. Streams'
    BY <1>0, <2>2, <2>3, <2>4, <2>5, <2>6 DEF Streams
  <2> QED BY <1>0, <2>2, <2>7 DEF NothingWithheld
<1>4. ASSUME NEW t \in Tcp, tcp[t] # "free", Broken(t) PROVE Streams' /\ NothingWithheld'
  BY <1>0, <1>4, StreamClosed DEF Broken
<1>5. ASSUME NEW b \in Browser, Retry(b) PROVE Streams' /\ NothingWithheld'
  <2> DEFINE t == tcpClient[b]
  <2>1. /\ t \in Tcp /\ tcp[t] # "free"
        /\ \/ Broken(t)
           \/ UNCHANGED <<down, buffer, busy, tcp, listening, reopened, odd>>
           \/ /\ UNCHANGED <<down, buffer, busy, listening, reopened, odd>>
              /\ tcp[t] = "closed" /\ tcp' = [tcp EXCEPT ![t] = "connecting"]
    BY <1>0, <1>5, RetryCases DEF tcpVars
  <2> HIDE DEF t
  <2>2. CASE /\ UNCHANGED <<down, buffer, busy, listening, reopened, odd>>
             /\ tcp[t] = "closed" /\ tcp' = [tcp EXCEPT ![t] = "connecting"]
    BY <1>0, <1>1, <2>1, <2>2 DEF SocketTypes, Streams
  <2> QED BY <1>2, <1>4, <2>1, <2>2
<1>6. ASSUME NEW t \in Tcp, Connect(t) PROVE Streams' /\ NothingWithheld'
  <2>1. /\ tcp' = [tcp EXCEPT ![t] = "open"] /\ tcp[t] = "connecting"
        /\ listening' = [listening EXCEPT ![t] = FALSE]
        /\ reopened' = IF listening[t] THEN reopened ELSE reopened \cup {t}
        /\ UNCHANGED <<down, buffer, busy, odd>>
    BY <1>6 DEF Connect, Opened
  <2>2. \A s \in Tcp \ {t} : tcp'[s] = tcp[s] /\ listening'[s] = listening[s] /\ (s \in reopened' <=> s \in reopened)
    BY <1>0, <2>1 DEF SocketTypes
  <2>3. tcp'[t] = "open" /\ ~listening'[t]
    BY <1>0, <2>1 DEF SocketTypes
  <2>4. \A s \in Tcp : Stream(s)' = Stream(s)
    BY <2>1 DEF Stream
  <2>5. t \notin reopened' => Paired(Stream(t)) /\ Whole(Stream(t))
    <3>1. t \notin reopened' => down[t] = <<>> /\ buffer[t] = <<>>
      BY <1>0, <2>1 DEF Streams
    <3>2. <<>> \o <<>> = <<>>
      OBVIOUS
    <3> QED BY <3>1, <3>2, PairedAnswers DEF Stream
  <2>6. ASSUME NEW s \in Tcp
        PROVE  /\ (tcp'[s] = "free" \/ listening'[s]) => down'[s] = <<>> /\ buffer'[s] = <<>>
               /\ tcp'[s] # "open" => down'[s] = <<>>
               /\ s \notin odd' \cup reopened' =>
                    Paired(Stream(s)') /\ (tcp'[s] = "open" => Whole(Stream(s)'))
    <3>1. CASE s = t
      BY <2>3, <2>4, <2>5, <3>1
    <3>2. CASE s # t
      BY <1>0, <2>1, <2>2, <2>4, <3>2 DEF Streams
    <3> QED BY <3>1, <3>2
  <2>7. Streams'
    BY <2>6 DEF Streams
  <2>8. reopened \subseteq reopened'
    BY <2>1
  <2> QED BY <1>0, <2>1, <2>7, <2>8 DEF NothingWithheld
<1>7. ASSUME NEW t \in Tcp, Close(t) PROVE Streams' /\ NothingWithheld'
  BY <1>0, <1>7, StreamClosed DEF Close
<1>8. ASSUME NEW t \in Tcp, Error(t) PROVE Streams' /\ NothingWithheld'
  BY <1>4, <1>8 DEF Error
<1>9. ASSUME NEW t \in Tcp, Data(t) PROVE Streams' /\ NothingWithheld'
  <2>1. /\ UNCHANGED <<tcp, listening, reopened, odd>> /\ tcp[t] = "open" /\ busy = None /\ busy' = t
    BY <1>9 DEF Data
  <2>2. /\ Stream(t)' = Stream(t)
        /\ \A s \in Tcp \ {t} : buffer'[s] = buffer[s] /\ down'[s] = down[s]
    BY <1>0, <1>9, DataMoves DEF Stream
  <2>3. \A s \in Tcp : Stream(s)' = Stream(s)
    BY <2>2 DEF Stream
  <2>4. Streams'
    BY <1>0, <2>1, <2>2, <2>3 DEF Streams, Openings
  <2> QED BY <1>0, <2>1, <2>2, <2>4 DEF NothingWithheld
<1>10. ASSUME Object PROVE Streams' /\ NothingWithheld'
  <2>0. busy \in Tcp
    BY <1>0, <1>10 DEF SocketTypes, Object
  <2>7. PICK t \in Tcp : t = busy
    BY <2>0
  <2> DEFINE s == buffer[t]
             rest == SubSeq(s, jsonEnd(s) + 1, Len(s))
  <2>1. /\ UNCHANGED <<down, tcp, listening, reopened, odd, busy>> /\ busy # None
        /\ foundComplete(s) /\ buffer' = [buffer EXCEPT ![t] = rest]
    BY <1>10, <2>7 DEF Object
  <2>2. t \in Tcp /\ tcp[t] = "open" /\ tcp[t] # "free" /\ ~listening[t]
    BY <1>0, <2>1, <2>7 DEF Connections, Openings
  <2> HIDE DEF rest
  <2>3. buffer'[t] = rest /\ \A u \in Tcp \ {t} : buffer'[u] = buffer[u]
    BY <1>0, <2>1, <2>2 DEF StreamTypes
  <2>4. t \notin odd \cup reopened => Paired(Stream(t)') /\ Whole(Stream(t)')
    <3> SUFFICES ASSUME t \notin odd \cup reopened PROVE Paired(Stream(t)') /\ Whole(Stream(t)')
      OBVIOUS
    <3>1. Paired(s \o down[t]) /\ Whole(s \o down[t])
      BY <1>0, <2>2 DEF Streams, Stream
    <3>2. s \in Seq(Fragment) /\ s \in Seq(Token) /\ down[t] \in Seq(Token)
      BY <1>0, <2>2, StreamsOf
    <3>3. Paired(s)
      BY <3>1, <3>2, PairedParts
    <3>4. Len(s) >= 2 /\ jsonEnd(s) = 2
      BY <2>1, <3>2, <3>3, PairedObject
    <3>5. s[2].kind # "{"
      <4>1. Len(s) \in Nat
        BY <3>2
      <4>2. s # <<>> /\ 1 \in 1 .. Len(s) /\ 1 \in 1 .. Len(s) - 1 /\ 1 + 1 = 2
        BY <3>4, <4>1
      <4>3. s[1] \in Fragment
        BY <3>2, <4>2
      <4>4. s[1].kind = "{"
        BY <3>3, <4>2, <4>3 DEF Paired, Opener, Fragment
      <4>5. ~Opener(s[2])
        BY <3>3, <4>2, <4>4 DEF Paired
      <4> QED BY <4>5 DEF Opener
    <3>6. rest = SubSeq(s, 3, Len(s))
      BY <3>4 DEF rest
    <3>7. Paired(rest \o down[t]) /\ Whole(rest \o down[t])
      BY <3>1, <3>2, <3>4, <3>5, <3>6, PairedParts
    <3> QED BY <2>1, <2>3, <3>7 DEF Stream
  <2>5. ASSUME NEW u \in Tcp
        PROVE  /\ (tcp'[u] = "free" \/ listening'[u]) => down'[u] = <<>> /\ buffer'[u] = <<>>
               /\ tcp'[u] # "open" => down'[u] = <<>>
               /\ u \notin odd' \cup reopened' =>
                    Paired(Stream(u)') /\ (tcp'[u] = "open" => Whole(Stream(u)'))
    <3>1. CASE u = t
      BY <2>1, <2>2, <2>4, <3>1
    <3>2. CASE u # t
      <4>1. Stream(u)' = Stream(u) /\ buffer'[u] = buffer[u]
        BY <2>1, <2>3, <3>2 DEF Stream
      <4> QED BY <1>0, <2>1, <4>1 DEF Streams
    <3> QED BY <3>1, <3>2
  <2>6. Streams'
    BY <2>5 DEF Streams
  <2> QED BY <1>0, <2>1, <2>3, <2>6, <2>7 DEF NothingWithheld
<1>11. ASSUME EndData PROVE Streams' /\ NothingWithheld'
  <2> DEFINE t == busy
  <2>1. /\ UNCHANGED <<down, buffer, tcp, listening, reopened, odd>> /\ t # None /\ busy' = None
        /\ ~foundComplete(buffer[t])
    BY <1>11 DEF EndData, NoObject, tcpVars
  <2>2. t \in Tcp
    BY <1>0, <2>1 DEF SocketTypes
  <2>3. ASSUME t \notin odd \cup reopened
        PROVE  \A i \in DOMAIN buffer[t] : buffer[t][i].kind = "{"
    <3> DEFINE s == buffer[t]
    <3>1. s \in Seq(Fragment) /\ s \in Seq(Token) /\ down[t] \in Seq(Token)
      BY <1>0, <2>2, StreamsOf
    <3>2. Paired(s)
      BY <1>0, <2>2, <2>3, <3>1, PairedParts DEF Streams, Stream
    <3> HIDE DEF s
    <3>3. ~(Len(s) >= 2)
      BY <2>1, <3>1, <3>2, PairedObject DEF s
    <3>4. \A i \in DOMAIN s : i = 1 /\ s # <<>> /\ s[1] \in Fragment
      BY <3>1, <3>3
    <3> QED BY <3>2, <3>4 DEF Paired, Opener, Fragment, s
  <2>4. \A u \in Tcp : Stream(u)' = Stream(u)
    BY <2>1 DEF Stream
  <2>5. Streams'
    BY <1>0, <2>1, <2>4 DEF Streams
  <2> QED BY <1>0, <2>1, <2>3, <2>5 DEF NothingWithheld
<1>12. ASSUME NEW t \in Tcp, ServerReads(t) PROVE Streams' /\ NothingWithheld'
  <2>1. /\ UNCHANGED <<buffer, busy, tcp, listening, reopened, odd>> /\ tcp[t] = "open"
        /\ Refused(t) \/ Handled(t, Head(up[t]))
    BY <1>12 DEF ServerReads, Serving
  <2>2. UNCHANGED down \/ \E x \in Seq(Token) : Send(t, x) /\ Paired(x) /\ Whole(x)
    <3> DEFINE fin == <<Reply("FIN")>>
    <3>1. /\ fin \in Seq(Token) /\ Paired(fin) /\ Whole(fin)
          /\ \A a \in Kind : Tokens(Reply(a)) \in Seq(Token) /\ Paired(Tokens(Reply(a))) /\ Whole(Tokens(Reply(a)))
      BY TokenTypes, TokensTypes, PairedAnswers, OneInSeq, Zenon DEF Mark
    <3> HIDE DEF fin
    <3>2. "ERROR" \in Kind
      BY DEF Kind
    <3>3. /\ Tokens(Reply("ERROR")) \o fin \in Seq(Token)
          /\ Paired(Tokens(Reply("ERROR")) \o fin) /\ Whole(Tokens(Reply("ERROR")) \o fin)
      BY <3>1, <3>2, ConcatInSeq, PairedConcat
    <3>4. Head(up[t]).type \in {"ESTADO", "LISTA", "EXIT", "REGISTRO", "FIN"}
      BY <1>0, <1>12, ReadsTypes
    <3>5. \/ UNCHANGED down
          \/ \E a \in Kind : Send(t, Tokens(Reply(a)))
          \/ Send(t, Tokens(Reply("ERROR")) \o fin)
          \/ Send(t, fin)
      BY <2>1, <3>4, HandledSends DEF fin
    <3> QED BY <3>1, <3>3, <3>5
  <2>3. CASE UNCHANGED down
    BY <1>2, <2>1, <2>3
  <2> QED BY <1>0, <2>1, <2>2, <2>3, StreamSent
<1>13. ASSUME NEW t \in Tcp, OtherSays(t) PROVE Streams' /\ NothingWithheld'
  <2>1. UNCHANGED <<buffer, busy, tcp, listening, reopened>> /\ tcp[t] = "open"
    BY <1>13 DEF OtherSays, Serving
  <2>2. PICK x \in Said : /\ Send(t, Tokens([kind |-> "CHAT", bracket |-> x]))
                          /\ odd' = IF x = None THEN odd ELSE odd \cup {t}
    BY <1>13 DEF OtherSays
  <2> DEFINE m == [kind |-> "CHAT", bracket |-> x]
  <2>3. m \in Message /\ m.bracket = x
    BY DEF Message, Kind
  <2>6. Send(t, Tokens(m))
    BY <2>2
  <2> HIDE DEF m
  <2>7. Tokens(m) \in Seq(Token)
    BY <2>3, TokensTypes
  <2>4. t \notin odd' => Paired(Tokens(m)) /\ Whole(Tokens(m))
    BY <2>2, <2>3, PairedAnswers
  <2>5. odd \subseteq odd' /\ odd' \subseteq odd \cup {t}
    BY <2>2
  <2> QED BY <1>0, <2>1, <2>4, <2>5, <2>6, <2>7, StreamSent
<1>14. ASSUME NEW t \in Tcp, ServerAnswers(t) PROVE Streams' /\ NothingWithheld'
  <2>1. UNCHANGED <<buffer, busy, tcp, listening, reopened, odd>> /\ tcp[t] = "open"
    BY <1>14 DEF ServerAnswers, Serving
  <2>2. PICK a \in Kind : Send(t, Tokens(Reply(a)))
    BY <1>14 DEF ServerAnswers, Kind
  <2>3. /\ Tokens(Reply(a)) \in Seq(Token)
        /\ Paired(Tokens(Reply(a))) /\ Whole(Tokens(Reply(a)))
    BY TokenTypes, TokensTypes, PairedAnswers
  <2> QED BY <1>0, <2>1, <2>2, <2>3, StreamSent
<1>15. ASSUME NEW t \in Tcp, ServerRemoves(t) PROVE Streams' /\ NothingWithheld'
  BY <1>2, <1>15 DEF ServerRemoves, tcpVars
<1>16. ASSUME NEW t \in Tcp, ServerEnds(t) PROVE Streams' /\ NothingWithheld'
  <2> DEFINE fin == <<Reply("FIN")>>
  <2>1. fin \in Seq(Token) /\ Paired(fin) /\ Whole(fin)
    BY TokenTypes, PairedAnswers, OneInSeq, Zenon DEF Mark
  <2>2. UNCHANGED <<buffer, busy, tcp, listening, reopened, odd>> /\ Send(t, fin) /\ tcp[t] = "open"
    BY <1>16 DEF ServerEnds, Serving
  <2> HIDE DEF fin
  <2> QED BY <1>0, <2>1, <2>2, StreamSent
<1>17. ASSUME NEW t \in Tcp, ConnectEnded(t) PROVE Streams' /\ NothingWithheld'
  <2>0. PICK w \in Tcp : w = tcpClient[owner[t]] /\ tcp[w] # "free"
    <3>1. owner[t] \in Browser /\ tcpClient[owner[t]] # None
      BY <1>0, <1>17, OwnerTypes DEF Connections, ConnectEnded
    <3>2. tcpClient[owner[t]] \in Tcp /\ owner[tcpClient[owner[t]]] # None
      BY <1>0, <3>1 DEF MapTypes, Connections
    <3> QED BY <1>0, <3>2 DEF Connections
  <2>1. /\ tcp' = [tcp EXCEPT ![t] = "open", ![w] = "closed"] /\ tcp[t] = "connecting"
        /\ listening' = [listening EXCEPT ![t] = FALSE] /\ listening[t]
        /\ reopened' = reopened /\ down' = [down EXCEPT ![w] = <<>>]
        /\ UNCHANGED <<buffer, busy, odd>>
    BY <1>17, <2>0 DEF ConnectEnded, Opened
  <2>2. w \in Tcp /\ tcp[w] # "free"
    BY <2>0
  <2>3. down[t] = <<>> /\ buffer[t] = <<>> /\ down'[t] = <<>> /\ buffer'[t] = <<>> /\ ~listening'[t]
    BY <1>0, <2>1, <2>2 DEF Streams, StreamTypes, SocketTypes
  <2>4. /\ down'[w] = <<>> /\ tcp'[w] = "closed" /\ (listening'[w] => listening[w])
        /\ Stream(w)' = buffer[w] /\ (Paired(Stream(w)) => Paired(buffer[w]))
    <3>1. down'[w] = <<>> /\ tcp'[w] = "closed" /\ (listening'[w] => listening[w])
      BY <1>0, <2>1, <2>2 DEF StreamTypes, SocketTypes
    <3>2. buffer[w] \o <<>> = buffer[w]
      BY <1>0, <2>2, StreamsOf, ConcatEmptySeq
    <3>3. Stream(w)' = buffer[w]
      BY <2>1, <3>1, <3>2 DEF Stream
    <3>4. Paired(Stream(w)) => Paired(buffer[w])
      BY <1>0, <2>2, StreamsOf, PairedParts DEF Stream
    <3> QED BY <3>1, <3>3, <3>4
  <2>5. Paired(Stream(t)') /\ Whole(Stream(t)')
    <3>1. <<>> \o <<>> = <<>>
      OBVIOUS
    <3> QED BY <2>3, <3>1, PairedAnswers DEF Stream
  <2>6. ASSUME NEW u \in Tcp
        PROVE  /\ (tcp'[u] = "free" \/ listening'[u]) => down'[u] = <<>> /\ buffer'[u] = <<>>
               /\ tcp'[u] # "open" => down'[u] = <<>>
               /\ u \notin odd' \cup reopened' =>
                    Paired(Stream(u)') /\ (tcp'[u] = "open" => Whole(Stream(u)'))
    <3>1. CASE u = t
      BY <2>3, <2>5, <3>1
    <3>2. CASE u # t /\ u = w
      BY <1>0, <2>1, <2>2, <2>4, <3>2 DEF Streams
    <3>3. CASE u # t /\ u # w
      <4>1. Stream(u)' = Stream(u) /\ down'[u] = down[u] /\ tcp'[u] = tcp[u] /\ listening'[u] = listening[u]
        BY <1>0, <2>1, <2>2, <3>3 DEF Stream, SocketTypes, StreamTypes
      <4> QED BY <1>0, <2>1, <4>1 DEF Streams
    <3> QED BY <3>1, <3>2, <3>3
  <2>7. Streams'
    BY <2>6 DEF Streams
  <2> QED BY <1>0, <2>1, <2>7 DEF NothingWithheld
<1> QED BY <1>2, <1>3, <1>5, <1>6, <1>7, <1>8, <1>9, <1>10, <1>11, <1>12, <1>13, <1>14, <1>15, <1>16,
           <1>17, ReadFrame DEF FromServer

-----------------------------------------------------------------------------
(***************************************************************************)
(* The theorems.                                                           *)
(***************************************************************************)

LEMMA BridgeInit == Init => BridgeInv
<1> SUFFICES ASSUME Init PROVE BridgeInv
  OBVIOUS
<1> USE BridgeConstants DEF Init
<1>0. <<>> \in Seq(Request) /\ <<>> \in Seq(Token) /\ <<>> \in Seq(Fragment) /\ <<>> \in Seq(Events)
      /\ <<>> \in Seq({"OK", "ERROR"}) /\ <<>> \in Seq(Nat) /\ DOMAIN <<>> = {} /\ Len(<<>>) = 0
      /\ <<>> \o <<>> = <<>>
  OBVIOUS
<1>1. PageTypes
  BY <1>0 DEF PageTypes
<1>2. MapTypes
  BY <1>0 DEF MapTypes, Status
<1>3. SocketTypes
  BY DEF SocketTypes
<1>4. StreamTypes
  BY <1>0 DEF StreamTypes
<1>5. FateTypes
  BY <1>0 DEF FateTypes
<1>6. Connections
  BY DEF Connections
<1>7. Leaving
  BY <1>0 DEF Leaving, Forgotten
<1>8. Fates
  <2>1. Fate(<<>>, <<>>, {}, 0, FALSE)
    <3>1. Ids(<<>>) = {} /\ {<<>>[i] : i \in DOMAIN <<>>} = {} /\ 1 .. 0 = {}
      BY <1>0 DEF Ids
    <3> QED BY <1>0, <3>1 DEF Fate
  <2>2. \A b \in Browser : Fate(written[b], pendingMessages[b], refused[b], asked[b], page[b] = "gone")
    BY <2>1
  <2> QED BY <2>2 DEF Fates
<1>9. Endings
  BY DEF Endings, Ended
<1>10. Openings /\ RegistroFirst
  <2>1. \A b \in Browser : clientRegistrationStatus[b] # "registered"
    OBVIOUS
  <2> QED BY <2>1 DEF Openings, RegistroFirst
<1>11. Streams
  BY <1>0, PairedAnswers DEF Streams, Stream
<1>12. NothingWithheld
  BY <1>0 DEF NothingWithheld
<1> QED BY <1>1, <1>2, <1>3, <1>4, <1>5, <1>6, <1>7, <1>8, <1>10, <1>11, <1>12, <1>9 DEF BridgeInv

\* The invariant the properties of the bridge rest on: whose each connection is,
\* what is in flight from a page that leaves, what was written first, and that
\* what is read comes in objects.
THEOREM BridgeInvariance == Spec => []BridgeInv
<1>1. BridgeInv /\ [Next]_bridgeVars => BridgeInv'
  <2> SUFFICES ASSUME BridgeInv, [Next]_bridgeVars PROVE BridgeInv'
    OBVIOUS
  <2>1. PageTypes' /\ MapTypes' /\ SocketTypes' /\ StreamTypes'
    BY PageStep, MapStep, SocketStep, StreamStep
  <2>2. FateTypes' /\ Fates' /\ Connections' /\ Leaving' /\ Endings'
    BY FateStep, ConnectionsStep, LeavingStep, EndingsStep
  <2>3. Openings' /\ RegistroFirst' /\ Streams' /\ NothingWithheld'
    BY OpeningsStep, StreamsStep
  <2> QED BY <2>1, <2>2, <2>3 DEF BridgeInv
<1> QED BY <1>1, BridgeInit, PTL DEF Spec

\* The types of all variables, and: no complete message is left in the buffer
\* when the 'data' handler ends (server.js, the 'data' listener).
THEOREM StateIsOK == Spec => []StateOK
<1>1. BridgeInv => StateOK
  <2> SUFFICES ASSUME BridgeInv PROVE StateOK
    OBVIOUS
  <2>0. PageTypes /\ MapTypes /\ SocketTypes /\ StreamTypes /\ Connections /\ NothingWithheld
    BY DEF BridgeInv
  <2>1. ASSUME NEW b \in Browser
        PROVE  /\ \A i \in DOMAIN toBridge[b] : toBridge[b][i].event \in {"register", "clientMessage", "disconnect"}
               /\ \A i \in DOMAIN toPage[b] : toPage[b][i] \in {"OK", "ERROR"}
               /\ \A i \in DOMAIN pendingMessages[b] : pendingMessages[b][i] \in Request
    <3>1. toBridge[b] \in Seq(Events) /\ toPage[b] \in Seq({"OK", "ERROR"}) /\ pendingMessages[b] \in Seq(Request)
      BY <2>0 DEF PageTypes, MapTypes
    <3>2. \A i \in DOMAIN toBridge[b] : toBridge[b][i] \in Events
      BY <3>1
    <3>3. \A e \in Events : e.event \in {"register", "clientMessage", "disconnect"}
      BY DEF Events
    <3> QED BY <3>1, <3>2, <3>3
  <2>2. ASSUME NEW t \in Tcp
        PROVE  /\ \A i \in DOMAIN deferred[t] : deferred[t][i] \in Request
               /\ \A i \in DOMAIN up[t] : up[t][i] \in Request
               /\ \A i \in DOMAIN down[t] : down[t][i] \in Token
               /\ \A i \in DOMAIN buffer[t] : buffer[t][i] \in Token
    <3>1. deferred[t] \in Seq(Request) /\ up[t] \in Seq(Request)
      BY <2>0 DEF StreamTypes
    <3> QED BY <2>0, <3>1, StreamsOf
  <2>3. inputs \in 0 .. MaxEvents
    BY <2>0, BridgeConstants DEF PageTypes
  <2>4. TypeOK
    BY <2>0, <2>1, <2>2, <2>3 DEF TypeOK, PageTypes, MapTypes, SocketTypes, Connections, Status
  <2> QED BY <2>0, <2>4 DEF StateOK
<1> QED BY <1>1, BridgeInvariance, PTL

\* Of what a page sends nothing is lost, doubled or put out of order between the
\* page, pendingMessages and the socket (server.js, 'clientMessage' and the flush).
THEOREM MessagesHaveAFate == Spec => []EveryMessageHasAFate
<1>1. BridgeInv => EveryMessageHasAFate
  BY DEF BridgeInv, Fates, Fate, EveryMessageHasAFate
<1> QED BY <1>1, BridgeInvariance, PTL

\* The registration is the first thing on a connection (server.js, the 'connect'
\* listener), except where the page was gone before it opened, and where an answer
\* on another connection was taken for that of the registration.
THEOREM RegistrationComesFirst == Spec => []RegistroFirst
<1>1. BridgeInv => RegistroFirst
  BY DEF BridgeInv
<1> QED BY <1>1, BridgeInvariance, PTL

\* Names are mapped to a page by its connections only, when they open first.
LEMMA NamesMapped ==
  ASSUME BridgeInv, [Next]_bridgeVars, NEW b \in Browser, NEW n \in Name,
         usernameToSocketId'[n] = b, usernameToSocketId[n] # b
  PROVE  \E t \in Tcp : /\ owner[t] = b /\ userData[t] = n
                        /\ tcp[t] = "connecting" /\ listening[t] /\ ~listening'[t]
<1> USE BridgeConstants DEF mapVars
<1>0. MapTypes /\ SocketTypes /\ Connections
  BY DEF BridgeInv
<1>1. ASSUME UNCHANGED usernameToSocketId PROVE FALSE
  BY <1>1
<1>2. ASSUME NEW t \in Tcp, Connect(t) \/ ConnectEnded(t)
      PROVE  /\ owner[t] = b /\ userData[t] = n
             /\ tcp[t] = "connecting" /\ listening[t] /\ ~listening'[t]
  <2>1. tcp[t] = "connecting" /\ Opened(t)
    BY <1>2 DEF Connect, ConnectEnded
  <2>2. listening[t] /\ usernameToSocketId' = [usernameToSocketId EXCEPT ![userData[t]] = owner[t]]
    BY <1>1, <2>1 DEF Opened
  <2>3. userData[t] = n /\ owner[t] = b
    BY <1>0, <2>2 DEF MapTypes
  <2>4. ~listening'[t]
    BY <1>0, <2>1 DEF Opened, SocketTypes
  <2> QED BY <2>1, <2>2, <2>3, <2>4
<1>3. ASSUME NEW c \in Browser, Disconnect(c) PROVE FALSE
  <2>1. usernameToSocketId'[n] \in {None, usernameToSocketId[n]}
    BY <1>0, <1>3 DEF Disconnect, MapTypes
  <2> QED BY <2>1
<1>4. ASSUME NEW c \in Browser, Register(c) \/ ClientMessage(c) \/ Farewell(c) \/ Retry(c) PROVE FALSE
  BY <1>1, <1>4 DEF Register, ClientMessage, Farewell, Retry, Broken
<1>5. ASSUME NEW t \in Tcp, Close(t) \/ Error(t) PROVE FALSE
  BY <1>1, <1>5 DEF Close, Error, Broken
<1>6. ASSUME Object PROVE FALSE
  BY <1>1, <1>6 DEF Object
<1>7. CASE UNCHANGED <<mapVars, socketVars, timerVars>>
  BY <1>1, <1>7
<1> QED BY <1>2, <1>3, <1>4, <1>5, <1>6, <1>7, MapFrame

\* A page that was forgotten stays forgotten (server.js, 'disconnect'): it gets no
\* entry again in the maps of connections, statuses and queues, and names are
\* mapped to it only by connections that open for the first time (84).
THEOREM ForgottenStays == Spec => ForgottenForGood
<1>1. ASSUME BridgeInv, BridgeInv', [Next]_bridgeVars
      PROVE  [\A b \in Browser : Forgotten(b) =>
                /\ clientConnections'[b] = None /\ clientRegistrationStatus'[b] = None
                /\ pendingMessages'[b] = <<>>
                /\ \A n \in Name : (usernameToSocketId'[n] = b /\ usernameToSocketId[n] # b) =>
                     \E t \in Tcp : /\ owner[t] = b /\ userData[t] = n
                                   /\ tcp[t] = "connecting" /\ listening[t] /\ ~listening'[t]]_bridgeVars
  <2>4. \A b \in Browser, n \in Name : (usernameToSocketId'[n] = b /\ usernameToSocketId[n] # b) =>
          \E t \in Tcp : /\ owner[t] = b /\ userData[t] = n
                        /\ tcp[t] = "connecting" /\ listening[t] /\ ~listening'[t]
    BY <1>1, NamesMapped
  <2> SUFFICES ASSUME NEW b \in Browser, Forgotten(b)
               PROVE  /\ clientConnections'[b] = None /\ clientRegistrationStatus'[b] = None
                      /\ pendingMessages'[b] = <<>>
    BY <2>4
  <2>1. PageTypes /\ page[b] = "gone" /\ toBridge[b] = <<>> /\ b \notin farewells /\ page'[b] = "gone"
    BY <1>1, GoneStays DEF BridgeInv, Forgotten
  <2>2. toBridge'[b] = <<>> /\ b \notin farewells'
    <3>1. ASSUME NEW c \in Browser, NEW e, page[c] # "gone", Emit(c, e), UNCHANGED farewells
          PROVE  toBridge'[b] = <<>> /\ b \notin farewells'
      BY <2>1, <3>1 DEF Emit, PageTypes
    <3>2. ASSUME NEW c \in Browser, NEW event, Event(c, event), farewells' \subseteq farewells \cup {c}
          PROVE  toBridge'[b] = <<>> /\ b \notin farewells'
      BY <2>1, <3>2 DEF Event, PageTypes
    <3>3. ASSUME NEW c \in Browser, NEW n \in Name, Click(c, n)
          PROVE  toBridge'[b] = <<>> /\ b \notin farewells'
      BY <3>1, <3>3 DEF Click, timerVars
    <3>4. ASSUME NEW c \in Browser, NEW type \in Typed, SendMessage(c, type)
          PROVE  toBridge'[b] = <<>> /\ b \notin farewells'
      BY <3>1, <3>4 DEF SendMessage, timerVars
    <3>5. ASSUME NEW c \in Browser, Leave(c) PROVE toBridge'[b] = <<>> /\ b \notin farewells'
      BY <3>1, <3>5 DEF Leave, timerVars
    <3>6. ASSUME NEW c \in Browser, Register(c) \/ ClientMessage(c)
          PROVE  toBridge'[b] = <<>> /\ b \notin farewells'
      BY <3>2, <3>6 DEF Register, ClientMessage, timerVars
    <3>7. ASSUME NEW c \in Browser, Disconnect(c) PROVE toBridge'[b] = <<>> /\ b \notin farewells'
      <4>1. farewells' \subseteq farewells \cup {c}
        BY <3>7 DEF Disconnect
      <4> QED BY <3>2, <3>7, <4>1 DEF Disconnect
    <3>8. ASSUME NEW c \in Browser, Farewell(c) \/ ServerMessage(c)
          PROVE  toBridge'[b] = <<>> /\ b \notin farewells'
      BY <2>1, <3>8 DEF Farewell, ServerMessage, timerVars
    <3>9. CASE UNCHANGED <<page, toBridge, farewells, clientConnections>>
      BY <2>1, <3>9
    <3> QED BY <1>1, <3>3, <3>4, <3>5, <3>6, <3>7, <3>8, <3>9, LeavingFrame
  <2>3. clientConnections'[b] = None
    BY <1>1, <2>1, <2>2 DEF BridgeInv, Leaving, Forgotten
  <2> QED BY <1>1, <2>3 DEF BridgeInv, Connections
<1> QED BY <1>1, BridgeInvariance, PTL DEF Spec, ForgottenForGood
=============================================================================
