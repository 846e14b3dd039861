------------------------------ MODULE WebBridge ------------------------------
(***************************************************************************)
(* The web bridge, frontend/server.js, between the pages                   *)
(* (frontend/public/main.js) and a chat server: a page asks for a name, the *)
(* bridge opens a TCP connection for it, registers it there, and passes    *)
(* messages in both directions.  A page may ask again, after an error or   *)
(* after EXIT; the handlers of its earlier connections stay.               *)
(*                                                                         *)
(* Handlers run one at a time and to the end; `busy` marks the one that    *)
(* loops, on 'data', and what pages and servers do meanwhile is as good as *)
(* done after it.  Socket.IO and TCP keep the order of what they carry;    *)
(* TCP cuts it anywhere.  SIGINT is left out.                              *)
(***************************************************************************)
EXTENDS Integers, Sequences, FiniteSets

CONSTANTS
  Browser,    \* Socket.IO connections
  Name,       \* user names
  Tcp,        \* the TCP connections there may be, in this order
  MaxEvents,  \* bound: what users do, what fails and what others write, in all
  MaxFail,    \* bound: TCP connections that are refused or break
  Said,       \* what the texts of other users hold of brackets
  MaxSay,     \* bound: messages they write
  None

ASSUME BridgeAssumption ==
  /\ Tcp \subseteq Nat
  /\ Said \subseteq {None, "{", "}"}
  /\ MaxEvents \in Nat /\ MaxFail \in Nat /\ MaxSay \in Nat
  /\ None \notin Browser \cup Name \cup Tcp
  /\ None \notin {"pending", "registered", "failed", "disconnected"}
  /\ None \notin {"REGISTRO", "ESTADO", "LISTA", "EXIT", "FIN"}

(***************************************************************************)
(* Requests that are written to the chat server; `id` numbers those that   *)
(* come from the page, "FIN" is the end of the connection.  LISTA stands   *)
(* for all requests whose answer is no more to the bridge than something   *)
(* to pass on.                                                             *)
(***************************************************************************)
Typed   == {"ESTADO", "LISTA", "EXIT"}
Request == [type : Typed \cup {"REGISTRO", "FIN"}, id : Nat, name : Name \cup {None}]
Own(type, n) == [type |-> type, id |-> 0, name |-> n]

(***************************************************************************)
(* What a chat server sends: an answer, or a chat message.  A message is   *)
(* "{", what its text holds of brackets, and the message itself, which     *)
(* ends with "}".  "OK" and "ERROR" are in "respuesta"; there the Linux    *)
(* server writes what it did over the "OK", so that "EXITOSO", "Registro   *)
(* exitoso", accepts a registration, and its other answers, "OTRO", say    *)
(* neither.                                                                *)
(***************************************************************************)
Kind    == {"OK", "EXITOSO", "ERROR", "OTRO", "CHAT"}
Bracket == {None, "{", "}"}
Message == [kind : Kind, bracket : Bracket]
Reply(kind) == [kind |-> kind, bracket |-> None]
Mark    == {"{", "}", "FIN"}
Token   == Message \cup {Reply(mark) : mark \in Mark}
Tokens(m) ==
  <<Reply("{")>> \o (IF m.bracket = None THEN <<>> ELSE <<Reply(m.bracket)>>) \o <<m>>

VARIABLES
  page,        \* main.js: "out", "connecting" or "in" the chat; "gone"
  inputs,      \* what users did so far
  toBridge, toPage,           \* Socket.IO, in both directions
  clientRegistrationStatus, pendingMessages, clientConnections,
  usernameToSocketId,
  tcpClient, username,        \* the variables of a Socket.IO connection
  owner, userData,            \* of each TCP connection: browser and name
  tcp,         \* "free", "connecting", "open", "closed"
  listening,   \* the 'connect' listener has not run yet
  deferred,    \* what was written while connecting
  up, down,    \* in flight, in both directions
  buffer,      \* fragments of messages
  busy,        \* the TCP connection whose 'data' handler runs
  retries, farewells,         \* timers: of 3 s, how many; of 500 ms
  server,      \* the chat server: "linux" or "windows",
  members,     \* the connections registered there,
  greeted,     \* those whose first request was handled,
  owes,        \* and what a thread has still to do for a request
  fails, said, \* bounds: failures and messages of other users so far
  first,       \* history: the first request on each TCP connection
  reopened,    \* history: connected again after it was open
  misled,      \* history: another's answer was taken for that of its registration
  odd,         \* history: a text with an unbalanced bracket came
  cut,         \* history: the server closed a connection
  asked, written, refused     \* history: the page's messages and their fate

pageVars   == <<page, inputs, toPage>>
mapVars    == <<clientRegistrationStatus, pendingMessages, clientConnections, usernameToSocketId>>
socketVars == <<tcpClient, username>>
tcpVars    == <<owner, userData, tcp, listening, deferred, up, down, buffer, first, reopened,
                misled, odd>>
timerVars  == <<retries, farewells>>
worldVars  == <<server, members, greeted, owes, fails, said, cut>>
fateVars   == <<asked, written, refused>>
bridgeVars == <<pageVars, toBridge, mapVars, socketVars, tcpVars, busy, timerVars, worldVars,
                fateVars>>

Init ==
  /\ page = [b \in Browser |-> "out"] /\ inputs = 0
  /\ toBridge = [b \in Browser |-> <<>>] /\ toPage = [b \in Browser |-> <<>>]
  /\ clientRegistrationStatus = [b \in Browser |-> None]
  /\ pendingMessages = [b \in Browser |-> <<>>]
  /\ clientConnections = [b \in Browser |-> None]
  /\ usernameToSocketId = [n \in Name |-> None]
  /\ tcpClient = [b \in Browser |-> None] /\ username = [b \in Browser |-> None]
  /\ owner = [t \in Tcp |-> None] /\ userData = [t \in Tcp |-> None]
  /\ tcp = [t \in Tcp |-> "free"] /\ listening = [t \in Tcp |-> FALSE]
  /\ deferred = [t \in Tcp |-> <<>>]
  /\ up = [t \in Tcp |-> <<>>] /\ down = [t \in Tcp |-> <<>>] /\ buffer = [t \in Tcp |-> <<>>]
  /\ busy = None
  /\ retries = [b \in Browser |-> 0] /\ farewells = {}
  /\ server \in {"linux", "windows"} /\ members = {} /\ greeted = {}
  /\ owes = [t \in Tcp |-> None]
  /\ fails = 0 /\ said = 0 /\ cut = FALSE
  /\ first = [t \in Tcp |-> None] /\ reopened = {} /\ misled = {} /\ odd = {}
  /\ asked = [b \in Browser |-> 0] /\ written = [b \in Browser |-> <<>>]
  /\ refused = [b \in Browser |-> {}]

-----------------------------------------------------------------------------
(***************************************************************************)
(* The page.                                                               *)
(***************************************************************************)

Emit(b, event) == toBridge' = [toBridge EXCEPT ![b] = Append(@, event)]
More == inputs + fails + said < MaxEvents
Input == busy = None /\ More /\ inputs' = inputs + 1

Click(b, n) ==
  /\ page[b] = "out" /\ Input
  /\ Cardinality({t \in Tcp : owner[t] = None})
       > Cardinality(UNION {{<<c, i>> : i \in {j \in DOMAIN toBridge[c] : toBridge[c][j].event = "register"}}
                            : c \in Browser})
  /\ page' = [page EXCEPT ![b] = "connecting"]
  /\ Emit(b, [event |-> "register", arg |-> n])
  /\ UNCHANGED <<toPage, mapVars, socketVars, tcpVars, busy, timerVars, worldVars, fateVars>>

\* sendMessage, the status list and the request for the users.
SendMessage(b, type) ==
  /\ page[b] = "in" /\ Input
  /\ page' = [page EXCEPT ![b] = IF type = "EXIT" THEN "out" ELSE @]
  /\ Emit(b, [event |-> "clientMessage", arg |-> type])
  /\ UNCHANGED <<toPage, mapVars, socketVars, tcpVars, busy, timerVars, worldVars, fateVars>>

Leave(b) ==
  /\ busy = None /\ page[b] # "gone"
  /\ page' = [page EXCEPT ![b] = "gone"] /\ toPage' = [toPage EXCEPT ![b] = <<>>]
  /\ Emit(b, [event |-> "disconnect", arg |-> None])
  /\ UNCHANGED <<inputs, mapVars, socketVars, tcpVars, busy, timerVars, worldVars, fateVars>>

\* The 'serverMessage' listener, of answers: only a page that connects looks at
\* what they say.
ServerMessage(b) ==
  /\ busy = None /\ toPage[b] # <<>>
  /\ toPage' = [toPage EXCEPT ![b] = Tail(@)]
  /\ page' = [page EXCEPT ![b] = IF @ # "connecting" THEN @
                                 ELSE IF Head(toPage[b]) = "OK" THEN "in" ELSE "out"]
  /\ UNCHANGED <<inputs, toBridge, mapVars, socketVars, tcpVars, busy, timerVars, worldVars,
                 fateVars>>

-----------------------------------------------------------------------------
(***************************************************************************)
(* Sockets: net.Socket, as server.js uses it.                              *)
(***************************************************************************)

\* The answers a are emitted to b's page.
Tell(b, a) ==
  toPage' = [toPage EXCEPT ![b] = IF page[b] = "gone" THEN @ ELSE @ \o a]

\* The sequence r of requests is written: while connecting it waits, after the
\* end it is dropped.
Write(t, r) ==
  /\ deferred' = [deferred EXCEPT ![t] = IF tcp[t] = "connecting" THEN @ \o r ELSE @]
  /\ up' = [up EXCEPT ![t] = IF tcp[t] = "open" THEN @ \o r ELSE @]
  /\ first' = [first EXCEPT ![t] = IF tcp[t] = "open" /\ @ = None /\ r # <<>>
                                   THEN Head(r).type ELSE @]

\* The socket t is destroyed: nothing more arrives, or is sent.
Destroy(t) ==
  /\ tcp' = [tcp EXCEPT ![t] = "closed"]
  /\ deferred' = [deferred EXCEPT ![t] = <<>>]
  /\ up' = [up EXCEPT ![t] = <<>>] /\ down' = [down EXCEPT ![t] = <<>>]
  /\ members' = members \ {t} /\ greeted' = greeted \ {t} /\ owes' = [owes EXCEPT ![t] = None]

-----------------------------------------------------------------------------
(***************************************************************************)
(* Events of Socket.IO.                                                    *)
(***************************************************************************)

Event(b, event) ==
  /\ busy = None /\ toBridge[b] # <<>> /\ Head(toBridge[b]).event = event
  /\ toBridge' = [toBridge EXCEPT ![b] = Tail(@)]

Save(b, t) == clientConnections' = [clientConnections EXCEPT ![b] = t]

Register(b) ==
  /\ Event(b, "register")
  /\ \E t \in Tcp :
       /\ owner[t] = None /\ \A s \in Tcp : owner[s] = None => t <= s
       /\ owner' = [owner EXCEPT ![t] = b]
       /\ userData' = [userData EXCEPT ![t] = Head(toBridge[b]).arg]
       /\ tcp' = [tcp EXCEPT ![t] = "connecting"]
       /\ listening' = [listening EXCEPT ![t] = TRUE]
       /\ tcpClient' = [tcpClient EXCEPT ![b] = t]
       /\ Save(b, t)
  /\ username' = [username EXCEPT ![b] = Head(toBridge[b]).arg]
  /\ clientRegistrationStatus' = [clientRegistrationStatus EXCEPT ![b] = "pending"]
  /\ UNCHANGED <<pageVars, pendingMessages, usernameToSocketId, deferred, up, down, buffer, first,
                 reopened, misled, odd, busy, timerVars, worldVars, fateVars>>

\* Mutant: the registration is not waited for.
MayWriteAtOnce(b) ==
  clientConnections[b] # None /\ clientRegistrationStatus[b] \in {"pending", "registered"}

MayWrite(b) == clientConnections[b] # None /\ clientRegistrationStatus[b] = "registered"

ClientMessage(b) ==
  LET t == clientConnections[b]
      m == [type |-> Head(toBridge[b]).arg, id |-> asked[b] + 1, name |-> username[b]] IN
  /\ Event(b, "clientMessage")
  /\ asked' = [asked EXCEPT ![b] = @ + 1]
  /\ CASE MayWrite(b) ->
            /\ Write(t, <<m>>)
            /\ written' = [written EXCEPT ![b] = Append(@, m.id)]
            /\ UNCHANGED <<pendingMessages, toPage, refused>>
       [] ~MayWrite(b) /\ t # None /\ clientRegistrationStatus[b] = "pending" ->
            /\ pendingMessages' = [pendingMessages EXCEPT ![b] = Append(@, m)]
            /\ UNCHANGED <<deferred, up, first, toPage, written, refused>>
       [] OTHER ->
            /\ Tell(b, <<"ERROR">>)
            /\ refused' = [refused EXCEPT ![b] = @ \cup {m.id}]
            /\ UNCHANGED <<deferred, up, first, pendingMessages, written>>
  /\ UNCHANGED <<page, inputs, clientRegistrationStatus, clientConnections, usernameToSocketId,
                 socketVars, owner, userData, tcp, listening, down, buffer, reopened, misled, odd, busy,
                 timerVars, worldVars>>

Disconnect(b) ==
  LET t == clientConnections[b] IN
  /\ Event(b, "disconnect")
  /\ usernameToSocketId' = IF username[b] = None THEN usernameToSocketId
                           ELSE [usernameToSocketId EXCEPT ![username[b]] = None]
  /\ IF t = None THEN UNCHANGED <<deferred, up, first, farewells>>
     ELSE Write(t, <<Own("EXIT", username[b])>>) /\ farewells' = farewells \cup {b}
  /\ UNCHANGED <<pageVars, clientRegistrationStatus, pendingMessages, clientConnections, socketVars,
                 owner, userData, tcp, listening, down, buffer, reopened, misled, odd, busy, retries,
                 worldVars, fateVars>>

\* After 500 ms; end() writes the end of the connection.
Farewell(b) ==
  /\ busy = None /\ b \in farewells
  /\ farewells' = farewells \ {b}
  /\ Write(tcpClient[b], <<Own("FIN", None)>>)
  /\ clientConnections' = [clientConnections EXCEPT ![b] = None]
  /\ clientRegistrationStatus' = [clientRegistrationStatus EXCEPT ![b] = None]
  /\ pendingMessages' = [pendingMessages EXCEPT ![b] = <<>>]
  /\ UNCHANGED <<pageVars, toBridge, usernameToSocketId, socketVars, owner, userData, tcp,
                 listening, down, buffer, reopened, misled, odd, busy, retries, worldVars, fateVars>>

-----------------------------------------------------------------------------
(***************************************************************************)
(* Events of the TCP connections.                                          *)
(***************************************************************************)

\* What is written on t once it is open: what was deferred, and behind it what
\* the 'connect' listener writes.
Opening(t, hello) == deferred[t] \o hello

\* end() was called on the browser's latest connection.
Ended(b) == tcpClient[b] # None /\ clientConnections[b] = None

\* The socket t is connected.  The listener of the first connect() runs once.
Opened(t) ==
  LET b == owner[t] IN
  /\ usernameToSocketId' = IF listening[t] THEN [usernameToSocketId EXCEPT ![userData[t]] = b]
                           ELSE usernameToSocketId
  /\ listening' = [listening EXCEPT ![t] = FALSE]
  /\ reopened' = IF listening[t] THEN reopened ELSE reopened \cup {t}
  /\ first' = [s \in Tcp |-> IF first[s] = None /\ tcp'[s] = "open" /\ up'[s] # <<>>
                             THEN Head(up'[s]).type ELSE first[s]]
  /\ UNCHANGED <<page, inputs, toBridge, pendingMessages, clientConnections, socketVars, owner,
                 userData, buffer, misled, odd, busy, farewells, server, fails, said, cut, fateVars>>

\* The listener writes to the browser's latest connection, which need not be t.
Connect(t) ==
  LET w == tcpClient[owner[t]]
      hello == IF listening[t] THEN <<Own("REGISTRO", userData[t])>> ELSE <<>> IN
  /\ busy = None /\ tcp[t] = "connecting"
  /\ ~(listening[t] /\ Ended(owner[t]) /\ tcp[w] # "closed")
  /\ tcp' = [tcp EXCEPT ![t] = "open"]
  /\ up' = [s \in Tcp |-> IF s = t THEN Opening(t, IF w = t THEN hello ELSE <<>>)
                          ELSE IF s = w /\ tcp[w] = "open" THEN up[s] \o hello
                          ELSE up[s]]
  /\ deferred' = [s \in Tcp |-> IF s = t THEN <<>>
                                ELSE IF s = w /\ tcp[w] = "connecting"
                                THEN deferred[s] \o hello ELSE deferred[s]]
  /\ Opened(t)
  /\ UNCHANGED <<toPage, clientRegistrationStatus, down, members, greeted, owes, retries>>

\* Mutant: 'close' looks at no status.
CloseUnasked(b, a) ==
  /\ clientRegistrationStatus' = [clientRegistrationStatus EXCEPT ![b] = "disconnected"]
  /\ Tell(b, Append(a, "ERROR"))

\* The 'close' listener, after the answers a that were emitted just before.
Closed(b, a) ==
  IF clientRegistrationStatus[b] = "registered"
  THEN /\ clientRegistrationStatus' = [clientRegistrationStatus EXCEPT ![b] = "disconnected"]
       /\ Tell(b, Append(a, "ERROR"))
  ELSE Tell(b, a) /\ UNCHANGED clientRegistrationStatus

\* Refused, or broken: 'error', which sets a timer, and 'close'.
Broken(t) ==
  /\ Destroy(t)
  /\ Closed(owner[t], <<"ERROR">>)
  /\ UNCHANGED <<page, inputs, toBridge, pendingMessages, clientConnections, usernameToSocketId,
                 socketVars, owner, userData, listening, buffer, first, reopened, misled, odd, busy,
                 farewells, server, said, cut, fateVars>>

\* Mutant: no timer.
NoTimer(b) == UNCHANGED retries

SetTimer(b) == retries' = [retries EXCEPT ![b] = @ + 1]

Error(t) ==
  /\ busy = None /\ tcp[t] \in {"connecting", "open"} /\ More /\ fails < MaxFail
  /\ fails' = fails + 1
  /\ SetTimer(owner[t])
  /\ Broken(t)

\* After its end nothing can be written on the latest connection: what the
\* listener writes breaks it.
ConnectEnded(t) ==
  LET b == owner[t]
      w == tcpClient[b] IN
  /\ busy = None /\ tcp[t] = "connecting"
  /\ listening[t] /\ Ended(b) /\ tcp[w] # "closed"
  /\ tcp' = [tcp EXCEPT ![t] = "open", ![w] = "closed"]
  /\ up' = [up EXCEPT ![t] = Opening(t, <<>>), ![w] = <<>>]
  /\ deferred' = [deferred EXCEPT ![t] = <<>>, ![w] = <<>>]
  /\ down' = [down EXCEPT ![w] = <<>>]
  /\ members' = members \ {w} /\ greeted' = greeted \ {w} /\ owes' = [owes EXCEPT ![w] = None]
  /\ SetTimer(b)
  /\ Closed(b, <<"ERROR">>)
  /\ Opened(t)

\* After 3 s, connect() is called on the latest connection.  One that is not
\* closed breaks on it: 'error' sets the timer again.
Retry(b) ==
  LET t == tcpClient[b] IN
  /\ busy = None /\ retries[b] > 0
  /\ \/ /\ clientRegistrationStatus[b] = "pending" /\ tcp[t] = "closed"
        /\ retries' = [retries EXCEPT ![b] = @ - 1]
        /\ tcp' = [tcp EXCEPT ![t] = "connecting"]
        /\ UNCHANGED <<pageVars, toBridge, mapVars, socketVars, owner, userData, listening,
                       deferred, up, down, buffer, first, reopened, misled, odd, busy, farewells, worldVars,
                       fateVars>>
     \/ /\ clientRegistrationStatus[b] = "pending" /\ tcp[t] # "closed"
        /\ Broken(t) /\ UNCHANGED <<retries, fails>>
     \/ /\ clientRegistrationStatus[b] # "pending"
        /\ retries' = [retries EXCEPT ![b] = @ - 1]
        /\ UNCHANGED <<pageVars, toBridge, mapVars, socketVars, tcpVars, busy, farewells, worldVars,
                       fateVars>>

\* The server has ended the connection, and the rest was read.
Close(t) ==
  /\ busy = None /\ tcp[t] = "open" /\ down[t] # <<>> /\ Head(down[t]).kind = "FIN"
  /\ Destroy(t)
  /\ Closed(owner[t], <<>>)
  /\ UNCHANGED <<page, inputs, toBridge, pendingMessages, clientConnections, usernameToSocketId,
                 socketVars, owner, userData, listening, buffer, first, reopened, misled, odd, busy,
                 timerVars, server, fails, said, cut, fateVars>>

-----------------------------------------------------------------------------
(***************************************************************************)
(* The 'data' listener: complete objects are cut from the buffer, one by   *)
(* one.                                                                    *)
(***************************************************************************)

Data(t) ==
  /\ busy = None /\ tcp[t] = "open"
  /\ \E k \in 1 .. Len(down[t]) :
       /\ \A i \in 1 .. k : down[t][i].kind # "FIN"
       /\ buffer' = [buffer EXCEPT ![t] = @ \o SubSeq(down[t], 1, k)]
       /\ down' = [down EXCEPT ![t] = SubSeq(@, k + 1, Len(@))]
  /\ busy' = t
  /\ UNCHANGED <<pageVars, toBridge, mapVars, socketVars, owner, userData, tcp, listening, deferred,
                 up, first, reopened, misled, odd, timerVars, worldVars, fateVars>>

\* The first object in the buffer s: where it begins, and where it ends.
Opens(x)  == x.kind = "{"
Closes(x) == x.kind # "{"
Depth(s, i, j) == Cardinality({k \in i .. j : Opens(s[k])}) - Cardinality({k \in i .. j : Closes(s[k])})
Begins(s) == {i \in DOMAIN s : Opens(s[i])}
jsonStart(s) == CHOOSE i \in Begins(s) : \A j \in Begins(s) : i <= j
Ends(s) == {j \in DOMAIN s : j > jsonStart(s) /\ Depth(s, jsonStart(s), j) = 0}

\* Mutant: the last character is not looked at.
FoundLate(s) == Begins(s) # {} /\ \E j \in Ends(s) : j < Len(s)

foundComplete(s) == Begins(s) # {} /\ Ends(s) # {}
jsonEnd(s) == CHOOSE j \in Ends(s) : \A k \in Ends(s) : j <= k

\* JSON.parse takes the text from the first bracket to the last: a message, or
\* nothing that can be parsed.
Parsed(s) ==
  LET x == SubSeq(s, jsonStart(s), jsonEnd(s))
      m == x[Len(x)] IN
  IF m \in Message /\ x = Tokens(m) THEN m ELSE None

\* Mutant: the queue is not emptied.
FlushAgain(b) ==
  /\ Write(tcpClient[b], pendingMessages[b])
  /\ written' = [written EXCEPT ![b] = @ \o [i \in DOMAIN pendingMessages[b] |-> pendingMessages[b][i].id]]
  /\ UNCHANGED pendingMessages

Flush(b) ==
  /\ Write(tcpClient[b], pendingMessages[b])
  /\ written' = [written EXCEPT ![b] = @ \o [i \in DOMAIN pendingMessages[b] |-> pendingMessages[b][i].id]]
  /\ pendingMessages' = [pendingMessages EXCEPT ![b] = <<>>]

\* What a page is told of a message that is passed on: a page looks only at
\* "OK" and "ERROR".
Passed(m) == IF m.kind \in {"OK", "ERROR"} THEN <<m.kind>> ELSE <<>>

\* While the registration is pending, an answer is its answer, whichever
\* connection brings it; then every message is passed on, an answer that was
\* told already included.
Process(b, m) ==
  CASE clientRegistrationStatus[b] = "pending" /\ m.kind \in {"OK", "EXITOSO"} ->
         /\ clientRegistrationStatus' = [clientRegistrationStatus EXCEPT ![b] = "registered"]
         /\ Flush(b)
         /\ Tell(b, <<"OK">> \o Passed(m))
         /\ misled' = IF busy = tcpClient[b] THEN misled ELSE misled \cup {tcpClient[b]}
    [] clientRegistrationStatus[b] = "pending" /\ m.kind = "ERROR" ->
         /\ clientRegistrationStatus' = [clientRegistrationStatus EXCEPT ![b] = "failed"]
         /\ Tell(b, <<"ERROR">> \o Passed(m))
         /\ UNCHANGED <<deferred, up, first, pendingMessages, written, misled>>
    [] OTHER ->
         /\ Tell(b, Passed(m))
         /\ UNCHANGED <<deferred, up, first, clientRegistrationStatus, pendingMessages, written,
                        misled>>

Object ==
  /\ busy # None
  /\ LET s == buffer[busy]
         m == Parsed(s) IN
     /\ foundComplete(s)
     /\ buffer' = [buffer EXCEPT ![busy] = SubSeq(s, jsonEnd(s) + 1, Len(s))]
     /\ IF m = None
        THEN UNCHANGED <<toPage, deferred, up, first, clientRegistrationStatus, pendingMessages,
                         written, misled>>
        ELSE Process(owner[busy], m)
  /\ UNCHANGED <<page, inputs, toBridge, clientConnections, usernameToSocketId, socketVars, owner,
                 userData, tcp, listening, down, reopened, odd, busy, timerVars, worldVars, asked,
                 refused>>

\* Mutant: one object of each piece of data.
StopEarly == TRUE

NoObject == ~foundComplete(buffer[busy])

EndData ==
  /\ busy # None /\ NoObject
  /\ busy' = None
  /\ UNCHANGED <<pageVars, toBridge, mapVars, socketVars, tcpVars, timerVars, worldVars, fateVars>>

-----------------------------------------------------------------------------
(***************************************************************************)
(* The chat server, as far as the bridge sees it: one thread for each      *)
(* connection.                                                             *)
(***************************************************************************)

Serving(t) == busy = None /\ tcp[t] = "open" /\ \A i \in DOMAIN down[t] : down[t][i].kind # "FIN"
Send(t, x) == down' = [down EXCEPT ![t] = @ \o x]

\* REGISTRO: the user is in the table before the thread answers.  It may always
\* be refused: the name is taken, the address, or the table full.  The bridge
\* has one address, of which the Linux server accepts one user.
Registered(t) ==
  \/ /\ server = "linux" => members = {}
     /\ members' = members \cup {t} /\ owes' = [owes EXCEPT ![t] = "OK"]
     /\ UNCHANGED down
  \/ Send(t, Tokens(Reply("ERROR"))) /\ UNCHANGED <<members, owes>>

\* EXIT: the Linux server answers, then removes the user, and reads on; the
\* other one removes it and closes the connection.
Left(t) ==
  \/ /\ server = "linux"
     /\ Send(t, Tokens(Reply("OTRO"))) /\ owes' = [owes EXCEPT ![t] = "EXIT"]
     /\ UNCHANGED members
  \/ /\ server = "windows"
     /\ Send(t, <<Reply("FIN")>>) /\ members' = members \ {t} /\ UNCHANGED owes

Handled(t, r) ==
  CASE r.type = "REGISTRO" -> Registered(t)
    [] r.type = "ESTADO" ->
         /\ \E kind \in {"ERROR", IF server = "linux" THEN "OTRO" ELSE "OK"} :
              Send(t, Tokens(Reply(kind)))
         /\ UNCHANGED <<members, owes>>
    [] r.type = "LISTA" -> Send(t, Tokens(Reply("OTRO"))) /\ UNCHANGED <<members, owes>>
    [] r.type = "EXIT" -> Left(t)
    [] r.type = "FIN" ->
         Send(t, <<Reply("FIN")>>) /\ members' = members \ {t} /\ UNCHANGED owes

\* The Linux server closes a connection that begins with anything but REGISTRO.
Refused(t) ==
  Send(t, Tokens(Reply("ERROR")) \o <<Reply("FIN")>>) /\ UNCHANGED <<members, owes>>

\* Requests that come together are read together; only the first is handled.
ServerReads(t) ==
  /\ Serving(t) /\ owes[t] = None
  /\ \E k \in 1 .. Len(up[t]) :
       /\ \A i \in 2 .. k : up[t][i].type # "FIN"
       /\ up[t][1].type = "FIN" => k = 1
       /\ up' = [up EXCEPT ![t] = SubSeq(@, k + 1, Len(@))]
  /\ greeted' = greeted \cup {t}
  /\ IF server = "linux" /\ t \notin greeted /\ Head(up[t]).type \notin {"REGISTRO", "FIN"}
     THEN Refused(t) ELSE Handled(t, Head(up[t]))
  /\ UNCHANGED <<pageVars, toBridge, mapVars, socketVars, owner, userData, tcp, listening, deferred,
                 buffer, first, reopened, misled, odd, busy, timerVars, server, fails, said,
                 cut, fateVars>>

\* The answer to an accepted registration.
ServerAnswers(t) ==
  /\ Serving(t) /\ owes[t] = "OK"
  /\ Send(t, Tokens(Reply(IF server = "linux" THEN "EXITOSO" ELSE "OK")))
  /\ owes' = [owes EXCEPT ![t] = None]
  /\ UNCHANGED <<pageVars, toBridge, mapVars, socketVars, owner, userData, tcp, listening, deferred,
                 up, buffer, first, reopened, misled, odd, busy, timerVars, server, members,
                 greeted, fails, said, cut, fateVars>>

\* remove_client, after the answer to EXIT.
ServerRemoves(t) ==
  /\ Serving(t) /\ owes[t] = "EXIT"
  /\ members' = members \ {t} /\ owes' = [owes EXCEPT ![t] = None]
  /\ UNCHANGED <<pageVars, toBridge, mapVars, socketVars, tcpVars, busy, timerVars, server, greeted,
                 fails, said, cut, fateVars>>

\* Somebody writes to all, or to the user of t.
OtherSays(t) ==
  /\ Serving(t) /\ t \in members /\ More /\ said < MaxSay
  /\ said' = said + 1
  /\ \E x \in Said : /\ Send(t, Tokens([kind |-> "CHAT", bracket |-> x]))
                     /\ odd' = IF x = None THEN odd ELSE odd \cup {t}
  /\ UNCHANGED <<pageVars, toBridge, mapVars, socketVars, owner, userData, tcp, listening, deferred,
                 up, buffer, first, reopened, misled, busy, timerVars, server, members, greeted,
                 owes, fails, cut, fateVars>>

\* The server ends the connection, with or without an answer.
ServerEnds(t) ==
  /\ Serving(t) /\ More /\ fails < MaxFail
  /\ fails' = fails + 1 /\ cut' = TRUE
  /\ Send(t, <<Reply("FIN")>>)
  /\ members' = members \ {t} /\ owes' = [owes EXCEPT ![t] = None]
  /\ UNCHANGED <<pageVars, toBridge, mapVars, socketVars, owner, userData, tcp, listening, deferred,
                 up, buffer, first, reopened, misled, odd, busy, timerVars, server, greeted,
                 said, fateVars>>

-----------------------------------------------------------------------------
EventLoop ==
  \/ \E b \in Browser :
       Register(b) \/ ClientMessage(b) \/ Disconnect(b) \/ Farewell(b) \/ Retry(b)
  \/ \E t \in Tcp : Connect(t) \/ ConnectEnded(t) \/ Close(t) \/ Data(t)
  \/ Object \/ EndData

Next ==
  \/ \E b \in Browser :
       \/ \E n \in Name : Click(b, n)
       \/ \E type \in Typed : SendMessage(b, type)
       \/ Leave(b) \/ ServerMessage(b)
  \/ EventLoop
  \/ \E t \in Tcp :
       \/ Error(t) \/ OtherSays(t) \/ ServerEnds(t)
       \/ ServerReads(t) \/ ServerAnswers(t) \/ ServerRemoves(t)

\* While an event is due, a page has something to handle or the chat server to
\* read, one of them goes on; nothing makes a user act, or a connection fail.
System ==
  \/ EventLoop
  \/ \E b \in Browser : ServerMessage(b)
  \/ \E t \in Tcp : ServerReads(t) \/ ServerAnswers(t) \/ ServerRemoves(t)

Fairness == WF_bridgeVars(System)

Spec == Init /\ [][Next]_bridgeVars /\ Fairness

-----------------------------------------------------------------------------
(***************************************************************************)
(* Properties.                                                             *)
(***************************************************************************)

\* Every variable has its type.
TypeOK ==
  /\ page \in [Browser -> {"out", "connecting", "in", "gone"}] /\ inputs \in 0 .. MaxEvents
  /\ \A b \in Browser :
       /\ \A i \in DOMAIN toBridge[b] : toBridge[b][i].event \in {"register", "clientMessage", "disconnect"}
       /\ \A i \in DOMAIN toPage[b] : toPage[b][i] \in {"OK", "ERROR"}
       /\ \A i \in DOMAIN pendingMessages[b] : pendingMessages[b][i] \in Request
  /\ clientRegistrationStatus
       \in [Browser -> {None, "pending", "registered", "failed", "disconnected"}]
  /\ \A b \in Browser : clientConnections[b] \in {None, tcpClient[b]}
  /\ tcpClient \in [Browser -> Tcp \cup {None}] /\ retries \in [Browser -> Nat]
  /\ usernameToSocketId \in [Name -> Browser \cup {None}] /\ username \in [Browser -> Name \cup {None}]
  /\ owner \in [Tcp -> Browser \cup {None}] /\ userData \in [Tcp -> Name \cup {None}]
  /\ tcp \in [Tcp -> {"free", "connecting", "open", "closed"}] /\ listening \in [Tcp -> BOOLEAN]
  /\ \A t \in Tcp :
       /\ \A i \in DOMAIN deferred[t] : deferred[t][i] \in Request
       /\ \A i \in DOMAIN up[t] : up[t][i] \in Request
       /\ \A i \in DOMAIN down[t] : down[t][i] \in Token
       /\ \A i \in DOMAIN buffer[t] : buffer[t][i] \in Token
  /\ busy \in Tcp \cup {None} /\ farewells \subseteq Browser
  /\ server \in {"linux", "windows"} /\ members \subseteq Tcp /\ greeted \subseteq Tcp
  /\ owes \in [Tcp -> {None, "OK", "EXIT"}]

\* The messages of a page are written in the order of the page, none of them
\* twice, and none is lost on the way to the socket: what was not written waits
\* in the queue, or its page was told.  A page that has left loses its queue; a
\* socket that is closed loses what is written on it.
Ids(q) == {q[i].id : i \in DOMAIN q}
EveryMessageHasAFate ==
  \A b \in Browser :
    LET w == written[b]
        q == pendingMessages[b]
        out == {w[i] : i \in DOMAIN w} IN
    /\ \A i, j \in DOMAIN w : i < j => w[i] < w[j]
    /\ \A i, j \in DOMAIN q : i < j => q[i].id < q[j].id
    /\ \A i \in DOMAIN w, j \in DOMAIN q : w[i] < q[j].id
    /\ out \cap refused[b] = {} /\ Ids(q) \cap refused[b] = {}
    /\ page[b] # "gone" => out \cup Ids(q) \cup refused[b] = 1 .. asked[b]

\* A page's messages wait for its registration (server.js:25): the first thing on
\* a connection is a REGISTRO, except where the page has left before it opened
\* (its EXIT goes first, 275), and where the answer of another connection was
\* taken for that of the registration (127).
RegistroFirst ==
  \A t \in Tcp : \/ first[t] \in {None, "REGISTRO"}
                 \/ page[owner[t]] = "gone" \/ t \in misled

\* No complete message is left in the buffer when the 'data' handler ends,
\* however TCP cut or joined what came; a text with an unbalanced bracket may
\* hold back what follows it, a broken connection may leave half a message.
NothingWithheld ==
  \A t \in Tcp : (t \notin odd \cup reopened /\ busy # t) =>
    \A i \in DOMAIN buffer[t] : buffer[t][i].kind = "{"

\* The state of the bridge: the types, and what the buffers hold.
StateOK == TypeOK /\ NothingWithheld

\* A page that left and whose connection was ended gets no entry again in the
\* maps of connections, statuses and queues, whatever its connections still
\* bring; names are mapped to it by one thing only, a connection that it asked
\* for under that name and that opens for the first time now (84).  Such an
\* entry, and those of names it gave up before it left, stay for good.
Forgotten(b) ==
  page[b] = "gone" /\ toBridge[b] = <<>> /\ b \notin farewells
ForgottenForGood ==
  [][\A b \in Browser : Forgotten(b) =>
       /\ clientConnections'[b] = None /\ clientRegistrationStatus'[b] = None
       /\ pendingMessages'[b] = <<>>
       /\ \A n \in Name : (usernameToSocketId'[n] = b /\ usernameToSocketId[n] # b) =>
            \E t \in Tcp : /\ owner[t] = b /\ userData[t] = n
                          /\ tcp[t] = "connecting" /\ listening[t] /\ ~listening'[t]]_bridgeVars

\* A registration that could not connect is tried again, until it is connected,
\* or decided, or the page has left.  That a server ends the connection without
\* an answer, 'close' does not notice.
RegistrationIsRetried ==
  \A b \in Browser :
    (clientRegistrationStatus[b] = "pending")
      ~> (clientRegistrationStatus[b] # "pending" \/ tcp[tcpClient[b]] = "open" \/ cut)

\* A page that connects is told of an answer, or of an error, unless a server
\* ended a connection without an answer, or a text with an unbalanced bracket
\* came on the page's connection: written to the user before the answer, it may
\* hold that back for ever.
PageIsTold ==
  \A b \in Browser :
    (page[b] = "connecting")
      ~> (page[b] # "connecting" \/ cut \/ (toBridge[b] = <<>> /\ tcpClient[b] \in odd))
=============================================================================
