------------------------------ MODULE ChatClient ------------------------------
(***************************************************************************)
(* The terminal client: client/client.c.                                   *)
(*                                                                         *)
(* Two threads share the history, under `history_mutex`, and the flag      *)
(* `running`: main reads commands from the keyboard, receive_thread reads  *)
(* what the server sends.  /EXIT makes main cancel the other thread, which *)
(* is cancellable at any instruction, and join it.                         *)
(*                                                                         *)
(* A command and a received message are each a short program of steps;     *)
(* `todo[t]` is what thread t has left of its program.                     *)
(***************************************************************************)
EXTENDS Integers, Sequences

CONSTANTS
  MAX_HISTORY,  \* lines the history holds
  HelpLines,    \* lines of /AYUDA (9 in the code)
  Me,           \* the user of this client
  Other,        \* the other users
  Typed,        \* the commands the user may type
  Sendable,     \* the messages the server may send
  MaxInput,     \* bound: lines the user types
  MaxMessages,  \* bound: messages the server sends
  None

ASSUME ClientAssumption ==
  /\ MAX_HISTORY \in Nat \ {0} /\ HelpLines \in Nat
  /\ MaxInput \in Nat /\ MaxMessages \in Nat

Estado == {"ACTIVO", "OCUPADO", "INACTIVO"}
Index  == 0 .. MAX_HISTORY - 1

\* What the user types.  "otro" is any word that is no status.
Command == [cmd : {"BROADCAST", "DM", "LISTA", "MOSTRAR", "AYUDA", "EXIT",
                   "desconocido", "texto", "vacio"}, estado : {None}]
           \cup [cmd : {"ESTADO"}, estado : Estado \cup {"otro"}]

\* What the server sends.  OTRO is an answer the client does not show: OK,
\* MENSAJE, and the Linux server's tipo LISTA and INFO_USUARIO.  INVALIDO is
\* no JSON, users the number of users in a list.
Message == [kind : {"ERROR", "OTRO", "INVALIDO", "MOSTRAR"},
            from : {None}, users : {0}]
           \cup [kind : {"BROADCAST", "DM"}, from : {Me} \cup Other, users : {0}]
           \cup [kind : {"LISTA"}, from : {None}, users : {0, 1}]

Thread == {"main", "recv"}
Number == 0 .. MaxInput + MaxMessages
Line   == [of : Thread, n : Number]          \* of the n-th input or message
End    == [of |-> "recv", n |-> 0]           \* "Servidor desconectado."

Request == [type : {"REGISTRO", "BROADCAST", "DM", "LISTA", "MOSTRAR", "ESTADO",
                    "EXIT"}, estado : Estado \cup {None}]

ASSUME ScriptAssumption == Typed \subseteq Command /\ Sendable \subseteq Message

\* The steps of a program.
Send(r) == [op |-> "send", arg |-> r]
Set(e)  == [op |-> "set",  arg |-> e]
Add(l)  == [op |-> "add",  arg |-> l]
Do(o)   == [op |-> o, arg |-> None]

Step == {Send(r) : r \in Request} \cup {Set(e) : e \in Estado}
        \cup {Add(l) : l \in Line}
        \cup {Do(o) : o \in {"show", "stop", "shutdown", "close", "cancel", "join"}}

MainPc == {"connect", "answer", "create", "loop", "fgets", "command", "close",
           "join", "ended", "failed", "killed", "crashed"}
RecvPc == {"none", "test", "call", "blocked", "message", "tail", "last", "done",
           "cancelled"}

VARIABLES
  mpc, rpc,         \* where main and receive_thread are
  todo,             \* what each thread has left of its program
  message_history,  \* the array of lines
  history_count,
  holder,           \* who holds history_mutex
  screen,           \* the lines display_history printed last
  estado,           \* the user's status, as the client has it
  running,
  read_size,        \* of the last recv: the sign, or "unset" before the first
  sock,             \* what was done to the client's socket: "shut", "closed"
  cancelled,        \* pthread_cancel was called
  peer,             \* what came from the server's end: "fin", "rst"
  inbox,            \* messages in the socket's receive buffer
  sent,             \* history: the requests written to the socket
  written,          \* history: the lines in the order they were added
  inputs, arrived   \* lines typed and messages sent so far

historyVars == <<message_history, history_count, written>>
netVars     == <<sock, peer, inbox, arrived>>
vars == <<mpc, rpc, todo, historyVars, holder, screen, estado, running,
          read_size, netVars, cancelled, sent, inputs>>

Alive == mpc \notin {"ended", "failed", "killed", "crashed"}

Init ==
  /\ mpc = "connect" /\ rpc = "none"
  /\ todo = [t \in Thread |-> <<>>]
  /\ message_history = [i \in Index |-> None]
  /\ history_count = 0
  /\ holder = None
  /\ screen = <<>>
  /\ estado = "ACTIVO"
  /\ running = TRUE
  /\ read_size = "unset"
  /\ sock = {} /\ peer = {} /\ inbox = <<>>
  /\ cancelled = FALSE
  /\ sent = <<>> /\ written = <<>> /\ inputs = 0 /\ arrived = 0

-----------------------------------------------------------------------------
(***************************************************************************)
(* The programs: what main does with a command, and receive_thread with a  *)
(* message.                                                                *)
(***************************************************************************)

Ask(type, e) == Send([type |-> type, estado |-> e])

\* k lines of one source, and the screen drawn again.
Show(of, n, k) == [i \in 1 .. k |-> Add([of |-> of, n |-> n])] \o <<Do("show")>>

\* Mutants: EXIT is only sent; the thread is not woken; the loop goes on.
ExitForgotten == <<Ask("EXIT", None)>>
ExitNoWake    == <<Ask("EXIT", None), Do("stop"), Do("close"), Do("join")>>
ExitGoesOn ==
  <<Ask("EXIT", None), Do("shutdown"), Do("close"), Do("cancel"), Do("join")>>

HandleExit ==
  <<Ask("EXIT", None), Do("stop"), Do("shutdown"), Do("close"), Do("cancel"),
    Do("join")>>

\* Mutant: the status is not sent.
EstadoNotSent(e, n) ==
  IF e \in Estado THEN <<Set(e)>> \o Show("main", n, 1) ELSE Show("main", n, 1)

HandleEstado(e, n) ==
  IF e \in Estado THEN <<Ask("ESTADO", e), Set(e)>> \o Show("main", n, 1)
                  ELSE Show("main", n, 1)

ManejarComando(c, n) ==
  CASE c.cmd = "EXIT"                 -> HandleExit
    [] c.cmd \in {"BROADCAST", "texto"} ->
         <<Ask("BROADCAST", None)>> \o Show("main", n, 1)
    [] c.cmd = "DM"                   -> <<Ask("DM", None)>> \o Show("main", n, 1)
    [] c.cmd \in {"LISTA", "MOSTRAR"} -> <<Ask(c.cmd, None)>>
    [] c.cmd = "ESTADO"               -> HandleEstado(c.estado, n)
    [] c.cmd = "AYUDA"                -> Show("main", n, HelpLines)
    [] c.cmd = "desconocido"          -> Show("main", n, 1)
    [] c.cmd = "vacio"                -> <<>>

\* The lines a message becomes: a heading, and two fields and a rule per user
\* of a list; a heading, three fields and a rule of a MOSTRAR.
Lines(m) ==
  CASE m.kind \in {"ERROR", "DM"} -> 1
    [] m.kind = "BROADCAST"       -> IF m.from = Me THEN 0 ELSE 1
    [] m.kind = "LISTA"           -> 1 + 3 * m.users
    [] m.kind = "MOSTRAR"         -> 5
    [] m.kind \in {"OTRO", "INVALIDO"} -> 0

Handle(m, n) == IF Lines(m) = 0 THEN <<>> ELSE Show("recv", n, Lines(m))

-----------------------------------------------------------------------------
(***************************************************************************)
(* Steps both threads take: the history.                                   *)
(***************************************************************************)

Working(t) == IF t = "main" THEN mpc = "command" ELSE rpc \in {"message", "last"}

Ready(t, op) == Alive /\ Working(t) /\ todo[t] # <<>> /\ Head(todo[t]).op = op
Done(t) == todo' = [todo EXCEPT ![t] = Tail(@)]

Lock(t) ==
  /\ Ready(t, "add") \/ Ready(t, "show")
  /\ holder = None
  /\ holder' = t
  /\ UNCHANGED <<mpc, rpc, todo, historyVars, screen, estado, running,
                 read_size, netVars, cancelled, sent, inputs>>

\* Mutant: the last line is overwritten and nothing is shifted.
ShiftShort(l) == [message_history EXCEPT ![MAX_HISTORY - 1] = l]

Shifted(l) ==
  [i \in Index |-> IF i = MAX_HISTORY - 1 THEN l ELSE message_history[i + 1]]

AddToHistory(t) ==
  /\ Ready(t, "add") /\ holder = t
  /\ LET l == Head(todo[t]).arg IN
     /\ IF history_count < MAX_HISTORY
        THEN /\ message_history' = [message_history EXCEPT ![history_count] = l]
             /\ history_count' = history_count + 1
        ELSE /\ message_history' = Shifted(l)
             /\ UNCHANGED history_count
     /\ written' = Append(written, l)
  /\ holder' = None
  /\ Done(t)
  /\ UNCHANGED <<mpc, rpc, screen, estado, running, read_size, netVars,
                 cancelled, sent, inputs>>

History == [i \in 1 .. history_count |-> message_history[i - 1]]

\* `screen` is what was printed last; the heading, which is printed and the screen
\* cleared before the mutex is taken, is left out.
DisplayHistory(t) ==
  /\ Ready(t, "show") /\ holder = t
  /\ screen' = History
  /\ holder' = None
  /\ Done(t)
  /\ UNCHANGED <<mpc, rpc, historyVars, estado, running, read_size, netVars,
                 cancelled, sent, inputs>>

-----------------------------------------------------------------------------
(***************************************************************************)
(* main.                                                                   *)
(***************************************************************************)

\* send(): a closed socket gives EBADF; a connection that was reset (or given up:
\* ETIMEDOUT) an error once, and then SIGPIPE, as one that was shut down; the first
\* write after the server closed is answered with RST.
Write(r, next, error) ==
  \/ /\ "closed" \in sock \/ (sock = {} /\ "rst" \in peer)
     /\ mpc' = error /\ UNCHANGED <<sent, peer>>
  \/ /\ sock = {} /\ "rst" \notin peer
     /\ mpc' = next /\ sent' = Append(sent, r)
     /\ peer' = IF "fin" \in peer THEN peer \cup {"rst"} ELSE peer
  \/ /\ "closed" \notin sock /\ ("shut" \in sock \/ "rst" \in peer)
     /\ mpc' = "killed" /\ UNCHANGED <<sent, peer>>

\* socket, connect, getsockname and the registration.
Connect ==
  /\ mpc = "connect"
  /\ \/ mpc' = "failed" /\ UNCHANGED <<sent, peer>>
     \/ Write([type |-> "REGISTRO", estado |-> None], "answer", "failed")
  /\ UNCHANGED <<rpc, todo, historyVars, holder, screen, estado, running,
                 read_size, sock, inbox, arrived, cancelled, inputs>>

\* recv returns k >= 1 waiting messages; the parser reads the first.
Received(k) == k \in 1 .. Len(inbox) /\ inbox' = SubSeq(inbox, k + 1, Len(inbox))

\* Whatever comes first is the answer; ERROR has its reason.
Answer ==
  /\ mpc = "answer"
  /\ \/ \E k \in 1 .. Len(inbox) :
          /\ Received(k)
          /\ mpc' = IF inbox[1].m.kind = "ERROR" THEN "failed" ELSE "create"
     \/ /\ inbox = <<>> /\ peer # {}
        /\ mpc' = "failed" /\ UNCHANGED inbox
  /\ UNCHANGED <<rpc, todo, historyVars, holder, screen, estado, running,
                 read_size, sock, peer, arrived, cancelled, sent, inputs>>

\* pthread_create fails with a positive number, which is not < 0.
CreateThread ==
  /\ mpc = "create"
  /\ mpc' = "loop"
  /\ rpc' \in {"test", "none"}
  /\ UNCHANGED <<todo, historyVars, holder, screen, estado, running, read_size,
                 netVars, cancelled, sent, inputs>>

TestRunning ==
  /\ mpc = "loop"
  /\ mpc' = IF running THEN "fgets" ELSE "close"
  /\ UNCHANGED <<rpc, todo, historyVars, holder, screen, estado, running,
                 read_size, netVars, cancelled, sent, inputs>>

\* The user types a line ...
Type(c) ==
  /\ mpc = "fgets" /\ inputs < MaxInput
  /\ inputs' = inputs + 1
  /\ todo' = [todo EXCEPT !["main"] = ManejarComando(c, inputs')]
  /\ mpc' = "command"
  /\ UNCHANGED <<rpc, historyVars, holder, screen, estado, running, read_size,
                 netVars, cancelled, sent>>

\* ... or ends the input.
EndOfInput ==
  /\ mpc = "fgets"
  /\ mpc' = "close"
  /\ UNCHANGED <<rpc, todo, historyVars, holder, screen, estado, running,
                 read_size, netVars, cancelled, sent, inputs>>

\* enviar_json only prints an error.
EnviarJson ==
  /\ Ready("main", "send")
  /\ Write(Head(todo["main"]).arg, "command", "command")
  /\ Done("main")
  /\ UNCHANGED <<rpc, historyVars, holder, screen, estado, running, read_size,
                 sock, inbox, arrived, cancelled, inputs>>

SetEstado ==
  /\ Ready("main", "set")
  /\ estado' = Head(todo["main"]).arg
  /\ Done("main")
  /\ UNCHANGED <<mpc, rpc, historyVars, holder, screen, running, read_size,
                 netVars, cancelled, sent, inputs>>

StopRunning ==
  /\ Ready("main", "stop")
  /\ running' = FALSE
  /\ Done("main")
  /\ UNCHANGED <<mpc, rpc, historyVars, holder, screen, estado, read_size,
                 netVars, cancelled, sent, inputs>>

\* shutdown() and close() in handle_exit.
LeaveSocket ==
  /\ \/ Ready("main", "shutdown") /\ sock' = sock \cup {"shut"}
     \/ Ready("main", "close")    /\ sock' = sock \cup {"closed"}
  /\ Done("main")
  /\ UNCHANGED <<mpc, rpc, historyVars, holder, screen, estado, running,
                 read_size, peer, inbox, arrived, cancelled, sent, inputs>>

\* Without a thread, recv_thread is 0, which pthread_cancel dereferences.
Cancel ==
  /\ Ready("main", "cancel")
  /\ IF rpc = "none" THEN mpc' = "crashed" /\ UNCHANGED cancelled
                     ELSE cancelled' = TRUE /\ UNCHANGED mpc
  /\ Done("main")
  /\ UNCHANGED <<rpc, historyVars, holder, screen, estado, running, read_size,
                 netVars, sent, inputs>>

Join ==
  /\ Ready("main", "join") /\ rpc \in {"done", "cancelled"}
  /\ Done("main")
  /\ UNCHANGED <<mpc, rpc, historyVars, holder, screen, estado, running,
                 read_size, netVars, cancelled, sent, inputs>>

EndCommand ==
  /\ mpc = "command" /\ todo["main"] = <<>>
  /\ mpc' = "loop"
  /\ UNCHANGED <<rpc, todo, historyVars, holder, screen, estado, running,
                 read_size, netVars, cancelled, sent, inputs>>

\* After the loop.  Closing twice gives EBADF, as no descriptor was opened
\* meanwhile; joining a thread that was joined gives ESRCH.
CloseAtEnd ==
  /\ mpc = "close"
  /\ sock' = sock \cup {"closed"}
  /\ mpc' = "join"
  /\ UNCHANGED <<rpc, todo, historyVars, holder, screen, estado, running,
                 read_size, peer, inbox, arrived, cancelled, sent, inputs>>

JoinAtEnd ==
  /\ mpc = "join"
  /\ \/ rpc = "none" /\ mpc' = "crashed"
     \/ rpc \in {"done", "cancelled"} /\ mpc' = "ended"
  /\ UNCHANGED <<rpc, todo, historyVars, holder, screen, estado, running,
                 read_size, netVars, cancelled, sent, inputs>>

Main ==
  \/ Connect \/ Answer \/ CreateThread \/ TestRunning \/ EndCommand
  \/ EnviarJson \/ SetEstado \/ StopRunning \/ LeaveSocket \/ Cancel \/ Join
  \/ CloseAtEnd \/ JoinAtEnd
  \/ Lock("main") \/ AddToHistory("main") \/ DisplayHistory("main")

-----------------------------------------------------------------------------
(***************************************************************************)
(* receive_thread.                                                         *)
(***************************************************************************)

\* while (running && ...): when running is 0 at the first test, read_size was
\* never set.
RecvTest ==
  /\ Alive /\ rpc = "test"
  /\ rpc' = IF running THEN "call" ELSE "tail"
  /\ UNCHANGED <<mpc, todo, historyVars, holder, screen, estado, running,
                 read_size, netVars, cancelled, sent, inputs>>

\* recv on a closed descriptor fails; a call that waits is not disturbed by
\* close().
RecvCall ==
  /\ Alive /\ rpc = "call"
  /\ IF "closed" \in sock THEN rpc' = "tail" /\ read_size' = "minus"
                          ELSE rpc' = "blocked" /\ UNCHANGED read_size
  /\ UNCHANGED <<mpc, todo, historyVars, holder, screen, estado, running,
                 netVars, cancelled, sent, inputs>>

RecvMessage ==
  /\ Alive /\ rpc = "blocked"
  /\ \E k \in 1 .. Len(inbox) : Received(k)
  /\ todo' = [todo EXCEPT !["recv"] = Handle(inbox[1].m, inbox[1].n)]
  /\ read_size' = "plus"
  /\ rpc' = "message"
  /\ UNCHANGED <<mpc, historyVars, holder, screen, estado, running, sock, peer,
                 arrived, cancelled, sent, inputs>>

RecvEnd ==
  /\ Alive /\ rpc = "blocked" /\ inbox = <<>>
  /\ \/ ("fin" \in peer \/ "shut" \in sock) /\ read_size' = "zero"
     \/ peer = {"rst"} /\ "shut" \notin sock /\ read_size' = "minus"
  /\ rpc' = "tail"
  /\ UNCHANGED <<mpc, todo, historyVars, holder, screen, estado, running,
                 netVars, cancelled, sent, inputs>>

EndMessage ==
  /\ Alive /\ rpc = "message" /\ todo["recv"] = <<>>
  /\ rpc' = "test"
  /\ UNCHANGED <<mpc, todo, historyVars, holder, screen, estado, running,
                 read_size, netVars, cancelled, sent, inputs>>

\* if (read_size == 0): the line is added, and the screen not drawn.
AfterLoop ==
  /\ Alive /\ rpc = "tail"
  /\ \E zero \in IF read_size = "unset" THEN BOOLEAN ELSE {read_size = "zero"} :
       todo' = [todo EXCEPT !["recv"] = IF zero THEN <<Add(End)>> ELSE <<>>]
  /\ rpc' = "last"
  /\ UNCHANGED <<mpc, historyVars, holder, screen, estado, running, read_size,
                 netVars, cancelled, sent, inputs>>

EndThread ==
  /\ Alive /\ rpc = "last" /\ todo["recv"] = <<>>
  /\ running' = FALSE
  /\ rpc' = "done"
  /\ UNCHANGED <<mpc, todo, historyVars, holder, screen, estado, read_size,
                 netVars, cancelled, sent, inputs>>

\* Asynchronous cancellation: anywhere, also while the mutex is held.
Cancelled ==
  /\ Alive /\ cancelled /\ rpc \notin {"none", "done", "cancelled"}
  /\ rpc' = "cancelled"
  /\ UNCHANGED <<mpc, todo, historyVars, holder, screen, estado, running,
                 read_size, netVars, cancelled, sent, inputs>>

Receiver ==
  \/ RecvTest \/ RecvCall \/ RecvMessage \/ RecvEnd \/ EndMessage \/ AfterLoop
  \/ EndThread \/ Cancelled
  \/ Lock("recv") \/ AddToHistory("recv") \/ DisplayHistory("recv")

-----------------------------------------------------------------------------
(***************************************************************************)
(* The server, as the client sees it.                                      *)
(***************************************************************************)

ServerSends(m) ==
  /\ Alive /\ mpc # "connect" /\ peer = {} /\ arrived < MaxMessages
  /\ arrived' = arrived + 1
  /\ inbox' = Append(inbox, [m |-> m, n |-> arrived'])
  /\ UNCHANGED <<mpc, rpc, todo, historyVars, holder, screen, estado, running,
                 read_size, sock, peer, cancelled, sent, inputs>>

ServerCloses ==
  /\ Alive /\ mpc # "connect" /\ peer = {}
  /\ peer' \in {{"fin"}, {"rst"}}
  /\ UNCHANGED <<mpc, rpc, todo, historyVars, holder, screen, estado, running,
                 read_size, sock, inbox, arrived, cancelled, sent, inputs>>

Stopped == ~Alive /\ UNCHANGED vars

Next ==
  \/ Main \/ Receiver
  \/ \E c \in Typed : Type(c)
  \/ EndOfInput
  \/ \E m \in Sendable : ServerSends(m)
  \/ ServerCloses
  \/ Stopped

Spec == Init /\ [][Next]_vars

\* The scheduler runs both threads, and the signal of a cancellation arrives.
\* Nothing makes the user type or the server answer.
LiveSpec == Spec /\ WF_vars(Main) /\ WF_vars(Receiver) /\ WF_vars(Cancelled)

-----------------------------------------------------------------------------
(***************************************************************************)
(* Properties.                                                             *)
(***************************************************************************)

InboxItem == [m : Message, n : Number]

\* Every variable has its type; the steps of a program are steps.
TypeOK ==
  /\ mpc \in MainPc /\ rpc \in RecvPc
  /\ todo \in [Thread -> Seq(Step)]
  /\ message_history \in [Index -> Line \cup {None}]
  /\ history_count \in 0 .. MAX_HISTORY
  /\ holder \in Thread \cup {None}
  /\ screen \in Seq(Line \cup {None})
  /\ estado \in Estado /\ running \in BOOLEAN
  /\ read_size \in {"unset", "plus", "zero", "minus"}
  /\ sock \subseteq {"shut", "closed"} /\ peer \subseteq {"fin", "rst"}
  /\ cancelled \in BOOLEAN
  /\ inbox \in Seq(InboxItem)
  /\ sent \in Seq(Request) /\ written \in Seq(Line)
  /\ inputs \in 0 .. MaxInput /\ arrived \in 0 .. MaxMessages

\* The last MAX_HISTORY lines of a sequence, or all of them.
Window(s) ==
  SubSeq(s, 1 + (IF Len(s) > MAX_HISTORY THEN Len(s) - MAX_HISTORY ELSE 0), Len(s))

\* What display_history prints is what both threads added, in the order they
\* added it, without the lines that are too old: add_to_history neither loses
\* nor repeats a line when it begins to shift.
HistoryIsRecent == History = Window(written)

\* Whoever added the last line, when neither thread has anything left to do
\* the screen shows the whole history: the line and the drawing are two
\* critical sections (client.c:90-91, 337-338), with the other thread between
\* them.  Only the line that says the server is gone is not drawn (347).
ScreenIsCurrent ==
  (todo["main"] = <<>> /\ todo["recv"] = <<>> /\ \A i \in DOMAIN written : written[i] # End)
    => screen = History

\* The state of the program: the types, the history and the screen.
StateOK == TypeOK /\ HistoryIsRecent /\ ScreenIsCurrent

\* The receive thread may die with history_mutex held (client.c:221).  Then
\* main is on its way out and never asks for the mutex again.
NobodyWaitsForTheDead ==
  (holder = "recv" /\ rpc = "cancelled") =>
    /\ ~running
    /\ \A i \in DOMAIN todo["main"] : todo["main"][i].op \notin {"add", "show"}

\* The server hears the registration first and once, and nothing after EXIT.
SentInOrder ==
  \A i \in DOMAIN sent :
    /\ sent[i].type = "REGISTRO" <=> i = 1
    /\ sent[i].type = "EXIT" => i = Len(sent)

Told == {i \in DOMAIN sent : sent[i].type = "ESTADO"}

\* As long as the connection was not reset, the status the client shows between
\* commands is the last one it wrote to the server (client.c:141-145).  Nothing is
\* said of a status the server refuses, nor of one whose send failed: enviar_json
\* reports an error only to the user (62), and the status is set all the same.
EstadoWasTold ==
  (Alive /\ mpc # "command" /\ "rst" \notin peer) =>
    \/ Told = {} /\ estado = "ACTIVO"
    \/ \E i \in Told : (\A j \in Told : j <= i) /\ sent[i].estado = estado

\* /EXIT ends the process: the receive thread is woken, cancelled and joined,
\* whatever it was doing (client.c:201-223).
ExitEnds == (\E i \in DOMAIN sent : sent[i].type = "EXIT") ~> ~Alive

\* Leaving the loop at the end of the input ends the process (client.c:456,
\* "salir del bucle", and 470, "Esperar a que termine el thread").
EndOfInputEnds == (mpc = "close") ~> ~Alive
=============================================================================
