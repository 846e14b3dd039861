# Verification of CHAT-SISTOS

TLA+ models of the chat system in this repository, the TLC configurations that
check them on small instances, and proofs, checked by TLAPS, that hold for
every size. Paths are relative to the repository's `src/`.

## 1. The system

| Part | Code | State it keeps | Operations |
|---|---|---|---|
| Linux server | `server/server.c`, `server/server_utils.c` | `clients[100]` (pointers), `clients_mutex`, one thread and one descriptor per connection | accept, REGISTRO, ESTADO, MOSTRAR, EXIT, MENSAJE, BROADCAST, DM, LISTA, end of stream |
| Windows server | `serverwindows/server.c`, `serverwindows/server_utils.c` | `clients[100]` (values, never removed), `client_count`, `clients_mutex`, per-thread `client_info`, `last_action` times | the same requests, and a thread that marks idle users INACTIVO |
| Terminal client | `client/client.c` | `sock`, `estado`, `running`, a history of 100 lines under `history_mutex`, two threads | register, the commands, receive, EXIT |
| Web bridge | `frontend/server.js` | per browser: a TCP connection, a registration status, a queue of pending messages, a receive buffer; a map from names to browsers | register, clientMessage, data, error and reconnect, close, disconnect |
| Browser page | `frontend/public/main.js` | connection status, user name, what is shown | register, send, show, exit |
| cJSON | `serverwindows/cJSON/cJSON.c` | trees of linked items on the heap, a print buffer, a parse buffer | create, add, insert, detach, replace, duplicate, delete; print; parse; minify |
| cJSON_Utils | `serverwindows/cJSON/cJSON_Utils.c` | works on cJSON's trees | sort, compare, JSON pointer, patch, merge patch |
| Message helpers | `utils/protocol.c` | none | built as a library, called by nothing |
| Node modules | `frontend/node_modules` | | third-party |

Interactions. A client (terminal or bridge) opens a TCP connection, sends
REGISTRO and then requests, one JSON object each, with no framing. A server's
threads share one table and write to each other's sockets: a BROADCAST or a DM
is written by the sender's thread. The bridge multiplexes browsers over TCP
connections of their own and fans what comes back out to them by name. The
Windows server reads and writes its messages with cJSON, whose source is kept
in the repository.

What is hard in it:

* Table entries name a connection only by descriptor *number*; numbers are reused.
* Sends block, and most of them happen while the mutex is held.
* A write to a connection that was reset raises SIGPIPE, which nobody handles.
* Nothing is framed: two requests in one `recv` are one request, the first.
* A registration is visible to other threads before it is answered.
* (Windows server) pointers into the table are used after the unlock, the
  duplicate check and the insertion are separate, rows are never removed.
* (Client) the receive thread is cancelled at any instruction, also while it
  holds `history_mutex`; adding a line and drawing the screen are two critical
  sections.
* (Bridge) timers and listeners of connections a page has replaced or left go
  on; TCP cuts and joins messages; texts may hold brackets.
* (cJSON) the `prev` of the first child is the end of the list, and every
  operation has to keep that true; every allocation may fail half way; offsets
  and buffer ends are checked in some places and relied on in others.

What makes each part correct:

* Linux server: a handler holds the mutex exactly between its lock and unlock;
  no entry outlives its connection; users and addresses are unique; an answer
  goes to whoever asked, an error about a DM's receiver to whoever bears the
  sender's name, and a DM to whoever it names; a user leaves only by
  itself; the mutex is always released and the departed are removed; together,
  it behaves like a chat room.
* Windows server: the same list, most of which its locking does not give it.
* Client: the history is a window of the last lines both threads added and the
  screen shows it; what the server hears is in order and, until the connection is
  reset, the status the client shows is the last one it sent; EXIT ends the process.
* Bridge: each message of a page is written once and in order, or waits, or is
  reported; a page's messages wait for its registration; complete messages are not
  held back; a page is told how its registration went; a page that left is forgotten,
  but for the names that its connections still map to it.
* cJSON: the heap is a forest of well-linked lists and nothing leaks; printing
  stays in its buffer and parsing in its input; what is printed parses back to
  the same; what is accepted is JSON; patches lead from one document to the other.

## 2. Modules

| Module | What it is |
|---|---|
| `LinuxServer` | the Linux server: threads, mutex, table, kernel descriptors, peers |
| `ChatRoom` | what it promises: connections enter, change status and leave |
| `LinuxServerProofs` | its inductive invariant, the safety theorems, and the proof that it implements `ChatRoom` |
| `WinServer`, `WinServerProofs` | the Windows server, its inductive invariant and what follows |
| `ChatClient`, `ChatClientProofs` | the terminal client: two threads, the history, EXIT; its inductive invariant and theorems |
| `WebBridge`, `WebBridgeProofs` | the bridge between a page and a chat server, both of which it models as its peers; its inductive invariant and theorems |
| `CJsonTree`, `CJsonTreeProofs` | the item interface of cJSON on the heap; its inductive invariant and theorems |
| `JsonForest` | what it promises: a forest of ordered trees |
| `CJsonTreeRefinement` | the proof that `CJsonTree` implements `JsonForest` |
| `CJsonPrint`, `CJsonPrintProofs` | the print buffer and every printing function; theorems |
| `CJsonParse`, `CJsonParseProofs` | the parser, its allocations and its offset, and the grammar it is judged by; theorems |
| `CJsonStrings` | string literals byte by byte: reading, writing, passing over them (`cJSON_Minify`) |
| `CJsonText` | printing, parsing and literals composed: what is printed is parsed |
| `CJsonPatch` | cJSON_Utils: sorting, comparing, pointers, patches, merge patches |
| `MC...` | instances for TLC |

### LinuxServer

A connection `c` is an element of `Conn`; at most one thread works for it.
`pc[c]` says where that thread is: `first` and `loop` are the two `recv` calls,
`lock` is the wait for `clients_mutex`, `cs` a critical section, `sendcs` a send
that ends one, `reply` and `refuse` sends outside it, `close` the end of
`handle_client`. `req[c]` is the request being handled, `reply[c]` the message
waiting to be written, and to which descriptor number. `kernel` is the
kernel's table of descriptors and `sock[c]` the number the thread holds, so that
reuse of numbers can be seen. `inq[c]` and `out[c]` are the two directions of
the TCP connection, `peer[c]` the state of its remote end.

One action per handler: `RegisterClient`, `HandleEstado`, `HandleMostrar`,
`SendDirectMessage`, `ListConnectedUsers`, `BroadcastSend`/`BroadcastEnd`,
`RemoveClient`. A handler is split exactly where another thread can see it: at the
lock, at each send and at the unlock. A scan of the table inside the mutex is
one step, except in `broadcast_message`, which sends from inside its loop.

What the data is reduced to: names, addresses and status strings are model
values; a request is its type and the fields the handlers test; message texts are
left out. `usuario` stands for `nombre_emisor` too. Two details of data are
kept because behaviour depends on them: names of 50 bytes or more (`LongName`),
which `strcmp` cannot compare once stored, and the length of a list (`ListCap`): a
list with more entries is answered `TRUNCADA`, cut where the buffer ends.

Deliberate limits:

* The first `recv` is assumed to return the whole registration; the byte written
  past `buffer` when it returns exactly 1024 is not modelled.
* `getpeername` is assumed to succeed.
* A program sends REGISTRO once per connection. The server would accept another
  after an EXIT; no program of the repository sends one.
* Status strings are shorter than `ESTADO_LENGTH` (10), as all the client allows are.
* `malloc`, `pthread_create`, `bind` and `listen` are assumed to succeed; their
  results are not checked by the code. After a crash (`SigPipe`) the operator may
  start the server again (`Restart`); nothing is persisted.
* A connection that ends is forgotten with its unread data; the same element of
  `Conn` can then stand for a new connection from the same address.

### ChatRoom and the refinement

`room[c]` is the user name and status of connection `c`, or nothing. The mapping
(`SessionOf`) reads it from the table through the kernel's descriptors: `c` is in
the room if some entry holds a number that is *now* `c`'s. A stale entry would
make a stranger appear in the room, so the refinement fails if `remove_client`
ever comes after `close`.

### WinServer

`rows` is `clients` and `count` is `client_count`. A row is written by `add_client`
and never removed: `HandleExit` and `RemoveClient` only clear `active`, and
`Touch` (`actualizar_actividad` under the mutex) sets it again. `idle` says that `last_action` is
more than 30 seconds old. A row names its connection by socket number; `kernel`
says whose number that is now, and `sock[c]` is the number a thread goes on
using after it handled EXIT and closed it.

A request takes the steps `Receive`, `Touch`, `Find`, the handler, `SendReply`, as
the code takes and gives back the mutex between them: `ptr[c]` is the pointer
`find_client_by_username` returned, used after the unlock; `idx[c]` is the
index `add_client` read, or that of the loop in `broadcast_message`. A broadcast
and a list take the mutex (`LockAll`), send while they hold it (`BroadcastSend`,
`SendList`), and wait there while the buffer of the peer is full; `out` counts
what a peer has not yet read. A round of the inactivity thread takes the mutex and
goes from row to row (`scan`); its test and its write are two steps (`due`), since
handlers write the status without the mutex.

`MutexWorks` says whether `clients_mutex` excludes anybody. The POSIX branch of
the source initialises it; on Windows it is a NULL handle, no `CreateMutex`
follows, and `WaitForSingleObject` fails at once with its result ignored.

Deliberate limits:

* A scan of the table is one step where nothing is sent or written in between.
  Without a mutex it is a snapshot; only `add_client` is split into read and write.
  Its increment and its copy of the row are one step, and so are the comparison and
  the write of a status in the handler (`HandleEstado`).
* A round of the inactivity thread that starts while nobody is idle is left out: no
  step makes a user idle during a round, whose clock was read at its start.
* A send to a peer that is gone fails and nothing else; `LinuxServer` covers SIGPIPE.
* `accept` may return any free number. On POSIX it is the lowest free one; Windows
  promises nothing.
* The address is the `direccionIP` of the message, as in the code.
* A program sends REGISTRO once per connection and first, as in `LinuxServer`, and EXIT
  last, as the client and the bridge do.
* Every request has a `tipo` that is a string.

### ChatClient

A command and a received message are each a short *program* of steps (send a
request, set the status, add a line, draw the screen, stop the loops, shut down,
close, cancel, join); `todo[t]` is what thread `t` has left of its program.
`ManejarComando` and `Handle` give the programs, line by line those of
`manejar_comando`, `handle_exit` and `receive_thread`. A line that is added or a
screen that is drawn takes two steps, the lock and the critical section
(`Lock`, `AddToHistory`, `DisplayHistory`), so that the other thread, or a
cancellation, comes between.

`mpc` and `rpc` are where main and `receive_thread` are. `message_history` is the
array with its shift, `written` the lines in the order they were added.
`Cancelled` may happen anywhere, also with the mutex held. `Write` has the outcomes
of `send`: written, an error (EBADF, or that of a connection that was reset), after
which the program goes on, and SIGPIPE. Clearing the screen and the heading,
before the mutex is taken, are left out. `read_size` is "unset" until the
first `recv`, because the code tests it uninitialised when `running` is 0 at the
first test: `AfterLoop` then takes either branch. A line is who added it and for
which input or message; texts are left out.

### WebBridge

One action per listener: `Register`, `ClientMessage`, `Disconnect` of Socket.IO;
`Connect`, `Error`, `Close`, `Data` of a TCP connection; `Retry` and `Farewell`
are the timers of 3 s and 500 ms. Handlers run to the end; the 'data' listener
loops, one `Object` a round, and `busy` names the connection while it does, which
holds everything else up. `tcpClient[b]` and `username[b]` are the variables of
the Socket.IO connection that *all* listeners of that page share, those of
earlier TCP connections included; `owner`, `userData`, `listening` belong to one
TCP connection. `deferred` is what was written before the connection was open:
net.Socket sends it first, and what the 'connect' listener writes (REGISTRO) behind it
(`Opening`). The listener writes to the page's *latest* connection; after `end()` that
write fails and breaks it (`ConnectEnded`).

Text on the way is a sequence of tokens: "{", perhaps a bracket inside the text,
and the message, which stands for its last "}". `jsonStart`, `jsonEnd` and
`foundComplete` count brackets as the loop does, blind to strings; `Parsed` is
`JSON.parse`. To whom chat messages are passed on is left out.

The page (`Click`, `SendMessage`, `ServerMessage`, `Leave`) and the chat server are
the bridge's peers. The server is either of the two (`server`), as far as a
connection shows: `ServerReads` takes several requests as one and handles the first;
a registration enters the user (`members`) before it is answered (`owes`,
`ServerAnswers`), so that what others write to all (`OtherSays`) can overtake the
answer; the Linux server accepts one user of an address, refuses a connection that
does not begin with REGISTRO (`greeted`), and after the answer to EXIT removes the
user and reads on (`ServerRemoves`); the Windows server closes after EXIT; and either
may end a connection without an answer (`ServerEnds`). In the Linux server's answer
"respuesta" stands twice, and json-c keeps the second: of its answers that accept,
only "Registro exitoso" is one the bridge knows. SIGINT and the
error middleware of express are left out.

### CJsonTree and JsonForest

`heap` is memory for items, block by block, with `next`, `prev`, `child`, `string`
and the flags; `live` what is allocated, `roots` the items the application holds,
`strings` how many strings are allocated. One action is one call of the
interface, with its failures: an allocation may fail wherever the code allocates.
The application keeps the rules of cJSON's `README.md`: an item is added to one
place, and not below itself; what a reference shows outlives it (of strings this is
not followed: no call modelled reads what a string reference shows). `App` gives
it its memory and what it uses of names, string values and references, so
that long lists and rich items are both covered with few blocks.
`JsonForest` is what a caller may believe: ordered trees, of which a call makes,
moves, replaces or drops whole ones. The mapping reads the children of an
item by `next` and the tree by `child`. A tree is the least set that has its
root and, with an item, the item's children: no recursion, so that it can be
reasoned about.

### CJsonPrint, CJsonParse, CJsonStrings, CJsonText

The printer chooses the tree it prints as it goes, so that its behaviours are the
printings of all trees; each call of `ensure` is a step, and `tail` counts the
bytes behind `offset` that `update_offset` will find with `strlen`. A leaf is a
token with a size. The parser reads symbols: the offset, the stack of open
containers, what each has allocated, and whether a byte behind the input was
read. `CJsonStrings` is the code of `parse_string`, `print_string_ptr`,
`utf16_literal_to_utf8`, `parse_hex4` and `cJSON_Minify` over bytes. `CJsonText`
puts them together: it hands the parser what the printer wrote, whole or with a
token missing, or other inputs, and the literal functions literals.

Not modelled there: how `print_number` chooses its digits, `strtod`, and the
position `cJSON_GetErrorPtr` reports.

### CJsonPatch

An item is a value with its children in order and `tail`: where the `prev` of the
first child points, which sorting leaves behind. A pointer is the sequence of its
tokens, escaped as they stand between slashes; `decode_pointer_inplace` is the
code's, with what it does to escapes. `apply_patch` gives the
document and the status code of every early return. Two documents are compared
and a patch array is made and applied operation by operation (`Step`); merge
patches are operators. Left out: `cJSONUtils_FindPointerFromObjectTo` and failing
allocations.

## 3. Runs

| Run | Expect | Question |
|---|---|---|
| `server_sessions` | pass | registration, a full table, EXIT, ESTADO, MOSTRAR, DM, disconnection, crash and restart among three connections that clash in name, over two descriptors and two slots; the refinement |
| `server_live` | pass | the mutex is given back whatever is sent under it, and the departed are removed |
| `win_table` | pass | with a mutex that works: two users at a time until the table is full and beyond, broadcasts, lists, DMs and the status of another; no registration overwrites another, the sections exclude one another, pointers lead to the name that was looked up |
| `win_idle` | pass | the inactivity thread against broadcasts, EXIT, a full table and a user who sets the status of another: a status changes only for a reason, an idle ACTIVO user becomes INACTIVO |
| `win_duplicate` | violation | unique names, when two threads search before either adds |
| `win_members` | violation | every member is in the table and gets the broadcasts, when a page that was refused its name leaves with EXIT |
| `client` | pass | two lines typed and two messages received, of every kind: the history, the screen, the order of what is sent, the status, EXIT and cancellation |
| `client_eof` | violation | the end of the input ends the process |
| `cjson_tree` | pass | every sequence of calls over up to five items: links, leaks, and the refinement of `JsonForest` |
| `cjson_text` | pass | buffers around their limits; printing and parsing back; other inputs; literals |
| `cjson_patch` | pass | patches between every two documents of a set, and other patch arrays |
| `bridge` | pass | one page over two TCP connections that are refused, break or are ended, with data cut and joined anywhere |

Bounds.

* `server_*`: three connections, names and addresses, two descriptors and two slots
  are enough for a clash, a reuse of a descriptor and a full table to happen
  together; `InCap` and `OutCap` of 1 already make sends block; `Script` gives
  each program the requests of the run's question; `ListCap` stands for the ~25
  entries that fit in 1023 bytes.
* `win_table`, `win_idle`: two rows, so that the table fills and a registration finds
  it full; `win_table` has two socket numbers, for two users at once, `win_idle` one,
  so that whoever comes next has it. `MayIdle` says for which rows 30 seconds may
  pass. The violations have four rows, so that a full table is not their reason.
* `client`: a history of three lines, so that one list (four lines) overflows it;
  of commands and messages with the same program one stands for all. Two inputs
  and two messages let each thread interrupt the other twice.
* `cjson_tree`: five blocks for plain items (a parent and a list of four: first,
  middle, last, new), four with names, three with string values, references to items
  and to strings, and names that differ only in case.
* `cjson_text`: buffers of 0 to 12 bytes around the lengths of the texts, `INT_MAX`
  40 so that doubling meets it, nesting limit 2, numbers of two characters (63 in the
  code); every input up to three symbols, brackets, or digits in arrays, up to five; literals of up to four pieces, escapes and halves of
  surrogate pairs among them.
* `cjson_patch`: documents with up to three children, names that need an escape or
  differ in case, and one level below; patch arrays of up to two operations.
* `bridge`: four events (what a user does, what fails, what others write), two
  connections, so that a page can register again after its first connection
  failed; a text with "{" and one with "}", written before or after the answer to
  the registration; either server.

Fairness.

* `LinuxServer!LiveSpec`: weak fairness of every thread, since the scheduler runs
  what can run; strong fairness of a send inside the mutex, since the kernel
  wakes a writer each time its socket drains; weak fairness of reading for the
  programs in `Reader`, whose receive loop calls `recv` again (`client/client.c:232`).
  Nothing makes a peer send or close. A pthread mutex does not queue its waiters,
  so `GoneIsReleased` allows for the case in which other threads take it for ever.
* `WinServer!LiveSpec`: the same for its threads, for the two sends inside the mutex
  and for the programs in `Reader`, and weak fairness of `CheckInactivity`, a loop
  that sleeps five seconds. `IdleBecomesInactive` makes the same allowance, and
  takes every peer to read: one that does not holds up everybody (section 5).
* `ChatClient!LiveSpec`: weak fairness of each thread, and of the arrival of a
  cancellation that was sent. Nothing makes the user type or the server answer.
* `WebBridge!Spec`: one weak fairness of `System`: while an event is due, a page has
  something to handle or the chat server something to read, one of them goes on.
  No single listener is promised its turn before the others.
* The cJSON modules are sequential code; they have safety only.

## 4. What is proved

All theorems hold for every value of the constants, from the assumptions the
modules name.

### LinuxServer

`TypeCorrect`, `Invariance`, `MutualExclusion`, `NoStaleEntry`, `Uniqueness`,
`AnswersReachTheirAsker`, `LeavingIsOwn`, `DMReachesItsReceiver`: the safety
properties of the run; `ServerImplementsRoom`: the refinement.

The argument. `EntriesAreLive` is not inductive alone. `remove_client` clears the
*first* slot with the thread's number; it clears all of them only because a
number stands in one slot at most (`OneEntry`), which follows from the unique
*addresses*: an entry's number leads through `kernel` to one connection and that
has one address. So `IInv` carries `UniqueUsers`; `Descriptors` (a thread and
the kernel agree on its number) makes `close` free the right number;
`FieldsPresent` (the dispatch lets only complete requests through) types the new
entry; `PendingReply` ties a waiting message to a send. One lemma per part shows
that each action preserves it. `AnswersReachTheirAsker` says of "Usuario no
encontrado" only what the code gives: it goes to the connection that asked if that
one is registered under the name in its message, because names are unique
(`SenderIsFound`) and an entry is there until its own thread removes it. The refinement then maps `RegisterClient` to
`Enter`, `HandleEstado` to `ChangeEstado`, `RemoveClient` to `Leave`, `SigPipe` to
`Shutdown`, and everything else to a stutter.

### WinServer

`WinTypeCorrect` (no pointer leads to a row that was never written, whether or not
the mutex works); `WinInvariance`, `NoLostRegistration` and `StatusReasons`,
assuming `MutexWorks` and nothing else: the programs may send EXIT, ESTADO for
others, and fill the table.

The argument. `TypeOK` needs what each label relies on (`ThreadOK`) and what the
inactivity thread relies on (`RoundOK`), and rows are never erased, so those are
inductive together without a mutex. With one, `LockDiscipline` says who holds it:
exactly the thread that is inside `add_client`, a broadcast or a list, or a round
of the inactivity thread. So the index a thread read is still the next one when
it writes (`TableOK`), and `RowsAreKept` follows; and nobody marks a user as seen
between the test of the inactivity thread and its write, which gives
`StatusHasAReason` together with the fact that a pointer, used after the lock was
given back, still leads to the name that was looked for, because rows are never
written twice (`FoundStep`).

### ChatClient

`ClientStateOK`, `NobodyWaitsForTheCancelled`, `RequestsAreInOrder`,
`StatusWasTold`: the four safety properties of the run, for every length of the
history and every set of commands and messages.

The argument. The shape of every program is proved first: it leaves the server only
after it stopped both loops, and says and draws nothing afterwards (`Leaves`); EXIT is
its last request (`SendsWell`); a status is sent and then set (`SetsWell`);
every line is followed by a drawing (`Draws`). What is left of a program keeps its
shape, except that `Leaves` needs the `stop` that was just done: from then on
`~running` stands for it (`ProgramInv`). `LeaveInv` says that a socket shut down or
a cancellation sent means that main has nothing to send, add or draw, and
reads no further line. From the two: the order of requests (`SentInv`), that an
undrawn line has a drawing coming in one of the threads (`ScreenInv`), and
that the status sent last is the one held or the next one set (`ToldInv`), which
holds until the connection is reset: a send that fails is only reported, and the
status is set all the same.
`HistoryInv` relates the array, through its shift, to the lines ever added.

### cJSON

* `PrintTypes`, `PrintingStaysInside`, `PrintedTextIsWhole`, `RoomForOneMoreSuffices`,
  `BuffersAreFreedOnce`: printing writes nothing behind the end of its buffer, for every
  tree, sizes of tokens, buffers and `INT_MAX`. The invariant says that `offset` and what
  `strlen` finds behind it are the text so far, so that what `ensure` asked for is
  what is written.
* `ParseInvariant`, `ParsingStaysInside`: for every input, with or without a
  terminator, no byte behind it is read and the nesting is bounded. The invariant
  ties to each place of the parser what it relies on: in front of a name a
  byte is read without a check.
* `ParseHoldsAll`, `ParseTypes`, `NothingLeaksFromParsing`: wherever a parse fails, for
  lack of memory or on the text, it gives back all it took. The frames are a stack of
  lists, so the invariant speaks of sums along the stack: there are numbers `c`,
  from what the root holds up to what is allocated, each the one before plus what the
  next frame holds (`AddsUp`). A step disturbs the top only: `AddsOneMore` and
  `AddsOneLess` are pushing and popping, and a change on top is both. Written with
  witnesses instead of a recursive sum, it needs no induction. That the root has
  nothing while a value is read (`Reading`) is what lets a bracket that closes hand its
  list to the item below.
* `OnlyJsonIsAccepted`, `JsonIsAccepted` (`AcceptsJson`): for every input, of any length,
  every nesting limit and every size of `number_c_string`, what the parser accepts is a
  value of the grammar, up to the place it returns and, with a terminator, with blanks
  behind it; and what it refuses while there is memory is not. The grammar is that of
  JSON with numbers of at most `NumberCap` characters, and a longer number alone is
  cut there (`Full`): that is all of JSON that this code reads.
* `HeapIsOK`, `ListsStayLinked`, `NothingIsLeaked`, from `IInvHolds`: for every number of
  blocks and every sequence of calls, no pointer leads into what was freed, the
  children of an item are one list linked both ways, each item has one place
  and each string one owner.

The argument for the grammar. It says what a span of the input is: a value, elements,
members. That this recursion has a solution is a fixed-point argument, the least set of
spans that derives itself (`GrammarExists`), after which a rule can be used in
either direction (`GrammarRule`), and blanks can be put around a value or taken off
(`Leading`, `TrimStart` ...). The parser reads from left to right with a stack of
frames, so each half needs an invariant that relates the stack to spans. What was read
(`Understood`) is said with a place for each frame: where the value begins that is read
in it, and what follows its bracket. Nothing is a span yet there; instead a frame
carries an implication, that *whatever* elements or members come next complete the
list it is in (`Leads`, `Completes`), so that a bracket that closes turns one implication into the
one below it. What is left (`Accepting`) is said with the place of each frame's closing
bracket, which exists because the input is JSON (`Follows`, `Pending`): the parser has no
choice but to get there, and since `Skip` and `EndOfNumber` find the one symbol the
grammar speaks of (`SkipFinds`, `NumberFinds`; of a number that was cut this needs that no
digit stands before it, `RootIsApart`), no step that refuses is possible. The two
halves meet at the end of the value. Both are proved for every number of frames
without an induction over it, because a step changes the places of the top frame only.

The argument for the heap. The properties are about lists, whose length an
induction would have to follow; the invariant is about single links (`Shape`):
who has a parent has a `prev` in the same list, which it follows (`HasPlace`); a
`next` is a later item of the same list (`HasNext`); a child that is not only
shown has the item as its parent (`HasChild`). That alone allows rings of items
that nothing leads to. `Grounded` excludes them: the step up goes to the item
before, or from the first to the parent, and no set of items contains, for each of its
members, the step up. Said with sets, it needs no count of steps, and a call keeps it
because what it moves is a whole tree (`Subtree`) that does not contain the place
it goes to: `Deleted(r)`, the least set closed under what `cJSON_Delete` visits,
is that tree (`DeletedIsSubtree`, `BelowIsSubtree`). The calls are then made of a
few steps, with a lemma each: a new item, another name, adding, inserting,
detaching, replacing, giving back, building beside the rest (`GoodNewItem` ...
`GoodUnion`); of every list operation the fields it leaves behind are computed first
(`DetachFields`, `ReplaceFields` ...). The lists follow at the end: `List` walks a
chain, which is injective because it starts at the first child and going back is
a function, and which stops before `N` steps because its items are not their own
parent (`ListOfChildren`). `List` is a recursive function over `0 .. N`; its
recursion is established by hand (`ListRecursion`), by induction over a set of
numbers, which is an instance of a well-founded order the prover has. The strings are
counted as the size of two sets of items, so that a step changes them by one or
by the count of what it frees.

* `TreeImplementsForest`: `CJsonTree` implements `JsonForest`, for every number of
  blocks, every application and every pattern of refused allocations. A call
  makes, renames, gives, takes, replaces or drops one whole tree, in its place in
  the row of its siblings, and no other row and no other name changes; a call that
  fails changes none, but for the name it may already have given the item.

The argument for the refinement. Its state is made of sequences, so the first step
is to say which sequence the links of an item make without walking them: a `Row`
has the children of the item, each once, and the `next` of each is the one after
it. The links allow one row only (`OneRow`), so rows that are `Ordered` for every
item *are* the mapped state (`OneOrder`, `ItemsAreRows`), and to know the mapped
state after a call it is enough to show a candidate and check it. For a
list operation the candidate is the old row with one place inserted, removed or
replaced (`AddedLast`, `InsertedThere`, `Detached`, `Replaced`), and every other
row keeps its links (`OneRowChanges`); `TreesGone` and `Beside` are the same for
what is given back and for what is built apart. The trees of `JsonForest` are least
closed sets, as `Subtree` and `Deleted` are, which makes them equal
(`TreeIsSubtree`), and `Grounded` puts every item that is allocated in the tree
of a root, but for the reference that leaks (`Reached`): that is what makes a tree
that is new disjoint from what was there. The invariant is `IInv` with one
conjunct more, `Clean`: a free block shows no child and has no name. The safety
properties speak of `live` items and do not need it; the mapping reads every block.
There is then one lemma for each kind of step of the forest (`GiveStep`, `TakeStep`
...) and one for each call of cJSON (`AddItemToArrayMoves` ...) that picks the step
it is, or the stutter.

### WebBridge

`BridgeInvariance`, and from it `StateIsOK`, `MessagesHaveAFate`,
`RegistrationComesFirst`, `ForgottenStays`: the four safety properties of the run, for
every number of pages, names, connections and events. The assumptions: connections are
numbered, the bounds are numbers, a text has at most one unbalanced bracket, and
`None` is none of the things it stands beside.

The argument. `StateOK` says that no complete object is left in `buffer` when the
'data' listener ends. That is about a count of brackets, so `Streams` says what is
counted: what a chat server sends is pairs of fragments, a "{" and its message, or
the end; and what is in `buffer` or on the way is a sequence of such pairs, as
long as no text with an unbalanced bracket went by (`odd`) and nothing was lost by
connecting again (`reopened`). Then the first object is the first pair
(`FirstObject`), and what is left after it is pairs again. `Fates` has the messages of
a page in three places, in its order, and the queue empty once registered;
`Connections` says whose a connection is, and that a page's listeners write to one of
its own. `Leaving` is what `ForgottenForGood` needs: a page's "disconnect" is the
last event it sends, so nothing follows that would enter it in the maps again; names
are mapped only where a 'connect' listener runs (`NamesMapped`). `Openings` has a
connection that is not open yet listen for the first time and send nothing, and
what waits on one begin with REGISTRO. Two kinds of connections are set aside, and
`Excused` keeps them apart: those of a page that has left, whose EXIT is written
without a look at the status (a connection that was ended belongs to such a page,
`Endings`); and those whose page was registered by an answer that another of its
connections brought (`misled`).

### Only model-checked

* Liveness, which is out of the prover's reach: `LockReleased`, `GoneIsReleased`,
  `IdleBecomesInactive`, `ExitEnds`, `RegistrationIsRetried`, `PageIsTold`.
* What a recursive definition computes for every input, which needs an induction the
  prover cannot instantiate: `RoundTrip`, `StringsAreRead`, `MinifyKeepsStrings`, and of
  the patches `PatchesLeadThere`, `MergePatchesLeadThere` and `AddedIsFound`.
* `TextOK`, because its module reaches recursive operators. Its two halves, the types
  of the printer and of the parser, are `PrintTypes` and `ParseTypes`.
* The violations, which a counterexample settles.

## 5. Divergences found

With a run:

* Windows: the search for a name and the insertion are separate
  (`win_duplicate`; `README.md:159` promises unique names).
* Windows: EXIT marks whoever bears the name in the message (`server_utils.c:397`),
  and the bridge sends it also for a page whose registration was refused
  (`frontend/server.js:271`), so a member can be put out of the table by a page that
  wanted its name (`win_members`; `README.md:152` promises every broadcast to
  everybody).
* Client: after the loop main closes the socket, which does not wake the `recv`
  of the other thread, and joins it for ever (`client_eof`; `client/client.c:470`).

Seen in the code, without a run of their own.

Linux server: a write to a reset peer ends the process (`server_utils.c:161`,
`README.md:61`); sends inside the mutex stop everyone when one peer does not read
(`README.md:58`); a broadcast can overtake the answer to a registration
(`server_utils.c:131`), which the client takes for it (`client.c:416`); names
of 50 bytes or more are stored cut, so `strcmp` never finds them again; LISTA is
cut at 1024 bytes (226) and shows INACTIVO users too; the first `recv` can write
its terminator one past the end (25); the second of two requests in one `recv` is
lost (45, and `client.c:232`); the error of a direct message nobody can receive goes
to whoever bears the sender's name, or nowhere if nobody `strcmp` finds does
(186-198, against the comment at 195). `README.md:153` promises INACTIVO after 30 idle
seconds: the Linux server has no such code.

Windows server (`serverwindows/server_utils.c`): the mutex is a NULL handle (30);
a departed user's row is made active again by the very request that registers,
which is then refused (156); after EXIT the thread reads on, and closes a second
time, on a number that may be another's (413, 445; `README.md:72`); a DM goes to
a number that may have a new owner (205); a registration with a full table is
answered OK (47), and its user is in no list; rows of departed users who had the
same number take what is meant for the new one: it is their row that is marked as
seen (149) and that is cleared when the new one leaves (69), so a user can become
INACTIVO while it is sending, and stay listed after it left; a peer that does not
read holds up broadcasts, lists, registrations and the inactivity thread, because
the mutex is held over the sends (190, 232); an ESTADO that lands between the test
and the write of the inactivity thread is overwritten by INACTIVO (342, 125); a
failing `pthread_create` leaks the socket (`server.c:87`); a user who is OCUPADO
never becomes INACTIVO.

Client (`client.c`): the Linux server answers LISTA with `tipo`, and MOSTRAR with
`INFO_USUARIO`, neither of which the client shows (265, 288); `estado` is set
before the server confirms it (145, against the comment at 144), and also when the
request could not be sent (61); two threads that draw at once both clear the screen
before either prints (43), so that lines stand there twice; the line
"Servidor desconectado." is added and not drawn (347); `pthread_create` is tested
with `< 0` and fails with a positive number (442).

cJSON items: `cJSON_AddItemReferenceToObject` leaks the reference when the name
cannot be copied; `replace_item_in_object` renames the new item even when there is
nothing to replace; sorting leaves the `prev` of the first child stale, so that
`cJSON_AddItemToArray` does not append (`cJSON.h:227`).

cJSON numbers: 63 characters are copied (`cJSON.c:311`, 323), so a longer number in an
array or object makes the text be refused, and alone it is cut in its middle, or
refused with `require_null_terminated`.

cJSON strings: `\u` with digits that are none is read as NUL, not refused;
`cJSON_Minify` takes the quote after an escaped backslash for an escaped one
(`cJSON.c:2874`).

cJSON_Utils: `decode_pointer_inplace` writes `~1` to the wrong place and does not
move what follows an escape (359-391); `detach_path` ignores case whatever was asked
(461); `generate_merge_patch` sorts by `case_sensitive` and walks with `strcmp`, and
recurses without case, so that from {"B":1,"a":2} to {"B":1} is not found; a
"test" that succeeds sorts the object, after which a "replace" or "add" may lose a
member and still return 0; `decode_array_index_from_pointer` tests the first
character where it means the current one; an empty token is index 0; a patch array
that fails half way leaves the document half patched.

Bridge (`frontend/server.js`): a DM's receiver is looked up under
`nombre_destinatario` (168), which the Linux server's DM does not have
(`server/server_utils.c:176`), so only its sender's page gets it, and the page, too,
shows a DM only with that field (`frontend/public/main.js:109`), whereas the Windows
server forwards the request, and there it works; the first connection's 'connect'
listener writes REGISTRO to the page's *latest* connection (81), and behind what
waits there: the EXIT of a page that leaves while connecting (275), or the queue of a
page that another connection's answer registered, goes first, which the Linux server
answers "Registro inválido" (34) and closes; a connection made again after it
was open sends no REGISTRO; what is written to a connection that has closed is lost
without a word; the timer calls `connect()` on the latest connection
even when it is alive; a server that closes while a registration is pending is not
noticed (208-216), and the queue stays; an answer to an earlier request is
taken for the registration's (127-131); an unbalanced bracket in a text holds back
all that follows, the answer to the registration too, which a broadcast can overtake;
`usernameToSocketId` is set before the name is accepted,
cleared when somebody else has it (265), and set again, for good, by a connection that
opens after its page left (84), while names given up before that stay in it; a broadcast reaches a page once per TCP
connection of the bridge (165); the queue of a refused registration is kept and
never reported; the page gets the answer to its registration twice (148, 191).

## 6. Not modelled

* `utils/protocol.c`, which nothing calls; node modules; generated build files; the
  tests and the fuzzing harness of cJSON.
* cJSON: allocation hooks, type predicates, `cJSON_SetValuestring` and
  `cJSON_SetNumberHelper`, version; the digits of numbers; error positions.
* cJSON_Utils: `cJSONUtils_FindPointerFromObjectTo`, failing allocations.
* Bridge: to whom BROADCAST and DM are passed on (`frontend/server.js:163-176`), SIGINT,
  the middleware; what Node adds to a socket (limits of its buffers, half-open ends).
  Page: what it draws.

## 7. Plan

Done: all components of section 1 that have logic of their own, the two refinements
(`ChatRoom`, `JsonForest`), checked and proved, and the theorems of section 4. Every
safety property of the runs is proved but for those listed under "Only
model-checked".
