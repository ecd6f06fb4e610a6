# RFidentify in TLA+

RFidentify tells a conference who is speaking. A small **client** (C, `src/client`) reads the RFID tag of the
speaker and sends its number by HTTP to every **server** (Java, `src/server/RFidentifyServer`) it has discovered on
the network; the server looks the tag up in its database, shows the name on a screen and sends it to a text service.

This directory holds TLA+ modules for both programs, TLC configurations that check them on small instances, and
proofs that TLAPS checks for instances of any size. `PROJECT.json` maps every definition to the lines it models.

## 1. The system

| Component | Source | State it keeps | Operations | Talks to |
|---|---|---|---|---|
| HTTP server threads | `WebServer.java`, `Worker.java` | the vector of idle workers, the socket of each worker, Java monitors | accept, hand-off (`setSocket`), handle, rejoin or exit | clients (sockets), request dispatch (calls) |
| Request dispatch | `RFidentify.java`, `IdTagHandler.java`, `DisplayName.java`, `TextMarksHandler.java` | the changed-flags of two `Observable`s, the text on the screen | `doGet`, `doPost`, `update` | database (calls), screen and text service (calls back) |
| Kiosk and tag database | `RegistrationHandler.java`, `DBAccess.java`, `DBInitializer.java` | `lastSwipe`, the `HashMap` of names, the table on disk | swipe, poll, register, load | all workers at once, without a lock |
| Startup | `Startup.java` | what has been registered where | one step after the other, with the web server first | everything above |
| Directory of servers | `avahi_dns_handler.c`, `list.c` | the list `config->servers`, cell by cell | the events of Avahi: found, failed, withdrawn | the reader's thread, which reads the same list without a lock |
| Notification | `rfid_reader_handler.c` (`reader_handle_tag`) | `last_tag`, the position in the list | one walk along the list for each new tag | servers (HTTP) |
| RFID reader | `reader.c`, `rfid_reader_handler.c` (the loops) | readers found, the open device, bytes under way | search, connect, ping, poll | the USB device |
| Configuration and start | `config.c`, `string_utils.c`, `client.c` | the settings and the configured servers | `main`, reading of lines, three times over | the directory's first contents, the two threads |
| HTTP exchange | `Worker.handleClient`, `parseRequest`, `HttpRequest.java` | the worker's buffer, which outlives the connection | read, parse, answer, close | dispatch, the bytes of a client |
| Announcement | `ZeroConfigRegister.java` | one registration | `start` | vendored mDNS responder, and through it the client's Avahi |

What is hard here, and what has to be right:

* **Monitors inside monitors.** The acceptor hands a socket over while it holds the pool's monitor and takes the
  worker's; a worker rejoins the pool in the opposite order. No socket may be lost, shared or overwritten, and the
  two may not wait for each other. `wait()` is not in a loop that tests its condition.
* **A `HashMap` without a lock.** Two registrations at once may drop any name of the map, and a lookup beside them may
  miss one or never end.
* **`setChanged` and `notifyObservers` as two steps** on an object all workers share: a notification may be taken by
  another request.
* **Start and crash.** Requests are accepted before there is data; the table is dropped and re-created at each start.
* **A list without a lock.** One thread inserts and removes cells, another walks along it.
* **Names, interfaces, resolvers.** Avahi reports one service per interface, and answers later.
* **A device that answers late.** Retried pings leave echoes that later commands find.
* **Bytes and buffers.** A request arrives in pieces, and is read only up to the end of its first line; the buffer it
  is read into is used again, also for files.
* **Calls that fail one at a time.** `malloc`, `strdup`, `fopen`, `pthread_create`: each caller makes something else
  of it.
* **Machines that fail and move.** A host that goes down is noticed later, and may come back under another address
  before that.

## 2. The modules

| Module | Models | Used by |
|---|---|---|
| `ConnectionService` | what the server promises to connections: accepted in order, each handled to its end | instantiated by `WorkerPool` |
| `WorkerPool` | `WebServer.run` and `Worker.run`, step by step between monitor operations | `MCWorkerPool`, `WorkerPoolProofs` |
| `HttpExchange` | `Worker.handleClient` and `parseRequest`, with the bytes of a connection | `MCHttpExchange`, `HttpExchangeProofs` |
| `Dispatch` | everything between a parsed request and its effects, Startup, the database, crashes | `MCDispatch`, `DispatchProofs` |
| `ServerDirectory` | the list of servers with one atomic step per Avahi event | instantiated by `Client` and `Deployment` |
| `Client` | the same list as cells of `list.c`, write by write, and the walk of `reader_handle_tag`, read by read | `MCClient`, `ClientProofs` |
| `AbstractList` | what the functions of `list.c` promise, on sequences | instantiated by `ListOps` |
| `ListHeap`, `ListOps` | the functions of `list.c` on a heap of cells; the states a program reaches by calling them | `MCListOps`, `ListOpsProofs` |
| `ReaderDevice` | the reader's thread: search, connection, commands and echoes, polling | `MCReaderDevice`, `ReaderDeviceProofs` |
| `ClientStart` | `main`, `read_config` and the reading of the configuration file | `MCClientStart`, `ClientProofs` |
| `Deployment` | servers, network and client together | `MCDeployment`, `DeploymentProofs` |
| `Chains` | the cells that a reader of a list's pointers comes to | `Client`, `ListHeap` |
| `SequenceLemmas` | facts about sequences (without duplicates, joined, cut, reversed, with an entry removed), about loops, and about lists in a memory of cells | the proofs |

Each `*Proofs` module extends the module it is about and holds its theorems. What `ServerDirectory` promises by itself is
proved in `ClientProofs`, of the directory that the list in memory is seen as. `ClientProofs` also holds the proofs about
the client's start, which shares no variable with the rest.

The `MC*` modules only give values to the constants. The three refinements (`INSTANCE ... WITH`) are
`WorkerPool` to `ConnectionService`, `Client` and `Deployment` to `ServerDirectory`, and `ListOps` to `AbstractList`.

### WorkerPool

`apc` is where the acceptor is: the boot loop (`boot`, `bootAdd`), `accept`, `dispatch` (it has a socket and tests the
pool) and `handoff` (it holds the pool's monitor and waits for the worker's). `wpc[w]` is where a worker is; it holds
its own monitor everywhere except in `MonitorFree`. A worker is born, enters `run`, waits (`Wait`, in `WokenSpec`
`WakeUp`, `Resume`) or does not (`SkipWait`), opens the streams (`OpenFails` is the exception before the `try`, which
leaves the socket open), handles the client (`Serve`: however the `try` ends, `finally` closes the socket) and rejoins
or exits. Handling is one step here because it touches no state of the pool; its inside is `HttpExchange`, and what
the servlet does is in `Dispatch`.

### HttpExchange

One worker and the connections it handles one after another. A request is a sequence of words (the verb, the path,
the pairs of the query, the end of the line, `blank` for the other header lines, the pairs of the body). `Deliver`
moves any number of words from `wire` to `inbox`, so that every segmentation occurs; `Leave` is the client's end of the
connection, orderly or not. `ReadSome` fills `buf` until the request line ends, the buffer is full or the stream ends.
The last word read may be cut: `TextsRead` are the texts the parser may get, with that word as it is or as one of its
`Beginnings`, so a verb, a part of the path, a key or a value that has lost its end (`whole` is false) occurs wherever
a read or the buffer ends. `FormOf` is what the parser makes of the pairs: the last of those with one key stays, as in
the `HashMap`, and where there is no query or body it is `NoPairs`, the pair of two blanks that the code splits out of
`" = "`. `GiveUp` is an exception: `finally` closes the socket, but the loop that zeroes the buffer is left out, so
`buf` keeps its words for the next connection (`FileText`: files are sent from the same buffer). `called` remembers what
the servlet was given. The text of header lines and the replacement of `+` by a blank in values are left out.

### Dispatch

A *call* is a worker's passage through `RFidentify`. `changed` and `nameChanged` are the flags of the two
`Observable`s. `stage` is how far `Startup.main` has come; `Crash` loses everything but `people`, the table.
`tagName` is a `HashMap` without a lock. While a call is between the two ends of a `put`, a lookup may miss any name
(`Got`), as it may read the table in the middle of a resize. When two calls have been in `put` at once (`collided`), each
`PutName` may leave the map without any of its entries (`Damaged`), and a lookup or a `put` may find a cycle and never
return (`MapLoops`, `Spin`). `collided` stays until the process restarts. `early`, `heard` and `thanked` are history
variables, read only by properties.

### ServerDirectory and Client

`ServerDirectory` has one action per event: `Announce`, `Found`, `ResolveFails`, `Withdraw`, `Quit`. A *link* is a
service on an interface. In `Client` the same events act on `car`, `cdr` and `live` (which cells are allocated):
`FoundNew` and `PushCdr` are the two writes of `list_push`, `WithdrawFront`, `PopCdr` and `FreeAtom` those of
`list_pop`, `WithdrawLater` and `FreeAtom` those of `list_remove`. `directory` is the refinement mapping: the entries
linked from the first cell, except between the two writes, when it is the entries linked from `atom`. The reader's
actions follow the macro `list_foreach_entry`: `ReadCar`, `TestCar`, `TestCdr`, `Notify`, `NextCell`. The history
variable `due` has the servers of the list when the tag was read, the one `OnTheMove` included: the old front entry,
when a `list_push` has written the new one over it and not yet linked its new cell. `passedOver` is the one that was
on the move when the walk left the first cell. A read of a freed cell finds its old contents (the ordinary actions) or
anything else (`ReadFreed`, a crash, which ends the process). Writes keep their program order: the C code calls
functions of another translation unit, and x86 does not reorder stores. The writes to a new cell are one step with the
first write to the list, as nothing points to that cell yet. `Chain`, in `Chains`, is the sequence of cells that a
reader of the pointers sees from a given cell on: a recursive function over the number of steps, and not an operator,
so that it can be reasoned about.

### ListHeap and ListOps

`ListHeap` translates each function of `list.c` that makes, changes or frees cells as one operator on a heap (`car`,
`cdr`, the live cells, and how many `malloc`s still succeed). `list_reverse` keeps its separate paths for short lists
and its three running pointers, `list_remove` its path for the first entry. `ListOps` calls them in any order on a
list `l` and on a derived list `m`. `Kept` is an assumption about that caller: when `list_cons` returns null it still
has the list it had, as `list_filter` does with `old_acc` (`list.c:338`). Values are never null, which the comment of
`list_array` allows: a last cell that holds null is what `list_is_empty` takes for an empty list. `call` is the last
call and its result, so that the refinement ties what happens to the argument. `leaked` are the cells that `list_map`
leaves behind by its own comment. The loops of `list_reverse`, `list_filter` and `list_map` are recursive functions
whose step is an operator of its own (`Along`, `Collected`).

### ReaderDevice

`life` is what has become of each `struct reader`. `Search` finds any of those on the USB; `lost` are the ones for which
`list_push` had no memory, which the code ignores (`reader.c:63`): such a reader and its context stay allocated, and the
search goes on. `SearchCrashes` is the null pointer where `reader_create` had none (`reader.c:61`). `Beeped` ends the
thread where there is no memory for the list of tags (`starved`). The thread's commands are `ping` and `beep`
(connecting), `mode`, `agc`, `amp`, `inventory` (one poll). `pending` are
the echoes the device has still to send, `rx` those the host has received. A packet is one step. Failures of USB
calls, losses and delays happen until the environment step `Recover`. Closing and freeing a reader whose connection
failed is one step (`GiveUp`), as only this thread has it. `HandleTag` is where `Client`'s `TagRead` begins; the two
are separate because a poll does not depend on the servers.

### ClientStart

`pc` goes through `read_config`: the copy of the file's name, `config_get_all` for each of the three keys (`open`,
`line` by line, `answer`), the list of servers, the two threads. A line is a key and the fragments of its value
between colons; a fragment is a host name of some length or a number. `CutShort` is the loss of the last character
when the file does not end with a new line; `Port` cuts a number to 16 bits, and `Declared`, what the lines come to,
does so too: a file with a port of 70000 has the client call 4464, and the property says so. Each action that
allocates or opens has its failure, bounded by `MaxFaults`, and its failure does what that caller does: give up,
return a null list that the caller reads as "no such line", use the default, or drop one server. `crashed` is the null
pointer that a caller does not test. Lines longer than the buffer of `fgets`, which it would return in pieces, are
left out.

### Deployment

Each component takes larger steps than in its own module: a server's start is `Start` (port open, service announced)
and `GetReady` (data loaded, observers and kiosk registered), and a request is one step, with these ends: `Shown`;
`Unshown`, when the server does not know the tag or handles another request beside it, which may take the notification
or hide the name (`Dispatch` shows both); `Unreached`, at an address the host has left; `Ignored` by a server that is
not ready; `Lost`. A removal from the list is one step (its writes, and the three paths of `list_remove`, are those of
`Client`); an insertion is `FoundFirst`, or `FoundNew` and `PushCdr`, between which the walk sees the new entry in the
place of the old first one (`Seen`) and moves past both. `Fall` is the end of a process, alone (`Crash`) or with its
host (`HostCrash`); a host comes back under the other of two addresses. `Announce`, the resolver's answers and
`Withdraw` follow the servers' state after any delay. An entry holds the address that was resolved; a name that is
listed keeps the one it has (`FoundKnown`), also when it is `Stale`. `due` is a history variable: the servers that were
ready and listed, by name, when the tag was read. `met` says which accident each of them has met with since: `failed`,
`stale`, `lost`, `unshown` or `passedOver`. A list that is shortened under the walk empties `due`, as `Client` shows
what is missed then. `stuck` is the call to a host that vanishes after accepting: cURL is given no time limit, so the
reader's thread waits for good.

## 3. The runs

| Run | Configuration | What it shows |
|---|---|---|
| `worker_pool` | 4 workers, 2 connections, pool of 2, no spurious wake-ups | `OneOwner`, `PoolIsIdle`, `PoolBounded`, `NoLostWorker`, `NoMonitorCycle`; `ImplementsService`, a refinement with liveness; no deadlock |
| `worker_pool_spurious` | the same with spurious wake-ups (`WokenSpec`), 3 connections | **violated**: `PooledServeNobody` |
| `http_exchange` | 2 connections in a row, requests of 9 sorts, a buffer of 6 words | `CalledAsSent` (the servlet gets the beginning of what this client sent that was read, and nothing else, whatever the pieces and the buffer's past), `ExchangesEnd` (unless a servlet call or a write never returns) |
| `dispatch` | 2 calls, 1 crash, swipes, polls and registrations | `FlagHasOwner`, `SeedsKnown`, `LoneSwipeShown`, `ThankedIsKnown`, `RequestsEnd`, `StartupCompletes`; no deadlock |
| `dispatch_swallow` | 2 calls | **violated**: `SwipeShown` |
| `client_list` | no or two configured servers, two services, one of them on two interfaces, four cells; no reader | `ListIntact`, `UniqueNames`, `ConfiguredStay`, `SingleHomedIsListed`, `ImplementsDirectory` |
| `client_walk` | no or one configured server, two services, three cells, one tag | `WalkMissesOneAtMost`, `ReaderSurvives`, `WalkEnds` |
| `client_withdraw` | one configured server, two services | **violated**: `EachServerTold` |
| `list_ops` | 5 cells, 2 values | `EveryCellHasAList`, `ImplementsSequence` |
| `reader_device` | two devices, two handles, two tags | `HandlesAccounted`, `AnsweredPollsSucceed`, `RepliesAreFresh`, `ConnectionsProceed` |
| `client_start` | files of up to 3 lines of 11 kinds, closed or not, 2 failing calls | `ServersAsWritten` |
| `deployment` | 2 servers, 2 tags, 1 failure | `SwipesAreShown`, `ImplementsDirectory`, `ServersAreFound` |

Each module's type invariant is checked once as well; that of `Deployment` is part of the proof.

The three violated runs are disagreements between the code and its own documents; `PROJECT.json` quotes both sides:

1. A spurious return of `wait()` makes a worker enter the pool twice and stand in it while it serves.
2. Two requests at a time: one takes the other's notification, and the swipe is neither looked up nor shown.
3. A service withdrawn during a walk shifts another server out of the walk's way: that server is not told. (The same
   race can make the walk follow a freed cell.)

Met on the way, and modelled as it is rather than reported by a run of its own:

* `DBAccess.addName` binds the literals `"tag"` and `"name"`, so a registration is lost at the next start
  (`ThankedIsKnown` therefore speaks of one run of the process).
* A service seen on two interfaces and withdrawn from one is forgotten, although it can still be reached
  (`SingleHomedIsListed` therefore excludes it).
* A client without configured servers can follow a null pointer when the first server is inserted between the read of
  the `car` and the test of it (the exception in `ReaderSurvives`).
* The comment at `reader.c:244` says three goes where the code makes ten (`AnsweredPollsSucceed` fails with fewer);
  one failed poll ends the reader's thread for good.
* `read_config` returns 0 although memory for the list of servers was lost; the comment at `client.c:33` has it return
  something else. The client then runs without the servers of its file (`ServersAsWritten` allows it when a call failed).
* Half a `POST` is thanked for like a whole one: the body that comes in a later segment is not read. A value that a
  read or the buffer ends in is taken for the whole value.
* A request without a query or body has a form with a pair of blanks, which nobody sent (`NoPairs`).
* A walk that leaves the first cell between the two writes of an insertion misses the old front server, although no
  entry is removed (`passedOver` in `WalkMissesOneAtMost` and in `SwipesAreShown`).
* Two registrations at once can drop names of the database until the next start (`collided`).
* A reader for which `list_push` has no memory is lost with its context (`lost` in `HandlesAccounted`).
* A service that comes back under another address before it was withdrawn keeps its old address in the list
  (`Stale`).
* A tag whose requests were all lost, or that was read before a server was ready, is not reported again until another
  tag has been read, since `last_tag` is set whether or not anybody heard of it (`lost` in `SwipesAreShown`, which
  speaks of servers that were ready).

**Bounds.** Workers: two in the pool and two beyond it are enough for a hand-off, a rejoin that finds the pool full
and a new thread at the same time. Connections of `WorkerPool`: two meet in the backlog and in two threads; of
`HttpExchange`: what a connection, a file or an exception leaves in the buffer is seen by the next. A buffer of six
words is shorter than one of the requests, longer than the others. Calls: all races of `Dispatch` are between two; a
swipe at the kiosk differs from a poll only in `lastSwipe`, which no property reads, and is left out. Crashes: one,
during a start or after it. Cells: the list of `client_list` grows to all four (first, middle and last entries are
removed by different code), that of `client_walk` to three, so that a walk can be overtaken twice in one pass; five
cells in `list_ops` hold a list of four (the general path of `list_reverse` starts there) and a derived list beside a
shorter one, one of which the caller gives up before it goes on. Running out of cells is the exhausted memory the code
handles. One resolver per link is outstanding at most. The counter `told` stops at three, one above what is allowed.
Handles: two are found at once, or in two searches after a failed one. Three lines: one of each key, or two servers in
any order around something else; two failures are a first one and one in what the program does about it. `MaxFailures`
= 1 in `deployment`: a server falls and comes back elsewhere while the other stays; all five accidents occur. The
proofs are for any number. The history of a walk follows one server (`Watched`), as the histories of different servers
do not influence each other.

**Fairness.** `WorkerPool`: weak fairness of the acceptor and of each worker, which the JVM's scheduler gives for every
step but one: that `Serve` ends is an assumption. `setSoTimeout` bounds its reads, and nothing bounds its writes
(`Worker.java:289`) or the text service it calls; `ImplementsService`, "each handled to its end", rests on that
assumption. `HttpExchange` does without it: its worker is fair except in the servlet's calls and in writes
(`Unbounded`), its reads time out (`MayBeLate`), and nothing is assumed of the client, so `ExchangesEnd` excepts the
connections that stay there. `Dispatch`: weak fairness of Startup and of each call, but not of `SendText`, as
`TextMarksHandler.java:50` sets no time limit; `RequestsEnd` excepts a call that waits there, and everything after two
registrations have collided. `Client`: weak fairness of the walk; that an HTTP request ends is an assumption about
servers, for the client sets no time limit. `ReaderDevice`: weak fairness of the thread and of the arrival of pending
echoes. `Deployment`: of the reader's thread (with the same assumption about requests, unless the host goes down), of
the second write of an insertion, of a server's start once begun, and of the network (Avahi reports what is registered,
and what is not any more, sooner or later); not of starts and failures. `ListOps` and `ClientStart` promise nothing
that needs any.

**Deadlock** is checked where the system must not stop. `CHECK_DEADLOCK FALSE` stands in the
client's runs (Avahi has quit, or the process has crashed, and no new tag comes), in `reader_device` (the thread
has ended), in `client_start` (the start is over), in `http_exchange` and `list_ops` (the bounds are reached) and in
`deployment` (the reader is stuck, Avahi has quit, and the failures are used up).

## 4. What is proved

All theorems are about the specifications themselves, for any value of the constants that satisfies the named
assumptions of the modules. The parts that are checked of one instance by TLC are proved of all here.

| Theorem | Says | Assumes |
|---|---|---|
| `WorkerPoolProofs!TypeCorrect`, `SocketHasOneOwner`, `PoolIsSafe`, `PoolStaysSmall`, `WorkersAreKept`, `MonitorsAreAcyclic` | the safety properties of `worker_pool`, for any number of workers, connections and any pool size | `Spec`: `wait()` returns after `notify()` only |
| `WorkerPoolProofs!NothingIsShared` | no two threads ever have one socket | nothing, it is about `WokenSpec`: spurious wake-ups corrupt the pool, but not this |
| `WorkerPoolProofs!ThreadsImplementService` | every step of the threads is a step of `ConnectionService` or leaves it unchanged | `Spec`: `wait()` returns after `notify()` only |
| `DispatchProofs!TypeCorrect`, `NoLeftOverNotification`, `SeedsAreKnown` | flags never outlive the calls that raised them; from `loadData` on the database's tags have names, through crashes and registrations, until two of these run into each other | the module's assumptions |
| `DispatchProofs!LoneSwipesAreShown`, `ThankedAreKnown` | unless two registrations have run into each other: a swipe that overlaps with no other request is shown, and a tag whose registration was thanked for stays known while the server runs | the module's assumptions |
| `ClientProofs!ListStaysIntact` | between any two writes of `list.c` the shared list has no cycle and no freed cell, and nothing leaks | the module's assumptions |
| `ClientProofs!ClientImplementsDirectory` | the writes add up to the atomic events of `ServerDirectory` | the module's assumptions |
| `ClientProofs!NamesAreUnique`, `ConfiguredServersStay`, `ServicesAreListed` | the list in memory names no server twice, keeps the configured servers in their order, and has what the client was told of on one interface | the module's assumptions |
| `ClientProofs!OneAtMostIsMissed`, `ReaderIsSafe` | a walk that no removal overlaps tells every server that was listed when the tag was read, none more than twice, except one at most, whose entry an insertion had on the move; and it follows no bad pointer unless the list was empty | the module's assumptions |
| `ClientProofs!TypeCorrect` | the types of cells, links and reader | the module's assumptions |
| `ClientProofs!StartTypeCorrect`, `ServersAreRead` | a start in which no call fails ends with exactly the servers of its file, whatever stands between them (an unfinished last line may spoil its own); whatever fails, each server it calls is what a line, or what so many failures can make of one, comes to (`Understood`: a fragment that could not be copied makes the rest of the line look like the whole, so a port may be taken for a host): for files of any length and any number of failures; port numbers are cut to 16 bits throughout | the module's assumptions |
| `ListOpsProofs!TypeCorrect`, `Partitioned`, `CellsAccountedFor` | whatever is called, and wherever `malloc` fails, each allocated cell is in exactly one list of the caller or is one that `list_map` leaks, for any size of the memory | the module's assumptions |
| `ListOpsProofs!ListsImplementSequences` | every function of `list.c` does to a list of any length what `AbstractList` says, or changes no list for want of memory | the module's assumptions |
| `ReaderDeviceProofs!TypeCorrect`, `HandlesAreAccountedFor`, `PollsOfASoundReaderSucceed`, `TagsAreOfThisPoll` | the safety properties of `reader_device`, for any handles, tags, losses and delays | the module's assumptions |
| `HttpExchangeProofs!TypeCorrect`, `CalledWithWhatWasSent` | the servlet gets the first parts of the path and the first pairs this client sent, the last of which may have lost its end, or the parser's pair of blanks where there is none; all of them if the line fits in the buffer (and, of a body, if all was read): for any requests, pieces, size and past of the buffer | the module's assumptions |
| `DeploymentProofs!SwipesAreShownAnywhere` | when a walk that no removal overlaps ends, every server that was ready and listed when the tag was read shows it or has met with one of five named accidents, and one server at most was passed over in an insertion: for any number of servers, tags and failures | the module's assumptions |
| `DeploymentProofs!DeploymentImplementsDirectory` | every step of servers, network and client is a step of `ServerDirectory` or leaves it unchanged | the module's assumptions |

**The arguments.** `WorkerPool!IInv` adds to the properties what relates program counters to data: which locals of the
acceptor are set at which step (`AcceptorInv`), when a worker may have a socket and what state it is in then
(`WorkerInv`, `SocketInv`), and that the backlog holds exactly the queued connections, once each (`BacklogInv`).
`OneOwner` alone is not inductive: without `PoolIsIdle` a hand-off could overwrite a socket. `Dispatch!IInv` adds
`StartupInv`: rows are written before they are read, and the kiosk is reached only when it is registered, so that no
two `put`s collide before the data is there. A `put` that collides with no other adds a name and drops none. A swipe is
*lone* until another call enters; while it is, the flag it raised is its own, and no `put` can hide a name from its
lookup.
`ClientProofs!DirectoryInv` is types, unique names and the places of the configured servers together:
a removal takes out an entry that is not configured because no configured server has a service's name, and an
insertion keeps names unique because it tests them. `DeploymentProofs!Inv` says of every server that is due: it is
listed, and has met with an accident, or it is ready and either its screen shows the tag or its name is still ahead of
the walk (`Cared`); that the server being called is the one at `pos`, unless that one is not due or an insertion is
under way at the front (`CalleeHere`); and that no server has been passed over as long as the walk is at the first
cell, where it is once only (`PassedOnce`). An insertion at the front moves entries and `pos` together; a removal
empties `due`, which is what the violated run `client_withdraw` forces. Each proof has one step per action, after which
`PTL` closes the temporal argument. The facts about sequences that they share are in `SequenceLemmas`.

*Lists in a memory.* `SequenceLemmas!LinkedIn` says that a sequence of distinct cells follows the pointers from a cell
to the null; `ChainOf` that `Chain` then returns just that sequence. Its proof needs an induction on the number of
steps, which is done by hand: a set of numbers with 0 and each successor is `Nat`, because its complement would have a
least element (`LeastNumber`, `SetInduction`), so that a recursion of n steps defines a function (`Recursion`) and what
each step preserves holds at its end. The lemmas `LinkedIn...` say what writes do to a chain: to a cell outside it, at
its front and its end, to one cell taken out, to all pointers turned round. `ClientProofs` and `ListOpsProofs` rest on
the same lemmas.

*The shared list.* `ClientProofs!ListInv` speaks of `chain`, the cells from the first one on (`Linked` is `LinkedIn` for
the client's memory), and of the cell that is apart (`Apart`: about to be linked or freed), what
holds between two writes (`Halfway`: after `FoundNew` the first cell already has the new server and the atom still has
the old one and the old tail), and that only a lone first cell may be empty (`Filled`). `ListIntact` alone is not
inductive: without `Halfway` the second write could link anything.

*The refinement.* `directory` is computed from the chain and from `apc`; `DirectoryIs` says how. `FoundNew`, `PopCdr`
and `FreeAtom` do not change it, `PushCdr` and `FoundFirst` are the directory's insertion, and `WithdrawFront`,
`WithdrawLater` and `WithdrawOnly` are its removal. That the name tested by `resolve_callback` before the first write is
still unknown at the second (`StillUnknown`) is the part that could fail, and it holds because one thread makes all
writes. What is proved of `Directory!Spec` then holds of the cells.

*The functions of `list.c`.* `Owns(h, s, c, values, rest)` says that in heap `h` the cells `s` are a list from cell `c`
on, hold `values`, and that the allocated cells are these and `rest`. For each function there is a lemma (`ConsFacts`,
`AppendFacts`, `PushFacts`, `PopFacts`, `RemoveFacts`, `ReverseFacts`, `FilterFacts`, `MapFacts`, `DestroyFacts`) from
`Owns` before the call to `Owns` after it, with either outcome of `malloc`, that leaves the cells of `rest` alone
(`Same`). The loops have invariants of their own: `Loop`, what `list_filter` and `list_map` have collected so far and
what they have allocated for it, and `Stands`, where the three pointers of `list_reverse` are and which cells are turned
already. `Partition` is the invariant of `ListOps`: the caller owns his one or two lists, each with the other's cells
and the leaked ones as `rest`. `EveryCellHasAList` alone is not inductive: it says nothing of the first cell's value, and
a cell without a value in the middle would end `list_append` and `list_is_empty` early. Each action is then a step of
`AbstractList` on the values owned.

*The walk.* `WalkInv` says of a walk that no removal has overlapped: it is on the chain; each server in `due` has been
told, or is *owed* a call (it was just read, or stands in a cell behind the walk's), or is on the move in an insertion
while the walk is at the first cell, or is the one `passedOver` there; and a server still owed has been
told at most once. An insertion writes the first cell and links one behind it, so it can only add a server behind a walk
that is still at the first cell (`Grows`), namely the one the walk has just read there. That it is called twice at
most needs `UniqueNames`; that a walk finds no null needs `ConfiguredStay`, as a configured server keeps the list from
being empty.

*The start.* Two invariants go together. `StartInv` holds whatever fails: where the lists are no null pointers
(`Present`), and that each value read comes from a line of the key that is looked for and each server's name from a line
of the servers (`Sourced`). `Exact` speaks of a start in which nothing has failed: the values read so far are those of
the lines so far that count, in their order (`AreOf`, by the lines' numbers); then, for some k, the servers found are
those of the first k lines and the values left are those of the lines behind (`Partway`). `ServersAsWritten` says
nothing of the steps before the end. `DeclaredUpTo` says what the first n lines declare, as a recursive function;
that it exists is `DeclaredUpToFacts`, that lines which declare nothing change nothing `NothingDeclared`. The unfinished
last line is the case where what is read and what is declared part: nothing is left to be read then (`AreOfNoLines`),
and the servers of the earlier lines are still at the end of the list (`SuffixBehind`).

*The reader.* `ReaderDeviceProofs!Inv` looks at `line`, what has arrived and what is still to come as one sequence.
While connecting, it holds at most one ping for each that was sent. Once a reader was connected soundly, only such
pings are in front of the awaited echo, and the goes already made and the length of the line are together at most
`PingTries`, less than `Goes`, so the echo is read before the goes are used up (`Answering`). A reply to an inventory
is on the line only while it is awaited, and last (`Fresh`): a poll that fails ends the thread, so no later poll can
find its reply. `Holding` adds to `HandlesAccounted` that a reader is in use exactly while the program counter says so.
That the readers a search has lost are only ever behind others is what keeps the client from searching on for ever
over lost ones: a `list_push` on an empty list needs no memory.

*The exchange.* `HttpExchangeProofs!Inv` says that the first `nread` words of the buffer, the arrived and the coming
ones are, in this order, a prefix and the rest of the request that was sent (`Arriving`), although the buffer behind
`nread` may hold anything; that the reading stopped at the end of the line or at the end of the buffer (`Enough`); and
that what the parser made of the text is the beginning of what was sent (`Faithful`). The parser's text is a prefix of
the words sent, cut in its last one (`TextIsRead`); the path has its first parts (`PathIsSent`), and the form is that of
the first of its pairs, of which the last may have lost its end (`FormFromTyped`, `ParsedIsSent`).

*The directory of a deployment.* The names of the entries are the directory, the servers that Avahi has announced its
announced links; each step is then compared with one of `ServerDirectory`. An insertion is a step of the directory at
its second write, for which `HalfInserted` keeps what was tested before the first: the name is still being resolved and not
listed.

**Only model-checked.** Everything about liveness (`RequestsEnd`, `StartupCompletes`, `WalkEnds`, `ExchangesEnd`,
`ConnectionsProceed`, `ServersAreFound`, the fairness half of `ImplementsService`): proofs about fairness and `ENABLED`
are out of the prover's reach.

## 5. What is not modelled

* The drawing of the window, logging, the properties file (`PropertyLoader`), the text of HTTP headers, of files and
  of directory listings: pure output or input.
* The characters of the reader's packets: `reader_read_packet` collects them, `reader_txPacketRxReply` looks for the
  echo and for the payload near the end of what was received, `reader_parse_poll_packet` splits it into tags. In
  `ReaderDevice` a packet is an echo with its tags, or garbled.
* `string_join`, which nothing calls, and the printing helpers of `list.c`. Lines of the configuration file that are
  longer than the buffer of `fgets`.
* Failures of the JVM to make a thread; the window between `accept` and the copy of arguments into a new worker.
* Vendored code (`mdnsresponder`, `org.json`, TextMarks) and Avahi, libftdi and cURL, which appear through their
  interfaces. The vendored mDNS responder alone is over nine tenths of the lines of the repository, and the program
  uses a handful of its calls; the share of all lines that the modules map is small for that reason, while nearly all
  of the project's own C and Java that changes state is mapped.
* The samples `avahi-publish.c`, `big_rfid_test.c` and `test.c`, the copies in `submission`, and the documents.

Seven hazards have no property, for the reasons `PROJECT.json` gives: the unbounded threads, two announcements that
interleave, two kiosks, the missing time limit of cURL and tags in reach together, a service that comes back under
another address, where no document says what should happen; and the payload's place in a packet, which is not
modelled.

## 6. Plan

Done: the server's threads, the exchange on a connection, dispatch with startup and crashes; the directory as a
sequence and as cells; all of `list.c`; the reader; the client's start; the composition. Proofs for all
of these.

Next, in this order:

1. The tags in a reply (`reader_parse_poll_packet`) as an operator, checked against a reference definition.
