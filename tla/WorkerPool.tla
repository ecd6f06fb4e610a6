------------------------------- MODULE WorkerPool -------------------------------
(***************************************************************************)
(* The threads of the HTTP server of RFidentify: WebServer.run, the thread *)
(* that accepts connections, and the Worker threads that handle them.      *)
(*                                                                         *)
(* Two kinds of Java monitor matter.  The monitor of the vector "threads"  *)
(* (the pool of idle workers) is held for a step only, except while the    *)
(* acceptor hands a socket to a pooled worker: it keeps the pool's monitor *)
(* while it waits for the worker's (apc = "handoff").  A worker's own      *)
(* monitor is held by Worker.run from its first step on and released only  *)
(* inside wait().                                                          *)
(***************************************************************************)
EXTENDS Naturals, FiniteSets, SequencesExt

CONSTANTS
  WorkerIds,        (* names of Worker objects; bounds the live threads     *)
  Conns,            (* names of connections                                 *)
  PoolSize,         (* the "workers" property, at least 1                   *)
  NoConn, NoWorker  (* the Java null, as a socket and as a worker           *)

ASSUME PoolSizeAssumption == PoolSize \in Nat \ {0}
ASSUME NullAssumption == NoConn \notin Conns /\ NoWorker \notin WorkerIds
ASSUME FiniteAssumption == IsFiniteSet(WorkerIds) /\ IsFiniteSet(Conns)

VARIABLES
  apc,       (* where the acceptor is in WebServer.run                      *)
  booted,    (* the loop counter i of the boot loop                         *)
  accepted,  (* the local s: the socket accept() returned                   *)
  target,    (* the local w: the worker about to be given a socket          *)
  pool,      (* the vector "threads"                                        *)
  backlog,   (* the queue of the listening socket                           *)
  wpc,       (* where each worker is in Worker.run                          *)
  sock,      (* the field s of each worker                                  *)
  conn       (* life of each connection                                     *)

vars == <<apc, booted, accepted, target, pool, backlog, wpc, sock, conn>>

Over == {"closed", "abandoned"}

(* No thread runs a worker that was never made, or that has returned.      *)
Unused == {"unborn", "exited"}

(* At these places a worker does not hold its own monitor.                 *)
MonitorFree == Unused \cup {"started", "waiting", "notified"}

TypeOK ==
  /\ apc \in {"boot", "bootAdd", "accept", "dispatch", "handoff"}
  /\ booted \in 0..PoolSize
  /\ accepted \in Conns \cup {NoConn}
  /\ target \in WorkerIds \cup {NoWorker}
  /\ pool \in Seq(WorkerIds)
  /\ backlog \in Seq(Conns)
  /\ wpc \in [WorkerIds -> MonitorFree \cup {"top", "open", "serve", "rejoin"}]
  /\ sock \in [WorkerIds -> Conns \cup {NoConn}]
  /\ conn \in [Conns -> {"queued", "open"} \cup Over]

Init ==
  /\ apc = "boot"
  /\ booted = 0
  /\ accepted = NoConn
  /\ target = NoWorker
  /\ pool = <<>>
  /\ backlog = <<>>
  /\ wpc = [w \in WorkerIds |-> "unborn"]
  /\ sock = [w \in WorkerIds |-> NoConn]
  /\ conn = [c \in Conns |-> "closed"]

--------------------------------------------------------------------------------
(* The environment: a client connects; the kernel queues the connection.   *)
Connect(c) ==
  /\ conn[c] \in Over
  /\ conn' = [conn EXCEPT ![c] = "queued"]
  /\ backlog' = Append(backlog, c)
  /\ UNCHANGED <<apc, booted, accepted, target, pool, wpc, sock>>

--------------------------------------------------------------------------------
(* The acceptor, WebServer.run.                                            *)

(* A Worker object that is not in use: a new one.                          *)
Fresh(w) == wpc[w] \in Unused /\ w \notin ToSet(pool)

(* One turn of the boot loop: start the thread of a new worker, ...        *)
BootStart(w) ==
  /\ apc = "boot"
  /\ Fresh(w)
  /\ wpc' = [wpc EXCEPT ![w] = "started"]
  /\ sock' = [sock EXCEPT ![w] = NoConn]
  /\ target' = w
  /\ apc' = "bootAdd"
  /\ UNCHANGED <<booted, accepted, pool, backlog, conn>>

AnotherTurnTooMany(i) == i <= PoolSize                            (* mutant *)
AnotherTurn(i) == i < PoolSize

(* ... then add it to the pool.                                            *)
BootAdd ==
  /\ apc = "bootAdd"
  /\ pool' = Append(pool, target)
  /\ target' = NoWorker
  /\ booted' = booted + 1
  /\ apc' = IF AnotherTurn(booted + 1) THEN "boot" ELSE "accept"
  /\ UNCHANGED <<accepted, backlog, wpc, sock, conn>>

(* accept() returns the oldest connection of the backlog.                  *)
Accept ==
  /\ apc = "accept"
  /\ backlog # <<>>
  /\ accepted' = Head(backlog)
  /\ backlog' = Tail(backlog)
  /\ conn' = [conn EXCEPT ![Head(backlog)] = "open"]
  /\ apc' = "dispatch"
  /\ UNCHANGED <<booted, target, pool, wpc, sock>>

(* Nobody is idle: a new worker gets the socket, and then its thread.      *)
DispatchNew(w) ==
  /\ apc = "dispatch"
  /\ pool = <<>>
  /\ Fresh(w)
  /\ sock' = [sock EXCEPT ![w] = accepted]
  /\ wpc' = [wpc EXCEPT ![w] = "started"]
  /\ accepted' = NoConn
  /\ apc' = "accept"
  /\ UNCHANGED <<booted, target, pool, backlog, conn>>

LeaveListed == UNCHANGED pool                                     (* mutant *)
TakeOut == pool' = Tail(pool)

(* The first worker of the pool is taken out of it.  The acceptor still    *)
(* holds the pool's monitor and goes on to ask for the worker's.           *)
DispatchPooled ==
  /\ apc = "dispatch"
  /\ pool # <<>>
  /\ target' = Head(pool)
  /\ TakeOut
  /\ apc' = "handoff"
  /\ UNCHANGED <<booted, accepted, backlog, wpc, sock, conn>>

Unnotified(pc) == pc                                              (* mutant *)
Notified(pc) == IF pc = "waiting" THEN "notified" ELSE pc

(* Worker.setSocket, entered when the worker's monitor is free: store the  *)
(* socket and notify.  Both monitors are then released.                    *)
SetSocket ==
  /\ apc = "handoff"
  /\ wpc[target] \in MonitorFree
  /\ sock' = [sock EXCEPT ![target] = accepted]
  /\ wpc' = [wpc EXCEPT ![target] = Notified(@)]
  /\ accepted' = NoConn
  /\ target' = NoWorker
  /\ apc' = "accept"
  /\ UNCHANGED <<booted, pool, backlog, conn>>

--------------------------------------------------------------------------------
(* A worker, Worker.run.                                                   *)

(* The worker w goes from one place of Worker.run to another.              *)
Step(w, from, to) ==
  /\ wpc[w] = from
  /\ wpc' = [wpc EXCEPT ![w] = to]

Acceptor == <<apc, booted, accepted, target, backlog>>

KeepSocket(w) == UNCHANGED sock                                   (* mutant *)
Forget(w) == sock' = [sock EXCEPT ![w] = NoConn]

(* The thread begins to run and enters its monitor.                        *)
EnterRun(w) ==
  /\ Step(w, "started", "top")
  /\ UNCHANGED <<Acceptor, pool, sock, conn>>

(* With no socket the worker waits, ...                                    *)
Wait(w) ==
  /\ sock[w] = NoConn
  /\ Step(w, "top", "waiting")
  /\ UNCHANGED <<Acceptor, pool, sock, conn>>

(* ... and with one it handles the client.                                 *)
SkipWait(w) ==
  /\ sock[w] # NoConn
  /\ Step(w, "top", "open")
  /\ UNCHANGED <<Acceptor, pool, sock, conn>>

(* wait() returns although nobody called notify(): part of WokenSpec only.  *)
WakeUp(w) ==
  /\ Step(w, "waiting", "notified")
  /\ UNCHANGED <<Acceptor, pool, sock, conn>>

(* wait() returns with the monitor.  The test of s is not repeated.        *)
Resume(w) ==
  /\ Step(w, "notified", "open")
  /\ UNCHANGED <<Acceptor, pool, sock, conn>>

(* handleClient before its try block.  Every exception reaches run, which  *)
(* logs it and forgets the socket: with no socket it is a                  *)
(* NullPointerException, with one an IOException leaves the socket open.   *)
OpenFails(w) ==
  /\ Step(w, "open", "rejoin")
  /\ conn' = IF sock[w] = NoConn
             THEN conn
             ELSE [conn EXCEPT ![sock[w]] = "abandoned"]
  /\ Forget(w)
  /\ UNCHANGED <<Acceptor, pool>>

OpenStreams(w) ==
  /\ sock[w] # NoConn
  /\ Step(w, "open", "serve")
  /\ UNCHANGED <<Acceptor, pool, sock, conn>>

(* The try block of handleClient: however it ends (a response, end of      *)
(* file, a timeout, a bad verb, an exception of the servlet), the finally  *)
(* clause closes the socket, and run forgets it.                           *)
Serve(w) ==
  /\ Step(w, "serve", "rejoin")
  /\ conn' = [conn EXCEPT ![sock[w]] = "closed"]
  /\ Forget(w)
  /\ UNCHANGED <<Acceptor, pool>>

(* The end of the loop's body, under the pool's monitor.                   *)
PoolLockFree == apc # "handoff"

HasRoomForOneMore == Len(pool) <= PoolSize                        (* mutant *)
HasRoom == Len(pool) < PoolSize

Unlisted(w) == UNCHANGED pool                                     (* mutant *)
AddBack(w) == pool' = Append(pool, w)

Rejoin(w) ==
  /\ PoolLockFree
  /\ HasRoom
  /\ Step(w, "rejoin", "top")
  /\ AddBack(w)
  /\ UNCHANGED <<Acceptor, sock, conn>>

Exit(w) ==
  /\ PoolLockFree
  /\ ~HasRoom
  /\ Step(w, "rejoin", "exited")
  /\ UNCHANGED <<Acceptor, pool, sock, conn>>

--------------------------------------------------------------------------------
Accepting ==
  \/ \E w \in WorkerIds : BootStart(w)
  \/ BootAdd
  \/ Accept
  \/ \E w \in WorkerIds : DispatchNew(w)
  \/ DispatchPooled
  \/ SetSocket

Working(w) ==
  \/ EnterRun(w)
  \/ Wait(w)
  \/ SkipWait(w)
  \/ Resume(w)
  \/ OpenFails(w)
  \/ OpenStreams(w)
  \/ Serve(w)
  \/ Rejoin(w)
  \/ Exit(w)

Next ==
  \/ \E c \in Conns : Connect(c)
  \/ Accepting
  \/ \E w \in WorkerIds : Working(w)

(* The same with the spurious returns that the Java language allows.       *)
WokenNext == Next \/ \E w \in WorkerIds : WakeUp(w)

(* Threads are scheduled by the JVM, so none stays for ever at a step it    *)
(* can take.  That Serve is such a step is an assumption: setSoTimeout      *)
(* bounds the reads of handleClient, but nothing bounds its writes nor the  *)
(* servlet it calls (HttpExchange says what is left without it).  A monitor *)
(* passes to some thread that asks for it, not to every one: the rejoining  *)
(* workers compete with the acceptor, which keeps the pool's only briefly.  *)
Fairness ==
  /\ WF_vars(Accepting)
  /\ \A w \in WorkerIds : WF_vars(Working(w))

Spec == Init /\ [][Next]_vars

FairSpec == Spec /\ Fairness

WokenSpec == Init /\ [][WokenNext]_vars

--------------------------------------------------------------------------------
(* Who has an accepted connection: the acceptor, or a worker.              *)
Owners(c) ==
  (IF accepted = c THEN {NoWorker} ELSE {}) \cup {w \in WorkerIds : sock[w] = c}

(* Every open connection is in the hands of exactly one thread, and no     *)
(* thread has one that is over: the hand-off from WebServer.run through    *)
(* Worker.setSocket neither loses, duplicates nor overwrites a socket.     *)
OneOwner ==
  \A c \in Conns :
    IF conn[c] = "open" THEN \E o \in WorkerIds \cup {NoWorker} : Owners(c) = {o}
                        ELSE Owners(c) = {}

(* Even when wait() returns spuriously no two threads have one socket, so  *)
(* no request is handled twice: setSocket hands a socket on and the        *)
(* acceptor drops it in the same step under both monitors.                 *)
NoSharedSocket ==
  \A c \in Conns : Cardinality(Owners(c)) <= 1

(* "Where worker threads stand idle": the pool holds no worker twice, and  *)
(* a pooled worker has no socket and is on its way to wait() or in it.     *)
PoolIsIdle ==
  /\ IsInjective(pool)
  /\ \A w \in ToSet(pool) :
       sock[w] = NoConn /\ wpc[w] \in {"started", "top", "waiting"}

(* No two threads wait for each other's monitor.  The acceptor that holds   *)
(* the pool's monitor in a hand-off never meets a worker that holds its own *)
(* while it asks for the pool's.                                            *)
NoMonitorCycle == apc = "handoff" => wpc[target] # "rejoin"

(* What the comment of WebServer.threads, "Where worker threads stand      *)
(* idle", says of the pool: none of its workers has a client.              *)
PooledServeNobody == \A w \in ToSet(pool) : wpc[w] # "serve"

(* "max # worker threads" bounds the threads that wait for work.           *)
PoolBounded == Len(pool) <= PoolSize

(* No thread is lost: a live worker is idle in the pool, about to be put   *)
(* there, chosen by the acceptor, or has a client.  A waiting worker       *)
(* outside the pool would never be notified.                               *)
NoLostWorker ==
  \A w \in WorkerIds :
    \/ wpc[w] \in Unused
    \/ w \in ToSet(pool)
    \/ w = target
    \/ sock[w] # NoConn
    \/ wpc[w] = "rejoin"

--------------------------------------------------------------------------------
(* The inductive invariant behind the properties above.                    *)

(* The locals of WebServer.run.  Until the boot loop is over no worker has *)
(* anything to do, so the pool holds what the loop put there.              *)
AcceptorInv ==
  /\ accepted \in Conns <=> apc \in {"dispatch", "handoff"}
  /\ target \in WorkerIds <=> apc \in {"bootAdd", "handoff"}
  /\ target \in WorkerIds =>
       /\ target \notin ToSet(pool)
       /\ sock[target] = NoConn
       /\ wpc[target] \in {"started", "top", "waiting"}
  /\ apc \in {"boot", "bootAdd"} =>
       /\ booted < PoolSize
       /\ Len(pool) = booted
       /\ \A w \in WorkerIds :
            sock[w] = NoConn /\ wpc[w] \in {"unborn", "started", "top", "waiting"}

(* A worker has a socket from the moment it is notified until it gives it  *)
(* up, and none while it waits, rejoins or does not run.                   *)
WorkerInv ==
  \A w \in WorkerIds :
    /\ wpc[w] \in {"notified", "open", "serve"} => sock[w] # NoConn
    /\ wpc[w] \in Unused \cup {"waiting", "rejoin"} => sock[w] = NoConn

(* OneOwner, with the owner of a socket as the value of a variable.        *)
SocketInv ==
  /\ accepted \in Conns => conn[accepted] = "open"
  /\ \A w \in WorkerIds :
       sock[w] \in Conns => conn[sock[w]] = "open" /\ sock[w] # accepted
  /\ \A v, w \in WorkerIds : sock[v] \in Conns /\ sock[v] = sock[w] => v = w
  /\ \A c \in Conns :
       conn[c] = "open" => accepted = c \/ \E w \in WorkerIds : sock[w] = c

(* The backlog holds the queued connections, once each.                    *)
BacklogInv ==
  /\ IsInjective(backlog)
  /\ \A c \in Conns : conn[c] = "queued" <=> c \in ToSet(backlog)

IInv ==
  /\ TypeOK
  /\ AcceptorInv
  /\ WorkerInv
  /\ SocketInv
  /\ BacklogInv
  /\ PoolIsIdle
  /\ PoolBounded
  /\ NoLostWorker

--------------------------------------------------------------------------------
(* The threads implement the service: first come, first accepted, every    *)
(* connection accepted, and every accepted one handled to its end.         *)
Service == INSTANCE ConnectionService WITH Conns <- Conns, backlog <- backlog, conn <- conn
ImplementsService == Service!FairSpec

================================================================================
