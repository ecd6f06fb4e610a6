---------------------------- MODULE WorkerPoolProofs ----------------------------
(***************************************************************************)
(* Safety of WorkerPool for every number of workers and connections and    *)
(* every size of the pool, provided wait() only returns after notify().    *)
(***************************************************************************)
EXTENDS WorkerPool, SequenceLemmas, FiniteSetTheorems

USE PoolSizeAssumption, NullAssumption

(* The invariant holds before the first worker is started.                 *)
LEMMA InitIInv == Init => IInv
<1> SUFFICES ASSUME Init PROVE IInv
  OBVIOUS
<1>1. pool = <<>> /\ backlog = <<>> /\ ToSet(pool) = {} /\ ToSet(backlog) = {}
      /\ IsInjective(pool) /\ IsInjective(backlog) /\ Len(pool) = 0
  BY DEF Init, ToSet, IsInjective
<1>2. TypeOK
  BY DEF Init, TypeOK, MonitorFree, Unused, Over
<1> QED
  BY <1>1, <1>2 DEF Init, IInv, AcceptorInv, WorkerInv, SocketInv, BacklogInv,
     PoolIsIdle, PoolBounded, NoLostWorker, Unused

(* No step breaks the invariant.                                           *)
LEMMA NextIInv ==
  ASSUME IInv, [Next]_vars
  PROVE  IInv'
<1> USE DEF IInv, TypeOK, AcceptorInv, WorkerInv, SocketInv, BacklogInv,
            PoolIsIdle, PoolBounded, NoLostWorker, MonitorFree, Unused, Over,
            Acceptor, AnotherTurn, TakeOut, Notified, Forget, HasRoom, AddBack
<1>1. ASSUME NEW c \in Conns, Connect(c)
      PROVE  IInv'
  <2>1. /\ backlog' \in Seq(Conns)
        /\ IsInjective(backlog')
        /\ ToSet(backlog') = ToSet(backlog) \cup {c}
    BY <1>1, ToSetAppend, InjectiveAppend DEF Connect
  <2> QED  BY <1>1, <2>1 DEF Connect
<1>2. ASSUME NEW w \in WorkerIds, BootStart(w)
      PROVE  IInv'
  BY <1>2 DEF BootStart, Fresh
<1>3. CASE BootAdd
  <2>1. /\ pool' \in Seq(WorkerIds)
        /\ IsInjective(pool')
        /\ ToSet(pool') = ToSet(pool) \cup {target}
        /\ Len(pool') = Len(pool) + 1
    BY <1>3, ToSetAppend, InjectiveAppend, AppendProperties DEF BootAdd
  <2> QED  BY <1>3, <2>1 DEF BootAdd
<1>4. CASE Accept
  <2>1. /\ Head(backlog) \in Conns
        /\ Head(backlog) \in ToSet(backlog)
        /\ backlog' \in Seq(Conns)
        /\ IsInjective(backlog')
        /\ ToSet(backlog') = ToSet(backlog) \ {Head(backlog)}
    BY <1>4, InjectiveTail DEF Accept
  <2> QED  BY <1>4, <2>1 DEF Accept
<1>5. ASSUME NEW w \in WorkerIds, DispatchNew(w)
      PROVE  IInv'
  BY <1>5 DEF DispatchNew, Fresh
<1>6. CASE DispatchPooled
  <2>1. /\ Head(pool) \in WorkerIds
        /\ Head(pool) \in ToSet(pool)
        /\ pool' \in Seq(WorkerIds)
        /\ IsInjective(pool')
        /\ Len(pool') = Len(pool) - 1
        /\ ToSet(pool') = ToSet(pool) \ {Head(pool)}
    BY <1>6, InjectiveTail DEF DispatchPooled
  <2> QED  BY <1>6, <2>1 DEF DispatchPooled
<1>7. CASE SetSocket
  BY <1>7 DEF SetSocket
<1>8. ASSUME NEW w \in WorkerIds,
             EnterRun(w) \/ Wait(w) \/ SkipWait(w) \/ Resume(w) \/ OpenStreams(w)
      PROVE  IInv'
  <2>1. CASE EnterRun(w)
    BY <2>1 DEF EnterRun, Step
  <2>2. CASE Wait(w)
    BY <2>2 DEF Wait, Step
  <2>3. CASE SkipWait(w)
    BY <2>3 DEF SkipWait, Step
  <2>4. CASE Resume(w)
    BY <2>4 DEF Resume, Step
  <2>5. CASE OpenStreams(w)
    BY <2>5 DEF OpenStreams, Step
  <2> QED  BY <1>8, <2>1, <2>2, <2>3, <2>4, <2>5
<1>9. ASSUME NEW w \in WorkerIds, OpenFails(w) \/ Serve(w)
      PROVE  IInv'
  <2>1. sock[w] \in Conns /\ conn[sock[w]] = "open"
    BY <1>9 DEF OpenFails, Serve, Step
  <2>2. /\ wpc' = [wpc EXCEPT ![w] = "rejoin"]
        /\ sock' = [sock EXCEPT ![w] = NoConn]
        /\ \E end \in Over : conn' = [conn EXCEPT ![sock[w]] = end]
        /\ UNCHANGED <<Acceptor, pool>>
        /\ wpc[w] \in {"open", "serve"}
    BY <1>9, <2>1 DEF OpenFails, Serve, Step
  <2>3. TypeOK' /\ AcceptorInv' /\ WorkerInv'
    BY <2>1, <2>2
  <2>4. SocketInv'
    BY <2>1, <2>2
  <2>5. BacklogInv'
    BY <2>1, <2>2
  <2>6. PoolIsIdle' /\ PoolBounded' /\ NoLostWorker'
    BY <2>1, <2>2
  <2> QED  BY <2>3, <2>4, <2>5, <2>6
<1>10. ASSUME NEW w \in WorkerIds, Rejoin(w)
       PROVE  IInv'
  <2>1. w \notin ToSet(pool)
    BY <1>10 DEF Rejoin, Step
  <2>2. /\ pool' \in Seq(WorkerIds)
        /\ IsInjective(pool')
        /\ ToSet(pool') = ToSet(pool) \cup {w}
        /\ Len(pool') = Len(pool) + 1
    BY <1>10, <2>1, ToSetAppend, InjectiveAppend, AppendProperties DEF Rejoin
  <2> QED  BY <1>10, <2>2 DEF Rejoin, Step
<1>11. ASSUME NEW w \in WorkerIds, Exit(w)
       PROVE  IInv'
  BY <1>11 DEF Exit, Step
<1>12. CASE UNCHANGED vars
  BY <1>12 DEF vars, ToSet, IsInjective
<1> QED
  BY <1>1, <1>2, <1>3, <1>4, <1>5, <1>6, <1>7, <1>8, <1>9, <1>10, <1>11, <1>12
  DEF Next, Accepting, Working

(* The invariant implies the safety properties.                            *)
LEMMA IInvImplies ==
  IInv => TypeOK /\ OneOwner /\ PoolIsIdle /\ PoolBounded /\ NoLostWorker /\ NoMonitorCycle
<1> SUFFICES ASSUME IInv
             PROVE  OneOwner /\ NoMonitorCycle
  BY DEF IInv
<1>1. OneOwner
  <2> SUFFICES ASSUME NEW c \in Conns
               PROVE  IF conn[c] = "open"
                      THEN \E o \in WorkerIds \cup {NoWorker} : Owners(c) = {o}
                      ELSE Owners(c) = {}
    BY DEF OneOwner
  <2>1. CASE conn[c] # "open"
    BY <2>1 DEF IInv, SocketInv, Owners
  <2>2. CASE conn[c] = "open" /\ accepted = c
    <3>1. Owners(c) = {NoWorker}
      BY <2>2 DEF IInv, SocketInv, Owners
    <3> QED  BY <2>2, <3>1
  <2>3. CASE conn[c] = "open" /\ accepted # c
    <3>1. PICK w \in WorkerIds : sock[w] = c
      BY <2>3 DEF IInv, SocketInv
    <3>2. Owners(c) = {w}
      BY <2>3, <3>1 DEF IInv, SocketInv, Owners
    <3> QED  BY <2>3, <3>2
  <2> QED  BY <2>1, <2>2, <2>3
<1>2. NoMonitorCycle
  BY DEF IInv, TypeOK, AcceptorInv, NoMonitorCycle
<1> QED  BY <1>1, <1>2

(* The invariant holds in every state.                                     *)
LEMMA Invariance == Spec => []IInv
<1>1. IInv /\ [Next]_vars => IInv'
  BY NextIInv
<1> QED  BY <1>1, InitIInv, PTL DEF Spec

(* Every variable of WebServer.run and of the workers has its type.        *)
THEOREM TypeCorrect == Spec => []TypeOK
BY Invariance, IInvImplies, PTL

(* WebServer.run and Worker.setSocket give each accepted socket to exactly *)
(* one thread, which keeps it until it is over.                            *)
THEOREM SocketHasOneOwner == Spec => []OneOwner
BY Invariance, IInvImplies, PTL

(* The vector "threads" holds idle workers only, and none twice.           *)
THEOREM PoolIsSafe == Spec => []PoolIsIdle
BY Invariance, IInvImplies, PTL

(* It never has more than the "workers" property allows.                   *)
THEOREM PoolStaysSmall == Spec => []PoolBounded
BY Invariance, IInvImplies, PTL

(* No live worker is outside the pool without work.                        *)
THEOREM WorkersAreKept == Spec => []NoLostWorker
BY Invariance, IInvImplies, PTL

(* The nested monitors of WebServer.run and Worker.run never deadlock.     *)
THEOREM MonitorsAreAcyclic == Spec => []NoMonitorCycle
BY Invariance, IInvImplies, PTL

--------------------------------------------------------------------------------
(* What is left of SocketInv when wait() may return spuriously: a worker   *)
(* may then be given a second socket, and the first stays open for ever,   *)
(* but an open connection is never queued again.                           *)
HandOffInv ==
  /\ accepted \in Conns \cup {NoConn}
  /\ backlog \in Seq(Conns)
  /\ sock \in [WorkerIds -> Conns \cup {NoConn}]
  /\ conn \in [Conns -> {"queued", "open"} \cup Over]
  /\ accepted \in Conns => conn[accepted] = "open"
  /\ \A w \in WorkerIds :
       sock[w] \in Conns => conn[sock[w]] = "open" /\ sock[w] # accepted
  /\ \A v, w \in WorkerIds : sock[v] \in Conns /\ sock[v] = sock[w] => v = w
  /\ BacklogInv

(* Every step, spurious wake-ups included, keeps what is known of a hand-  *)
(* off.                                                                    *)
LEMMA NextHandOffInv ==
  ASSUME HandOffInv, [WokenNext]_vars
  PROVE  HandOffInv'
<1> USE DEF HandOffInv, BacklogInv, Over
<1>1. ASSUME NEW c \in Conns, Connect(c)
      PROVE  HandOffInv'
  <2>1. /\ backlog' \in Seq(Conns)
        /\ IsInjective(backlog')
        /\ ToSet(backlog') = ToSet(backlog) \cup {c}
    BY <1>1, ToSetAppend, InjectiveAppend DEF Connect
  <2> QED  BY <1>1, <2>1 DEF Connect
<1>2. CASE Accept
  <2>1. /\ Head(backlog) \in Conns
        /\ Head(backlog) \in ToSet(backlog)
        /\ backlog' \in Seq(Conns)
        /\ IsInjective(backlog')
        /\ ToSet(backlog') = ToSet(backlog) \ {Head(backlog)}
    BY <1>2, InjectiveTail DEF Accept
  <2> QED  BY <1>2, <2>1 DEF Accept
<1>3. ASSUME NEW w \in WorkerIds, BootStart(w) \/ DispatchNew(w)
      PROVE  HandOffInv'
  BY <1>3 DEF BootStart, DispatchNew
<1>4. CASE SetSocket
  BY <1>4 DEF SetSocket
<1>5. ASSUME NEW w \in WorkerIds, OpenFails(w) \/ Serve(w)
      PROVE  HandOffInv'
  BY <1>5 DEF OpenFails, Serve, Forget, Acceptor
<1>6. CASE UNCHANGED <<accepted, backlog, sock, conn>>
  BY <1>6 DEF ToSet, IsInjective
<1> QED
  BY <1>1, <1>2, <1>3, <1>4, <1>5, <1>6
  DEF WokenNext, Next, vars, Accepting, Working, Acceptor, BootAdd, DispatchPooled,
      EnterRun, Wait, SkipWait, WakeUp, Resume, OpenStreams, Rejoin, Exit

(* Even if wait() returns without notify() no two threads have one socket. *)
THEOREM NothingIsShared == WokenSpec => []NoSharedSocket
<1>1. Init => HandOffInv
  <2> SUFFICES ASSUME Init PROVE HandOffInv
    OBVIOUS
  <2>1. ToSet(backlog) = {} /\ IsInjective(backlog)
    BY DEF Init, ToSet, IsInjective
  <2> QED  BY <2>1 DEF Init, HandOffInv, BacklogInv, Over
<1>2. HandOffInv /\ [WokenNext]_vars => HandOffInv'
  BY NextHandOffInv
<1>3. HandOffInv => NoSharedSocket
  <2> SUFFICES ASSUME HandOffInv, NEW c \in Conns
               PROVE  Cardinality(Owners(c)) <= 1
    BY DEF NoSharedSocket
  <2>1. Owners(c) = {} \/ \E o \in Owners(c) : Owners(c) = {o}
    BY DEF HandOffInv, Owners
  <2>2. \A o : IsFiniteSet({o}) /\ Cardinality({o}) = 1
    BY FS_Singleton
  <2>3. Cardinality({}) = 0
    BY FS_EmptySet
  <2> QED  BY <2>1, <2>2, <2>3
<1> QED  BY <1>1, <1>2, <1>3, PTL DEF WokenSpec

--------------------------------------------------------------------------------
(* Every behaviour of the threads is one of ConnectionService: connections *)
(* are accepted in order, and end only after they were accepted.           *)
THEOREM ThreadsImplementService == Spec => Service!Spec
<1>1. Init => Service!Init
  BY DEF Init, Service!Init
<1>2. ASSUME IInv, [Next]_vars
      PROVE  [Service!Next]_Service!vars
  <2>1. CASE UNCHANGED <<backlog, conn>>
    BY <2>1 DEF Service!vars
  <2>2. ASSUME NEW c \in Conns, Connect(c)
        PROVE  Service!Next
    BY <2>2 DEF Connect, Service!Next, Service!Connect, Over, Service!Over
  <2>3. CASE Accept
    BY <2>3 DEF Accept, Service!Next, Service!Accept
  <2>4. ASSUME NEW w \in WorkerIds, OpenFails(w) \/ Serve(w), sock[w] # NoConn
        PROVE  Service!Next
    <3>1. sock[w] \in Conns /\ conn[sock[w]] = "open"
      BY <1>2, <2>4 DEF IInv, TypeOK, SocketInv
    <3>2. Service!Finish(sock[w])
      BY <2>4, <3>1 DEF OpenFails, Serve, Acceptor, Service!Finish, Service!Over
    <3> QED  BY <3>1, <3>2 DEF Service!Next
  <2>5. ASSUME NEW w \in WorkerIds, OpenFails(w) \/ Serve(w)
        PROVE  sock[w] # NoConn
    BY <1>2, <2>5 DEF OpenFails, Serve, Step, IInv, WorkerInv
  <2> QED
    BY <1>2, <2>1, <2>2, <2>3, <2>4, <2>5
    DEF Next, vars, Accepting, Working, BootStart, BootAdd, DispatchNew,
        DispatchPooled, SetSocket, EnterRun, Wait, SkipWait, Resume,
        OpenStreams, Rejoin, Exit, Acceptor
<1> QED
  BY <1>1, <1>2, Invariance, PTL DEF Spec, Service!Spec

================================================================================
