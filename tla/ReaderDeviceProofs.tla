--------------------------- MODULE ReaderDeviceProofs ---------------------------
(***************************************************************************)
(* What holds of a client's reader for any devices, handles and tags, and  *)
(* whatever is lost, garbled or late on the line: each handle is accounted *)
(* for, no poll of a soundly connected reader fails, and the tags that are *)
(* handed on are those of the present poll.                                *)
(***************************************************************************)
EXTENDS ReaderDevice, SequenceLemmas, FiniteSetTheorems

(* A reader is being used exactly from the connection's first step on.     *)
InUse == {"connect", "write", "read", "handle"}

(* Where the thread has come to its end.                                   *)
Over == {"ended", "starved", "crashed"}

Holding ==
  /\ HandlesAccounted
  /\ rpc # "crashed" => (rpc \in InUse <=> current # NoHandle)

(* All that is on its way to the program, in the order it will be read.    *)
line == rx \o pending

OnlyPings(n) == \A i \in 1..n : line[i].cmd = "ping"

(* Until a device is connected only pings have been sent, one at a time.   *)
Pinging ==
  cmd = "ping" /\ rpc \in {"write", "read"} =>
    /\ OnlyPings(Len(line))
    /\ Len(line) <= IF rpc = "read" THEN pings ELSE pings - 1

(* From a sound connection on, nothing but left-over pings is in front of  *)
(* the echo that is waited for, and the goes already made and they are     *)
(* never more than the pings that were sent.                               *)
Answering ==
  sound /\ rpc \notin {"starved", "crashed"} =>
    /\ healthy /\ cmd # "ping"
    /\ \/ rpc \in {"write", "handle"} /\ Len(line) < PingTries /\ OnlyPings(Len(line))
       \/ /\ rpc = "read"
          /\ line # <<>> /\ goes + Len(line) <= PingTries
          /\ line[Len(line)].cmd = cmd /\ OnlyPings(Len(line) - 1)

(* The only reply to an inventory on the line is the one that is waited    *)
(* for, and nothing follows it.                                            *)
Fresh ==
  /\ rpc \notin Over =>
       \A i \in 1..Len(line) : line[i].cmd = "inventory" =>
         rpc = "read" /\ cmd = "inventory" /\ line[i].poll = poll /\ i = Len(line)
  /\ RepliesAreFresh

Inv == TypeOK /\ Holding /\ Pinging /\ Answering /\ Fresh

--------------------------------------------------------------------------------
(* An order of a finite set has each of its elements once.                 *)
LEMMA OrderOf ==
  ASSUME NEW S, IsFiniteSet(S), NEW f \in SetToSeqs(S)
  PROVE  f \in Seq(S) /\ IsInjective(f) /\ ToSet(f) = S
<1> DEFINE n == Cardinality(S)
<1>1. n \in Nat
  BY FS_CardinalityType
<1>2. f \in [1..n -> S] /\ \A i, j \in 1..n : i # j => f[i] # f[j]
  BY DEF SetToSeqs
<1>3. f \in Injection(1..n, S)
  BY <1>2 DEF Injection, IsInjective
<1>4. IsFiniteSet(1..n) /\ Cardinality(1..n) = n
  BY <1>1, FS_Interval
<1>5. f \in Surjection(1..n, S)
  BY <1>3, <1>4, FS_Injection
<1>6. \A e \in S : \E i \in 1..n : f[i] = e
  BY <1>5 DEF Surjection
<1>7. f \in Seq(S) /\ Len(f) = n
  BY <1>1, <1>2, SequenceOf
<1> QED  BY <1>2, <1>6, <1>7 DEF IsInjective, ToSet

--------------------------------------------------------------------------------
(* The invariant holds when the thread starts.                             *)
LEMMA InitInv == Init => Inv
<1> SUFFICES ASSUME Init PROVE Inv
  OBVIOUS
<1>1. readers = <<>> /\ rx = <<>> /\ pending = <<>> /\ line = <<>>
  BY DEF Init, line
<1>2. readers \in Seq(Handles) /\ rx \in Seq(Echo) /\ pending \in Seq(Echo)
  BY <1>1, EmptySeq
<1>3. TypeOK
  <2>1. /\ life \in [Handles -> {"unused", "found", "open", "freed", "lost"}]
        /\ device \in [Handles -> Devices]
        /\ current \in Handles \cup {NoHandle}
    BY DEF Init
  <2>2. /\ rpc \in {"search", "starved"} /\ cmd \in Commands /\ pings \in 1..PingTries /\ goes \in 0..(Goes - 1)
        /\ poll \in 0..1 /\ answered \in 0..1 /\ tags \in SUBSET Tags
    BY DEF Init, Commands, PingTries, Goes
  <2>3. healthy \in BOOLEAN /\ sound \in BOOLEAN
    BY Zenon DEF Init
  <2> QED  BY <1>2, <2>1, <2>2, <2>3 DEF TypeOK
<1>4. HandlesAccounted
  BY <1>1 DEF Init, HandlesAccounted, ToSet, IsInjective
<1>5. Holding
  BY <1>4, HandleAssumption DEF Init, Holding, InUse
<1>6. Pinging /\ Answering /\ Fresh
  <2>1. rpc \in {"search", "starved"} /\ ~sound
    BY DEF Init
  <2> QED  BY <1>1, <2>1 DEF Pinging, Answering, Fresh, RepliesAreFresh, Over
<1> QED  BY <1>3, <1>5, <1>6 DEF Inv

(* What a search takes over.                                               *)
LEMMA SearchHandles ==
  ASSUME TypeOK, Holding, Search
  PROVE  /\ readers' \in Seq(Handles)
         /\ current' \in Handles \cup {NoHandle}
         /\ rpc' \in {"search", "connect"}
         /\ life' \in [Handles -> {"unused", "found", "open", "freed", "lost"}]
         /\ Holding'
<1>1. PICK found \in SUBSET {h \in Handles : life[h] = "unused"} : \E lost \in SUBSET found :
        /\ life' = [h \in Handles |-> IF h \in lost THEN "lost"
                                     ELSE IF h \in found THEN "found" ELSE life[h]]
        /\ \E order \in SetToSeqs(found \ lost) :
            /\ order \o readers = <<>> => lost = {}
            /\ \/ /\ order \o readers # <<>>
                  /\ TakeFirst(order \o readers)
               \/ /\ readers' = order \o readers
                  /\ UNCHANGED <<rpc, current>>
  BY DEF Search
<1>2. PICK lost \in SUBSET found :
        /\ life' = [h \in Handles |-> IF h \in lost THEN "lost"
                                     ELSE IF h \in found THEN "found" ELSE life[h]]
        /\ \E order \in SetToSeqs(found \ lost) :
            /\ order \o readers = <<>> => lost = {}
            /\ \/ /\ order \o readers # <<>>
                  /\ TakeFirst(order \o readers)
               \/ /\ readers' = order \o readers
                  /\ UNCHANGED <<rpc, current>>
  BY <1>1
<1> DEFINE kept == found \ lost
<1>3. PICK order \in SetToSeqs(kept) :
            /\ order \o readers = <<>> => lost = {}
            /\ \/ /\ order \o readers # <<>>
                  /\ TakeFirst(order \o readers)
               \/ /\ readers' = order \o readers
                  /\ UNCHANGED <<rpc, current>>
  BY <1>2
<1>4. order \in Seq(kept) /\ IsInjective(order) /\ ToSet(order) = kept
  <2>1. IsFiniteSet(kept)
    BY HandleAssumption, FS_Subset
  <2> QED  BY <2>1, OrderOf
<1>5. order \in Seq(Handles)
  <2>1. kept \subseteq Handles
    OBVIOUS
  <2> QED  BY <1>4, <2>1, SeqMonotonic
<1> DEFINE list == order \o readers
<1>6. rpc = "search" /\ current = NoHandle /\ readers \in Seq(Handles) /\ IsInjective(readers)
  BY DEF Search, Holding, InUse, HandlesAccounted, TypeOK
<1>7. {h \in Handles : life[h] \in {"found", "open"}} = ToSet(readers)
  BY <1>6 DEF Holding, HandlesAccounted
<1>8. ToSet(readers) \cap kept = {}
  BY <1>7
<1>9. list \in Seq(Handles) /\ IsInjective(list) /\ ToSet(list) = kept \cup ToSet(readers)
  BY <1>4, <1>5, <1>6, <1>8, InjectiveConcat
<1> HIDE DEF list
<1>10. life' \in [Handles -> {"unused", "found", "open", "freed", "lost"}]
  BY <1>2 DEF TypeOK
<1>11. {h \in Handles : life'[h] \in {"found", "open"}} = ToSet(list)
  BY <1>2, <1>7, <1>9
<1>12. \A h \in Handles : life'[h] # "open"
  BY <1>2, <1>6, HandleAssumption DEF Holding, HandlesAccounted, TypeOK
<1>13. CASE list # <<>> /\ TakeFirst(list)
  <2>1. current' = Head(list) /\ readers' = Tail(list) /\ rpc' = "connect"
    BY <1>13 DEF TakeFirst
  <2>2. /\ Head(list) \in Handles
        /\ Head(list) \in ToSet(list)
        /\ Tail(list) \in Seq(Handles)
        /\ IsInjective(Tail(list))
        /\ ToSet(Tail(list)) = ToSet(list) \ {Head(list)}
    BY <1>9, <1>13, InjectiveTail
  <2>3. Head(list) # NoHandle
    BY <2>2, HandleAssumption
  <2>4. HandlesAccounted'
    BY <1>11, <1>12, <2>1, <2>2, <2>3 DEF HandlesAccounted
  <2> QED  BY <1>10, <2>1, <2>2, <2>3, <2>4 DEF Holding, InUse
<1>15. ASSUME NEW h \in Handles, life'[h] = "lost" PROVE list # <<>>
  <2>1. CASE h \in lost
    BY <1>3, <2>1 DEF list
  <2>2. CASE h \notin lost
    <3>1. life[h] = "lost"
      BY <1>2, <1>15, <2>2
    <3>2. readers # <<>>
      BY <1>6, <3>1 DEF Holding, HandlesAccounted
    <3>3. Head(readers) \in ToSet(readers)
      BY <1>6, <3>2, InjectiveTail
    <3>4. Head(readers) \in ToSet(list)
      BY <1>9, <3>3
    <3> QED  BY <3>4 DEF ToSet
  <2> QED  BY <2>1, <2>2
<1>14. CASE readers' = list /\ UNCHANGED <<rpc, current>>
  <2>1. NoHandle \notin ToSet(list)
    BY <1>7, <1>9, HandleAssumption
  <2>2. HandlesAccounted'
    BY <1>6, <1>9, <1>11, <1>12, <1>14, <1>15, <2>1 DEF HandlesAccounted
  <2> QED  BY <1>6, <1>9, <1>10, <1>14, <2>2 DEF Holding, InUse
<1> QED  BY <1>3, <1>13, <1>14 DEF list

(* What giving up a connection leaves.                                     *)
LEMMA GiveUpHandles ==
  ASSUME TypeOK, Holding, rpc \in InUse, GiveUp
  PROVE  /\ readers' \in Seq(Handles)
         /\ current' \in Handles \cup {NoHandle}
         /\ rpc' \in {"connect", "ended"}
         /\ life' \in [Handles -> {"unused", "found", "open", "freed", "lost"}]
         /\ Holding'
<1>1. /\ current \in Handles /\ life' = [life EXCEPT ![current] = "freed"]
      /\ readers \in Seq(Handles) /\ IsInjective(readers) /\ current \notin ToSet(readers)
      /\ {h \in Handles : life[h] \in {"found", "open"}} = ToSet(readers) \cup {current}
      /\ \A h \in Handles : life[h] = "open" => h = current
      /\ life \in [Handles -> {"unused", "found", "open", "freed", "lost"}]
  BY HandleAssumption DEF GiveUp, Holding, HandlesAccounted, TypeOK, InUse
<1>2. /\ life' \in [Handles -> {"unused", "found", "open", "freed", "lost"}]
      /\ {h \in Handles : life'[h] \in {"found", "open"}} = ToSet(readers)
      /\ \A h \in Handles : life'[h] # "open"
  BY <1>1
<1>3. CASE readers # <<>>
  <2>1. current' = Head(readers) /\ readers' = Tail(readers) /\ rpc' = "connect"
    BY <1>3 DEF GiveUp, TakeFirst
  <2>2. /\ Head(readers) \in Handles
        /\ Head(readers) \in ToSet(readers)
        /\ Tail(readers) \in Seq(Handles)
        /\ IsInjective(Tail(readers))
        /\ ToSet(Tail(readers)) = ToSet(readers) \ {Head(readers)}
    BY <1>1, <1>3, InjectiveTail
  <2>3. Head(readers) # NoHandle
    BY <2>2, HandleAssumption
  <2>4. HandlesAccounted'
    BY <1>2, <2>1, <2>2, <2>3 DEF HandlesAccounted
  <2> QED  BY <1>2, <2>1, <2>2, <2>3, <2>4 DEF Holding, InUse
<1>4. CASE readers = <<>>
  <2>1. readers' = readers /\ rpc' = "ended" /\ current' = NoHandle
    BY <1>4 DEF GiveUp
  <2>2. ToSet(readers) = {}
    BY <1>4 DEF ToSet
  <2>3. HandlesAccounted'
    BY <1>1, <1>2, <2>1, <2>2 DEF HandlesAccounted
  <2> QED  BY <1>1, <1>2, <2>1, <2>3 DEF Holding, InUse
<1> QED  BY <1>3, <1>4

(* Once the reader has beeped, the others are freed and it alone is kept.  *)
LEMMA BeepedHandles ==
  ASSUME TypeOK, Holding, rpc \in InUse, Beeped
  PROVE  /\ readers' \in Seq(Handles)
         /\ current' \in Handles \cup {NoHandle}
         /\ life' \in [Handles -> {"unused", "found", "open", "freed", "lost"}]
         /\ Holding'
<1>1. /\ current \in Handles /\ readers' = <<>>
      /\ current \notin ToSet(readers)
      /\ {h \in Handles : life[h] \in {"found", "open"}} = ToSet(readers) \cup {current}
      /\ \A h \in Handles : life[h] = "open" => h = current
      /\ life \in [Handles -> {"unused", "found", "open", "freed", "lost"}]
  BY HandleAssumption DEF Beeped, Holding, HandlesAccounted, TypeOK, InUse
<1>2. /\ OthersFreed \in [Handles -> {"unused", "found", "open", "freed", "lost"}]
      /\ {h \in Handles : OthersFreed[h] \in {"found", "open"}} = {current}
      /\ \A h \in Handles : OthersFreed[h] = "open" => h = current
  BY <1>1 DEF OthersFreed
<1>3. ToSet(readers') = {} /\ IsInjective(readers')
  BY <1>1 DEF ToSet, IsInjective
<1>4. readers' \in Seq(Handles)
  BY <1>1, EmptySeq
<1>5. current # NoHandle
  BY <1>1, HandleAssumption
<1>6. CASE rpc' = "write" /\ life' = OthersFreed /\ UNCHANGED current
  <2>1. HandlesAccounted'
    BY <1>1, <1>2, <1>3, <1>5, <1>6 DEF HandlesAccounted
  <2> QED  BY <1>1, <1>2, <1>4, <1>5, <1>6, <2>1 DEF Holding, InUse
<1>7. CASE rpc' = "starved" /\ current' = NoHandle /\ life' = [OthersFreed EXCEPT ![current] = "freed"]
  <2>1. /\ life' \in [Handles -> {"unused", "found", "open", "freed", "lost"}]
        /\ {h \in Handles : life'[h] \in {"found", "open"}} = {}
        /\ \A h \in Handles : life'[h] # "open"
    BY <1>1, <1>2, <1>7
  <2>2. HandlesAccounted'
    BY <1>3, <1>7, <2>1 DEF HandlesAccounted
  <2> QED  BY <1>4, <1>7, <2>1, <2>2 DEF Holding, InUse
<1> QED  BY <1>6, <1>7 DEF Beeped

(* A failed poll ends the thread, which frees the reader.                  *)
LEMMA PollFailsHandles ==
  ASSUME TypeOK, Holding, rpc \in InUse, PollFails
  PROVE  /\ life' \in [Handles -> {"unused", "found", "open", "freed", "lost"}]
         /\ Holding'
<1>1. /\ current \in Handles /\ current' = NoHandle /\ readers' = readers /\ rpc' = "ended"
      /\ life' = [life EXCEPT ![current] = "freed"]
      /\ readers \in Seq(Handles) /\ IsInjective(readers) /\ current \notin ToSet(readers)
      /\ {h \in Handles : life[h] \in {"found", "open"}} = ToSet(readers) \cup {current}
      /\ \A h \in Handles : life[h] = "open" => h = current
      /\ life \in [Handles -> {"unused", "found", "open", "freed", "lost"}]
  BY HandleAssumption DEF PollFails, Holding, HandlesAccounted, TypeOK, InUse
<1>2. /\ life' \in [Handles -> {"unused", "found", "open", "freed", "lost"}]
      /\ {h \in Handles : life'[h] \in {"found", "open"}} = ToSet(readers)
      /\ \A h \in Handles : life'[h] # "open"
  BY <1>1
<1>3. NoHandle \notin ToSet(readers)
  BY <1>1, HandleAssumption
<1>4. HandlesAccounted'
  BY <1>1, <1>2, <1>3 DEF HandlesAccounted
<1> QED  BY <1>1, <1>2, <1>4 DEF Holding, InUse

(* Every step accounts for the handles.                                    *)
LEMMA HandlesNext ==
  ASSUME TypeOK, Holding, [Next]_vars
  PROVE  /\ readers' \in Seq(Handles)
         /\ current' \in Handles \cup {NoHandle}
         /\ life' \in [Handles -> {"unused", "found", "open", "freed", "lost"}]
         /\ Holding'
<1>1. CASE Search
  BY <1>1, SearchHandles
<1>2. CASE Open
  <2>1. current \in Handles /\ life' = [life EXCEPT ![current] = "open"] /\ UNCHANGED <<readers, current>>
        /\ rpc = "connect" /\ rpc' = "write"
    BY <1>2 DEF Open, Holding, InUse, TypeOK
  <2>2. life' \in [Handles -> {"unused", "found", "open", "freed", "lost"}]
    BY <2>1 DEF TypeOK
  <2>3. HandlesAccounted'
    BY <2>1, HandleAssumption DEF Holding, HandlesAccounted, TypeOK
  <2> QED  BY <2>1, <2>2, <2>3 DEF Holding, InUse, TypeOK
<1>3. CASE rpc \in InUse /\ GiveUp
  BY <1>3, GiveUpHandles
<1>4. CASE rpc \in InUse /\ Beeped
  BY <1>4, BeepedHandles
<1>5. CASE rpc \in InUse /\ PollFails
  BY <1>5, PollFailsHandles DEF PollFails, TypeOK
<1>6. CASE UNCHANGED handles /\ rpc' # "search" /\ rpc # "crashed" /\ (rpc' \in InUse <=> rpc \in InUse)
  BY <1>6 DEF handles, Holding, HandlesAccounted, TypeOK
<1>9. CASE Crash
  BY <1>9 DEF Crash, handles, Holding, HandlesAccounted, TypeOK
<1>10. CASE UNCHANGED <<handles, rpc>>
  BY <1>10 DEF handles, Holding, HandlesAccounted, TypeOK
<1>7. ASSUME Failed, rpc \in InUse
      PROVE  \/ rpc \in InUse /\ (GiveUp \/ Beeped \/ PollFails)
             \/ UNCHANGED handles /\ rpc' # "search" /\ rpc # "crashed" /\ (rpc' \in InUse <=> rpc \in InUse)
  BY <1>7 DEF Failed, PingAgain, PingsFail, InUse
<1>8. CASE Thread
  <2>1. CASE Write
    BY <1>6, <2>1 DEF Write, InUse
  <2>2. CASE WriteFails \/ ReadFails
    BY <1>3, <1>4, <1>5, <1>6, <1>7, <2>2 DEF WriteFails, ReadFails, InUse
  <2>3. CASE ReadEcho
    BY <1>4, <1>6, <2>3 DEF ReadEcho, Connected, SetUp, Inventoried, InUse
  <2>4. CASE ReadEchoAndPurge
    BY <1>6, <2>4 DEF ReadEchoAndPurge, InUse
  <2>5. CASE PurgeFails \/ ReplyMalformed
    BY <1>5, <2>5 DEF PurgeFails, ReplyMalformed, InUse
  <2>6. CASE ReadOther \/ ReadTimeout
    BY <1>3, <1>4, <1>5, <1>6, <1>7, <2>6 DEF ReadOther, ReadTimeout, GoWasted, InUse
  <2>7. CASE HandleTag \/ PollAgain
    BY <1>6, <2>7 DEF HandleTag, PollAgain, InUse
  <2>8. CASE OpenFails
    BY <1>3, <2>8 DEF OpenFails, InUse
  <2>9. CASE SearchCrashes \/ ReplyCrashes
    BY <1>9, <2>9 DEF SearchCrashes, ReplyCrashes
  <2> QED  BY <1>1, <1>2, <1>8, <2>1, <2>2, <2>3, <2>4, <2>5, <2>6, <2>7, <2>8, <2>9 DEF Thread
<1> QED  BY <1>8, <1>10 DEF Next, Recover, Deliver, vars, handles, thread

(* Types of the sequences of echoes: some are taken, one is added.         *)
LEMMA EchoTypes ==
  ASSUME TypeOK, [Next]_vars
  PROVE  rx' \in Seq(Echo) /\ pending' \in Seq(Echo)
<1>1. rx \in Seq(Echo) /\ pending \in Seq(Echo)
  BY DEF TypeOK
<1>2. /\ rx # <<>> => Tail(rx) \in Seq(Echo)
      /\ pending # <<>> => Head(pending) \in Echo /\ Tail(pending) \in Seq(Echo)
  BY <1>1, HeadTailProperties
<1>3. <<>> \in Seq(Echo)
  BY EmptySeq
<1>4. [cmd |-> cmd, poll |-> IF cmd = "inventory" THEN poll ELSE 0] \in Echo
  BY DEF Echo, TypeOK
<1>5. \A e \in Echo : Append(rx, e) \in Seq(Echo) /\ Append(pending, e) \in Seq(Echo)
  BY <1>1, AppendProperties
<1> QED
  BY <1>1, <1>2, <1>3, <1>4, <1>5
     DEF Next, Thread, Search, Open, OpenFails, Write, WriteFails, ReadEcho, ReadEchoAndPurge,
         PurgeFails, ReplyMalformed, ReadOther, ReadTimeout, ReadFails, HandleTag, PollAgain,
         SearchCrashes, ReplyCrashes, Crash, Recover, Deliver, vars

(* Every step keeps the types.                                             *)
LEMMA TypeNext ==
  ASSUME TypeOK, Holding, [Next]_vars
  PROVE  TypeOK'
<1> DEFINE Rest ==
      /\ rpc \in {"search", "connect", "write", "read", "handle", "ended", "starved", "crashed"}
      /\ device \in [Handles -> Devices]
      /\ cmd \in Commands
      /\ pings \in 1..PingTries
      /\ goes \in 0..(Goes - 1)
      /\ poll \in 0..1 /\ answered \in 0..1
      /\ tags \in SUBSET Tags
      /\ healthy \in BOOLEAN /\ sound \in BOOLEAN
<1>1. Rest
  BY DEF TypeOK
<1>2. ASSUME GiveUp, UNCHANGED healthy PROVE Rest'
  BY <1>1, <1>2 DEF GiveUp, TakeFirst
<1>3. ASSUME Beeped, UNCHANGED healthy PROVE Rest'
  BY <1>1, <1>3 DEF Beeped, After, Commands
<1>4. ASSUME PollFails, UNCHANGED healthy PROVE Rest'
  BY <1>1, <1>4 DEF PollFails
<1>5. ASSUME PingAgain, UNCHANGED healthy PROVE Rest'
  BY <1>1, <1>5 DEF PingAgain, MayPingAgain, NextPing, PingTries, handles
<1>6. ASSUME Failed, UNCHANGED healthy PROVE Rest'
  BY <1>2, <1>3, <1>4, <1>5, <1>6 DEF Failed, PingsFail
<1>7. ASSUME GoWasted, UNCHANGED healthy PROVE Rest'
  <2>1. CASE goes + 1 < Goes
    BY <1>1, <1>7, <2>1 DEF GoWasted, Goes, handles
  <2> QED  BY <1>6, <1>7, <2>1 DEF GoWasted
<1> HIDE DEF Rest
<1>8. ASSUME Thread PROVE Rest'
  <2>1. CASE Search
    <3>1. UNCHANGED <<device, cmd, pings, goes, poll, answered, tags, healthy, sound>>
      BY <2>1 DEF Search
    <3>2. rpc' \in {"search", "connect"}
      BY <2>1, SearchHandles
    <3> QED  BY <1>1, <3>1, <3>2 DEF Rest
  <2>2. CASE Open
    BY <1>1, <2>2 DEF Rest, Open, Commands, PingTries
  <2>3. CASE OpenFails
    BY <1>2, <2>3 DEF OpenFails
  <2>4. CASE Write
    BY <1>1, <2>4 DEF Rest, Write, Goes, handles
  <2>5. CASE WriteFails \/ ReadFails
    BY <1>6, <2>5 DEF WriteFails, ReadFails
  <2>6. CASE ReadEcho
    <3>1. UNCHANGED healthy
      BY <2>6 DEF ReadEcho
    <3>2. CASE Connected
      BY <1>1, <3>1, <3>2 DEF Rest, Connected, handles, Commands
    <3>3. CASE SetUp
      BY <1>1, <3>1, <3>3 DEF Rest, SetUp, After, handles, Commands
    <3>4. CASE Inventoried(Head(rx))
      <4>1. Head(rx) \in Echo
        BY <2>6, HeadTailProperties DEF ReadEcho, TypeOK
      <4>2. Head(rx).poll \in 0..1
        BY <4>1 DEF Echo
      <4> QED  BY <1>1, <3>1, <3>4, <4>2 DEF Rest, Inventoried, handles
    <3> QED  BY <1>3, <2>6, <3>1, <3>2, <3>3, <3>4 DEF ReadEcho
  <2>7. CASE ReadEchoAndPurge
    BY <1>1, <2>7 DEF Rest, ReadEchoAndPurge, handles, Commands
  <2>8. CASE PurgeFails \/ ReplyMalformed
    BY <1>4, <2>8 DEF PurgeFails, ReplyMalformed
  <2>9. CASE ReadOther \/ ReadTimeout
    BY <1>7, <2>9 DEF ReadOther, ReadTimeout
  <2>10. CASE HandleTag
    BY <1>1, <2>10 DEF Rest, HandleTag, handles
  <2>11. CASE PollAgain
    BY <1>1, <2>11 DEF Rest, PollAgain, handles, Commands
  <2>12. CASE SearchCrashes \/ ReplyCrashes
    BY <1>1, <2>12 DEF Rest, SearchCrashes, ReplyCrashes, Crash, handles
  <2> QED
    BY <1>8, <2>1, <2>2, <2>3, <2>4, <2>5, <2>6, <2>7, <2>8, <2>9, <2>10, <2>11, <2>12 DEF Thread
<1>9. Rest'
  BY <1>1, <1>8 DEF Rest, Next, Recover, Deliver, vars, thread, handles
<1> QED  BY <1>9, HandlesNext, EchoTypes DEF Rest, TypeOK

--------------------------------------------------------------------------------
(* What the steps do to the line: the first k packets are taken from it,   *)
(* or one is added at its end.                                             *)
Taken(k) ==
  /\ Len(line') = Len(line) - k
  /\ \A i \in 1..Len(line') : i + k \in 1..Len(line) /\ line'[i] = line[i + k]

(* What is on the line is a sequence of echoes; its first is the next one  *)
(* read.                                                                   *)
LEMMA LineTypes ==
  ASSUME TypeOK
  PROVE  /\ Len(rx) \in Nat /\ Len(pending) \in Nat
         /\ line \in Seq(Echo) /\ Len(line) = Len(rx) + Len(pending)
         /\ rx # <<>> => Len(rx) >= 1 /\ Len(line) >= 1 /\ line[1] = Head(rx)
         /\ rx = <<>> /\ pending = <<>> => Len(line) = 0
<1>1. rx \in Seq(Echo) /\ pending \in Seq(Echo)
  BY DEF TypeOK
<1>2. /\ line \in Seq(Echo) /\ Len(line) = Len(rx) + Len(pending)
      /\ \A i \in 1..(Len(rx) + Len(pending)) : line[i] = IF i <= Len(rx) THEN rx[i] ELSE pending[i - Len(rx)]
  BY <1>1, ConcatProperties DEF line
<1>3. Len(rx) \in Nat /\ Len(pending) \in Nat
  BY <1>1, LenProperties
<1>4. ASSUME rx # <<>> PROVE Len(rx) >= 1 /\ Len(line) >= 1 /\ line[1] = Head(rx)
  <2>1. Len(rx) # 0 /\ Head(rx) = rx[1]
    BY <1>1, <1>4, EmptySeq, HeadTailProperties
  <2> QED  BY <1>2, <1>3, <2>1
<1>5. rx = <<>> /\ pending = <<>> => Len(line) = 0
  BY <1>2, EmptySeq
<1> QED  BY <1>2, <1>3, <1>4, <1>5

(* A step that reads and sends nothing takes nothing off the line.         *)
LEMMA LineSame ==
  ASSUME TypeOK, UNCHANGED <<rx, pending>>
  PROVE  line' = line /\ Taken(0)
<1>1. line' = line
  BY DEF line
<1> QED  BY <1>1, LineTypes DEF Taken

(* An echo that arrives stays where it is on the line.                     *)
LEMMA LineDelivered ==
  ASSUME TypeOK, Deliver
  PROVE  line' = line
<1>1. rx \in Seq(Echo) /\ pending \in Seq(Echo) /\ pending # <<>>
  BY DEF TypeOK, Deliver
<1>2. rx' = Append(rx, Head(pending)) /\ pending' = Tail(pending)
  BY DEF Deliver
<1>3. Head(pending) \in Echo /\ Tail(pending) \in Seq(Echo)
  BY <1>1, HeadTailProperties
<1>4. rx' = rx \o <<Head(pending)>>
  BY <1>1, <1>2, <1>3, AppendIsConcat
<1>5. line' = rx \o (<<Head(pending)>> \o Tail(pending))
  BY <1>1, <1>2, <1>3, <1>4, ConcatAssociative DEF line
<1>6. <<Head(pending)>> \o Tail(pending) = pending
  BY <1>1, <1>3
<1> QED  BY <1>5, <1>6 DEF line

(* An echo that is read is taken off its front, ...                        *)
LEMMA LineTaken ==
  ASSUME TypeOK, rx # <<>>, rx' = Tail(rx), UNCHANGED pending
  PROVE  Taken(1)
<1>1. rx \in Seq(Echo) /\ pending \in Seq(Echo)
  BY DEF TypeOK
<1>2. /\ Tail(rx) \in Seq(Echo) /\ Len(Tail(rx)) = Len(rx) - 1
      /\ \A i \in 1..(Len(rx) - 1) : Tail(rx)[i] = rx[i + 1]
  BY <1>1, HeadTailProperties
<1>3. /\ line \in Seq(Echo) /\ Len(line) = Len(rx) + Len(pending)
      /\ \A i \in 1..(Len(rx) + Len(pending)) : line[i] = IF i <= Len(rx) THEN rx[i] ELSE pending[i - Len(rx)]
  BY <1>1, ConcatProperties DEF line
<1>4. line' = Tail(rx) \o pending
  BY DEF line
<1>5. /\ Len(line') = Len(rx) - 1 + Len(pending)
      /\ \A i \in 1..(Len(rx) - 1 + Len(pending)) :
           line'[i] = IF i <= Len(rx) - 1 THEN Tail(rx)[i] ELSE pending[i - (Len(rx) - 1)]
  BY <1>1, <1>2, <1>4, ConcatProperties
<1>6. Len(rx) \in Nat /\ Len(pending) \in Nat
  BY <1>1, LenProperties
<1>7. ASSUME NEW i \in 1..Len(line')
      PROVE  i + 1 \in 1..Len(line) /\ line'[i] = line[i + 1]
  <2>1. i + 1 \in 1..Len(line)
    BY <1>3, <1>5, <1>6
  <2>2. CASE i <= Len(rx) - 1
    <3>1. i \in 1..(Len(rx) - 1) /\ i + 1 <= Len(rx)
      BY <1>5, <1>6, <2>2
    <3> QED  BY <1>2, <1>3, <1>5, <2>1, <3>1
  <2>3. CASE ~(i <= Len(rx) - 1)
    <3>1. ~(i + 1 <= Len(rx)) /\ (i + 1) - Len(rx) = i - (Len(rx) - 1)
      BY <1>5, <1>6, <2>3
    <3> QED  BY <1>3, <1>5, <2>1, <2>3, <3>1
  <2> QED  BY <2>1, <2>2, <2>3
<1> QED  BY <1>3, <1>5, <1>6, <1>7 DEF Taken

(* ... a purge takes off all that has arrived, ...                         *)
LEMMA LinePurged ==
  ASSUME TypeOK, rx' = <<>>, UNCHANGED pending
  PROVE  Taken(Len(rx))
<1>1. rx \in Seq(Echo) /\ pending \in Seq(Echo)
  BY DEF TypeOK
<1>2. line' = pending
  BY <1>1, ConcatEmptySeq DEF line
<1>3. /\ line \in Seq(Echo) /\ Len(line) = Len(rx) + Len(pending)
      /\ \A i \in 1..(Len(rx) + Len(pending)) : line[i] = IF i <= Len(rx) THEN rx[i] ELSE pending[i - Len(rx)]
  BY <1>1, ConcatProperties DEF line
<1>4. Len(rx) \in Nat /\ Len(pending) \in Nat
  BY <1>1, LenProperties
<1>5. ASSUME NEW i \in 1..Len(line')
      PROVE  i + Len(rx) \in 1..Len(line) /\ line'[i] = line[i + Len(rx)]
  <2>1. i + Len(rx) \in 1..Len(line) /\ ~(i + Len(rx) <= Len(rx)) /\ (i + Len(rx)) - Len(rx) = i
    BY <1>2, <1>3, <1>4
  <2> QED  BY <1>2, <1>3, <2>1
<1> QED  BY <1>2, <1>3, <1>4, <1>5 DEF Taken

(* ... and what the device answers comes to its end.                       *)
LEMMA LineSent ==
  ASSUME TypeOK, NEW e \in Echo, UNCHANGED rx, pending' = Append(pending, e)
  PROVE  /\ Len(line') = Len(line) + 1
         /\ \A i \in 1..Len(line) : line'[i] = line[i]
         /\ line'[Len(line) + 1] = e
<1>1. rx \in Seq(Echo) /\ pending \in Seq(Echo)
  BY DEF TypeOK
<1>2. pending' = pending \o <<e>> /\ <<e>> \in Seq(Echo)
  BY <1>1, AppendIsConcat
<1>3. line' = line \o <<e>>
  BY <1>1, <1>2, ConcatAssociative DEF line
<1>4. line \in Seq(Echo)
  BY LineTypes
<1>5. line' = Append(line, e)
  BY <1>3, <1>4, AppendIsConcat
<1> QED  BY <1>4, <1>5, AppendProperties

--------------------------------------------------------------------------------
Echoes == Pinging /\ Answering /\ Fresh

(* No command is given up on a sound connection; on another, the reader is *)
(* given up or pinged again, or set up without its beep.                   *)
LEMMA FailedEchoes ==
  ASSUME TypeOK, Echoes, rpc \in {"write", "read"}, ~sound, Failed,
         NEW k \in Nat, Taken(k)
  PROVE  Echoes'
<1>1. /\ Len(line) \in Nat /\ pings \in Nat
      /\ Len(line') = Len(line) - k
      /\ \A i \in 1..Len(line') : i + k \in 1..Len(line) /\ line'[i] = line[i + k]
  BY LineTypes DEF Taken, TypeOK
<1>2. sound' = sound
  BY DEF Failed, Beeped, PollFails, PingAgain, PingsFail, GiveUp
<1>3. Answering'
  BY <1>2 DEF Answering
<1>4. ASSUME cmd # "inventory", NEW i \in 1..Len(line')
      PROVE  line'[i].cmd # "inventory"
  BY <1>1, <1>4 DEF Echoes, Fresh, Over
<1>5. CASE Beeped
  <2>1. cmd = "beep" /\ ((cmd' = "mode" /\ rpc' = "write") \/ rpc' = "starved")
    BY <1>5 DEF Beeped, After
  <2> QED  BY <1>3, <1>4, <2>1 DEF Echoes, Pinging, Fresh, RepliesAreFresh, Over
<1>6. CASE PollFails
  <2>1. rpc' = "ended"
    BY <1>6 DEF PollFails
  <2> QED  BY <1>3, <2>1 DEF Echoes, Pinging, Fresh, RepliesAreFresh, Over
<1>7. CASE PingAgain
  <2>1. cmd = "ping" /\ cmd' = "ping" /\ rpc' = "write" /\ pings' = pings + 1
    BY <1>7 DEF PingAgain, NextPing
  <2>2. Len(line') <= pings' - 1
    BY <1>1, <2>1 DEF Echoes, Pinging
  <2>3. \A i \in 1..Len(line') : line'[i].cmd = "ping"
    BY <1>1, <2>1 DEF Echoes, Pinging, OnlyPings
  <2> QED  BY <1>3, <1>4, <2>1, <2>2, <2>3 DEF Echoes, Pinging, OnlyPings, Fresh, RepliesAreFresh, Over
<1>8. CASE PingsFail
  <2>1. cmd = "ping" /\ cmd' = cmd /\ rpc' \in {"connect", "ended"}
    BY <1>8 DEF PingsFail, GiveUp, TakeFirst
  <2> QED  BY <1>3, <1>4, <2>1 DEF Echoes, Pinging, Fresh, RepliesAreFresh, Over
<1> QED  BY <1>5, <1>6, <1>7, <1>8 DEF Failed

(* What is read first on a sound connection.                               *)
LEMMA SoundLine ==
  ASSUME TypeOK, Echoes, rpc = "read", sound
  PROVE  /\ healthy /\ cmd # "ping"
         /\ Len(line) >= 1 /\ goes + Len(line) <= 5
         /\ line[Len(line)].cmd = cmd
         /\ \A i \in 1..(Len(line) - 1) : line[i].cmd = "ping"
<1>1. /\ healthy /\ cmd # "ping"
      /\ line # <<>> /\ goes + Len(line) <= 5
      /\ line[Len(line)].cmd = cmd
      /\ \A i \in 1..(Len(line) - 1) : line[i].cmd = "ping"
  BY DEF Echoes, Answering, OnlyPings, PingTries
<1>2. Len(line) >= 1
  BY <1>1, LineTypes, EmptySeq
<1> QED  BY <1>1, <1>2

(* A go that found another echo than its own: in a sound connection it     *)
(* took a left-over ping, and the echo that is waited for is still to      *)
(* come.                                                                   *)
LEMMA GoWastedEchoes ==
  ASSUME TypeOK, Echoes, rpc = "read", GoWasted, UNCHANGED healthy,
         NEW k \in Nat, Taken(k),
         sound => k = 1 /\ Len(line) >= 2
  PROVE  Echoes'
<1>1. /\ Len(line) \in Nat /\ pings \in Nat /\ goes \in Nat
      /\ Len(line') = Len(line) - k
      /\ \A i \in 1..Len(line') : i + k \in 1..Len(line) /\ line'[i] = line[i + k]
  BY LineTypes DEF Taken, TypeOK
<1>2. CASE goes + 1 < Goes
  <2>1. goes' = goes + 1 /\ UNCHANGED <<rpc, cmd, pings, poll, answered, sound, healthy>>
    BY <1>2 DEF GoWasted
  <2>2. Pinging'
    <3> SUFFICES ASSUME cmd = "ping"
                 PROVE  Len(line') <= pings /\ \A i \in 1..Len(line') : line'[i].cmd = "ping"
      BY <2>1 DEF Pinging, OnlyPings
    <3>1. Len(line) <= pings /\ \A i \in 1..Len(line) : line[i].cmd = "ping"
      BY DEF Echoes, Pinging, OnlyPings
    <3> QED  BY <1>1, <3>1
  <2>3. Answering'
    <3> SUFFICES ASSUME sound
                 PROVE  /\ healthy /\ cmd # "ping"
                        /\ line' # <<>> /\ goes' + Len(line') <= 5
                        /\ line'[Len(line')].cmd = cmd
                        /\ \A i \in 1..(Len(line') - 1) : line'[i].cmd = "ping"
      BY <2>1 DEF Answering, OnlyPings, PingTries
    <3>1. /\ healthy /\ cmd # "ping"
          /\ goes + Len(line) <= 5
          /\ line[Len(line)].cmd = cmd
          /\ \A i \in 1..(Len(line) - 1) : line[i].cmd = "ping"
      BY SoundLine
    <3>2. Len(line') = Len(line) - 1 /\ Len(line') >= 1
      BY <1>1
    <3>3. line'[Len(line')] = line[Len(line)]
      BY <1>1, <3>2
    <3>4. \A i \in 1..(Len(line') - 1) : i + 1 \in 1..(Len(line) - 1) /\ line'[i] = line[i + 1]
      BY <1>1, <3>2
    <3>5. line' # <<>>
      BY <3>2
    <3>6. goes' + Len(line') <= 5
      BY <1>1, <2>1, <3>1, <3>2
    <3> QED  BY <3>1, <3>3, <3>4, <3>5, <3>6
  <2>4. Fresh'
    <3>1. ASSUME NEW i \in 1..Len(line'), line'[i].cmd = "inventory"
          PROVE  cmd = "inventory" /\ line'[i].poll = poll /\ i = Len(line')
      <4>1. i + k \in 1..Len(line) /\ line'[i] = line[i + k]
        BY <1>1
      <4>2. cmd = "inventory" /\ line[i + k].poll = poll /\ i + k = Len(line)
        BY <3>1, <4>1 DEF Echoes, Fresh, Over
      <4>3. i = Len(line')
        <5>1. Len(line) \in Nat
          BY <1>1
        <5>2. Len(line') = Len(line) - k
          BY <1>1
        <5>3. i \in Nat
          BY <5>1, <5>2
        <5>4. i + k = Len(line)
          BY <4>2
        <5> QED  BY <5>1, <5>2, <5>3, <5>4
      <4> QED  BY <4>1, <4>2, <4>3
    <3> QED  BY <2>1, <3>1 DEF Fresh, RepliesAreFresh, Over
  <2> QED  BY <2>2, <2>3, <2>4 DEF Echoes
<1>3. CASE ~(goes + 1 < Goes)
  <2>1. Failed
    BY <1>3 DEF GoWasted
  <2>2. ~sound
    <3> SUFFICES ASSUME sound PROVE FALSE
      OBVIOUS
    <3>1. goes + Len(line) <= 5
      BY SoundLine
    <3> QED  BY <1>1, <1>3, <3>1 DEF Goes
  <2> QED  BY <2>1, <2>2, FailedEchoes
<1> QED  BY <1>2, <1>3

(* A command has succeeded: what it was is gone from the line.             *)
LEMMA ReadEchoEchoes ==
  ASSUME TypeOK, Echoes, ReadEcho
  PROVE  Echoes'
<1>1. /\ rpc = "read" /\ rx # <<>> /\ Head(rx).cmd = cmd
      /\ rx' = Tail(rx) /\ UNCHANGED <<pending, healthy>>
  BY DEF ReadEcho
<1>2. /\ Len(line) \in Nat /\ Len(line) >= 1 /\ line[1].cmd = cmd /\ line[1] = Head(rx)
      /\ Len(line') = Len(line) - 1
      /\ \A i \in 1..Len(line') : i + 1 \in 1..Len(line) /\ line'[i] = line[i + 1]
  BY <1>1, LineTypes, LineTaken DEF Taken
<1>3. sound => Len(line') = 0
  <2> SUFFICES ASSUME sound, Len(line) # 1 PROVE FALSE
    BY <1>2
  <2>1. cmd # "ping" /\ 1 \in 1..(Len(line) - 1)
    BY <1>1, <1>2, SoundLine
  <2> QED  BY <1>1, <1>2, <2>1, SoundLine
<1>4. ASSUME NEW i \in 1..Len(line') PROVE line'[i].cmd # "inventory"
  <2> SUFFICES ASSUME line'[i].cmd = "inventory" PROVE FALSE
    OBVIOUS
  <2>1. cmd = "inventory"
    BY <1>1, <1>2 DEF Echoes, Fresh, Over
  <2>2. Len(line) = 1
    BY <1>1, <1>2, <2>1 DEF Echoes, Fresh, Over
  <2> QED  BY <1>2, <2>2
<1>5. CASE Connected
  <2>1. cmd = "ping" /\ rpc' = "write" /\ cmd' = "beep" /\ sound' = healthy
    BY <1>5 DEF Connected
  <2>2. Len(line) <= pings /\ \A i \in 1..Len(line) : line[i].cmd = "ping"
    BY <1>1, <2>1 DEF Echoes, Pinging, OnlyPings
  <2>3. pings \in 1..5
    BY DEF TypeOK, PingTries
  <2>4. Len(line') < 5 /\ \A i \in 1..Len(line') : line'[i].cmd = "ping"
    BY <1>2, <2>2, <2>3
  <2> QED  BY <1>1, <1>4, <2>1, <2>4 DEF Echoes, Pinging, Answering, OnlyPings, PingTries, Fresh, RepliesAreFresh, Over
<1>6. CASE Beeped \/ SetUp
  <2>1. (rpc' = "write" \/ rpc' = "starved") /\ cmd' # "ping" /\ sound' = sound
    BY <1>6 DEF Beeped, SetUp, After
  <2>2. sound => healthy
    BY <1>1, SoundLine
  <2> QED  BY <1>1, <1>3, <1>4, <2>1, <2>2 DEF Echoes, Pinging, Answering, OnlyPings, PingTries, Fresh, RepliesAreFresh, Over
<1>7. CASE Inventoried(Head(rx))
  <2>1. cmd = "inventory" /\ cmd' = cmd /\ rpc' = "handle" /\ answered' = line[1].poll /\ poll' = poll /\ sound' = sound
    BY <1>2, <1>7 DEF Inventoried
  <2>2. sound => healthy
    BY <1>1, SoundLine
  <2>3. answered' = poll'
    BY <1>1, <1>2, <2>1 DEF Echoes, Fresh, Over
  <2> QED  BY <1>1, <1>3, <1>4, <2>1, <2>2, <2>3 DEF Echoes, Pinging, Answering, OnlyPings, PingTries, Fresh, RepliesAreFresh, Over
<1> QED  BY <1>5, <1>6, <1>7 DEF ReadEcho

(* A command is sent: its echo, if any, comes behind what is left on the   *)
(* line.                                                                   *)
LEMMA WriteEchoes ==
  ASSUME TypeOK, Echoes, Write
  PROVE  Echoes'
<1>1. rpc = "write" /\ rpc' = "read" /\ goes' = 0 /\ UNCHANGED <<cmd, pings, rx, poll, sound, healthy>>
  BY DEF Write, handles
<1>2. Len(line) \in Nat /\ pings \in Nat
  BY LineTypes DEF TypeOK
<1>3. \A i \in 1..Len(line) : line[i].cmd # "inventory"
  BY <1>1 DEF Echoes, Fresh, Over
<1>4. sound => healthy /\ cmd # "ping" /\ Len(line) < 5 /\ \A i \in 1..Len(line) : line[i].cmd = "ping"
  BY <1>1 DEF Echoes, Answering, OnlyPings, PingTries
<1>5. cmd = "ping" => Len(line) <= pings - 1 /\ \A i \in 1..Len(line) : line[i].cmd = "ping"
  BY <1>1 DEF Echoes, Pinging, OnlyPings
<1>6. CASE ~healthy /\ UNCHANGED pending
  <2>1. line' = line
    BY <1>1, <1>6, LineSame
  <2>2. ~sound'
    BY <1>1, <1>4, <1>6
  <2> QED  BY <1>1, <1>2, <1>3, <1>5, <2>1, <2>2 DEF Echoes, Pinging, Answering, OnlyPings, Fresh, RepliesAreFresh, Over
<1>7. CASE pending' = Append(pending, [cmd |-> cmd, poll |-> IF cmd = "inventory" THEN poll ELSE 0])
  <2> DEFINE e == [cmd |-> cmd, poll |-> IF cmd = "inventory" THEN poll ELSE 0]
  <2>1. e \in Echo
    BY DEF Echo, TypeOK
  <2>2. e.cmd = cmd /\ (cmd = "inventory" => e.poll = poll)
    OBVIOUS
  <2>3. pending' = Append(pending, e)
    BY <1>7
  <2> HIDE DEF e
  <2>4. /\ Len(line') = Len(line) + 1
        /\ \A i \in 1..Len(line) : line'[i] = line[i]
        /\ line'[Len(line) + 1] = e
    BY <1>1, <2>1, <2>3, LineSent
  <2>5. \A i \in 1..Len(line') : i \in 1..Len(line) \/ i = Len(line')
    BY <1>2, <2>4
  <2>6. Pinging'
    <3> SUFFICES ASSUME cmd = "ping"
                 PROVE  Len(line') <= pings /\ \A i \in 1..Len(line') : line'[i].cmd = "ping"
      BY <1>1 DEF Pinging, OnlyPings
    <3> QED  BY <1>2, <1>5, <2>2, <2>4, <2>5
  <2>7. Answering'
    <3> SUFFICES ASSUME sound
                 PROVE  /\ healthy /\ cmd # "ping"
                        /\ line' # <<>> /\ goes' + Len(line') <= 5
                        /\ line'[Len(line')].cmd = cmd
                        /\ \A i \in 1..(Len(line') - 1) : line'[i].cmd = "ping"
      BY <1>1 DEF Answering, OnlyPings, PingTries
    <3>1. line' # <<>>
      BY <1>2, <2>4
    <3>2. line'[Len(line')].cmd = cmd /\ goes' + Len(line') <= 5
      BY <1>1, <1>2, <1>4, <2>2, <2>4
    <3>3. \A i \in 1..(Len(line') - 1) : line'[i].cmd = "ping"
      BY <1>2, <1>4, <2>4
    <3> QED  BY <1>4, <3>1, <3>2, <3>3
  <2>8. Fresh'
    <3>1. ASSUME NEW i \in 1..Len(line'), line'[i].cmd = "inventory"
          PROVE  cmd = "inventory" /\ line'[i].poll = poll /\ i = Len(line')
      <4>1. i = Len(line') /\ line'[i] = e
        BY <1>3, <2>4, <2>5, <3>1
      <4> QED  BY <2>2, <3>1, <4>1
    <3> QED  BY <1>1, <3>1 DEF Fresh, RepliesAreFresh, Over
  <2> QED  BY <2>6, <2>7, <2>8 DEF Echoes
<1> QED  BY <1>6, <1>7 DEF Write

(* Every step keeps what is known of the echoes on the line.               *)
LEMMA EchoesNext ==
  ASSUME TypeOK, Echoes, [Next]_vars
  PROVE  Echoes'
<1>1. ASSUME UNCHANGED <<rpc, cmd, pings, goes, poll, answered, sound>>, line' = line, healthy => healthy'
      PROVE  Echoes'
  BY <1>1 DEF Echoes, Pinging, Answering, OnlyPings, Fresh, RepliesAreFresh, Over
<1>2. ASSUME rpc' \in {"search", "connect", "ended"}, line' = line, rpc \in {"search", "connect"}, sound' = sound
      PROVE  Echoes'
  BY <1>2 DEF Echoes, Pinging, Answering, Fresh, RepliesAreFresh, Over
<1>3. rpc \in {"write", "read"} /\ sound => healthy
  BY DEF Echoes, Answering
<1>4. CASE Search
  <2>1. rpc' \in {"search", "connect"} /\ rpc = "search" /\ UNCHANGED <<rx, pending, sound>>
    BY <1>4 DEF Search, TakeFirst
  <2> QED  BY <1>2, <2>1, LineSame
<1>5. CASE Open
  <2>1. rpc = "connect" /\ rpc' = "write" /\ pings' = 1 /\ sound' = sound /\ rx' = <<>> /\ pending' = <<>>
    BY <1>5 DEF Open
  <2>2. ~sound
    BY <2>1 DEF Echoes, Answering
  <2>3. line' = <<>> /\ Len(line') = 0
    BY <2>1 DEF line
  <2> QED  BY <2>1, <2>2, <2>3 DEF Echoes, Pinging, Answering, OnlyPings, Fresh, RepliesAreFresh, Over
<1>6. CASE OpenFails
  <2>1. rpc = "connect" /\ rpc' \in {"connect", "ended"} /\ UNCHANGED <<rx, pending, sound>>
    BY <1>6 DEF OpenFails, GiveUp, TakeFirst
  <2> QED  BY <1>2, <2>1, LineSame
<1>7. CASE WriteFails \/ ReadFails
  <2>1. rpc \in {"write", "read"} /\ ~healthy /\ Failed /\ UNCHANGED <<rx, pending>>
    BY <1>7 DEF WriteFails, ReadFails
  <2>2. Taken(0)
    BY <2>1, LineSame
  <2> QED  BY <1>3, <2>1, <2>2, FailedEchoes
<1>8. CASE ReadEchoAndPurge
  <2>1. /\ rpc = "read" /\ rx # <<>> /\ Head(rx).cmd = "amp" /\ cmd = "amp" /\ rx' = <<>>
        /\ rpc' = "write" /\ cmd' = "inventory" /\ UNCHANGED <<pending, sound, healthy>>
    BY <1>8 DEF ReadEchoAndPurge
  <2>2. /\ Len(line) \in Nat /\ Len(rx) \in Nat /\ Len(rx) >= 1 /\ line[1].cmd = cmd
        /\ Len(line') = Len(line) - Len(rx)
        /\ Len(line') >= 0
        /\ \A i \in 1..Len(line') : i + Len(rx) \in 1..Len(line) /\ line'[i] = line[i + Len(rx)]
    BY <2>1, LineTypes, LinePurged DEF Taken
  <2>3. sound => Len(line') = 0
    <3> SUFFICES ASSUME sound, Len(line) # 1 PROVE FALSE
      BY <2>2
    <3>1. cmd # "ping" /\ 1 \in 1..(Len(line) - 1)
      BY <2>1, <2>2, SoundLine
    <3> QED  BY <2>1, <2>2, <3>1, SoundLine
  <2>4. \A i \in 1..Len(line') : line'[i].cmd # "inventory"
    BY <2>1, <2>2 DEF Echoes, Fresh, Over
  <2> QED  BY <1>3, <2>1, <2>3, <2>4 DEF Echoes, Pinging, Answering, OnlyPings, PingTries, Fresh, RepliesAreFresh, Over
<1>9. CASE PurgeFails \/ ReplyMalformed
  <2>1. rpc = "read" /\ ~healthy /\ PollFails /\ rx # <<>> /\ rx' = Tail(rx) /\ UNCHANGED pending
    BY <1>9 DEF PurgeFails, ReplyMalformed
  <2>2. Taken(1)
    BY <2>1, LineTaken
  <2> QED  BY <1>3, <2>1, <2>2, FailedEchoes DEF Failed
<1>17. CASE Crash
  <2>1. rpc' = "crashed"
    BY <1>17 DEF Crash
  <2> QED  BY <2>1 DEF Echoes, Pinging, Answering, Fresh, RepliesAreFresh, Over
<1>10. CASE ReadOther
  <2>1. /\ rpc = "read" /\ (Head(rx).cmd # cmd \/ ~healthy) /\ GoWasted
        /\ rx # <<>> /\ rx' = Tail(rx) /\ UNCHANGED <<pending, healthy>>
    BY <1>10 DEF ReadOther
  <2>2. Taken(1)
    BY <2>1, LineTaken
  <2>3. ASSUME sound PROVE Len(line) >= 2
    <3>1. line[1].cmd # cmd /\ Len(line) \in Nat
      BY <1>3, <2>1, <2>3, LineTypes
    <3> QED  BY <2>1, <2>3, <3>1, SoundLine
  <2> QED  BY <2>1, <2>2, <2>3, GoWastedEchoes
<1>11. CASE ReadTimeout
  <2>1. /\ rpc = "read" /\ (~healthy \/ (rx = <<>> /\ pending = <<>>)) /\ GoWasted
        /\ rx' = <<>> /\ UNCHANGED <<pending, healthy>>
    BY <1>11 DEF ReadTimeout
  <2>2. Taken(Len(rx)) /\ Len(rx) \in Nat
    BY <2>1, LinePurged, LineTypes
  <2>3. ~sound
    <3> SUFFICES ASSUME sound PROVE FALSE
      OBVIOUS
    <3>1. Len(line) = 0
      BY <1>3, <2>1, LineTypes
    <3> QED  BY <2>1, <3>1, SoundLine
  <2> QED  BY <2>1, <2>2, <2>3, GoWastedEchoes
<1>12. CASE HandleTag
  <2>1. UNCHANGED <<rpc, cmd, pings, goes, poll, answered, sound, healthy, rx, pending>>
    BY <1>12 DEF HandleTag
  <2> QED  BY <1>1, <2>1, LineSame
<1>13. CASE PollAgain
  <2>1. rpc = "handle" /\ rpc' = "write" /\ cmd' = "mode" /\ UNCHANGED <<sound, healthy, rx, pending>>
    BY <1>13 DEF PollAgain
  <2>2. line' = line
    BY <2>1, LineSame
  <2> QED  BY <2>1, <2>2 DEF Echoes, Pinging, Answering, OnlyPings, Fresh, RepliesAreFresh, Over
<1>14. CASE Recover
  <2>1. UNCHANGED <<rpc, cmd, pings, goes, poll, answered, sound, rx, pending>> /\ (healthy => healthy')
    BY <1>14 DEF Recover, thread
  <2> QED  BY <1>1, <2>1, LineSame
<1>15. CASE Deliver
  <2>1. UNCHANGED <<rpc, cmd, pings, goes, poll, answered, sound, healthy>>
    BY <1>15 DEF Deliver, thread
  <2> QED  BY <1>1, <1>15, <2>1, LineDelivered
<1>16. CASE UNCHANGED vars
  <2>1. UNCHANGED <<rpc, cmd, pings, goes, poll, answered, sound, healthy, rx, pending>>
    BY <1>16 DEF vars
  <2> QED  BY <1>1, <2>1, LineSame
<1> QED
  BY <1>4, <1>5, <1>6, <1>7, <1>8, <1>9, <1>10, <1>11, <1>12, <1>13, <1>14, <1>15, <1>16, <1>17,
     WriteEchoes, ReadEchoEchoes DEF Next, Thread, SearchCrashes, ReplyCrashes

(* Every step keeps the invariant.                                         *)
LEMMA NextInv == Inv /\ [Next]_vars => Inv'
<1> QED  BY HandlesNext, TypeNext, EchoesNext DEF Inv, Echoes

(* The invariant always holds: handles are accounted for, and only left-   *)
(* over pings are in front of the echo a sound connection waits for.       *)
THEOREM Invariance == Spec => []Inv
<1> QED  BY InitInv, NextInv, PTL DEF Spec

(* Type correctness of the reader's thread.                                *)
THEOREM TypeCorrect == Spec => []TypeOK
<1>1. Inv => TypeOK
  BY DEF Inv
<1> QED  BY <1>1, Invariance, PTL

(* For any readers on the USB and however searches, connections and polls  *)
(* end: a struct reader is in use, or freed, or was lost by list_push for  *)
(* want of memory; and at most one device is open.                         *)
THEOREM HandlesAreAccountedFor == Spec => []HandlesAccounted
<1>1. Inv => HandlesAccounted
  BY DEF Inv, Holding
<1> QED  BY <1>1, Invariance, PTL

(* The ten goes of a command are enough for the left-over echoes of five   *)
(* pings: no poll of a reader that was connected soundly ends the thread.  *)
THEOREM PollsOfASoundReaderSucceed == Spec => []AnsweredPollsSucceed
<1>1. Inv => AnsweredPollsSucceed
  BY DEF Inv, Answering, AnsweredPollsSucceed
<1> QED  BY <1>1, Invariance, PTL

(* No tags of an earlier poll's late reply are ever handed on, also while  *)
(* the reader is not healthy.                                              *)
THEOREM TagsAreOfThisPoll == Spec => []RepliesAreFresh
<1>1. Inv => RepliesAreFresh
  BY DEF Inv, Fresh, Over
<1> QED  BY <1>1, Invariance, PTL

================================================================================
