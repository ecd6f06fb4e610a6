------------------------------ MODULE DispatchProofs ------------------------------
(***************************************************************************)
(* Invariants of Dispatch for any number of concurrent calls, any set of   *)
(* tags and names, any rows in the database and any number of crashes.     *)
(***************************************************************************)
EXTENDS Dispatch, TLAPS

USE RequestsAssumption, SeedAssumption, NullAssumption, CrashAssumption

(* The flags of the two Observables never outlive the calls that raised    *)
(* them, although setChanged and notifyObservers are separate steps that   *)
(* any number of calls may interleave.                                     *)
LEMMA FlagInductive ==
  ASSUME TypeOK, FlagHasOwner, [Next]_vars
  PROVE  FlagHasOwner'
<1> USE DEF TypeOK, FlagHasOwner, Go, server, flags, data, locals, history
<1>1. CASE Startup
  BY <1>1 DEF Startup, StartWebServer, DropTable, CreateTable, SeedTable, LoadData, AddObserver, ObserverSteps
<1>2. CASE Crash
  BY <1>2 DEF Crash
<1>3. ASSUME NEW c \in Calls, Arrive(c)
      PROVE  FlagHasOwner'
  BY <1>3 DEF Arrive
<1>4. ASSUME NEW c \in Calls, SetChanged(c)
      PROVE  FlagHasOwner'
  BY <1>4 DEF SetChanged
<1>5. ASSUME NEW c \in Calls, NotifyObservers(c)
      PROVE  FlagHasOwner'
  BY <1>5 DEF NotifyObservers, ClearChanged
<1>6. ASSUME NEW c \in Calls, Lookup(c)
      PROVE  FlagHasOwner'
  BY <1>6 DEF Lookup
<1>7. ASSUME NEW c \in Calls, SetNameChanged(c)
      PROVE  FlagHasOwner'
  BY <1>7 DEF SetNameChanged
<1>8. ASSUME NEW c \in Calls, NotifyName(c)
      PROVE  FlagHasOwner'
  BY <1>8 DEF NotifyName
<1>9. ASSUME NEW c \in Calls, SendText(c) \/ ShowName(c)
      PROVE  FlagHasOwner'
  BY <1>9 DEF SendText, AfterText, ShowName
<1>10. ASSUME NEW c \in Calls, Handle(c)
       PROVE  FlagHasOwner'
  BY <1>10 DEF Handle, BeginServlets, KioskGet, KioskPost, PutName, InsertRow, Return
<1>11. ASSUME NEW c \in Calls, MapLoops(c)
       PROVE  FlagHasOwner'
  BY <1>11 DEF MapLoops
<1>12. CASE UNCHANGED vars
  BY <1>12 DEF vars
<1> QED
  BY <1>1, <1>2, <1>3, <1>4, <1>5, <1>6, <1>7, <1>8, <1>9, <1>10, <1>11, <1>12
  DEF Next, Announce, Spin

(* The invariant holds before the server is started.                       *)
LEMMA InitIInv == Init => IInv /\ FlagHasOwner
<1> SUFFICES ASSUME Init PROVE IInv /\ FlagHasOwner
  OBVIOUS
<1> USE DEF Init, NoCalls, Unnamed, Off, Ready
<1>1. TypeOK
  <2>1. stage \in Off..Ready /\ crashes \in 0..MaxCrashes
    OBVIOUS
  <2>2. changed \in BOOLEAN /\ nameChanged \in BOOLEAN
    OBVIOUS
  <2>3. tagName \in [Tags -> Names \cup {NoName}] /\ collided \in BOOLEAN
    OBVIOUS
  <2> QED  BY <2>1, <2>2, <2>3, Zenon DEF TypeOK
<1>2. StartupInv
  BY DEF StartupInv, HandlerAdded, DisplayAdded, TableCreated, TableSeeded
<1>3. SeedsKnown /\ FlagHasOwner
  BY DEF SeedsKnown, FlagHasOwner, DataLoaded
<1> QED  BY <1>1, <1>2, <1>3 DEF IInv

(* No step of Startup, of a call, or of the environment breaks it.         *)
LEMMA NextIInv ==
  ASSUME IInv, [Next]_vars
  PROVE  IInv'
<1> USE DEF IInv, TypeOK, StartupInv, SeedsKnown, Off, WebServerUp, TableDropped,
            TableCreated, TableSeeded, DataLoaded, HandlerAdded, DisplayAdded,
            TextAdded, Ready, server, flags, data, locals, history, Unnamed
<1>1. CASE Startup
  <2> USE DEF Advance
  <2>1. CASE StartWebServer
    BY <2>1 DEF StartWebServer
  <2>2. CASE DropTable
    BY <2>2 DEF DropTable, IfExists
  <2>3. CASE CreateTable
    BY <2>3 DEF CreateTable
  <2>4. CASE SeedTable
    <3>1. SeedRows \subseteq Rows
      BY DEF SeedRows, Rows
    <3> QED  BY <2>4, <3>1 DEF SeedTable
  <2>5. CASE LoadData
    <3>1. \A t \in DOMAIN Seed : <<t, Seed[t]>> \in people /\ Seed[t] \in Names
      BY <2>5 DEF LoadData, SeedRows
    <3>2. tagName' \in [Tags -> Names \cup {NoName}]
      BY <2>5 DEF LoadData, Loaded, NamesIn
    <3>3. \A t \in DOMAIN Seed : tagName'[t] # NoName
      BY <2>5, <3>1 DEF LoadData, Loaded, NamesIn
    <3> QED  BY <2>5, <3>2, <3>3 DEF LoadData
  <2>6. CASE AddObserver
    BY <2>6 DEF AddObserver, ObserverSteps
  <2> QED  BY <1>1, <2>1, <2>2, <2>3, <2>4, <2>5, <2>6 DEF Startup
<1>2. CASE Crash
  <2> USE <1>2 DEF Crash, NoCalls
  <2>1. TypeOK'
    <3>1. stage' \in Off..Ready /\ crashes' \in 0..MaxCrashes
      OBVIOUS
    <3>2. changed' \in BOOLEAN /\ nameChanged' \in BOOLEAN
      OBVIOUS
    <3>3. tagName' \in [Tags -> Names \cup {NoName}] /\ collided' \in BOOLEAN
      OBVIOUS
    <3> QED  BY <3>1, <3>2, <3>3, Zenon
  <2>2. StartupInv' /\ SeedsKnown'
    OBVIOUS
  <2> QED  BY <2>1, <2>2
<1>3. ASSUME NEW c \in Calls, Arrive(c)
      PROVE  IInv'
  <2>1. TypeOK'
    BY <1>3 DEF Arrive, Go
  <2>2. StartupInv'
    BY <1>3 DEF Arrive, Go
  <2>3. SeedsKnown'
    BY <1>3 DEF Arrive, Go
  <2> QED  BY <2>1, <2>2, <2>3
<1>4. ASSUME NEW c \in Calls, SetChanged(c)
      PROVE  IInv'
  BY <1>4 DEF SetChanged, Go
<1>5. ASSUME NEW c \in Calls, NotifyObservers(c)
      PROVE  IInv'
  <2>1. PICK to \in {"lookup", "servlets"} :
          /\ pc[c] = "notify" /\ pc' = [pc EXCEPT ![c] = to]
          /\ to = "lookup" => stage >= HandlerAdded
    BY <1>5 DEF NotifyObservers, ClearChanged, Go
  <2>2. /\ changed' = FALSE
        /\ UNCHANGED <<server, nameChanged, data, locals, history>>
    BY <1>5 DEF NotifyObservers, ClearChanged
  <2>3. TypeOK'
    BY <2>1, <2>2
  <2>4. StartupInv'
    BY <2>1, <2>2
  <2>5. SeedsKnown'
    BY <2>1, <2>2
  <2> QED  BY <2>3, <2>4, <2>5
<1>6. ASSUME NEW c \in Calls, Lookup(c)
      PROVE  IInv'
  <2>1. PICK name \in Names \cup {NoName}, to \in {"servlets", "nameFound"} :
          /\ pc[c] = "lookup" /\ pc' = [pc EXCEPT ![c] = to]
          /\ found' = [found EXCEPT ![c] = name]
    <3>1. req[c].tag \in Tags
      BY <1>6 DEF Lookup
    <3>2. Got(req[c].tag) \subseteq Names \cup {NoName}
      <4>1. tagName[req[c].tag] \in Names \cup {NoName}
        BY <3>1
      <4> QED  BY <4>1 DEF Got
    <3>3. PICK name \in Got(req[c].tag) :
            /\ Go(c, "lookup", IF name = NoName THEN "servlets" ELSE "nameFound")
            /\ found' = [found EXCEPT ![c] = name]
      BY <1>6 DEF Lookup
    <3> QED  BY <3>2, <3>3 DEF Go
  <2>2. UNCHANGED <<server, flags, data, req, early, alone, history>>
    BY <1>6 DEF Lookup
  <2>3. TypeOK'
    BY <2>1, <2>2
  <2>4. StartupInv'
    BY <2>1, <2>2
  <2>5. SeedsKnown'
    BY <2>1, <2>2
  <2> QED  BY <2>3, <2>4, <2>5
<1>7. ASSUME NEW c \in Calls, SetNameChanged(c)
      PROVE  IInv'
  BY <1>7 DEF SetNameChanged, Go
<1>8. ASSUME NEW c \in Calls, NotifyName(c)
      PROVE  IInv'
  <2>1. PICK to \in {"text", "screen", "servlets"} :
          /\ pc[c] = "nameNotify" /\ pc' = [pc EXCEPT ![c] = to]
          /\ to # "servlets" => stage >= DisplayAdded
    BY <1>8 DEF NotifyName, Go
  <2>2. /\ nameChanged' = FALSE
        /\ UNCHANGED <<server, changed, data, locals, history>>
    BY <1>8 DEF NotifyName
  <2>3. TypeOK'
    BY <2>1, <2>2
  <2>4. StartupInv'
    BY <2>1, <2>2
  <2>5. SeedsKnown'
    BY <2>1, <2>2
  <2> QED  BY <2>3, <2>4, <2>5
<1>9. ASSUME NEW c \in Calls, SendText(c)
      PROVE  IInv'
  BY <1>9 DEF SendText, AfterText, Go
<1>10. ASSUME NEW c \in Calls, ShowName(c)
       PROVE  IInv'
  <2>1. TypeOK'
    BY <1>10 DEF ShowName, Go
  <2>2. StartupInv'
    BY <1>10 DEF ShowName, Go
  <2>3. SeedsKnown'
    BY <1>10 DEF ShowName, Go
  <2> QED  BY <2>1, <2>2, <2>3
<1>11. ASSUME NEW c \in Calls, BeginServlets(c)
       PROVE  IInv'
  BY <1>11 DEF BeginServlets, Go
<1>12. ASSUME NEW c \in Calls, KioskGet(c)
       PROVE  IInv'
  BY <1>12 DEF KioskGet, Go
<1>13. ASSUME NEW c \in Calls, KioskPost(c)
       PROVE  IInv'
  <2>1. TypeOK'
    BY <1>13 DEF KioskPost, Go
  <2>2. StartupInv'
    BY <1>13 DEF KioskPost, Go
  <2>3. SeedsKnown'
    BY <1>13 DEF KioskPost, Go
  <2> QED  BY <2>1, <2>2, <2>3
<1>14. ASSUME NEW c \in Calls, PutName(c)
       PROVE  IInv'
  <2>1. req[c].tag \in Tags /\ req[c].name \in Names
    BY <1>14 DEF PutName, Go
  <2>2. tagName' \in [Tags -> Names \cup {NoName}]
    BY <1>14, <2>1 DEF PutName, Stored, Damaged
  <2>3. ~collided => \A t \in DOMAIN Seed : tagName'[t] # NoName
    BY <1>14, <2>1 DEF PutName, Stored, Go
  <2> QED  BY <1>14, <2>2, <2>3 DEF PutName, Go
<1>15. ASSUME NEW c \in Calls, InsertRow(c)
       PROVE  IInv'
  <2>1. req[c].tag \in Tags
    BY <1>15 DEF InsertRow, Go
  <2>2. people' \in SUBSET Rows /\ people \subseteq people'
    BY <1>15 DEF InsertRow, Go, Rows
  <2> QED  BY <1>15, <2>1, <2>2 DEF InsertRow, Go
<1>16. ASSUME NEW c \in Calls, Return(c)
       PROVE  IInv'
  <2>1. TypeOK'
    BY <1>16 DEF Return, Go
  <2>2. StartupInv'
    BY <1>16 DEF Return, Go
  <2>3. SeedsKnown'
    BY <1>16 DEF Return, Go
  <2> QED  BY <2>1, <2>2, <2>3
<1>17. ASSUME NEW c \in Calls, MapLoops(c)
       PROVE  IInv'
  <2>1. PICK at \in {"lookup", "put"} : pc[c] = at /\ pc' = [pc EXCEPT ![c] = "looping"]
    BY <1>17 DEF MapLoops, Go
  <2>2. UNCHANGED <<server, flags, data, locals, history>>
    BY <1>17 DEF MapLoops
  <2> QED  BY <2>1, <2>2
<1>18. CASE UNCHANGED vars
  BY <1>18 DEF vars
<1> QED
  BY <1>1, <1>2, <1>3, <1>4, <1>5, <1>6, <1>7, <1>8, <1>9, <1>10, <1>11, <1>12,
     <1>13, <1>14, <1>15, <1>16, <1>17, <1>18 DEF Next, Announce, Handle, Spin

(* All of it holds in every state.                                         *)
LEMMA Invariance == Spec => [](IInv /\ FlagHasOwner)
<1>1. IInv /\ FlagHasOwner /\ [Next]_vars => (IInv /\ FlagHasOwner)'
  BY NextIInv, FlagInductive DEF IInv
<1> QED  BY <1>1, InitIInv, PTL DEF Spec

(* Every variable of the server's application has its type.                *)
THEOREM TypeCorrect == Spec => []TypeOK
BY Invariance, PTL DEF IInv

(* However many workers run RFidentify.doGet at once, no notification of   *)
(* either Observable is left over for a later request.                     *)
THEOREM NoLeftOverNotification == Spec => []FlagHasOwner
BY Invariance, PTL

(* Wherever the server was killed and whatever its workers do, from        *)
(* DBAccess.loadData on every tag of the database has a name, until two    *)
(* registrations run into each other.                                      *)
THEOREM SeedsAreKnown == Spec => []SeedsKnown
BY Invariance, PTL DEF IInv

--------------------------------------------------------------------------------
(* No step breaks the invariant behind LoneSwipeShown and ThankedIsKnown.  *)
LEMMA LoneInductive ==
  ASSUME IInv, LoneInv, [Next]_vars
  PROVE  LoneInv'
<1> USE DEF IInv, TypeOK, StartupInv, SeedsKnown, LoneInv, Off, WebServerUp, TableDropped,
            TableCreated, TableSeeded, DataLoaded, HandlerAdded, DisplayAdded, TextAdded,
            Ready, Go, server, flags, data, locals, history, Unnamed
<1>1. CASE Startup
  <2> USE DEF Startup, Advance, StartWebServer, DropTable, IfExists, CreateTable, SeedTable,
              LoadData, AddObserver, ObserverSteps
  <2>1. stage # Ready
    BY <1>1
  <2>2. /\ UNCHANGED <<crashes, flags, locals, history, pc>>
        /\ tagName' = tagName \/ stage < DataLoaded
    BY <1>1
  <2>3. LoneCalls'
    BY <2>2 DEF LoneCalls
  <2>4. ThankedStay'
    BY <2>1, <2>2 DEF ThankedStay, ThankedIsKnown
  <2>5. SwipeProgress'
    BY <2>1, <2>2 DEF SwipeProgress
  <2> QED  BY <2>3, <2>4, <2>5
<1>2. CASE Crash
  BY <1>2 DEF Crash, NoCalls, LoneCalls, ThankedStay, ThankedIsKnown, SwipeProgress
<1>3. ASSUME NEW c \in Calls, Arrive(c)
      PROVE  LoneInv'
  <2>1. LoneCalls'
    BY <1>3 DEF Arrive, LoneCalls
  <2>2. ThankedStay'
    BY <1>3 DEF Arrive, ThankedStay, ThankedIsKnown
  <2>3. SwipeProgress'
    <3>1. /\ pc' = [pc EXCEPT ![c] = "arrived"]
          /\ early' = [early EXCEPT ![c] = stage < Ready]
          /\ UNCHANGED <<stage, heard, collided>>
          /\ \A d \in Calls \ {c} : req'[d] = req[d] /\ (alone'[d] => alone[d])
      BY <1>3 DEF Arrive
    <3>2. early'[c] \/ stage = Ready
      <4>1. CASE stage # Ready
        <5>1. (stage < Ready) = TRUE
          BY <4>1
        <5>2. early' = [early EXCEPT ![c] = TRUE]
          BY <3>1, <5>1
        <5> QED  BY <5>2
      <4> QED  BY <4>1
    <3>3. \A d \in Calls \ {c} : pc'[d] = pc[d] /\ early'[d] = early[d]
      BY <3>1
    <3>4. pc'[c] = "arrived" /\ stage' = stage /\ heard' = heard
      BY <3>1
    <3> SUFFICES ASSUME NEW d \in Calls, pc'[d] # "idle"
                 PROVE  /\ ~early'[d] => stage' = Ready
                        /\ pc'[d] \in {"put", "insert"} => req'[d].kind = "register"
                        /\ /\ alone'[d] /\ ~early'[d] /\ ~collided'
                           /\ req'[d].kind = "swipe" /\ req'[d].tag \in DOMAIN Seed
                           /\ pc'[d] \in {"servlets", "kiosk", "done"}
                           => "screen" \in heard'[d]
      BY DEF SwipeProgress
    <3>5. CASE d = c
      BY <3>2, <3>4, <3>5
    <3>6. CASE d # c
      BY <3>1, <3>3, <3>4, <3>6 DEF SwipeProgress
    <3> QED  BY <3>5, <3>6
  <2> QED  BY <2>1, <2>2, <2>3
<1>4. ASSUME NEW c \in Calls, SetChanged(c)
      PROVE  LoneInv'
  <2>1. LoneCalls'
    BY <1>4 DEF SetChanged, LoneCalls
  <2>2. ThankedStay'
    BY <1>4 DEF SetChanged, ThankedStay, ThankedIsKnown, LoneCalls
  <2>3. SwipeProgress'
    BY <1>4 DEF SetChanged, SwipeProgress, LoneCalls
  <2> QED  BY <2>1, <2>2, <2>3
<1>5. ASSUME NEW c \in Calls, NotifyObservers(c)
      PROVE  LoneInv'
  <2>1. LoneCalls'
    BY <1>5 DEF NotifyObservers, ClearChanged, LoneCalls
  <2>2. ThankedStay'
    BY <1>5 DEF NotifyObservers, ClearChanged, ThankedStay, ThankedIsKnown, LoneCalls
  <2>3. SwipeProgress'
    BY <1>5 DEF NotifyObservers, ClearChanged, SwipeProgress, LoneCalls
  <2> QED  BY <2>1, <2>2, <2>3
<1>6. ASSUME NEW c \in Calls, Lookup(c)
      PROVE  LoneInv'
  <2>1. LoneCalls'
    BY <1>6 DEF Lookup, LoneCalls
  <2>2. ThankedStay'
    BY <1>6 DEF Lookup, ThankedStay, ThankedIsKnown, LoneCalls
  <2>3. SwipeProgress'
    <3>1. PICK name \in Got(req[c].tag) :
            pc' = [pc EXCEPT ![c] = IF name = NoName THEN "servlets" ELSE "nameFound"] /\ pc[c] = "lookup"
      BY <1>6 DEF Lookup
    <3>2. UNCHANGED <<server, flags, data, req, early, alone, history>>
      BY <1>6 DEF Lookup
    <3>3. stage >= DataLoaded
      BY <3>1
    <3>4. alone[c] /\ ~collided /\ req[c].tag \in DOMAIN Seed => name # NoName
      <4>1. alone[c] /\ ~collided => name = tagName[req[c].tag]
        BY <3>1 DEF LoneCalls, Got
      <4> QED  BY <3>3, <4>1
    <3> QED  BY <3>1, <3>2, <3>4 DEF SwipeProgress
  <2> QED  BY <2>1, <2>2, <2>3
<1>7. ASSUME NEW c \in Calls, SetNameChanged(c)
      PROVE  LoneInv'
  <2>1. LoneCalls'
    BY <1>7 DEF SetNameChanged, LoneCalls
  <2>2. ThankedStay'
    BY <1>7 DEF SetNameChanged, ThankedStay, ThankedIsKnown, LoneCalls
  <2>3. SwipeProgress'
    BY <1>7 DEF SetNameChanged, SwipeProgress, LoneCalls
  <2> QED  BY <2>1, <2>2, <2>3
<1>8. ASSUME NEW c \in Calls, NotifyName(c)
      PROVE  LoneInv'
  <2>1. LoneCalls'
    BY <1>8 DEF NotifyName, LoneCalls
  <2>2. ThankedStay'
    BY <1>8 DEF NotifyName, ThankedStay, ThankedIsKnown, LoneCalls
  <2>3. SwipeProgress'
    BY <1>8 DEF NotifyName, SwipeProgress, LoneCalls
  <2> QED  BY <2>1, <2>2, <2>3
<1>9. ASSUME NEW c \in Calls, SendText(c)
      PROVE  LoneInv'
  <2>1. LoneCalls'
    BY <1>9 DEF SendText, AfterText, LoneCalls
  <2>2. ThankedStay'
    BY <1>9 DEF SendText, AfterText, ThankedStay, ThankedIsKnown, LoneCalls
  <2>3. SwipeProgress'
    BY <1>9 DEF SendText, AfterText, SwipeProgress, LoneCalls
  <2> QED  BY <2>1, <2>2, <2>3
<1>10. ASSUME NEW c \in Calls, ShowName(c)
       PROVE  LoneInv'
  <2>1. LoneCalls'
    BY <1>10 DEF ShowName, LoneCalls
  <2>2. ThankedStay'
    BY <1>10 DEF ShowName, ThankedStay, ThankedIsKnown, LoneCalls
  <2>3. SwipeProgress'
    BY <1>10 DEF ShowName, SwipeProgress, LoneCalls
  <2> QED  BY <2>1, <2>2, <2>3
<1>11. ASSUME NEW c \in Calls, BeginServlets(c)
       PROVE  LoneInv'
  <2>1. LoneCalls'
    BY <1>11 DEF BeginServlets, LoneCalls
  <2>2. ThankedStay'
    BY <1>11 DEF BeginServlets, ThankedStay, ThankedIsKnown, LoneCalls
  <2>3. SwipeProgress'
    BY <1>11 DEF BeginServlets, SwipeProgress, LoneCalls
  <2> QED  BY <2>1, <2>2, <2>3
<1>12. ASSUME NEW c \in Calls, KioskGet(c)
       PROVE  LoneInv'
  <2>1. LoneCalls'
    BY <1>12 DEF KioskGet, LoneCalls
  <2>2. ThankedStay'
    BY <1>12 DEF KioskGet, ThankedStay, ThankedIsKnown, LoneCalls
  <2>3. SwipeProgress'
    BY <1>12 DEF KioskGet, SwipeProgress, LoneCalls
  <2> QED  BY <2>1, <2>2, <2>3
<1>13. ASSUME NEW c \in Calls, KioskPost(c)
       PROVE  LoneInv'
  <2>1. LoneCalls'
    BY <1>13 DEF KioskPost, LoneCalls
  <2>2. ThankedStay'
    BY <1>13 DEF KioskPost, ThankedStay, ThankedIsKnown, LoneCalls
  <2>3. SwipeProgress'
    BY <1>13 DEF KioskPost, SwipeProgress, LoneCalls
  <2> QED  BY <2>1, <2>2, <2>3
<1>14. ASSUME NEW c \in Calls, PutName(c)
       PROVE  LoneInv'
  <2>1. LoneCalls'
    BY <1>14 DEF PutName, LoneCalls
  <2>2. ThankedStay'
    <3>1. req[c].tag \in Tags /\ req[c].name \in Names
      BY <1>14 DEF PutName
    <3>2. /\ pc' = [pc EXCEPT ![c] = "insert"] /\ pc[c] = "put"
          /\ ~collided => tagName' = [tagName EXCEPT ![req[c].tag] = req[c].name]
          /\ UNCHANGED <<stage, req, thanked, collided>>
      BY <1>14 DEF PutName, Stored
    <3>3. ~collided => \A t \in Tags : (tagName[t] # NoName \/ t = req[c].tag) => tagName'[t] # NoName
      BY <3>1, <3>2
    <3>4. \A d \in Calls : pc'[d] = "insert" => d = c \/ (pc[d] = "insert" /\ req[d].tag \in Tags)
      BY <3>2
    <3> QED  BY <3>1, <3>2, <3>3, <3>4 DEF ThankedStay, ThankedIsKnown
  <2>3. SwipeProgress'
    BY <1>14 DEF PutName, SwipeProgress
  <2> QED  BY <2>1, <2>2, <2>3
<1>15. ASSUME NEW c \in Calls, InsertRow(c)
       PROVE  LoneInv'
  <2>1. LoneCalls'
    BY <1>15 DEF InsertRow, LoneCalls
  <2>2. ThankedStay'
    BY <1>15 DEF InsertRow, ThankedStay, ThankedIsKnown, LoneCalls
  <2>3. SwipeProgress'
    BY <1>15 DEF InsertRow, SwipeProgress, LoneCalls
  <2> QED  BY <2>1, <2>2, <2>3
<1>16. ASSUME NEW c \in Calls, Return(c)
       PROVE  LoneInv'
  <2>1. LoneCalls'
    BY <1>16 DEF Return, LoneCalls
  <2>2. ThankedStay'
    BY <1>16 DEF Return, ThankedStay, ThankedIsKnown, LoneCalls
  <2>3. SwipeProgress'
    BY <1>16 DEF Return, SwipeProgress, LoneCalls
  <2> QED  BY <2>1, <2>2, <2>3
<1>17. ASSUME NEW c \in Calls, MapLoops(c)
       PROVE  LoneInv'
  <2>1. PICK at \in {"lookup", "put"} : pc[c] = at /\ pc' = [pc EXCEPT ![c] = "looping"]
    BY <1>17 DEF MapLoops
  <2>2. UNCHANGED <<server, flags, data, locals, history>>
    BY <1>17 DEF MapLoops
  <2> QED  BY <2>1, <2>2 DEF LoneCalls, ThankedStay, ThankedIsKnown, SwipeProgress
<1>18. CASE UNCHANGED vars
  BY <1>18 DEF vars, LoneCalls, ThankedStay, ThankedIsKnown, SwipeProgress
<1> QED
  BY <1>1, <1>2, <1>3, <1>4, <1>5, <1>6, <1>7, <1>8, <1>9, <1>10, <1>11, <1>12, <1>13, <1>14, <1>15,
     <1>16, <1>17, <1>18 DEF Next, Announce, Handle, Spin

(* What is known of a call that no other call overlaps with always holds.  *)
LEMMA LoneInvariance == Spec => []LoneInv
<1>1. Init => LoneInv
  BY DEF Init, LoneInv, LoneCalls, ThankedStay, ThankedIsKnown, SwipeProgress, NoCalls
<1>2. IInv /\ LoneInv /\ [Next]_vars => LoneInv'
  BY LoneInductive
<1> QED  BY <1>1, <1>2, Invariance, PTL DEF Spec

(* A swipe of a tag of the database that no other request overlaps, of a   *)
(* client that found the server ready, is shown, whatever came before it   *)
(* but two registrations that ran into each other.                         *)
THEOREM LoneSwipesAreShown == Spec => []LoneSwipeShown
<1>1. LoneInv => LoneSwipeShown
  BY DEF LoneInv, SwipeProgress, LoneSwipeShown
<1> QED  BY <1>1, LoneInvariance, PTL

(* A tag a client was thanked for keeps a name as long as the server runs, *)
(* whatever becomes of its row, until two registrations run into each      *)
(* other in the HashMap.                                                   *)
THEOREM ThankedAreKnown == Spec => []ThankedIsKnown
<1>1. LoneInv => ThankedIsKnown
  BY DEF LoneInv, ThankedStay
<1> QED  BY <1>1, LoneInvariance, PTL

================================================================================
