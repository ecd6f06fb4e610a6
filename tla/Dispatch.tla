--------------------------------- MODULE Dispatch ---------------------------------
(***************************************************************************)
(* What the server does with the requests its workers have parsed, and how *)
(* it starts: the servlet RFidentify and its observers, the name of a tag  *)
(* in DBAccess, the kiosk of RegistrationHandler, the database, Startup.   *)
(*                                                                         *)
(* Every worker with a request runs the same methods at the same time; no  *)
(* lock protects them beyond the monitor inside java.util.Observable.  A   *)
(* "call" below is one worker's passage through RFidentify.doGet or doPost.*)
(***************************************************************************)
EXTENDS Naturals, FiniteSets

CONSTANTS
  Calls,          (* the calls that can be active at the same time          *)
  Tags, Names,
  Seed,           (* the names DBInitializer writes, by tag                 *)
  Requests,       (* the requests clients send, see RequestKinds            *)
  MaxCrashes,     (* bounds the crashes of the process                      *)
  NoName, NoTag, NoRequest, NoTable

(* GET /dev/gumstix?idTag=..., GET /dev/kiosk?idTag=..., the AJAX poll of   *)
(* the kiosk's page, and POST /kiosk with a tag and a name.                 *)
RequestKinds == {"swipe", "kiosk", "poll", "register"}

ASSUME RequestsAssumption ==
  Requests \subseteq [kind : RequestKinds, tag : Tags, name : Names]
ASSUME SeedAssumption == DOMAIN Seed \subseteq Tags /\ \A t \in DOMAIN Seed : Seed[t] \in Names
ASSUME NullAssumption ==
  NoName \notin Names /\ NoTag \notin Tags /\ NoRequest \notin Requests
ASSUME CrashAssumption == MaxCrashes \in Nat

VARIABLES
  stage,        (* how far Startup.main has come                            *)
  people,       (* the rows of the table, on disk; NoTable without it       *)
  tagName,      (* DBAccess.tagName                                         *)
  lastSwipe,    (* RegistrationHandler.lastSwipe                            *)
  changed,      (* the flag of the Observable RFidentify                    *)
  nameChanged,  (* the flag of the Observable IdTagHandler                  *)
  screen,       (* the text of DisplayName                                  *)
  pc, req,      (* where each call is, and its request                      *)
  found,        (* IdTagHandler.update: the local idName of each call       *)
  early,        (* history: the call came before Startup.main had ended     *)
  alone,        (* history: no other call has overlapped with this one      *)
  heard,        (* history: who was told of the call's swipe                *)
  thanked,      (* history: tags a client was thanked for                   *)
  collided,     (* history: two calls were in HashMap.put at a time         *)
  crashes

server == <<stage, people, crashes>>
flags == <<changed, nameChanged>>
data == <<tagName, lastSwipe, screen>>
locals == <<req, found, early, alone>>
history == <<heard, thanked, collided>>
vars == <<server, flags, data, locals, history, pc>>

(* The stages of Startup.main, in order.                                   *)
Off == 0              (* no process                                        *)
WebServerUp == 1      (* requests are accepted                             *)
TableDropped == 2
TableCreated == 3
TableSeeded == 4
DataLoaded == 5       (* dbAccess has its names                            *)
HandlerAdded == 6     (* idTagHandler observes the servlet                 *)
DisplayAdded == 7     (* display observes idTagHandler                     *)
TextAdded == 8        (* txtMarks observes idTagHandler                    *)
Ready == 9            (* the kiosk's servlet is registered                 *)

(* A row is a pair of a tag and a name.  addName writes its column names.  *)
LiteralRow == <<"tag", "name">>
SeedRows == {<<t, Seed[t]>> : t \in DOMAIN Seed}
Rows == (Tags \X Names) \cup {LiteralRow}

Unnamed == [t \in Tags |-> NoName]

TypeOK ==
  /\ stage \in Off..Ready
  /\ people \in (SUBSET Rows) \cup {NoTable}
  /\ tagName \in [Tags -> Names \cup {NoName}]
  /\ lastSwipe \in Tags \cup {NoTag}
  /\ changed \in BOOLEAN /\ nameChanged \in BOOLEAN
  /\ screen \in Names \cup {NoName}
  /\ pc \in [Calls -> {"idle", "arrived", "notify", "lookup", "nameFound", "nameNotify",
                       "text", "screen", "servlets", "kiosk", "put", "insert", "done", "looping"}]
  /\ req \in [Calls -> Requests \cup {NoRequest}]
  /\ found \in [Calls -> Names \cup {NoName}]
  /\ early \in [Calls -> BOOLEAN] /\ alone \in [Calls -> BOOLEAN]
  /\ heard \in [Calls -> SUBSET {"text", "screen"}]
  /\ thanked \in SUBSET Tags
  /\ collided \in BOOLEAN
  /\ crashes \in 0..MaxCrashes

NoCalls(value) == [c \in Calls |-> value]

Init ==
  /\ stage = Off
  /\ people = NoTable
  /\ tagName = Unnamed
  /\ lastSwipe = NoTag
  /\ changed = FALSE
  /\ nameChanged = FALSE
  /\ screen = NoName
  /\ pc = NoCalls("idle")
  /\ req = NoCalls(NoRequest)
  /\ found = NoCalls(NoName)
  /\ early = NoCalls(FALSE)
  /\ alone = NoCalls(FALSE)
  /\ heard = NoCalls({})
  /\ thanked = {}
  /\ collided = FALSE
  /\ crashes = 0

--------------------------------------------------------------------------------
(* Startup.main.  The web server runs before anything else is there.       *)

Advance(from) == stage = from /\ stage' = from + 1

StartWebServer ==
  /\ Advance(Off)
  /\ UNCHANGED <<people, crashes, flags, data, locals, history, pc>>

WithoutIf == people # NoTable                                     (* mutant *)
IfExists == TRUE

(* DBInitializer.load: "drop table if exists", ...                         *)
DropTable ==
  /\ IfExists
  /\ Advance(WebServerUp)
  /\ people' = NoTable
  /\ UNCHANGED <<crashes, flags, data, locals, history, pc>>

(* ... "create table", ...                                                 *)
CreateTable ==
  /\ Advance(TableDropped)
  /\ people' = {}
  /\ UNCHANGED <<crashes, flags, data, locals, history, pc>>

(* ... and the three rows, in one transaction.                             *)
SeedTable ==
  /\ Advance(TableCreated)
  /\ people' = people \cup SeedRows
  /\ UNCHANGED <<crashes, flags, data, locals, history, pc>>

(* DBAccess.loadData: for every tag the name of one of its rows.           *)
NamesIn(rows) ==
  {f \in [Tags -> Names \cup {NoName}] :
     \A t \in Tags : IF f[t] = NoName THEN \A n \in Names : <<t, n>> \notin rows
                                      ELSE <<t, f[t]>> \in rows}

LoadedButFirst == UNION {NamesIn(people \ {row}) : row \in people}  (* mutant *)
Loaded == NamesIn(people)

LoadData ==
  /\ Advance(TableSeeded)
  /\ tagName' \in Loaded
  /\ UNCHANGED <<people, crashes, flags, lastSwipe, screen, locals, history, pc>>

OneStepTooMany == DataLoaded..Ready                               (* mutant *)
ObserverSteps == {DataLoaded, HandlerAdded, DisplayAdded, TextAdded}

(* initIdTagHandlers and initKiosk: one observer or servlet at a time.     *)
AddObserver ==
  /\ \E from \in ObserverSteps : Advance(from)
  /\ UNCHANGED <<people, crashes, flags, data, locals, history, pc>>

Startup ==
  \/ StartWebServer
  \/ DropTable
  \/ CreateTable
  \/ SeedTable
  \/ LoadData
  \/ AddObserver

(* The process dies, or an exception of the database makes Startup exit:   *)
(* only the table is left.                                                 *)
Crash ==
  /\ stage # Off
  /\ crashes < MaxCrashes
  /\ crashes' = crashes + 1
  /\ stage' = Off
  /\ tagName' = Unnamed
  /\ lastSwipe' = NoTag
  /\ changed' = FALSE
  /\ nameChanged' = FALSE
  /\ screen' = NoName
  /\ pc' = NoCalls("idle")
  /\ req' = NoCalls(NoRequest)
  /\ found' = NoCalls(NoName)
  /\ early' = NoCalls(FALSE)
  /\ alone' = NoCalls(FALSE)
  /\ heard' = NoCalls({})
  /\ thanked' = {}
  /\ collided' = FALSE
  /\ UNCHANGED people

--------------------------------------------------------------------------------
(* RFidentify.doGet and doPost: the observers first, then the servlets.    *)

Go(c, from, to) ==
  /\ pc[c] = from
  /\ pc' = [pc EXCEPT ![c] = to]

(* A worker has parsed a request and calls the servlet.                    *)
Arrive(c) ==
  /\ stage >= WebServerUp
  /\ Go(c, "idle", "arrived")
  /\ \E r \in Requests : req' = [req EXCEPT ![c] = r]
  /\ early' = [early EXCEPT ![c] = stage < Ready]
  /\ alone' = [d \in Calls |-> d = c /\ \A e \in Calls : pc[e] = "idle"]
  /\ UNCHANGED <<server, flags, data, found, history>>

SetChanged(c) ==
  /\ Go(c, "arrived", "notify")
  /\ changed' = TRUE
  /\ UNCHANGED <<server, nameChanged, data, locals, history>>

KeepChanged == UNCHANGED changed                                  (* mutant *)
AwaitChanged == changed /\ changed' = FALSE                       (* mutant *)
ClearChanged == changed' = FALSE

(* Observable.notifyObservers: under its monitor it tests and clears the   *)
(* flag and copies the observers; then it calls update.  DBAccess.update   *)
(* has no effect, IdTagHandler.update only for a swipe at the gumstix.     *)
NotifyObservers(c) ==
  /\ Go(c, "notify", IF changed /\ stage >= HandlerAdded /\ req[c].kind = "swipe"
                     THEN "lookup" ELSE "servlets")
  /\ ClearChanged
  /\ UNCHANGED <<server, nameChanged, data, locals, history>>

(* IdTagHandler.update: DBAccess.getName, and only a known tag goes on.    *)
(* While another call puts a name, the map may be moving its entries to a  *)
(* larger table, where this one does not find them.                        *)
Got(t) ==
  IF collided \/ \E d \in Calls : pc[d] = "put" THEN {tagName[t], NoName} ELSE {tagName[t]}

Lookup(c) ==
  /\ pc[c] = "lookup"
  /\ \E name \in Got(req[c].tag) :
       /\ Go(c, "lookup", IF name = NoName THEN "servlets" ELSE "nameFound")
       /\ found' = [found EXCEPT ![c] = name]
  /\ UNCHANGED <<server, flags, data, req, early, alone, history>>

SetNameChanged(c) ==
  /\ Go(c, "nameFound", "nameNotify")
  /\ nameChanged' = TRUE
  /\ UNCHANGED <<server, changed, data, locals, history>>

(* The observers of IdTagHandler, the last to register first.              *)
NotifyName(c) ==
  /\ \/ /\ ~nameChanged \/ stage < DisplayAdded
        /\ Go(c, "nameNotify", "servlets")
     \/ nameChanged /\ stage = DisplayAdded /\ Go(c, "nameNotify", "screen")
     \/ nameChanged /\ stage > DisplayAdded /\ Go(c, "nameNotify", "text")
  /\ nameChanged' = FALSE
  /\ UNCHANGED <<server, changed, data, locals, history>>

AfterTextUnlessFailed(told) == IF told = {} THEN "servlets" ELSE "screen"  (* mutant *)
AfterText(told) == "screen"

(* TextMarksHandler.update: a failure of the service is logged only.  It   *)
(* has no time limit: a service that does not answer keeps the call here.  *)
SendText(c) ==
  /\ \E told \in {{}, {"text"}} :
       /\ Go(c, "text", AfterText(told))
       /\ heard' = [heard EXCEPT ![c] = @ \cup told]
  /\ UNCHANGED <<server, flags, data, locals, thanked, collided>>

(* DisplayName.update.                                                     *)
ShowName(c) ==
  /\ Go(c, "screen", "servlets")
  /\ screen' = found[c]
  /\ heard' = [heard EXCEPT ![c] = @ \cup {"screen"}]
  /\ UNCHANGED <<server, flags, tagName, lastSwipe, locals, thanked, collided>>

(* The loop over the servlets begins.  The kiosk's is the only one.  When  *)
(* it is registered between the loop's first two steps, the iterator of    *)
(* the LinkedList throws and the request ends as if there were none.       *)
BeginServlets(c) ==
  /\ \/ stage = Ready /\ Go(c, "servlets", "kiosk")
     \/ stage < Ready /\ Go(c, "servlets", "done")
  /\ UNCHANGED <<server, flags, data, locals, history>>

(* RegistrationHandler.doGet.  A poll answers with lastSwipe.              *)
KioskGet(c) ==
  /\ Go(c, "kiosk", "done")
  /\ req[c].kind # "register"
  /\ lastSwipe' = IF req[c].kind = "kiosk" THEN req[c].tag ELSE lastSwipe
  /\ UNCHANGED <<server, flags, tagName, screen, locals, history>>

(* RegistrationHandler.doPost, addName: HashMap.put begins ...             *)
KioskPost(c) ==
  /\ Go(c, "kiosk", "put")
  /\ req[c].kind = "register"
  /\ collided' = (collided \/ \E d \in Calls : pc[d] = "put")
  /\ UNCHANGED <<server, flags, data, locals, heard, thanked>>

(* ... and ends.  HashMap is not made for two puts at a time: each may move *)
(* the entries to a table of its own and lose any of them, ...             *)
StoredLiterally(tag, name) == tagName                             (* mutant *)
Stored(tag, name) == [tagName EXCEPT ![tag] = name]

Damaged(tag, name) ==
  {f \in [Tags -> Names \cup {NoName}] :
     \A t \in Tags : f[t] \in {tagName[t], NoName, Stored(tag, name)[t]}}

PutName(c) ==
  /\ Go(c, "put", "insert")
  /\ tagName' \in IF collided THEN Damaged(req[c].tag, req[c].name)
                  ELSE {Stored(req[c].tag, req[c].name)}
  /\ UNCHANGED <<server, flags, lastSwipe, screen, locals, history>>

(* ... or link them in a circle, which a later get or put never leaves.    *)
MapLoops(c) ==
  /\ collided
  /\ \E at \in {"lookup", "put"} : Go(c, at, "looping")
  /\ UNCHANGED <<server, flags, data, locals, history>>

Spin(c) == pc[c] = "looping" /\ UNCHANGED vars

(* ... then the row.  Both parameters of the statement are set to string   *)
(* literals.  A failure is logged only, and the client is thanked.         *)
InsertRow(c) ==
  /\ Go(c, "insert", "done")
  /\ people' \in {people, people \cup {LiteralRow}}
  /\ thanked' = thanked \cup {req[c].tag}
  /\ UNCHANGED <<stage, crashes, flags, data, locals, heard, collided>>

(* doGet or doPost returns.                                                *)
Return(c) ==
  /\ Go(c, "done", "idle")
  /\ req' = [req EXCEPT ![c] = NoRequest]
  /\ found' = [found EXCEPT ![c] = NoName]
  /\ early' = [early EXCEPT ![c] = FALSE]
  /\ alone' = [alone EXCEPT ![c] = FALSE]
  /\ heard' = [heard EXCEPT ![c] = {}]
  /\ UNCHANGED <<server, flags, data, thanked, collided>>

Announce(c) ==
  \/ SetChanged(c)
  \/ NotifyObservers(c)
  \/ Lookup(c)
  \/ SetNameChanged(c)
  \/ NotifyName(c)
  \/ ShowName(c)

Handle(c) ==
  \/ BeginServlets(c)
  \/ KioskGet(c)
  \/ KioskPost(c)
  \/ PutName(c)
  \/ InsertRow(c)
  \/ Return(c)

Next ==
  \/ Startup
  \/ Crash
  \/ \E c \in Calls : Arrive(c) \/ Announce(c) \/ SendText(c) \/ Handle(c) \/ MapLoops(c) \/ Spin(c)

(* Startup.main and the workers are threads the JVM schedules.  Clients,   *)
(* crashes and the text service are not fair.                              *)
Fairness ==
  /\ WF_vars(Startup)
  /\ \A c \in Calls : WF_vars(Announce(c) \/ Handle(c))

Spec == Init /\ [][Next]_vars

FairSpec == Spec /\ Fairness

--------------------------------------------------------------------------------
(* A flag of an Observable is only up while a call that will notify is on  *)
(* its way: no call finds a notification left over by an earlier one.      *)
FlagHasOwner ==
  /\ changed => \E c \in Calls : pc[c] = "notify"
  /\ nameChanged => \E c \in Calls : pc[c] = "nameNotify"

(* The names of the database are there before the first lookup, wherever   *)
(* the server was killed before, and no registration drops one of them,    *)
(* until two registrations run into each other.                            *)
SeedsKnown ==
  /\ stage >= DataLoaded /\ ~collided => \A t \in DOMAIN Seed : tagName[t] # NoName
  /\ \A c \in Calls : pc[c] \in {"lookup", "put"} => stage >= DataLoaded

(* What makes SeedsKnown inductive: the rows are written before they are   *)
(* read, calls reach the kiosk only when it is registered, only two    *)
(* of which can collide.                                                   *)
StartupInv ==
  /\ stage = Off => \A c \in Calls : pc[c] = "idle"
  /\ stage >= TableCreated => people \in SUBSET Rows
  /\ stage >= TableSeeded => SeedRows \subseteq people
  /\ collided => stage = Ready
  /\ \A c \in Calls :
       /\ pc[c] \in {"lookup", "nameFound", "nameNotify"} => stage >= HandlerAdded
       /\ pc[c] \in {"text", "screen"} => stage >= DisplayAdded
       /\ pc[c] \in {"kiosk", "put", "insert"} => stage = Ready
       /\ pc[c] # "idle" => req[c] \in Requests

IInv == TypeOK /\ StartupInv /\ SeedsKnown

(* "some action in response to each new identification": a swipe of a tag  *)
(* of the database, by a client that found the server ready, is shown.     *)
SwipeShown ==
  \A c \in Calls :
    /\ pc[c] = "done"
    /\ req[c].kind = "swipe"
    /\ req[c].tag \in DOMAIN Seed
    /\ ~early[c]
    => "screen" \in heard[c]

(* That holds of every swipe with no other request at the same time, after *)
(* any requests that ran into each other but two registrations.            *)
LoneSwipeShown ==
  \A c \in Calls :
    /\ pc[c] = "done" /\ alone[c]
    /\ req[c].kind = "swipe"
    /\ req[c].tag \in DOMAIN Seed
    /\ ~early[c] /\ ~collided
    => "screen" \in heard[c]

(* "Thank you for registering": the tag has a name from then on, as long   *)
(* as the server runs, whatever happens to its row, until two              *)
(* registrations run into each other.                                      *)
ThankedIsKnown == ~collided => \A t \in thanked : tagName[t] # NoName

(* What makes these two inductive.  A call that is alone finds the flags   *)
(* as it left them; ...                                                    *)
LoneCalls ==
  \A c \in Calls : alone[c] =>
    /\ pc[c] # "idle"
    /\ \A d \in Calls \ {c} : pc[d] = "idle"
    /\ pc[c] = "notify" => changed
    /\ pc[c] = "nameNotify" => nameChanged

(* ... what a call has put is there before its row is written ...          *)
ThankedStay ==
  /\ ThankedIsKnown
  /\ thanked # {} => stage = Ready
  /\ \A c \in Calls : pc[c] = "insert" /\ ~collided => tagName[req[c].tag] # NoName

(* ... and a swipe that found the server ready leaves the observers shown. *)
SwipeProgress ==
  \A c \in Calls : pc[c] # "idle" =>
    /\ ~early[c] => stage = Ready
    /\ pc[c] \in {"put", "insert"} => req[c].kind = "register"
    /\ /\ alone[c] /\ ~early[c] /\ ~collided
       /\ req[c].kind = "swipe" /\ req[c].tag \in DOMAIN Seed
       /\ pc[c] \in {"servlets", "kiosk", "done"}
       => "screen" \in heard[c]

LoneInv == LoneCalls /\ ThankedStay /\ SwipeProgress

(* Wherever a crash interrupts Startup or a registration, the server       *)
(* starts again from what is on the disk.                                  *)
StartupCompletes == <>[](stage = Ready)

(* Every request is answered, whatever the other requests do, unless it    *)
(* waits for the text service, or two registrations have run into each     *)
(* other.                                                                  *)
RequestsEnd ==
  \A c \in Calls : pc[c] # "idle" ~> pc[c] \in {"idle", "text"} \/ collided

================================================================================
