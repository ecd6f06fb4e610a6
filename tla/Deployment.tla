------------------------------ MODULE Deployment ------------------------------
(***************************************************************************)
(* Servers of RFidentify and a client that finds them by multicast DNS and *)
(* reports its tags to them.                                               *)
(*                                                                         *)
(* The parts are those of the other modules, in larger steps: Startup.main *)
(* of a server in two and its request in one, which may come to nothing    *)
(* (Dispatch, HttpExchange), the client's list as a sequence that loses an *)
(* entry at once and gains one in two writes, the walk along it call by    *)
(* call (Client).  What is new is what comes between them: processes and   *)
(* hosts that fail, addresses that change, and events of Avahi that follow *)
(* the state of the servers with a delay.                                  *)
(***************************************************************************)
EXTENDS Naturals, SequencesExt

CONSTANTS
  Machines,    (* that run a server, by the names they register             *)
  Tags,        (* tags that come within reach of the reader                *)
  MaxFailures, (* bounds the processes and hosts that fail                  *)
  NoTag,       (* nothing on the screen, nothing read yet                   *)
  NoEntry      (* list_push is not between its two writes                   *)

ASSUME FailuresAssumption == MaxFailures \in Nat
ASSUME NullAssumption ==
  NoTag \notin Tags /\ NoEntry \notin [name : Machines, address : {0, 1}]

VARIABLES
  stage,      (* of each server's process                                   *)
  registered, (* its service is registered with its host's mDNS daemon      *)
  address,    (* its host's address, 0 or 1                                 *)
  screen,     (* the tag whose name it shows                                *)
  failures,
  browsing, announced, resolving, failed,  (* as in ServerDirectory         *)
  directory,  (* config->servers, with the addresses that were resolved, *)
              (* without a new entry until the last write of list_push      *)
  inserting,  (* the entry list_push is about to link in                    *)
  rpc,        (* where the client is in reader_handle_tag                   *)
  lastTag,    (* config->last_tag                                           *)
  pos,        (* the walk: the position of its cell in the list             *)
  callee,     (* ... and the server it calls                                *)
  due,        (* history: who was ready and listed when the walk began, ... *)
  met         (* ... and what each of them has met with since               *)

serverVars == <<stage, registered, address, screen, failures>>
avahiVars == <<browsing, announced, resolving, failed>>
readerVars == <<rpc, lastTag, pos, callee, due, met>>
listVars == <<directory, inserting>>
vars == <<stage, registered, address, screen, failures, browsing, announced, resolving, failed,
          directory, inserting, rpc, lastTag, pos, callee, due, met>>

(* What keeps a tag from the screen of a server, see SwipesAreShown.       *)
Accidents == {"failed", "stale", "lost", "unshown", "passedOver"}
Unharmed == [s \in Machines |-> "nothing"]

Entry(s, a) == [name |-> s, address |-> a]
Names == [i \in 1..Len(directory) |-> directory[i].name]

(* The client has no configured servers here, and one network interface.   *)
Link(s) == <<s, "eth0">>
Directory == INSTANCE ServerDirectory WITH
  Configurations <- {<<>>}, Links <- {Link(s) : s \in Machines}, configured <- <<>>,
  announced <- {Link(s) : s \in announced}, resolving <- {Link(s) : s \in resolving},
  failed <- {Link(s) : s \in failed}, directory <- Names

Init ==
  /\ stage = [s \in Machines |-> "off"]
  /\ registered = [s \in Machines |-> FALSE]
  /\ address = [s \in Machines |-> 0]
  /\ screen = [s \in Machines |-> NoTag]
  /\ failures = 0
  /\ browsing = TRUE /\ announced = {} /\ resolving = {} /\ failed = {}
  /\ directory = <<>> /\ inserting = NoEntry
  /\ rpc = "poll"
  /\ lastTag = NoTag
  /\ pos = 1
  /\ callee = NoTag
  /\ due = {} /\ met = Unharmed

--------------------------------------------------------------------------------
(* A server.  Its port is open and its service registered, or not, in      *)
(* which case it only logs the error, before anything else is ready.       *)
Start(s) ==
  /\ stage[s] = "off"
  /\ stage' = [stage EXCEPT ![s] = "starting"]
  /\ \E ok \in BOOLEAN : registered' = [registered EXCEPT ![s] = ok]
  /\ UNCHANGED <<address, screen, failures, avahiVars, listVars, readerVars>>

GetReady(s) ==
  /\ stage[s] = "starting"
  /\ stage' = [stage EXCEPT ![s] = "ready"]
  /\ UNCHANGED <<registered, address, screen, failures, avahiVars, listVars, readerVars>>

Harmed(s, what) == IF s \in due THEN [met EXCEPT ![s] = what] ELSE met

Fall(s) ==
  /\ stage[s] # "off"
  /\ failures < MaxFailures
  /\ failures' = failures + 1
  /\ stage' = [stage EXCEPT ![s] = "off"]
  /\ registered' = [registered EXCEPT ![s] = FALSE]
  /\ screen' = [screen EXCEPT ![s] = NoTag]
  /\ met' = Harmed(s, "failed")
  /\ UNCHANGED <<avahiVars, listVars, lastTag, pos, callee, due>>

(* The process dies: its sockets are closed.                               *)
Crash(s) == Fall(s) /\ UNCHANGED <<address, rpc>>

(* The host goes down and comes back elsewhere.  If it has accepted the    *)
(* request, that is never answered: curl_easy_perform has no time limit.   *)
HostCrash(s) ==
  /\ Fall(s)
  /\ address' = [address EXCEPT ![s] = 1 - @]
  /\ \/ UNCHANGED rpc
     \/ rpc = "call" /\ callee = Entry(s, address[s]) /\ rpc' = "stuck"

--------------------------------------------------------------------------------
(* The thread avahi_function.                                              *)
Alive == rpc # "crashed"
Running == browsing /\ Alive
Callbacks == Running /\ inserting = NoEntry

Walking == rpc \in {"walk", "call"}
Listed(s) == \E i \in 1..Len(directory) : directory[i].name = s

Forgotten(s) == resolving                                         (* mutant *)
Asked(s) == resolving \cup {s}

Announce(s) ==
  /\ Callbacks
  /\ registered[s] /\ s \notin announced
  /\ announced' = announced \cup {s}
  /\ \/ resolving' = Asked(s) /\ failed' = failed \ {s}
     \/ failed' = failed \cup {s} /\ UNCHANGED resolving
  /\ UNCHANGED <<serverVars, browsing, listVars, readerVars>>

(* A name that is listed stays as it is, with the address it has.          *)
FoundKnown(s) ==
  /\ Callbacks
  /\ s \in resolving
  /\ Listed(s)
  /\ resolving' = resolving \ {s}
  /\ UNCHANGED <<serverVars, browsing, announced, failed, listVars, readerVars>>

(* The first entry is one write; it may come between the walk's read of    *)
(* the empty list's car and its test of it, which is a null pointer.       *)
FoundFirst(s) ==
  /\ Callbacks
  /\ s \in resolving
  /\ directory = <<>>
  /\ resolving' = resolving \ {s}
  /\ directory' = <<Entry(s, address[s])>>
  /\ rpc' \in {rpc} \cup (IF rpc = "walk" THEN {"crashed"} ELSE {})
  /\ UNCHANGED <<serverVars, browsing, announced, failed, inserting, lastTag, pos, callee, due, met>>

(* Any other is put into the first cell, whose old entry goes to a new ... *)
FoundNew(s) ==
  /\ Callbacks
  /\ s \in resolving
  /\ ~Listed(s) /\ directory # <<>>
  /\ inserting' = Entry(s, address[s])
  /\ UNCHANGED <<serverVars, avahiVars, directory, readerVars>>

(* ... that is linked in behind it.  A walk that has left the first cell   *)
(* moves on with the rest of the list.                                     *)
PushCdr ==
  /\ Running
  /\ inserting # NoEntry
  /\ directory' = <<inserting>> \o directory
  /\ pos' = IF pos > 1 THEN pos + 1 ELSE pos
  /\ resolving' = resolving \ {inserting.name}
  /\ inserting' = NoEntry
  /\ UNCHANGED <<serverVars, browsing, announced, failed, rpc, lastTag, callee, due, met>>

ResolveFails(s) ==
  /\ Callbacks
  /\ s \in resolving
  /\ resolving' = resolving \ {s}
  /\ failed' = failed \cup {s}
  /\ UNCHANGED <<serverVars, browsing, announced, listVars, readerVars>>

EntriesAt(s) == {i \in 1..Len(directory) : directory[i].address = address[s]}  (* mutant *)
EntriesOf(s) == {i \in 1..Len(directory) : directory[i].name = s}

(* The daemon's goodbye, or the end of its record's life.  A walk that     *)
(* goes on meanwhile may end up anywhere, or follow a freed cell (Client). *)
Withdraw(s) ==
  /\ Callbacks
  /\ ~registered[s] /\ s \in announced
  /\ announced' = announced \ {s}
  /\ IF EntriesOf(s) = {} THEN UNCHANGED directory
     ELSE \E i \in EntriesOf(s) : directory' = RemoveAt(directory, i)
  /\ IF Walking /\ Listed(s)
     THEN /\ pos' \in 1..(Len(directory') + 1)
          /\ rpc' \in {rpc, "crashed"}
          /\ due' = {} /\ met' = Unharmed
     ELSE UNCHANGED <<rpc, pos, due, met>>
  /\ UNCHANGED <<serverVars, browsing, resolving, failed, inserting, lastTag, callee>>

Quit ==
  /\ Callbacks
  /\ browsing' = FALSE
  /\ UNCHANGED <<serverVars, announced, resolving, failed, listVars, readerVars>>

--------------------------------------------------------------------------------
(* The reader's thread.  A tag like the last is left alone, also when the  *)
(* servers have restarted since; it is remembered before anyone is called. *)
TagRead(t) ==
  /\ rpc = "poll"
  /\ t # lastTag
  /\ lastTag' = t
  /\ rpc' = "walk"
  /\ pos' = 1
  /\ due' = {s \in Machines : stage[s] = "ready" /\ Listed(s)}
  /\ met' = Unharmed
  /\ UNCHANGED <<serverVars, avahiVars, listVars, callee>>

(* Between the writes of list_push the first cell has the new entry, the   *)
(* second is the old second: nothing leads to the old first entry.         *)
Seen(i) == IF i = 1 /\ inserting # NoEntry THEN inserting ELSE directory[i]

(* The request goes out, ...                                               *)
Call ==
  /\ rpc = "walk"
  /\ pos <= Len(directory)
  /\ callee' = Seen(pos)
  /\ rpc' = "call"
  /\ UNCHANGED <<serverVars, avahiVars, listVars, lastTag, pos, due, met>>

SkipOne == pos + 2                                                (* mutant *)
NextCell == pos + 1

PassedOver ==
  IF pos = 1 /\ inserting # NoEntry THEN {directory[1].name} \ {callee.name} ELSE {}

(* ... and ends, with this harm to whom it was for.                        *)
StepOn(harm) ==
  /\ rpc = "call"
  /\ rpc' = "walk"
  /\ pos' = NextCell
  /\ callee' = NoTag
  /\ met' = [s \in Machines |-> IF s \in due \cap PassedOver THEN "passedOver" ELSE harm[s]]
  /\ UNCHANGED <<stage, registered, address, failures, avahiVars, listVars, lastTag, due>>

Reached == callee.address = address[callee.name]

(* The name is shown, if Startup.main has ended.                           *)
Shown ==
  /\ StepOn(met)
  /\ Reached /\ stage[callee.name] = "ready"
  /\ screen' = [screen EXCEPT ![callee.name] = lastTag]

(* It is not: the server does not know the tag, or another request handled *)
(* beside this one has hidden it or taken the notification (Dispatch).     *)
Unshown ==
  /\ StepOn(Harmed(callee.name, "unshown"))
  /\ Reached /\ stage[callee.name] = "ready"
  /\ UNCHANGED screen

(* Nobody is there any more: the host has another address now.             *)
Unreached ==
  /\ StepOn(Harmed(callee.name, "stale"))
  /\ ~Reached
  /\ UNCHANGED screen

(* No process is there, or one that is not ready.                          *)
Ignored ==
  /\ StepOn(met)
  /\ Reached /\ stage[callee.name] # "ready"
  /\ UNCHANGED screen

(* The client has no memory for the request, or it or the connection fails.*)
Lost ==
  /\ StepOn(Harmed(callee.name, "lost"))
  /\ UNCHANGED screen

EndWalk ==
  /\ rpc = "walk"
  /\ pos > Len(directory)
  /\ rpc' = "poll"
  /\ pos' = 1
  /\ due' = {} /\ met' = Unharmed
  /\ UNCHANGED <<serverVars, avahiVars, listVars, lastTag, callee>>

Server(s) == Start(s) \/ GetReady(s) \/ Crash(s) \/ HostCrash(s)
Network(s) ==
  \/ Announce(s) \/ FoundKnown(s) \/ FoundFirst(s) \/ FoundNew(s)
  \/ ResolveFails(s) \/ Withdraw(s)
Reader == Call \/ Shown \/ Unshown \/ Unreached \/ Ignored \/ Lost \/ EndWalk

Next ==
  \/ Quit \/ PushCdr \/ Reader
  \/ \E s \in Machines : Server(s) \/ Network(s)
  \/ \E t \in Tags : TagRead(t)

Spec == Init /\ [][Next]_vars

(* Avahi reports what has changed; Startup.main and the client's threads   *)
(* run, and requests end, unless the host goes down (an assumption, see    *)
(* Client).  Nobody need start a server, bring a tag or repair a host.     *)
FairSpec ==
  /\ Spec
  /\ WF_vars(Reader) /\ WF_vars(PushCdr)
  /\ \A s \in Machines : WF_vars(GetReady(s)) /\ WF_vars(Network(s))

--------------------------------------------------------------------------------
(* The client's list of servers, names and all, behaves like the directory *)
(* of ServerDirectory, when Avahi's events come from real servers.         *)
ImplementsDirectory == Directory!Spec

(* "a client will automatically notify each server": when the walk ends,   *)
(* the name of the tag is on the screen of every server that was ready and *)
(* listed when the tag was read, but for those that have met with one of   *)
(* five accidents: the server failed; its host has changed its address     *)
(* since it was listed; the request was lost; the server handled it but    *)
(* does not know the tag, or handled another request beside it; and, one   *)
(* server at most, its entry was on the move between the two writes of an  *)
(* insertion when the walk passed.  Walks that overlap with a withdrawal   *)
(* are excepted (Client shows what they miss).                             *)
SwipesAreShown ==
  rpc = "walk" /\ pos > Len(directory) =>
    /\ \A s \in due : screen[s] = lastTag \/ met[s] \in Accidents
    /\ \A s, t \in due : met[s] = "passedOver" /\ met[t] = "passedOver" => s = t

(* The list has, or is about to have, an address the host had before.      *)
Stale(s) == \E e \in ToSet(directory) \cup ({inserting} \ {NoEntry}) :
              e.name = s /\ e.address # address[s]

(* A service that stays registered gets into the client's list and stays,  *)
(* however often its process and its host failed before, unless its        *)
(* resolver was lost or the client has stopped; and with the address it    *)
(* has, unless its old entry is still there when it registers: that one    *)
(* stays, since resolve_callback asks for the name only.                   *)
ServersAreFound ==
  \A s \in Machines :
    /\ []registered[s] ~> [](Listed(s) \/ s \in failed \/ ~Running)
    /\ ([]registered[s] /\ ~Stale(s))
         ~> [](Entry(s, address[s]) \in ToSet(directory) \/ s \in failed \/ ~Running)

================================================================================
