--------------------------------- MODULE Client ---------------------------------
(***************************************************************************)
(* The two threads of an RFidentify client and the list of servers they    *)
(* share without a lock.  avahi_function changes the list in the callbacks *)
(* of avahi_dns_handler.c; reader_handle_tag walks along it.               *)
(*                                                                         *)
(* The list is the one of list.c: cells with a car and a cdr, the first of *)
(* which never moves.  An insertion copies the first cell to a new one and *)
(* then writes the first; a removal unlinks a cell and frees it.  Each     *)
(* write, and each read of the walk, is a step of its own, in program      *)
(* order (the x86 memory model and calls of list_car and list_set_car,     *)
(* which another file defines, keep it).  The callbacks' own reads need no *)
(* steps: nobody else writes.                                              *)
(***************************************************************************)
EXTENDS Chains, Integers, FiniteSets, SequencesExt

CONSTANTS
  Configurations, (* the sequences of servers a configuration file may list *)
  Links,        (* pairs <<service, interface>> the network can announce    *)
  Tags,         (* tags that come within reach of the reader                *)
  Watched,      (* the servers whose calls told and due keep track of       *)
  SpareCells,   (* bound: the memory holds this many cells but the first    *)
  NoServer,     (* the C null, as a car and as the local "info"             *)
  NoTag,        (* the C null, as last_tag                                  *)
  NoLink        (* no callback of a resolver is running                     *)

Services == {link[1] : link \in Links}
Servers == (UNION {ToSet(c) : c \in Configurations}) \cup Services

NoCalls == [s \in Watched |-> 0]

(* Addresses of cells.  The list starts at the first and keeps it.         *)
First == 0
Cells == 0..SpareCells
Null == -1

ASSUME NullAssumption == NoServer \notin Servers /\ NoTag \notin Tags /\ NoLink \notin Links
(* Each entry of a configuration file is an entry of its own, and none is   *)
(* found on the network (stable is 1, and resolve_callback tests it).      *)
ASSUME ConfiguredAssumption ==
  \A c \in Configurations :
    /\ c \in Seq(Servers)
    /\ IsInjective(c)
    /\ ToSet(c) \cap Services = {}
    /\ Len(c) <= SpareCells + 1
ASSUME SpareCellsAssumption == SpareCells \in Nat
ASSUME WatchedAssumption == Watched \subseteq Servers

VARIABLES
  configured,  (* the servers of the configuration file, in its order      *)
  browsing,    (* avahi_simple_poll_loop has not been told to quit          *)
  announced,   (* links the browser has reported and not withdrawn          *)
  resolving,   (* links with an outstanding resolver (one at most: a bound) *)
  failed,      (* history: links whose latest resolver was lost or failed   *)
  car, cdr,    (* the two fields of each cell                               *)
  live,        (* cells that are allocated                                  *)
  apc,         (* what the callback that is running has to do next          *)
  atom,        (* its cell: about to be linked, copied away or freed        *)
  resolver,    (* the link resolve_callback runs for                        *)
  rpc,         (* where the reader's thread is in reader_handle_tag         *)
  lastTag,     (* config->last_tag                                          *)
  temp, info,  (* the walk's locals: cell and its server                    *)
  told,        (* history: how often each server was called in this walk    *)
  due,         (* history: the servers that were in it when the walk began  *)
  passedOver,  (* history: the entry that was on the move where it passed   *)
  disturbed    (* history: a removal has overlapped with the walk           *)

networkVars == <<configured, browsing, announced, resolving, failed>>
heapVars == <<car, cdr, live, apc, atom, resolver>>
readerVars == <<rpc, lastTag, temp, info, told, due, passedOver, disturbed>>
vars == <<configured, browsing, announced, resolving, failed, car, cdr, live, apc, atom, resolver,
          rpc, lastTag, temp, info, told, due, passedOver, disturbed>>

CellsFrom(c) == Chain(Cells, cdr, c)

(* list_is_empty: a single cell without a value stands for no entry.       *)
IsEmpty(c) == car[c] = NoServer /\ cdr[c] = Null

Entries(c) ==
  IF IsEmpty(c) THEN <<>>
  ELSE LET cells == CellsFrom(c) IN [i \in 1..Len(cells) |-> car[cells[i]]]

(* config->servers as the callbacks see it: complete until the first write *)
(* of a removal, without the new entry until the last write of an insertion.*)
directory ==
  IF apc \in {"pushCdr", "popCdr"} THEN Entries(atom) ELSE Entries(First)

Directory == INSTANCE ServerDirectory WITH directory <- directory

TypeOK ==
  /\ Directory!TypeOK
  /\ car \in [Cells -> Servers \cup {NoServer}]
  /\ cdr \in [Cells -> Cells \cup {Null}]
  /\ live \in SUBSET Cells
  /\ apc \in {"idle", "pushCdr", "popCdr", "free"}
  /\ atom \in Cells
  /\ resolver \in Links \cup {NoLink}
  /\ rpc \in {"poll", "car", "test", "testCdr", "notify", "next", "done", "crashed"}
  /\ lastTag \in Tags \cup {NoTag}
  /\ temp \in Cells \cup {Null}
  /\ info \in Servers \cup {NoServer}
  /\ told \in [Watched -> 0..3]
  /\ due \in SUBSET Watched
  /\ passedOver \in Servers \cup {NoServer}
  /\ disturbed \in BOOLEAN

(* read_config_servers pushes each line in front of those before it.       *)
Init ==
  /\ configured \in Configurations
  /\ browsing = TRUE
  /\ announced = {}
  /\ resolving = {}
  /\ failed = {}
  /\ car = [c \in Cells |-> IF c < Len(configured) THEN Reverse(configured)[c + 1] ELSE NoServer]
  /\ cdr = [c \in Cells |-> IF c + 1 < Len(configured) THEN c + 1 ELSE Null]
  /\ live = {First} \cup {c \in Cells : c < Len(configured)}
  /\ apc = "idle"
  /\ atom = First
  /\ resolver = NoLink
  /\ rpc = "poll"
  /\ lastTag = NoTag
  /\ temp = Null
  /\ info = NoServer
  /\ told = NoCalls
  /\ due = {}
  /\ passedOver = NoServer
  /\ disturbed = FALSE

Listed(s) == \E i \in 1..Len(directory) : directory[i] = s

--------------------------------------------------------------------------------
(* The thread avahi_function.  A callback starts when none is running.     *)
CallbackMayRun == apc = "idle" /\ browsing

(* browse_callback, AVAHI_BROWSER_NEW.                                     *)
Announce(l) ==
  /\ CallbackMayRun
  /\ l \notin announced
  /\ announced' = announced \cup {l}
  /\ \/ /\ resolving' = resolving \cup {l}
        /\ failed' = failed \ {l}
     \/ /\ failed' = failed \cup {l}
        /\ UNCHANGED resolving
  /\ UNCHANGED <<configured, browsing, heapVars, readerVars>>

(* resolve_callback, AVAHI_RESOLVER_FOUND, for a name that is listed.      *)
FoundKnown(l) ==
  /\ CallbackMayRun
  /\ l \in resolving
  /\ Listed(l[1])
  /\ resolving' = resolving \ {l}
  /\ UNCHANGED <<configured, browsing, announced, failed, heapVars, readerVars>>

(* The same for a new name; list_push on an empty list is one write.       *)
FoundFirst(l) ==
  /\ CallbackMayRun
  /\ l \in resolving
  /\ IsEmpty(First)
  /\ car' = [car EXCEPT ![First] = l[1]]
  /\ resolving' = resolving \ {l}
  /\ UNCHANGED <<configured, browsing, announced, failed, cdr, live, apc, atom, resolver, readerVars>>

(* resolve_callback looks for the name in the list.                        *)
Untested(s) == TRUE                                               (* mutant *)
Unknown(s) == ~Listed(s)

(* list_push: the new cell n takes over what the first cell holds.         *)
CarsLeavingBlank(n, s) == [car EXCEPT ![First] = s]               (* mutant *)
Cars(n, s) == [car EXCEPT ![n] = car[First], ![First] = s]

CdrsLeavingNull(n) == [cdr EXCEPT ![n] = Null]                    (* mutant *)
Cdrs(n) == [cdr EXCEPT ![n] = cdr[First]]

(* list_push on any other list fills a new cell, which nothing points to,  *)
(* and writes the car of the first cell, ...                               *)
FoundNew(l) ==
  /\ CallbackMayRun
  /\ l \in resolving
  /\ Unknown(l[1]) /\ ~IsEmpty(First)
  /\ \E n \in Cells \ live :
       /\ live' = live \cup {n}
       /\ car' = Cars(n, l[1])
       /\ cdr' = Cdrs(n)
       /\ atom' = n
  /\ apc' = "pushCdr"
  /\ resolver' = l
  /\ UNCHANGED <<networkVars, readerVars>>

LinkPastCopy == [cdr EXCEPT ![First] = cdr[atom]]                 (* mutant *)
LinkBack == [cdr EXCEPT ![First] = atom, ![atom] = First]         (* mutant *)
LinkCopy == [cdr EXCEPT ![First] = atom]

(* ... then its cdr; the resolver is freed afterwards.                     *)
PushCdr ==
  /\ apc = "pushCdr"
  /\ cdr' = LinkCopy
  /\ apc' = "idle"
  /\ atom' = First
  /\ resolver' = NoLink
  /\ resolving' = resolving \ {resolver}
  /\ UNCHANGED <<configured, browsing, announced, failed, car, live, readerVars>>

(* AVAHI_RESOLVER_FAILURE, or memory exhausted in resolve_callback.        *)
ResolveFails(l) ==
  /\ CallbackMayRun
  /\ l \in resolving
  /\ resolving' = resolving \ {l}
  /\ failed' = failed \cup {l}
  /\ UNCHANGED <<configured, browsing, announced, heapVars, readerVars>>

(* browse_callback, AVAHI_BROWSER_REMOVE.                                  *)
Removed(l) ==
  /\ CallbackMayRun
  /\ l \in announced
  /\ announced' = announced \ {l}
  /\ due' = due \ {l[1]}
  /\ disturbed' = (rpc # "poll")
  /\ UNCHANGED <<configured, browsing, resolving, failed, resolver, rpc, lastTag, temp, info, told, passedOver>>

(* No entry has that name.                                                 *)
WithdrawUnknown(l) ==
  /\ Removed(l)
  /\ ~Listed(l[1])
  /\ UNCHANGED <<car, cdr, live, apc, atom>>

(* list_pop of the only entry.                                             *)
WithdrawOnly(l) ==
  /\ Removed(l)
  /\ car[First] = l[1] /\ cdr[First] = Null
  /\ car' = [car EXCEPT ![First] = NoServer]
  /\ UNCHANGED <<cdr, live, apc, atom>>

(* list_pop of the first of several copies the second cell to the first:   *)
(* its car, ...                                                            *)
WithdrawFront(l) ==
  /\ Removed(l)
  /\ car[First] = l[1] /\ cdr[First] # Null
  /\ car' = [car EXCEPT ![First] = car[cdr[First]]]
  /\ apc' = "popCdr"
  /\ atom' = cdr[First]
  /\ UNCHANGED <<cdr, live>>

(* ... then its cdr.                                                       *)
PopCdr ==
  /\ apc = "popCdr"
  /\ cdr' = [cdr EXCEPT ![First] = cdr[atom]]
  /\ apc' = "free"
  /\ UNCHANGED <<networkVars, car, live, atom, resolver, readerVars>>

LinkOff(prev, target) == [cdr EXCEPT ![prev] = Null]              (* mutant *)
LinkOver(prev, target) == [cdr EXCEPT ![prev] = cdr[target]]

(* list_remove of a later entry links its two neighbours.                  *)
WithdrawLater(l) ==
  /\ Removed(l)
  /\ \E i \in 2..Len(directory) :
       LET cells == CellsFrom(First) IN
       /\ directory[i] = l[1]
       /\ \A j \in 1..(i - 1) : directory[j] # l[1]
       /\ cdr' = LinkOver(cells[i - 1], cells[i])
       /\ atom' = cells[i]
  /\ apc' = "free"
  /\ UNCHANGED <<car, live>>

Leaked == {}                                                      (* mutant *)
Freed == {atom}

(* list_atom_destroy of the cell that was taken out.                       *)
FreeAtom ==
  /\ apc = "free"
  /\ live' = live \ Freed
  /\ apc' = "idle"
  /\ atom' = First
  /\ UNCHANGED <<networkVars, car, cdr, resolver, readerVars>>

(* A failure of the browser or of the daemon ends the thread.              *)
Quit ==
  /\ CallbackMayRun
  /\ browsing' = FALSE
  /\ UNCHANGED <<configured, announced, resolving, failed, heapVars, readerVars>>

--------------------------------------------------------------------------------
(* The reader's thread in reader_handle_tag.  A tag like the last one is   *)
(* left alone; any other is remembered and the walk along the list begins, *)
(* which owes a call to every server that is in config->servers then.      *)
TagRead(t) ==
  /\ rpc = "poll"
  /\ t # lastTag
  /\ lastTag' = t
  /\ rpc' = "car"
  /\ temp' = First
  /\ due' = ToSet(directory) \cap Watched
  /\ disturbed' = (apc = "popCdr")
  /\ UNCHANGED <<networkVars, heapVars, info, told, passedOver>>

(* There is no memory to remember the tag: it goes unreported.             *)
TagDropped(t) ==
  /\ rpc = "poll"
  /\ t # lastTag
  /\ lastTag' = NoTag
  /\ UNCHANGED <<networkVars, heapVars, rpc, temp, info, told, due, passedOver, disturbed>>

(* e = list_car(t).                                                        *)
ReadCar ==
  /\ rpc = "car"
  /\ info' = car[temp]
  /\ rpc' = "test"
  /\ UNCHANGED <<networkVars, heapVars, lastTag, temp, told, due, passedOver, disturbed>>

(* ! list_is_empty(t) reads the car, and the cdr if the car is null.       *)
TestCar ==
  /\ rpc = "test"
  /\ rpc' = IF car[temp] # NoServer THEN "notify" ELSE "testCdr"
  /\ UNCHANGED <<networkVars, heapVars, lastTag, temp, info, told, due, passedOver, disturbed>>

EndWalk ==
  /\ rpc' = "done"
  /\ temp' = Null
  /\ info' = NoServer

TestCdr ==
  /\ rpc = "testCdr"
  /\ IF cdr[temp] # Null
     THEN rpc' = "notify" /\ UNCHANGED <<temp, info>>
     ELSE EndWalk
  /\ UNCHANGED <<networkVars, heapVars, lastTag, told, due, passedOver, disturbed>>

(* The body of the loop: the lock of the server, and an HTTP request to it *)
(* that may or may not get through.  Without a server it is a null pointer.*)
Notify ==
  /\ rpc = "notify"
  /\ IF info = NoServer
     THEN rpc' = "crashed" /\ UNCHANGED told
     ELSE /\ rpc' = "next"
          /\ told' = [s \in Watched |-> IF s = info /\ told[s] < 3 THEN told[s] + 1 ELSE told[s]]
  /\ UNCHANGED <<networkVars, heapVars, lastTag, temp, info, due, passedOver, disturbed>>

(* The entry an insertion has overwritten in the first cell and not linked *)
(* again in its copy; a walk that leaves the first cell now passes it over.*)
OnTheMove == IF temp = First /\ apc = "pushCdr" THEN car[atom] ELSE passedOver

(* t = list_cdr(t); a null list is an empty one.                           *)
NextCell ==
  /\ rpc = "next"
  /\ IF cdr[temp] = Null
     THEN EndWalk
     ELSE rpc' = "car" /\ temp' = cdr[temp] /\ UNCHANGED info
  /\ passedOver' = OnTheMove
  /\ UNCHANGED <<networkVars, heapVars, lastTag, told, due, disturbed>>

(* reader_handle_tag returns.                                              *)
Return ==
  /\ rpc = "done"
  /\ rpc' = "poll"
  /\ told' = NoCalls
  /\ due' = {}
  /\ passedOver' = NoServer
  /\ disturbed' = FALSE
  /\ UNCHANGED <<networkVars, heapVars, lastTag, temp, info>>

(* A read of a cell that was freed may find what was there (the actions    *)
(* above) or anything else, for which this stands.                         *)
ReadFreed ==
  /\ rpc \in {"car", "test", "testCdr", "next"}
  /\ temp \notin live
  /\ rpc' = "crashed"
  /\ UNCHANGED <<networkVars, heapVars, lastTag, temp, info, told, due, passedOver, disturbed>>

Callback ==
  \/ PushCdr \/ PopCdr \/ FreeAtom \/ Quit
  \/ \E l \in Links :
       \/ Announce(l) \/ FoundKnown(l) \/ FoundFirst(l) \/ FoundNew(l) \/ ResolveFails(l)
       \/ WithdrawUnknown(l) \/ WithdrawOnly(l) \/ WithdrawFront(l) \/ WithdrawLater(l)

Walk == ReadCar \/ TestCar \/ TestCdr \/ Notify \/ NextCell \/ Return \/ ReadFreed

(* A bad pointer ends the process, and with it both threads.               *)
Next ==
  /\ rpc # "crashed"
  /\ Callback \/ Walk \/ \E t \in Tags : TagRead(t) \/ TagDropped(t)

Spec == Init /\ [][Next]_vars

(* The operating system runs the reader's thread.  That HTTP requests end  *)
(* is an assumption, which no time limit of the client makes true.         *)
FairSpec == Spec /\ WF_vars(Walk)

--------------------------------------------------------------------------------
(* Every allocated cell is in the list, except the one the running call of *)
(* list_push or list_pop is about to link or to free, and the list has no  *)
(* cell twice and none that was freed: nothing leaks, nothing is shared.   *)
ListIntact ==
  LET cells == CellsFrom(First)
      apart == IF apc \in {"pushCdr", "free"} THEN {atom} ELSE {}
  IN /\ IsInjective(cells)
     /\ cdr[Last(cells)] = Null
     /\ ToSet(cells) \cap apart = {}
     /\ live = ToSet(cells) \cup apart

(* The properties of the directory, of the list in memory.                 *)
UniqueNames == Directory!UniqueNames
ConfiguredStay == Directory!ConfiguredStay
SingleHomedIsListed == Directory!SingleHomedIsListed

(* The writes of list.c, seen by the thread that makes them, add up to the *)
(* callbacks' whole insertions and removals.                               *)
ImplementsDirectory == Directory!Spec

(* A walk along the list calls every server that was in it when the tag    *)
(* was read and is not withdrawn meanwhile (reader_handle_tag: "otherwise  *)
(* notify each server"), but for an entry passed over in an insertion.     *)
EachServerTold == rpc = "done" => \A s \in due \ {passedOver} : told[s] >= 1

(* That holds of every walk no removal overlaps with, however many         *)
(* insertions do.  Each may shift the front entry under the walk, so it is *)
(* called a second time, never a third; and the one whose two writes are   *)
(* under way when the walk leaves the first cell may have its entry missed:*)
(* one server of the list at most, and no other.                           *)
WalkMissesOneAtMost ==
  ~disturbed => EachServerTold /\ \A s \in Watched : told[s] <= 2

(* Without such a removal a client that has a configured server never      *)
(* follows a null or a freed pointer.  (One that has none may: the first   *)
(* insertion can come between the read of the car and the test of it.)     *)
ReaderSurvives == rpc = "crashed" => disturbed \/ configured = <<>>

(* Every walk ends, whatever is inserted meanwhile, so that the next tag   *)
(* is looked for, unless a removal overlaps with it.  This assumes, as     *)
(* FairSpec does, that each HTTP request ends; curl_easy_perform has no    *)
(* time limit, and a host that never answers keeps the walk where it is.   *)
WalkEnds == (rpc = "car") ~> (rpc \in {"poll", "crashed"} \/ disturbed)

================================================================================
