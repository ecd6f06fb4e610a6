------------------------------ MODULE ClientStart ------------------------------
(***************************************************************************)
(* How a client of RFidentify starts: main and read_config (client.c) read *)
(* the configuration file, once for every key (config.c), split the values *)
(* of the lines "server=" (string_utils.c) and start the two threads.      *)
(*                                                                         *)
(* Every malloc, strdup and fopen may fail; what the callers make of that  *)
(* differs from call to call.  The cells of the lists are those of ListOps;*)
(* here a list is the sequence of its entries.                             *)
(***************************************************************************)
EXTENDS Naturals, SequencesExt

CONSTANTS
  Files,      (* the configuration files, as records, see FilesAssumption   *)
  MaxFaults,  (* bounds the calls that fail                                *)
  NoList,     (* the C null, as a list                                      *)
  NoText      (* the C null, as a string                                    *)

(* A fragment of a value, between colons: a host name of so many letters,  *)
(* or a number, which fits an int.  A value is a sequence of fragments.    *)
Fragments == {f \in [host : BOOLEAN, size : Nat] : f.host => f.size > 0}
Values == Seq(Fragments)

(* A port is a uint16_t.                                                   *)
PortLimit == 65536
Ports == 0..(PortLimit - 1)
Port(n) == n % PortLimit

(* A line counts as one of a key if it has a "=" and begins with the key;  *)
(* comments and all else are "none".  Lines fit into the buffer of fgets.  *)
Keys == {"mode", "action", "server"}
Lines == [key : Keys \cup {"none"}, value : Values]

(* "closed": the last line ends with a new line.                           *)
ASSUME FilesAssumption == Files \subseteq [lines : Seq(Lines), closed : BOOLEAN]
ASSUME FaultsAssumption == MaxFaults \in Nat
ASSUME NoListAssumption ==
  NoList \notin Seq(Values) /\ NoList \notin Seq([url : Fragments, port : Ports])

VARIABLES
  file,     (* the configuration file                                      *)
  pc,       (* where the program is                                        *)
  key,      (* config_get_all: the key it looks for                        *)
  line,     (* ... and the number of the line fgets returns next           *)
  values,   (* ... and the list it makes                                   *)
  settings, (* client_config.mode and .action                              *)
  servers,  (* client_config.servers                                       *)
  faults    (* how many calls have failed                                  *)

startVars == <<file, pc, key, line, values, settings, servers, faults>>

Default == <<[host |-> TRUE, size |-> 6]>>    (* strdup("client")           *)
NoUrl == [host |-> FALSE, size |-> 0]         (* a url that is null         *)

StartTypeOK ==
  /\ file \in Files
  /\ pc \in {"name", "open", "line", "answer", "list", "threads", "avahi", "running",
             "failed", "crashed"}
  /\ key \in Keys
  /\ line \in 1..(Len(file.lines) + 1)
  /\ values \in Seq(Values) \cup {NoList}
  /\ settings \in [{"mode", "action"} -> Values \cup {NoText}]
  /\ servers \in Seq([url : Fragments, port : Ports]) \cup {NoList}
  /\ faults \in 0..MaxFaults

StartInit ==
  /\ file \in Files
  /\ pc = "name"
  /\ key = "mode"
  /\ line = 1
  /\ values = NoList
  /\ settings = [s \in {"mode", "action"} |-> NoText]
  /\ servers = NoList
  /\ faults = 0

Works == UNCHANGED faults
Fails == faults < MaxFaults /\ faults' = faults + 1

(* read_config: strdup of the file's name, or -ENOMEM.                     *)
CopyName ==
  /\ pc = "name"
  /\ \/ Works /\ pc' = "open"
     \/ Fails /\ pc' = "failed"
  /\ UNCHANGED <<file, key, line, values, settings, servers>>

--------------------------------------------------------------------------------
(* config_get_all.  It is null if there is no file or no memory.           *)
Open ==
  /\ pc = "open"
  /\ \/ Works /\ pc' = "line" /\ values' = <<>>
     \/ Fails /\ pc' = "answer" /\ values' = NoList
  /\ line' = 1
  /\ UNCHANGED <<file, key, settings, servers>>

(* A value without its last letter or digit; a fragment may vanish.        *)
CutShort(value) ==
  IF value = <<>> THEN <<>>
  ELSE LET last == Last(value)
           left == IF last.host THEN last.size - 1 ELSE last.size \div 10
       IN Front(value) \o (IF left = 0 THEN <<>> ELSE <<[last EXCEPT !.size = left]>>)

CutAlways(n) == CutShort(file.lines[n].value)                     (* mutant *)
(* The value goes up to the last character but one, taken for the line's   *)
(* last before its end.                                                    *)
Value(n) ==
  IF n = Len(file.lines) /\ ~file.closed
  THEN CutShort(file.lines[n].value) ELSE file.lines[n].value

(* A line that does not count, among them one that ends with its "=".      *)
Skipped(n) ==
  \/ file.lines[n].key # key
  \/ n = Len(file.lines) /\ ~file.closed /\ file.lines[n].value = <<>>

(* The value is copied and appended.  Without a copy the list is given up; *)
(* that list_append had no memory goes unnoticed.                          *)
ReadLine ==
  /\ pc = "line"
  /\ line <= Len(file.lines)
  /\ line' = line + 1
  /\ \/ /\ Skipped(line)
        /\ Works /\ UNCHANGED <<pc, values>>
     \/ /\ ~Skipped(line)
        /\ \/ Works /\ values' = Append(values, Value(line)) /\ UNCHANGED pc
           \/ values # <<>> /\ Fails /\ UNCHANGED <<pc, values>>
           \/ Fails /\ values' = NoList /\ pc' = "answer"
  /\ UNCHANGED <<file, key, settings, servers>>

EndOfFile ==
  /\ pc = "line"
  /\ line > Len(file.lines)
  /\ pc' = "answer"
  /\ UNCHANGED <<file, key, line, values, settings, servers, faults>>

(* config_get: the first value, or the default.                            *)
Setting ==
  IF values \in {NoList, <<>>}
  THEN \/ Works /\ settings' = [settings EXCEPT ![key] = Default]
       \/ Fails /\ UNCHANGED settings
  ELSE Works /\ settings' = [settings EXCEPT ![key] = Head(values)]

ReadMode ==
  /\ pc = "answer" /\ key = "mode"
  /\ Setting
  /\ key' = "action"
  /\ pc' = "open"
  /\ UNCHANGED <<file, line, values, servers>>

ReadAction ==
  /\ pc = "answer" /\ key = "action"
  /\ Setting
  /\ key' = "server"
  /\ pc' = "list"
  /\ UNCHANGED <<file, line, values, servers>>

--------------------------------------------------------------------------------
(* read_config_servers: list_create, ...                                   *)
MakeServers ==
  /\ pc = "list"
  /\ \/ Works /\ pc' = "open" /\ servers' = <<>>
     \/ Fails /\ pc' = "failed" /\ UNCHANGED servers
  /\ UNCHANGED <<file, key, line, values, settings>>

(* atoi, and port 80 for what is no number.                                *)
AnyPort(f) == f.size                                              (* mutant *)
PortOf(f) == IF f.host \/ f.size = 0 THEN 80 ELSE Port(f.size)

(* A server from the fragments of a line; all others are ignored as junk.  *)
Addresses(value) ==
  CASE Len(value) = 2 -> <<[url |-> value[1], port |-> PortOf(value[2])]>>
    [] Len(value) = 1 -> <<[url |-> value[1], port |-> 80]>>
    [] OTHER -> <<>>

Push(entry) == entry \o servers

(* ... then each value is split, and a server pushed.                      *)
ReadServer ==
  /\ pc = "answer" /\ key = "server"
  /\ values \notin {NoList, <<>>}
  /\ values' = Tail(values)
  /\ servers' = Push(Addresses(Head(values)))
  /\ UNCHANGED <<file, pc, key, line, settings, faults>>

(* Calls on the way fail: so many strdups of the first fragments, each of   *)
(* which leaves the list of fragments empty, so that the others move up,    *)
(* and perhaps one call more.  Those that then change nothing are left out. *)
FailTimes(n) == faults + n <= MaxFaults /\ faults' = faults + n
Remainder(value, k) == SubSeq(value, k + 1, Len(value))

ReadServerFails ==
  /\ pc = "answer" /\ key = "server"
  /\ values \notin {NoList, <<>>}
  /\ values' = Tail(values)
  /\ \E k \in 0..Len(Head(values)) :
       LET value == Remainder(Head(values), k) IN
       \/ k > 0 /\ FailTimes(k) /\ servers' = Push(Addresses(value)) /\ UNCHANGED pc
       \/ /\ FailTimes(k + 1)
          \* string_split gives up (the line is taken for junk), or list_push does
          /\ \/ UNCHANGED <<pc, servers>>
             \* malloc of the server, or strdup of its name
             \/ pc' = "failed" /\ servers' = NoList
             \* strdup of the url, which is not tested
             \/ /\ Addresses(value) # <<>>
                /\ servers' = Push(<<[Addresses(value)[1] EXCEPT !.url = NoUrl]>>)
                /\ UNCHANGED pc
             \* strdup of the second of two: a null pointer for atoi
             \/ Len(value) = 2 /\ pc' = "crashed" /\ UNCHANGED servers
             \* list_create in string_split: free of a pointer that was never set
             \/ k = 0 /\ pc' = "crashed" /\ UNCHANGED servers
  /\ UNCHANGED <<file, key, line, settings>>

(* No list is as good as an empty one.                                     *)
ServersRead ==
  /\ pc = "answer" /\ key = "server"
  /\ values \in {NoList, <<>>}
  /\ pc' = "threads"
  /\ UNCHANGED <<file, key, line, values, settings, servers, faults>>

(* main: the reader's thread, then that of Avahi.                          *)
CreateThread ==
  /\ \/ pc = "threads" /\ Works /\ pc' = "avahi"
     \/ pc = "avahi" /\ Works /\ pc' = "running"
     \/ pc \in {"threads", "avahi"} /\ Fails /\ pc' = "failed"
  /\ UNCHANGED <<file, key, line, values, settings, servers>>

StartNext ==
  \/ CopyName \/ Open \/ ReadLine \/ EndOfFile
  \/ ReadMode \/ ReadAction
  \/ MakeServers \/ ReadServer \/ ReadServerFails \/ ServersRead
  \/ CreateThread

StartSpec == StartInit /\ [][StartNext]_startVars

--------------------------------------------------------------------------------
(* What a value says: a server at its first fragment, on port 80 unless     *)
(* another number stands behind it.  Of a number that is not below 65536    *)
(* 16 bits are left: the client then calls a port that nobody has written.  *)
PortKept(n) == IF n < PortLimit THEN n ELSE n % PortLimit
ServerOf(value) ==
  IF Len(value) \notin 1..2 THEN <<>>
  ELSE <<[url |-> value[1],
          port |-> IF Len(value) = 1 \/ value[2].host \/ value[2].size = 0
                   THEN 80 ELSE PortKept(value[2].size)]>>

DeclaredIn(l) == IF l.key = "server" THEN ServerOf(l.value) ELSE <<>>

(* The servers of the first n lines.                                       *)
DeclaredUpTo(lines) ==
  LET upTo[n \in 0..Len(lines)] ==
        IF n = 0 THEN <<>> ELSE DeclaredIn(lines[n]) \o upTo[n - 1]
  IN upTo

Declared == DeclaredUpTo(file.lines)[Len(file.lines)]

(* Each call that fails may take a fragment away from the front of a value, *)
(* so that a port is taken for a host, or in the end leave the url null.    *)
Understood(server, value, failed) ==
  \E k \in 0..Len(value) : \E e \in ToSet(ServerOf(Remainder(value, k))) :
    \/ k <= failed /\ server = e
    \/ k < failed /\ server = [url |-> NoUrl, port |-> e.port]

(* Unless a call failed, a client that runs calls exactly the servers that  *)
(* the lines of its configuration file come to, the last first: whatever    *)
(* stands between them, however often the file is read.  A last line        *)
(* without its end may only spoil its own.  However many calls fail, each   *)
(* server it calls is that of a line, or what so many failures can make of  *)
(* it.                                                                      *)
ServersAsWritten ==
  pc = "running" =>
    /\ faults = 0 /\ file.closed => servers = Declared
    /\ faults = 0 /\ Declared # <<>> => IsSuffix(Tail(Declared), servers)
    /\ file.closed => \A i \in 1..Len(servers) : \E n \in 1..Len(file.lines) :
         /\ file.lines[n].key = "server"
         /\ Understood(servers[i], file.lines[n].value, faults)

================================================================================
