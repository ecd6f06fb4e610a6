---------------------------- MODULE ServerDirectory ----------------------------
(***************************************************************************)
(* The servers a client of RFidentify knows, as the callbacks of           *)
(* avahi_dns_handler.c mean to keep them: one step per event of Avahi, and *)
(* a list that changes at once.  No other thread reads it here.            *)
(*                                                                         *)
(* Avahi reports a service once for every network interface it is seen on; *)
(* the directory holds it under its name alone.  Client, which works on    *)
(* the cells of list.c, implements this specification.                     *)
(***************************************************************************)
EXTENDS Naturals, SequencesExt

CONSTANTS
  Configurations, (* the sequences of servers a configuration file may list *)
  Links           (* pairs <<service, interface>> the network can announce    *)

Services == {link[1] : link \in Links}
Servers == (UNION {ToSet(c) : c \in Configurations}) \cup Services

VARIABLES
  configured,  (* the servers of the configuration file, in its order      *)
  browsing,    (* avahi_simple_poll_loop has not been told to quit          *)
  announced,   (* links the browser has reported and not withdrawn          *)
  resolving,   (* links with an outstanding resolver (one at most: a bound) *)
  failed,      (* history: links whose latest resolver was lost or failed   *)
  directory    (* config->servers                                           *)

vars == <<configured, browsing, announced, resolving, failed, directory>>

TypeOK ==
  /\ browsing \in BOOLEAN
  /\ announced \in SUBSET Links
  /\ resolving \in SUBSET Links
  /\ failed \in SUBSET Links
  /\ directory \in Seq(Servers)
  /\ configured \in Configurations

(* Each line of the configuration is pushed in front of those before it.   *)
Init ==
  /\ configured \in Configurations
  /\ browsing = TRUE
  /\ announced = {}
  /\ resolving = {}
  /\ failed = {}
  /\ directory = Reverse(configured)

Listed(s) == \E i \in 1..Len(directory) : directory[i] = s

--------------------------------------------------------------------------------
(* AVAHI_BROWSER_NEW: a resolver is made, or cannot be.                    *)
Announce(link) ==
  /\ browsing
  /\ link \notin announced
  /\ announced' = announced \cup {link}
  /\ \/ /\ resolving' = resolving \cup {link}
        /\ failed' = failed \ {link}
     \/ /\ failed' = failed \cup {link}
        /\ UNCHANGED resolving
  /\ UNCHANGED <<configured, browsing, directory>>

(* AVAHI_RESOLVER_FOUND: a name that is not listed yet is put in front.    *)
Found(link) ==
  /\ browsing
  /\ link \in resolving
  /\ resolving' = resolving \ {link}
  /\ directory' = IF Listed(link[1]) THEN directory ELSE <<link[1]>> \o directory
  /\ UNCHANGED <<configured, browsing, announced, failed>>

(* AVAHI_RESOLVER_FAILURE, or no memory for the new entry.                 *)
ResolveFails(link) ==
  /\ browsing
  /\ link \in resolving
  /\ resolving' = resolving \ {link}
  /\ failed' = failed \cup {link}
  /\ UNCHANGED <<configured, browsing, announced, directory>>

(* AVAHI_BROWSER_REMOVE: the entry of that name goes, whichever interface  *)
(* it was found on.                                                        *)
Withdraw(link) ==
  /\ browsing
  /\ link \in announced
  /\ announced' = announced \ {link}
  /\ IF Listed(link[1])
     THEN \E i \in 1..Len(directory) :
            directory[i] = link[1] /\ directory' = RemoveAt(directory, i)
     ELSE UNCHANGED directory
  /\ UNCHANGED <<configured, browsing, resolving, failed>>

(* Avahi or its browser fails: the thread returns.                         *)
Quit ==
  /\ browsing
  /\ browsing' = FALSE
  /\ UNCHANGED <<configured, announced, resolving, failed, directory>>

Next ==
  \/ Quit
  \/ \E link \in Links :
       Announce(link) \/ Found(link) \/ ResolveFails(link) \/ Withdraw(link)

Spec == Init /\ [][Next]_vars

--------------------------------------------------------------------------------
(* No server stands in the list twice, so that no client reports a tag to  *)
(* it twice: the test of the names in resolve_callback is enough.          *)
UniqueNames ==
  \A i, j \in 1..Len(directory) : directory[i] = directory[j] => i = j

(* Services come and go in front of and between the servers of the         *)
(* configuration file (those with stable = 1), which stay in their order.  *)
ConfiguredStay ==
  \A m \in 1..Len(configured) :
    /\ Listed(configured[m])
    /\ \A n \in 1..(m - 1), i, j \in 1..Len(directory) :
         directory[i] = configured[m] /\ directory[j] = configured[n] => i < j

(* Every service that is announced, and whose resolver has answered, is in *)
(* the list ("a client will automatically notify each server"), if it is   *)
(* seen on one interface only: withdrawn from one it is forgotten on all.  *)
SingleHomedIsListed ==
  \A link \in announced \ (resolving \cup failed) :
    (\A other \in Links : other[1] = link[1] => other = link) => Listed(link[1])

================================================================================
