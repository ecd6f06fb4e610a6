--------------------------- MODULE ConnectionService ---------------------------
(***************************************************************************)
(* What WebServer promises to the clients that connect to it, with no      *)
(* threads in sight: connections are accepted in the order in which they   *)
(* arrived, and every accepted connection is handled and then given up,    *)
(* either closed or, when its streams cannot be opened, abandoned open.    *)
(*                                                                         *)
(* WorkerPool implements this specification.                               *)
(***************************************************************************)
EXTENDS Sequences

CONSTANT Conns   (* names of connections; a name is reused once it is over *)

VARIABLES
  backlog,       (* connections the listening socket holds, oldest first   *)
  conn           (* life of each connection                                *)

vars == <<backlog, conn>>

Over == {"closed", "abandoned"}

TypeOK ==
  /\ backlog \in Seq(Conns)
  /\ conn \in [Conns -> {"queued", "open"} \cup Over]

Init ==
  /\ backlog = <<>>
  /\ conn = [c \in Conns |-> "closed"]

(* A client connects.                                                      *)
Connect(c) ==
  /\ conn[c] \in Over
  /\ conn' = [conn EXCEPT ![c] = "queued"]
  /\ backlog' = Append(backlog, c)

(* The oldest waiting connection is accepted.                              *)
Accept ==
  /\ backlog # <<>>
  /\ conn' = [conn EXCEPT ![Head(backlog)] = "open"]
  /\ backlog' = Tail(backlog)

(* An accepted connection ends.                                            *)
Finish(c) ==
  /\ conn[c] = "open"
  /\ \E end \in Over : conn' = [conn EXCEPT ![c] = end]
  /\ UNCHANGED backlog

Next == Accept \/ \E c \in Conns : Connect(c) \/ Finish(c)

Fairness == WF_vars(Accept) /\ \A c \in Conns : WF_vars(Finish(c))

Spec == Init /\ [][Next]_vars

FairSpec == Spec /\ Fairness

================================================================================
