------------------------------ MODULE AbstractList ------------------------------
(***************************************************************************)
(* What list.c promises to its callers: a list is a sequence of values, of *)
(* which a caller of list_map or list_filter holds a second one (in the    *)
(* opposite order, as the code has it).  Memory may run out at any call,   *)
(* and then nothing changes.                                               *)
(*                                                                         *)
(* ListOps, which works on cells, implements this specification.           *)
(***************************************************************************)
EXTENDS Integers, SequencesExt

CONSTANTS
  Values,    (* what the cars hold; never the C null                        *)
  NoValue,   (* the C null, as a car and as a result                        *)
  NoList,    (* the C null, as a list                                       *)
  Mapping    (* the function given to list_map                              *)

VARIABLES
  list,      (* the caller's list                                           *)
  derived,   (* the result of list_map or list_filter the caller still has  *)
  call       (* history: the last call, with the argument that matters and  *)
             (* what list_remove has returned                               *)

vars == <<list, derived, call>>

Init ==
  /\ list = <<>>
  /\ derived = NoList
  /\ call = <<"none">>

(* list_cons and list_push.                                                *)
Insert ==
  /\ call' = <<"insert">>
  /\ list' \in {list} \cup {<<v>> \o list : v \in Values}
  /\ UNCHANGED derived

(* list_append.                                                            *)
Add ==
  /\ call' = <<"append">>
  /\ list' \in {list} \cup {Append(list, v) : v \in Values}
  /\ UNCHANGED derived

(* list_remove, and list_pop for the first index: the entry at this index  *)
(* is taken out and returned.  Where there is none it is the C null.       *)
Take(index, value) ==
  /\ call' = <<"remove", index, value>>
  /\ IF index \in 0..(Len(list) - 1)
     THEN value = list[index + 1] /\ list' = RemoveAt(list, index + 1)
     ELSE value = NoValue /\ UNCHANGED list
  /\ UNCHANGED derived

(* list_reverse.                                                           *)
Turn ==
  /\ call' = <<"reverse">>
  /\ list' = Reverse(list)
  /\ UNCHANGED derived

(* The values of a list that are to be kept.                               *)
Selected(values, keep) ==
  LET upTo[n \in 0..Len(values)] ==
        IF n = 0 THEN <<>>
        ELSE LET before == upTo[n - 1]
             IN IF values[n] \in keep THEN Append(before, values[n]) ELSE before
  IN upTo[Len(values)]

(* list_filter and list_map, which return the values in reverse order.     *)
Derive(kept) ==
  /\ derived = NoList
  /\ derived' \in {NoList, Reverse(kept)}
  /\ UNCHANGED list

Filter(keep) == call' = <<"filter", keep>> /\ Derive(Selected(list, keep))
Map == call' = <<"map">> /\ Derive([i \in 1..Len(list) |-> Mapping[list[i]]])

(* list_destroy of the one list or of the other.                           *)
KeepDerived ==
  /\ call' = <<"destroy">>
  /\ derived # NoList
  /\ list' = derived
  /\ derived' = NoList

DropDerived ==
  /\ call' = <<"destroy">>
  /\ derived # NoList
  /\ derived' = NoList
  /\ UNCHANGED list

Next ==
  \/ Insert
  \/ Add
  \/ \E index \in -1..(Len(list) + 1), value \in Values \cup {NoValue} : Take(index, value)
  \/ Turn
  \/ \E keep \in SUBSET Values : Filter(keep)
  \/ Map
  \/ KeepDerived
  \/ DropDerived

Spec == Init /\ [][Next]_vars

================================================================================
