-------------------------------- MODULE ListOps --------------------------------
(***************************************************************************)
(* A caller of list.c: one list that every function of the file may be     *)
(* applied to, and the list that list_map or list_filter made of it.  Each *)
(* action is a whole call, in which any number of calls of malloc succeed  *)
(* before the memory is exhausted; nobody else uses these lists.  (Client  *)
(* takes list_push, list_pop and list_remove apart, write by write, for    *)
(* the one list that two threads share.)                                   *)
(***************************************************************************)
EXTENDS ListHeap

CONSTANTS
  Values,    (* what the cars hold; never the C null, although the comment  *)
             (* of list_array allows it: a cell that holds null and ends    *)
             (* the list is what list_is_empty takes for an empty list      *)
  NoList,    (* the C null, as a list, in the abstraction                   *)
  Mapping    (* the function given to list_map                              *)

ASSUME ValuesAssumption ==
  /\ NoValue \notin Values
  /\ NoList \notin Seq(Values)
  /\ Mapping \in [Values -> Values]

VARIABLES
  heap,      (* the cells                                                   *)
  l,         (* the caller's list                                           *)
  m,         (* the list made of it, if the caller has one                  *)
  call,      (* history: the last call, with what list_remove has returned  *)
  leaked     (* history: the cells list_map has left behind                 *)

vars == <<heap, l, m, call, leaked>>

TypeOK ==
  /\ heap \in [car : [Cells -> Values \cup {NoValue}], cdr : [Cells -> Cells \cup {Null}],
               live : SUBSET Cells, left : {0}]
  /\ l \in Cells
  /\ m \in Cells \cup {Null}
  /\ leaked \in SUBSET Cells

Init ==
  /\ heap = [car |-> [c \in Cells |-> NoValue], cdr |-> [c \in Cells |-> Null],
             live |-> {1}, left |-> 0]
  /\ l = 1
  /\ m = Null
  /\ call = <<"none">>
  /\ leaked = {}

--------------------------------------------------------------------------------
(* The heap with room for at most so many cells, and that with none.       *)
Roomy(cells) == {[heap EXCEPT !.left = n] : n \in 0..Min({cells, Cardinality(Cells \ heap.live)})}
Settled(h) == [h EXCEPT !.left = 0]

(* What a caller that tests the result of list_cons does, as list_filter     *)
(* does with old_acc: after a null it still has the list it had.  That every *)
(* caller tests it is an assumption; list.c only says what null means.       *)
KeptUntested(at) == at                                            (* mutant *)
Kept(at) == IF at = Null THEN l ELSE at

(* l = list_cons(v, l); a caller that gets null back keeps the list.       *)
ConsTo(v) ==
  \E h \in Roomy(1) :
    /\ LET r == list_cons(h, v, l) IN heap' = Settled(r.heap) /\ l' = Kept(r.at)
    /\ call' = <<"insert">>
    /\ UNCHANGED <<m, leaked>>

PushTo(v) ==
  \E h \in Roomy(1) :
    /\ heap' = Settled(list_push(h, l, v))
    /\ call' = <<"insert">>
    /\ UNCHANGED <<l, m, leaked>>

AddTo(v) ==
  \E h \in Roomy(1) :
    /\ heap' = Settled(list_append(h, l, v))
    /\ call' = <<"append">>
    /\ UNCHANGED <<l, m, leaked>>

PopFrom ==
  /\ LET r == list_pop(heap, l)
     IN heap' = r.heap /\ call' = <<"remove", 0, r.ret>>
  /\ UNCHANGED <<l, m, leaked>>

RemoveFrom(index) ==
  /\ LET r == list_remove(heap, l, index)
     IN heap' = r.heap /\ call' = <<"remove", index, r.ret>>
  /\ UNCHANGED <<l, m, leaked>>

Turn ==
  /\ LET r == list_reverse(heap, l) IN heap' = r.heap /\ l' = r.at
  /\ call' = <<"reverse">>
  /\ UNCHANGED <<m, leaked>>

Derived(d) ==
  /\ m = Null
  /\ heap' = Settled(d.heap)
  /\ m' = d.at
  /\ UNCHANGED l

FilterOf(keep) ==
  /\ call' = <<"filter", keep>>
  /\ \E h \in Roomy(Max({1, list_size(heap, l)})) : Derived(list_filter(h, l, keep))
  /\ UNCHANGED leaked

(* Bound: list_map leaks once, and a second leak would only shrink memory.  *)
MapOf ==
  /\ call' = <<"map">>
  /\ leaked = {}
  /\ \E h \in Roomy(Max({1, list_size(heap, l)})) : Derived(list_map(h, l, Mapping))
  /\ leaked' = IF m' = Null THEN heap'.live \ heap.live ELSE {}

(* The caller destroys the list it no longer needs.                        *)
KeepDerived ==
  /\ m # Null
  /\ heap' = list_destroy(heap, l)
  /\ l' = m
  /\ m' = Null
  /\ call' = <<"destroy">>
  /\ UNCHANGED leaked

DropDerived ==
  /\ m # Null
  /\ heap' = list_destroy(heap, m)
  /\ m' = Null
  /\ call' = <<"destroy">>
  /\ UNCHANGED <<l, leaked>>

(* Bound: a caller that has a second list gives one of them up next.        *)
Next ==
  \/ /\ m = Null
     /\ \/ \E v \in Values : ConsTo(v) \/ PushTo(v) \/ AddTo(v)
        \/ PopFrom
        \/ \E index \in -1..(list_size(heap, l) + 1) : RemoveFrom(index)
        \/ Turn
        \/ \E keep \in SUBSET Values : FilterOf(keep)
        \/ MapOf
  \/ KeepDerived
  \/ DropDerived

Spec == Init /\ [][Next]_vars

--------------------------------------------------------------------------------
(* Whatever is called in whatever order, and wherever memory runs out, each *)
(* allocated cell belongs to exactly one of the caller's lists, unless it   *)
(* is one that list_map is known to leak ("we return NULL and leak memory   *)
(* until I can think of something better"), and no list has a freed cell.   *)
EveryCellHasAList ==
  LET mine == CellsFrom(heap, l)
      made == IF m = Null THEN <<>> ELSE CellsFrom(heap, m)
  IN /\ IsInjective(mine \o made)
     /\ heap.cdr[Last(mine)] = Null
     /\ heap.live \ leaked = ToSet(mine) \cup ToSet(made)

(* The functions of list.c implement the operations on sequences that their *)
(* comments promise, for values other than null; a call that runs out of    *)
(* memory changes no list.  That list_map and list_filter reverse the order *)
(* is in their code, not in their comments.                                 *)
Sequence == INSTANCE AbstractList WITH
  list <- Entries(heap, l),
  derived <- IF m = Null THEN NoList ELSE Entries(heap, m)
ImplementsSequence == Sequence!Spec

================================================================================
