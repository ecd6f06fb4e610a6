-------------------------------- MODULE ListHeap --------------------------------
(***************************************************************************)
(* The singly linked lists of list.c, as operators from one heap to the    *)
(* next.  A heap has the two fields of each cell, the set of cells that    *)
(* are allocated, and the number of calls of malloc that will succeed.     *)
(*                                                                         *)
(* Which cell malloc returns makes no difference: it is the first that is  *)
(* free.  free() blanks a cell, so that reading it afterwards shows.       *)
(***************************************************************************)
EXTENDS Chains, Integers, SequencesExt

CONSTANTS
  MaxCells,  (* bound: the cells the memory holds                           *)
  NoValue    (* the C null, as a car                                        *)

ASSUME MaxCellsAssumption == MaxCells \in Nat \ {0}

Cells == 1..MaxCells
Null == 0    (* the C null, as a list                                       *)

CellsFrom(h, c) == Chain(Cells, h.cdr, c)

(* list_cdr of a null list is null.                                        *)
list_cdr(h, c) == IF c = Null THEN Null ELSE h.cdr[c]

(* list_is_empty: a single cell without a value stands for no entry.       *)
list_is_empty(h, l) == l = Null \/ (h.car[l] = NoValue /\ h.cdr[l] = Null)

(* The values of a list, which list_array copies and list_foreach visits.  *)
Entries(h, l) ==
  IF list_is_empty(h, l) THEN <<>>
  ELSE LET cells == CellsFrom(h, l) IN [i \in 1..Len(cells) |-> h.car[cells[i]]]

list_size(h, l) == Len(Entries(h, l))

Blank(h, c) == [h EXCEPT !.car[c] = NoValue, !.cdr[c] = Null]

(* list_create, which returns null when malloc does.                       *)
list_create(h) ==
  IF h.left = 0 THEN [heap |-> h, at |-> Null]
  ELSE LET n == CHOOSE c \in Cells \ h.live : \A d \in Cells \ h.live : c <= d
       IN [heap |-> [Blank(h, n) EXCEPT !.live = @ \cup {n}, !.left = @ - 1], at |-> n]

FreeCells(h, cells) ==
  [h EXCEPT !.car = [c \in Cells |-> IF c \in cells THEN NoValue ELSE @[c]],
            !.cdr = [c \in Cells |-> IF c \in cells THEN Null ELSE @[c]],
            !.live = @ \ cells]

(* list_destroy and list_destroy_deep, as far as cells are concerned.      *)
list_destroy(h, l) == FreeCells(h, ToSet(CellsFrom(h, l)))

(* list_cons fills an empty list and otherwise makes a new first cell.     *)
list_cons(h, v, l) ==
  IF l # Null /\ list_is_empty(h, l)
  THEN [heap |-> [h EXCEPT !.car[l] = v], at |-> l]
  ELSE LET k == list_create(h) IN
       IF k.at = Null THEN k
       ELSE [heap |-> [k.heap EXCEPT !.car[k.at] = v, !.cdr[k.at] = l], at |-> k.at]

(* list_append.  If null_list finds no memory list_cons tries once more.   *)
list_append(h, l, v) ==
  LET end == Last(CellsFrom(h, l))
      null_list == list_create(h)
      new == list_cons(null_list.heap, v, null_list.at)
  IN IF h.car[end] = NoValue THEN [h EXCEPT !.car[end] = v]
     ELSE IF new.at = Null THEN new.heap
     ELSE [new.heap EXCEPT !.cdr[end] = new.at]

(* list_push: the first cell stays in front and its old contents move.     *)
list_push(h, l, v) ==
  LET n == list_create(h) IN
  IF list_is_empty(h, l) THEN [h EXCEPT !.car[l] = v]
  ELSE IF n.at = Null THEN h
  ELSE [n.heap EXCEPT !.car[n.at] = h.car[l], !.cdr[n.at] = h.cdr[l],
                      !.car[l] = v, !.cdr[l] = n.at]

(* list_pop, the opposite: the second cell moves to the first.             *)
list_pop(h, l) ==
  LET n == list_cdr(h, l) IN
  IF list_is_empty(h, l) THEN [heap |-> h, ret |-> NoValue]
  ELSE [ret |-> h.car[l],
        heap |-> IF n = Null THEN [h EXCEPT !.car[l] = NoValue]
                 ELSE FreeCells([h EXCEPT !.car[l] = h.car[n], !.cdr[l] = h.cdr[n]], {n})]

OutOfBoundsEarly(h, l, index) == index < 0 \/ index >= list_size(h, l) - 1  (* mutant *)
OutOfBounds(h, l, index) == index < 0 \/ index > list_size(h, l)

(* list_remove: the first entry is popped, another is linked over.  If the *)
(* index is the size there is no target, and nothing happens.              *)
list_remove(h, l, index) ==
  LET prev == CellsFrom(h, l)[index]   (* list_nth_atom counts from zero     *)
      target == h.cdr[prev]
  IN IF OutOfBounds(h, l, index) THEN [heap |-> h, ret |-> NoValue]
     ELSE IF index = 0 THEN list_pop(h, l)
     ELSE IF target = Null THEN [heap |-> h, ret |-> NoValue]
     ELSE [heap |-> FreeCells([h EXCEPT !.cdr[prev] = h.cdr[target]], {target}),
           ret |-> h.car[target]]

(* list_reverse: three pointers run along the list, which has to be longer *)
(* than three cells for that; shorter lists have paths of their own.       *)
Along(s) ==
  IF s.cdr[s.r] = Null THEN s
  ELSE [p |-> s.q, q |-> s.r, r |-> s.cdr[s.r], cdr |-> [s.cdr EXCEPT ![s.q] = s.p]]

list_reverse(h, l) ==
  LET second == list_cdr(h, l)
      third == list_cdr(h, second)
      two == [h.cdr EXCEPT ![l] = Null, ![second] = l]
      at[n \in 0..MaxCells] ==
        IF n = 0 THEN [p |-> second, q |-> third, r |-> h.cdr[third], cdr |-> two] ELSE Along(at[n - 1])
      end == at[MaxCells]
  IN CASE list_size(h, l) <= 1 -> [heap |-> h, at |-> l]
       [] list_size(h, l) = 2 -> [heap |-> [h EXCEPT !.cdr = two], at |-> second]
       [] list_size(h, l) = 3 -> [heap |-> [h EXCEPT !.cdr = [two EXCEPT ![third] = second]], at |-> third]
       [] OTHER -> [heap |-> [h EXCEPT !.cdr = [end.cdr EXCEPT ![end.q] = end.p, ![end.r] = end.q]],
                    at |-> end.r]

(* The loop of list_filter and list_map: each value that is to be kept is  *)
(* put in front of the result so far, until list_cons finds no memory; acc *)
(* is that result.                                                         *)
Collected(s, v, keep) ==
  LET k == list_cons(s.heap, v, s.at) IN
  IF s.at = Null \/ v \notin keep THEN s
  ELSE [heap |-> k.heap, at |-> k.at, acc |-> IF k.at = Null THEN s.at ELSE k.at]

Collect(h, values, keep) ==
  LET acc == list_create(h)
      at[i \in 0..Len(values)] ==
        IF i = 0 THEN [heap |-> acc.heap, at |-> acc.at, acc |-> acc.at]
        ELSE Collected(at[i - 1], values[i], keep)
  IN at[Len(values)]

(* Without memory the one destroys what it has made so far, the other      *)
(* leaves it.                                                              *)
GiveUpFilterFreeingOne(h, acc) == FreeCells(h, {acc})                    (* mutant *)
GiveUpFilter(h, acc) == list_destroy(h, acc)

list_filter(h, l, keep) ==
  LET c == Collect(h, Entries(h, l), keep)
  IN [heap |-> IF c.at = Null THEN GiveUpFilter(c.heap, c.acc) ELSE c.heap, at |-> c.at]

list_map(h, l, mapping) ==
  LET mapped == [i \in 1..list_size(h, l) |-> mapping[Entries(h, l)[i]]]
      c == Collect(h, mapped, ToSet(mapped))
  IN [heap |-> c.heap, at |-> c.at]

================================================================================
