--------------------------------- MODULE Chains ---------------------------------
(***************************************************************************)
(* The cells that a program comes to which follows the pointers of a list  *)
(* of list.c, for the modules that keep such lists in a memory of cells.   *)
(***************************************************************************)
EXTENDS Naturals, Sequences, FiniteSets

(* The cells from c on along these pointers, in order, up to a pointer to  *)
(* no cell.  A cycle is cut after as many steps as there are cells.        *)
Chain(cells, next, c) ==
  LET longer == [s \in Seq(cells) |->
                   IF next[s[Len(s)]] \in cells THEN Append(s, next[s[Len(s)]]) ELSE s]
      upTo[n \in 0..Cardinality(cells)] == IF n = 0 THEN <<c>> ELSE longer[upTo[n - 1]]
  IN IF c \in cells THEN upTo[Cardinality(cells)] ELSE <<>>

================================================================================
