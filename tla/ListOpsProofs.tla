------------------------------ MODULE ListOpsProofs ------------------------------
(***************************************************************************)
(* What holds of the lists of list.c for any values and any size of the    *)
(* memory: whatever is called in whatever order, and wherever malloc fails, *)
(* the cells of the caller's lists are those that are allocated, and the   *)
(* calls do to the values what AbstractList says.                          *)
(*                                                                         *)
(* Owns says that certain cells of a heap are a list of certain values.    *)
(* First come, one function at a time, what each function of list.c makes  *)
(* of a list that its caller owns; then the invariant of ListOps, that the *)
(* caller owns his lists and nothing else is allocated; then its steps.    *)
(***************************************************************************)
EXTENDS ListOps, SequenceLemmas, TLAPS

--------------------------------------------------------------------------------
Pointers == Cells \cup {Null}

(* A heap in which as many calls of malloc succeed as there are free cells. *)
IsHeap(h) ==
  /\ h \in [car : [Cells -> Values \cup {NoValue}], cdr : [Cells -> Pointers],
            live : SUBSET Cells, left : Nat]
  /\ h.left <= Cardinality(Cells \ h.live)

(* The cells s hold these values; a single cell without a value holds none. *)
Holds(h, s, values) ==
  /\ values \in Seq(Values)
  /\ \/ values = <<>> /\ Len(s) = 1 /\ h.car[s[1]] = NoValue
     \/ Len(values) = Len(s) /\ \A i \in 1..Len(s) : h.car[s[i]] = values[i]

(* The list at c has the cells s, which hold these values; the rest of the  *)
(* allocated cells are others.                                              *)
Owns(h, s, c, values, rest) ==
  /\ LinkedIn(Cells, Null, h.cdr, s, c)
  /\ Holds(h, s, values)
  /\ h.live = ToSet(s) \cup rest
  /\ ToSet(s) \cap rest = {}

(* The memory is finite and its null is no cell.                           *)
LEMMA CellsFacts ==
  /\ Null \notin Cells
  /\ IsFiniteSet(Cells)
  /\ Cells \subseteq Nat
  /\ MaxCells \in Nat
  /\ Cardinality(Cells) = MaxCells
<1>1. MaxCells \in Nat
  BY MaxCellsAssumption
<1>2. IsFiniteSet(Cells) /\ Cardinality(Cells) = MaxCells
  BY <1>1, FS_Interval DEF Cells
<1> QED  BY <1>1, <1>2 DEF Cells, Null

(* The fields of a heap.                                                   *)
LEMMA HeapFacts ==
  ASSUME NEW h, IsHeap(h)
  PROVE  /\ h.car \in [Cells -> Values \cup {NoValue}]
         /\ h.cdr \in [Cells -> Pointers]
         /\ h.live \in SUBSET Cells
         /\ h.left \in Nat
         /\ h.left <= Cardinality(Cells \ h.live)
         /\ h = [car |-> h.car, cdr |-> h.cdr, live |-> h.live, left |-> h.left]
  BY DEF IsHeap

(* malloc takes a cell that was free, while there is one to take.           *)
LEMMA CreateFacts ==
  ASSUME NEW h, IsHeap(h), NEW r, r = list_create(h)
  PROVE  /\ IsHeap(r.heap) /\ r.at \in Pointers
         /\ h.left = 0 => r.at = Null /\ r.heap = h
         /\ h.left # 0 => /\ r.at \in Cells /\ r.at \notin h.live
                          /\ r.heap.live = h.live \cup {r.at}
                          /\ r.heap.car = [h.car EXCEPT ![r.at] = NoValue]
                          /\ r.heap.cdr = [h.cdr EXCEPT ![r.at] = Null]
                          /\ r.heap = [car |-> [h.car EXCEPT ![r.at] = NoValue],
                                        cdr |-> [h.cdr EXCEPT ![r.at] = Null],
                                        live |-> h.live \cup {r.at}, left |-> h.left - 1]
                          /\ h.left - 1 \in Nat
                          /\ h.left - 1 <= Cardinality(Cells \ (h.live \cup {r.at}))
<1>1. CASE h.left = 0
  BY <1>1 DEF list_create, Pointers
<1>2. CASE h.left # 0
  <2> DEFINE free == Cells \ h.live
             n == CHOOSE c \in free : \A d \in free : c <= d
             g == [Blank(h, n) EXCEPT !.live = @ \cup {n}, !.left = @ - 1]
  <2>1. r = [heap |-> g, at |-> n]
    BY <1>2 DEF list_create
  <2>2. /\ h.car \in [Cells -> Values \cup {NoValue}] /\ h.cdr \in [Cells -> Pointers]
        /\ h.live \in SUBSET Cells /\ h.left \in Nat /\ h.left <= Cardinality(free)
        /\ h = [car |-> h.car, cdr |-> h.cdr, live |-> h.live, left |-> h.left]
    BY HeapFacts
  <2>3. IsFiniteSet(free) /\ free \subseteq Nat
    BY CellsFacts, FS_Subset
  <2>4. Cardinality(free) # 0
    BY <1>2, <2>2, <2>3, FS_CardinalityType
  <2>5. free # {}
    <3> HIDE DEF free
    <3> QED  BY <2>4, FS_EmptySet
  <2>6. n \in free
    <3>1. \E c \in free : \A d \in free : c <= d
      BY <2>3, <2>5, LeastNumber
    <3> QED  BY <3>1
  <2> HIDE DEF n
  <2>7. g = [car |-> [h.car EXCEPT ![n] = NoValue], cdr |-> [h.cdr EXCEPT ![n] = Null],
             live |-> h.live \cup {n}, left |-> h.left - 1]
    <3> DEFINE b == Blank(h, n)
    <3>1. b = [car |-> [h.car EXCEPT ![n] = NoValue], cdr |-> [h.cdr EXCEPT ![n] = Null],
               live |-> h.live, left |-> h.left]
      <4> DEFINE a == [h EXCEPT !.car = [h.car EXCEPT ![n] = NoValue]]
      <4>1. a = [car |-> [h.car EXCEPT ![n] = NoValue], cdr |-> h.cdr, live |-> h.live, left |-> h.left]
        BY <2>2
      <4>2. b = [a EXCEPT !.cdr = [a.cdr EXCEPT ![n] = Null]]
        BY DEF Blank
      <4> HIDE DEF a, b
      <4> QED  BY <4>1, <4>2
    <3> DEFINE a == [b EXCEPT !.live = b.live \cup {n}]
    <3>2. g = [a EXCEPT !.left = a.left - 1]
      OBVIOUS
    <3> HIDE DEF b, g
    <3>3. a = [car |-> [h.car EXCEPT ![n] = NoValue], cdr |-> [h.cdr EXCEPT ![n] = Null],
               live |-> h.live \cup {n}, left |-> h.left]
      BY <3>1
    <3> HIDE DEF a
    <3> QED  BY <3>2, <3>3
  <2>8. Cells \ (h.live \cup {n}) = free \ {n}
    OBVIOUS
  <2>9. Cardinality(free \ {n}) = Cardinality(free) - 1
    <3> HIDE DEF free
    <3> QED  BY <2>3, <2>6, FS_RemoveElement
  <2>10. Cardinality(free) \in Nat
    BY <2>3, FS_CardinalityType
  <2>11. h.left - 1 \in Nat /\ h.left - 1 <= Cardinality(Cells \ (h.live \cup {n}))
    <3> HIDE DEF free
    <3>1. h.left \in Nat /\ h.left <= Cardinality(free)
      BY <2>2 DEF free
    <3>2. h.left - 1 \in Nat /\ h.left - 1 <= Cardinality(free \ {n})
      BY <1>2, <2>9, <2>10, <3>1
    <3> QED  BY <2>8, <3>2
  <2>12. IsHeap(g)
    <3>1. h.left - 1 \in Nat /\ h.left - 1 <= Cardinality(free \ {n})
      BY <1>2, <2>2, <2>9, <2>10
    <3>2. [h.car EXCEPT ![n] = NoValue] \in [Cells -> Values \cup {NoValue}]
      BY <2>2
    <3>3. [h.cdr EXCEPT ![n] = Null] \in [Cells -> Pointers]
      BY <2>2 DEF Pointers
    <3>4. h.live \cup {n} \in SUBSET Cells
      BY <2>2, <2>6
    <3> HIDE DEF free, g
    <3> QED  BY <2>7, <2>8, <3>1, <3>2, <3>3, <3>4 DEF IsHeap, free
  <2> HIDE DEF g
  <2>13. r.at = n /\ r.heap = g /\ n \in Cells /\ n \notin h.live
    BY <2>1, <2>6
  <2> QED  BY <1>2, <2>7, <2>11, <2>12, <2>13 DEF Pointers
<1>3. h.left \in Nat
  BY HeapFacts
<1> QED  BY <1>1, <1>2

(* What the functions that read a list make of it.                          *)
LEMMA ListFacts ==
  ASSUME NEW h, IsHeap(h), NEW s, NEW c, NEW values, NEW rest, Owns(h, s, c, values, rest)
  PROVE  /\ CellsFrom(h, c) = s
         /\ Entries(h, c) = values
         /\ list_size(h, c) = Len(values)
         /\ list_is_empty(h, c) <=> values = <<>>
         /\ c \in Cells /\ c # Null
         /\ values \in Seq(Values)
         /\ values # <<>> => Len(values) = Len(s) /\ \A i \in 1..Len(s) : h.car[s[i]] = values[i]
         /\ values = <<>> => Len(s) = 1 /\ h.car[c] = NoValue /\ h.cdr[c] = Null
<1>1. LinkedIn(Cells, Null, h.cdr, s, c) /\ Holds(h, s, values)
  BY DEF Owns
<1>2. /\ Len(s) \in Nat /\ Len(s) >= 1 /\ s[1] = c /\ c \in Cells
      /\ h.cdr[c] = Null <=> Len(s) = 1
  BY <1>1, CellsFacts, LinkedInFacts
<1>3. CellsFrom(h, c) = s
  BY <1>1, CellsFacts, ChainOf DEF CellsFrom
<1>4. values \in Seq(Values)
  BY <1>1 DEF Holds
<1>5. c # Null
  BY <1>2, CellsFacts
<1>6. CASE values = <<>>
  <2>1. Len(values) = 0
    BY <1>6, EmptySeq
  <2>2. Len(s) = 1 /\ h.car[c] = NoValue
    BY <1>1, <1>2, <1>6, <2>1 DEF Holds
  <2>3. list_is_empty(h, c)
    BY <1>2, <2>2 DEF list_is_empty
  <2>4. Entries(h, c) = values
    BY <1>6, <2>3 DEF Entries
  <2> QED  BY <1>2, <1>3, <1>4, <1>5, <1>6, <2>1, <2>2, <2>3, <2>4 DEF list_size
<1>7. CASE values # <<>>
  <2>1. Len(values) = Len(s) /\ \A i \in 1..Len(s) : h.car[s[i]] = values[i]
    BY <1>1, <1>7 DEF Holds
  <2>2. values \in [1..Len(s) -> Values]
    BY <1>4, <2>1, LenProperties
  <2>3. h.car[c] # NoValue
    <3>1. 1 \in 1..Len(s)
      BY <1>2
    <3> QED  BY <1>2, <2>1, <2>2, <3>1, ValuesAssumption
  <2>4. ~ list_is_empty(h, c)
    BY <1>5, <2>3 DEF list_is_empty
  <2>5. Entries(h, c) = [i \in 1..Len(s) |-> h.car[s[i]]]
    BY <1>3, <2>4 DEF Entries
  <2>6. Entries(h, c) = values
    BY <2>1, <2>2, <2>5
  <2> QED  BY <1>2, <1>3, <1>4, <1>5, <1>7, <2>1, <2>4, <2>6 DEF list_size
<1> QED  BY <1>6, <1>7

(* The cells of a set have the same contents in both heaps.                 *)
Same(g, h, cells) == \A x \in cells : g.car[x] = h.car[x] /\ g.cdr[x] = h.cdr[x]

(* What the owner of a list knows of its cells and values.                 *)
LEMMA OwnsFacts ==
  ASSUME NEW h, IsHeap(h), NEW s, NEW c, NEW values, NEW rest, Owns(h, s, c, values, rest)
  PROVE  /\ LinkedIn(Cells, Null, h.cdr, s, c) /\ Holds(h, s, values)
         /\ h.live = ToSet(s) \cup rest /\ ToSet(s) \cap rest = {}
         /\ c \in Cells /\ c \in ToSet(s) /\ c \notin rest /\ c \in h.live
         /\ s[1] = c /\ Len(s) \in Nat /\ Len(s) >= 1 /\ s \in [1..Len(s) -> Cells] /\ s \in Seq(Cells)
         /\ values \in Seq(Values) /\ Len(values) \in Nat /\ values \in [1..Len(values) -> Values]
         /\ rest \subseteq Cells
<1>1. LinkedIn(Cells, Null, h.cdr, s, c) /\ Holds(h, s, values)
      /\ h.live = ToSet(s) \cup rest /\ ToSet(s) \cap rest = {}
  BY DEF Owns
<1>2. /\ c \in Cells /\ c \in ToSet(s)
      /\ s[1] = c /\ Len(s) \in Nat /\ Len(s) >= 1 /\ s \in [1..Len(s) -> Cells] /\ s \in Seq(Cells)
  BY <1>1, CellsFacts, LinkedInFacts
<1>3. values \in Seq(Values) /\ Len(values) \in Nat /\ values \in [1..Len(values) -> Values]
  BY <1>1, LenProperties DEF Holds
<1>4. rest \subseteq Cells
  BY <1>1, HeapFacts
<1> QED  BY <1>1, <1>2, <1>3, <1>4

(* A write to one field leaves the others alone.                           *)
LEMMA Written ==
  ASSUME NEW car, NEW cdr, NEW live, NEW left,
         NEW h, h = [car |-> car, cdr |-> cdr, live |-> live, left |-> left], NEW c, NEW x
  PROVE  /\ [h EXCEPT !.car[c] = x] = [car |-> [car EXCEPT ![c] = x], cdr |-> cdr, live |-> live, left |-> left]
         /\ [h EXCEPT !.cdr[c] = x] = [car |-> car, cdr |-> [cdr EXCEPT ![c] = x], live |-> live, left |-> left]
  OBVIOUS

(* Fields that are of these types make a heap.                             *)
LEMMA HeapMade ==
  ASSUME NEW car \in [Cells -> Values \cup {NoValue}], NEW cdr \in [Cells -> Pointers],
         NEW live \in SUBSET Cells, NEW left \in Nat, left <= Cardinality(Cells \ live),
         NEW g, g = [car |-> car, cdr |-> cdr, live |-> live, left |-> left]
  PROVE  IsHeap(g) /\ g.car = car /\ g.cdr = cdr /\ g.live = live /\ g.left = left
<1>1. g.car = car /\ g.cdr = cdr /\ g.live = live /\ g.left = left
  OBVIOUS
<1>2. g \in [car : [Cells -> Values \cup {NoValue}], cdr : [Cells -> Pointers], live : SUBSET Cells, left : Nat]
  OBVIOUS
<1> QED  BY <1>1, <1>2 DEF IsHeap

(* An empty list is filled.                                                 *)
LEMMA Filled ==
  ASSUME NEW h, IsHeap(h), NEW s, NEW c, NEW rest, Owns(h, s, c, <<>>, rest), NEW v \in Values,
         NEW g, g = [h EXCEPT !.car[c] = v]
  PROVE  IsHeap(g) /\ Owns(g, s, c, <<v>>, rest) /\ Same(g, h, rest)
<1>1. /\ h.car \in [Cells -> Values \cup {NoValue}] /\ h.cdr \in [Cells -> Pointers]
      /\ h = [car |-> h.car, cdr |-> h.cdr, live |-> h.live, left |-> h.left]
      /\ h.live \in SUBSET Cells /\ h.left \in Nat /\ h.left <= Cardinality(Cells \ h.live)
  BY HeapFacts
<1>2. /\ LinkedIn(Cells, Null, h.cdr, s, c) /\ h.live = ToSet(s) \cup rest /\ ToSet(s) \cap rest = {}
      /\ c \in Cells /\ c \notin rest /\ s[1] = c
  BY OwnsFacts
<1>3. Len(s) = 1
  BY ListFacts
<1>4. g = [car |-> [h.car EXCEPT ![c] = v], cdr |-> h.cdr, live |-> h.live, left |-> h.left]
  BY <1>1
<1>5. IsHeap(g)
  <2>1. [h.car EXCEPT ![c] = v] \in [Cells -> Values \cup {NoValue}]
    BY <1>1
  <2> QED  BY <1>1, <1>4, <2>1, HeapMade
<1>6. Holds(g, s, <<v>>)
  <2>1. <<v>> \in Seq(Values) /\ Len(<<v>>) = 1 /\ <<v>>[1] = v
    OBVIOUS
  <2>2. g.car[c] = v
    BY <1>1, <1>2, <1>4
  <2>3. \A i \in 1..Len(s) : g.car[s[i]] = <<v>>[i]
    BY <1>2, <1>3, <2>1, <2>2
  <2> QED  BY <1>3, <2>1, <2>3 DEF Holds
<1>7. g.cdr = h.cdr /\ g.live = h.live /\ \A x \in rest : g.car[x] = h.car[x]
  BY <1>1, <1>2, <1>4
<1> QED  BY <1>2, <1>5, <1>6, <1>7 DEF Owns, Same

(* One more value in front of those that the cells hold.                    *)
LEMMA HoldsFront ==
  ASSUME NEW g, NEW s \in Seq(Cells), NEW values \in Seq(Values), Len(values) = Len(s),
         \A i \in 1..Len(s) : g.car[s[i]] = values[i],
         NEW n \in Cells, NEW v \in Values, g.car[n] = v
  PROVE  Holds(g, <<n>> \o s, <<v>> \o values)
<1> DEFINE t == <<n>> \o s
           new == <<v>> \o values
<1>1. /\ t \in Seq(Cells) /\ Len(t) = Len(s) + 1 /\ t[1] = n
      /\ \A j \in 1..Len(s) : t[j + 1] = s[j]
  BY FrontEntries
<1>2. /\ new \in Seq(Values) /\ Len(new) = Len(s) + 1 /\ new[1] = v
      /\ \A j \in 1..Len(s) : new[j + 1] = values[j]
  BY FrontEntries
<1>3. Len(s) \in Nat /\ \A i \in 1..Len(s) : s[i] \in ToSet(s)
  BY LenProperties DEF ToSet
<1>4. \A i \in 1..Len(s) : g.car[s[i]] = values[i]
  OBVIOUS
<1> HIDE DEF t, new
<1>5. \A i \in 1..Len(t) : g.car[t[i]] = new[i]
  <2> SUFFICES ASSUME NEW i \in 1..Len(t) PROVE g.car[t[i]] = new[i]
    OBVIOUS
  <2>1. CASE i = 1
    BY <1>1, <1>2, <2>1
  <2>2. CASE i # 1
    <3>1. i - 1 \in 1..Len(s) /\ (i - 1) + 1 = i
      BY <1>1, <1>3, <2>2
    <3>2. t[i] = s[i - 1] /\ new[i] = values[i - 1]
      BY <1>1, <1>2, <3>1
    <3> QED  BY <1>4, <3>1, <3>2
  <2> QED  BY <2>1, <2>2
<1> QED  BY <1>1, <1>2, <1>5 DEF Holds, t, new

(* list_cons: either there is no memory and nothing happens, or the value   *)
(* is in front.                                                             *)
LEMMA ConsFacts ==
  ASSUME NEW h, IsHeap(h), NEW s, NEW c, NEW values, NEW rest, Owns(h, s, c, values, rest),
         NEW v \in Values, NEW r, r = list_cons(h, v, c)
  PROVE  /\ IsHeap(r.heap)
         /\ \/ r.at = Null /\ r.heap = h
            \/ /\ r.at # Null /\ Same(r.heap, h, rest)
               /\ \E t : Owns(r.heap, t, r.at, <<v>> \o values, rest)
<1>1. /\ list_is_empty(h, c) <=> values = <<>>
      /\ values # <<>> => Len(values) = Len(s) /\ \A i \in 1..Len(s) : h.car[s[i]] = values[i]
  BY ListFacts
<1>2. c # Null
  BY ListFacts
<1>3. CASE values = <<>>
  <2>1. r = [heap |-> [h EXCEPT !.car[c] = v], at |-> c]
    BY <1>1, <1>2, <1>3 DEF list_cons
  <2>2. IsHeap(r.heap) /\ Owns(r.heap, s, c, <<v>>, rest) /\ Same(r.heap, h, rest)
    BY <1>3, <2>1, Filled
  <2>3. <<v>> \o values = <<v>>
    BY <1>3
  <2>4. r.at # Null /\ Owns(r.heap, s, r.at, <<v>> \o values, rest)
    <3>1. r.at = c
      BY <2>1
    <3> QED  BY <1>2, <2>2, <2>3, <3>1
  <2> QED  BY <2>2, <2>4
<1>4. CASE values # <<>>
  <2> DEFINE k == list_create(h)
             g == [k.heap EXCEPT !.car[k.at] = v, !.cdr[k.at] = c]
  <2>1. r = IF k.at = Null THEN k ELSE [heap |-> g, at |-> k.at]
    BY <1>1, <1>4 DEF list_cons
  <2>2. /\ IsHeap(k.heap) /\ k.at \in Pointers
        /\ h.left = 0 => k.at = Null /\ k.heap = h
        /\ h.left # 0 => /\ k.at \in Cells /\ k.at \notin h.live
                         /\ k.heap.live = h.live \cup {k.at}
                         /\ k.heap.car = [h.car EXCEPT ![k.at] = NoValue]
                         /\ k.heap.cdr = [h.cdr EXCEPT ![k.at] = Null]
    BY CreateFacts
  <2> HIDE DEF k
  <2>3. CASE h.left = 0
    BY <2>1, <2>2, <2>3
  <2>4. CASE h.left # 0
    <3>1. k.at # Null /\ r = [heap |-> g, at |-> k.at]
      BY <2>1, <2>2, <2>4, CellsFacts
    <3>2. /\ k.heap.car \in [Cells -> Values \cup {NoValue}] /\ k.heap.cdr \in [Cells -> Pointers]
          /\ k.heap = [car |-> k.heap.car, cdr |-> k.heap.cdr, live |-> k.heap.live, left |-> k.heap.left]
          /\ k.heap.live \in SUBSET Cells /\ k.heap.left \in Nat /\ k.heap.left <= Cardinality(Cells \ k.heap.live)
          /\ h.car \in [Cells -> Values \cup {NoValue}] /\ h.cdr \in [Cells -> Pointers]
      BY <2>2, HeapFacts
    <3>3. /\ LinkedIn(Cells, Null, h.cdr, s, c) /\ h.live = ToSet(s) \cup rest /\ ToSet(s) \cap rest = {}
          /\ c \in Cells /\ s \in Seq(Cells) /\ values \in Seq(Values) /\ rest \subseteq Cells
      BY OwnsFacts
    <3>4. g = [car |-> [h.car EXCEPT ![k.at] = v], cdr |-> [h.cdr EXCEPT ![k.at] = c],
               live |-> h.live \cup {k.at}, left |-> k.heap.left]
      <4> DEFINE a == [k.heap EXCEPT !.car[k.at] = v]
      <4>1. a = [car |-> [h.car EXCEPT ![k.at] = v], cdr |-> k.heap.cdr, live |-> k.heap.live, left |-> k.heap.left]
        BY <2>2, <2>4, <3>2
      <4>2. g = [a EXCEPT !.cdr[k.at] = c]
        OBVIOUS
      <4> HIDE DEF a, g
      <4> QED  BY <2>2, <2>4, <3>2, <4>1, <4>2
    <3> HIDE DEF g
    <3>5. IsHeap(g)
      <4>1. [h.car EXCEPT ![k.at] = v] \in [Cells -> Values \cup {NoValue}]
            /\ [h.cdr EXCEPT ![k.at] = c] \in [Cells -> Pointers]
        BY <2>2, <2>4, <3>2, <3>3 DEF Pointers
      <4>2. k.heap.live = h.live \cup {k.at}
        BY <2>2, <2>4
      <4> QED  BY <3>2, <3>4, <4>1, <4>2 DEF IsHeap
    <3>6. k.at \in Cells /\ k.at \notin ToSet(s) /\ k.at \notin rest
      BY <2>2, <2>4, <3>3
    <3>7. /\ g.car[k.at] = v /\ g.cdr[k.at] = c /\ g.live = h.live \cup {k.at}
          /\ \A x \in Cells : x # k.at => g.car[x] = h.car[x] /\ g.cdr[x] = h.cdr[x]
      BY <3>2, <3>4, <3>6
    <3>8. ToSet(s) \subseteq Cells
      BY <3>3, CellsFacts, LinkedInFacts
    <3>9. /\ \A x \in ToSet(s) : g.car[x] = h.car[x]
          /\ \A x \in ToSet(s) : g.cdr[x] = h.cdr[x]
          /\ Same(g, h, rest)
      BY <3>3, <3>6, <3>7, <3>8 DEF Same
    <3>10. LinkedIn(Cells, Null, g.cdr, <<k.at>> \o s, k.at)
      BY <3>3, <3>6, <3>7, <3>9, CellsFacts, LinkedInFront
    <3>11. Holds(g, <<k.at>> \o s, <<v>> \o values)
      <4>1. \A i \in 1..Len(s) : s[i] \in ToSet(s)
        BY <3>3, CellsFacts, LinkedInFacts
      <4>2. \A i \in 1..Len(s) : g.car[s[i]] = values[i]
        BY <1>1, <1>4, <3>9, <4>1
      <4> QED  BY <1>1, <1>4, <3>3, <3>6, <3>7, <4>2, HoldsFront
    <3>12. ToSet(<<k.at>> \o s) = ToSet(s) \cup {k.at}
      BY <3>3, <3>6, FrontElements
    <3>13. Owns(g, <<k.at>> \o s, k.at, <<v>> \o values, rest)
      BY <3>3, <3>6, <3>7, <3>10, <3>11, <3>12 DEF Owns
    <3> QED  BY <3>1, <3>5, <3>9, <3>13
  <2> QED  BY <2>3, <2>4
<1> QED  BY <1>3, <1>4

(* list_append: either nothing happens or the value is at the end.          *)
LEMMA AppendFacts ==
  ASSUME NEW h, IsHeap(h), NEW s, NEW c, NEW values, NEW rest, Owns(h, s, c, values, rest),
         NEW v \in Values, NEW g, g = list_append(h, c, v)
  PROVE  /\ IsHeap(g)
         /\ \E t, new : Owns(g, t, c, new, rest) /\ new \in {values, Append(values, v)}
<1> DEFINE end == s[Len(s)]
           k == list_create(h)
           n == list_cons(k.heap, v, k.at)
<1>1. /\ list_is_empty(h, c) <=> values = <<>>
      /\ values # <<>> => Len(values) = Len(s) /\ \A i \in 1..Len(s) : h.car[s[i]] = values[i]
      /\ values = <<>> => Len(s) = 1 /\ h.car[c] = NoValue /\ h.cdr[c] = Null
      /\ CellsFrom(h, c) = s /\ c # Null
  BY ListFacts
<1>2. /\ LinkedIn(Cells, Null, h.cdr, s, c) /\ h.live = ToSet(s) \cup rest /\ ToSet(s) \cap rest = {}
      /\ c \in Cells /\ s[1] = c /\ Len(s) \in Nat /\ Len(s) >= 1 /\ s \in Seq(Cells)
      /\ s \in [1..Len(s) -> Cells]
      /\ values \in Seq(Values) /\ values \in [1..Len(values) -> Values] /\ rest \subseteq Cells
  BY OwnsFacts
<1>3. end \in Cells /\ Len(s) \in 1..Len(s)
  BY <1>2
<1>4. Last(CellsFrom(h, c)) = end
  BY <1>1 DEF Last
<1>5. g = IF h.car[end] = NoValue THEN [h EXCEPT !.car[end] = v]
          ELSE IF n.at = Null THEN n.heap
          ELSE [n.heap EXCEPT !.cdr[end] = n.at]
  BY <1>4 DEF list_append
<1>6. CASE values = <<>>
  <2>1. end = c
    BY <1>1, <1>2, <1>6
  <2>2. g = [h EXCEPT !.car[c] = v]
    BY <1>1, <1>5, <1>6, <2>1
  <2>3. IsHeap(g) /\ Owns(g, s, c, <<v>>, rest)
    BY <1>6, <2>2, Filled
  <2>4. Append(values, v) = <<v>>
    BY <1>6
  <2> QED  BY <2>3, <2>4
<1>7. CASE values # <<>>
  <2>1. h.car[end] # NoValue
    <3>1. h.car[end] = values[Len(s)] /\ values[Len(s)] \in Values
      BY <1>1, <1>2, <1>3, <1>7
    <3> QED  BY <3>1, ValuesAssumption
  <2>2. /\ IsHeap(k.heap) /\ k.at \in Pointers
        /\ h.left = 0 => k.at = Null /\ k.heap = h
        /\ h.left # 0 => /\ k.at \in Cells /\ k.at \notin h.live
                         /\ k.heap = [car |-> [h.car EXCEPT ![k.at] = NoValue],
                                       cdr |-> [h.cdr EXCEPT ![k.at] = Null],
                                       live |-> h.live \cup {k.at}, left |-> h.left - 1]
                         /\ h.left - 1 \in Nat
                         /\ h.left - 1 <= Cardinality(Cells \ (h.live \cup {k.at}))
    BY CreateFacts
  <2>3. CASE h.left = 0
    <3>1. n = k
      BY <2>2, <2>3 DEF list_cons
    <3>2. g = h
      BY <1>5, <2>1, <2>2, <2>3, <3>1
    <3> QED  BY <3>2
  <2>4. CASE h.left # 0
    <3> HIDE DEF k
    <3> DEFINE a == k.at
    <3>1. a \in Cells /\ a # Null /\ a \notin h.live
      BY <2>2, <2>4, CellsFacts
    <3>2. /\ h.car \in [Cells -> Values \cup {NoValue}] /\ h.cdr \in [Cells -> Pointers]
          /\ h.live \in SUBSET Cells
      BY HeapFacts
    <3>3. list_is_empty(k.heap, a)
      <4>1. k.heap.car[a] = NoValue /\ k.heap.cdr[a] = Null
        BY <2>2, <2>4, <3>1, <3>2
      <4> QED  BY <4>1 DEF list_is_empty
    <3>4. n = [heap |-> [k.heap EXCEPT !.car[a] = v], at |-> a]
      BY <3>1, <3>3 DEF list_cons
    <3> DEFINE f == [k.heap EXCEPT !.car[a] = v]
               car == [h.car EXCEPT ![a] = v]
               cdr == [[h.cdr EXCEPT ![a] = Null] EXCEPT ![end] = a]
    <3>5. f = [car |-> car, cdr |-> [h.cdr EXCEPT ![a] = Null], live |-> h.live \cup {a}, left |-> h.left - 1]
      <4>1. [[h.car EXCEPT ![a] = NoValue] EXCEPT ![a] = v] = car
        BY <3>1, <3>2
      <4>2. k.heap = [car |-> [h.car EXCEPT ![a] = NoValue], cdr |-> [h.cdr EXCEPT ![a] = Null],
                      live |-> h.live \cup {a}, left |-> h.left - 1]
        BY <2>2, <2>4
      <4> DEFINE blank == [h.car EXCEPT ![a] = NoValue]
                 last == [h.cdr EXCEPT ![a] = Null]
                 live == h.live \cup {a}
                 left == h.left - 1
                 filled == [blank EXCEPT ![a] = v]
      <4>3. k.heap = [car |-> blank, cdr |-> last, live |-> live, left |-> left]
        BY <4>2
      <4>4. filled = car
        BY <4>1
      <4> HIDE DEF blank, last, live, left, car
      <4>5. f = [car |-> filled, cdr |-> last, live |-> live, left |-> left]
        BY <4>3, Written
      <4>6. f = [car |-> car, cdr |-> last, live |-> live, left |-> left]
        BY <4>4, <4>5
      <4> QED  BY <4>6 DEF last, live, left
    <3>6. g = [f EXCEPT !.cdr[end] = a]
      <4>1. n.at = a /\ n.heap = f
        BY <3>4
      <4> QED  BY <1>5, <2>1, <3>1, <4>1
    <3> HIDE DEF f, a
    <3>7. g = [car |-> car, cdr |-> cdr, live |-> h.live \cup {a}, left |-> h.left - 1]
      BY <3>5, <3>6
    <3>8. car \in [Cells -> Values \cup {NoValue}] /\ cdr \in [Cells -> Pointers]
      BY <1>3, <3>1, <3>2 DEF Pointers
    <3>9. IsHeap(g) /\ g.car = car /\ g.cdr = cdr /\ g.live = h.live \cup {a}
      <4> HIDE DEF car, cdr
      <4>1. h.left - 1 \in Nat /\ h.left - 1 <= Cardinality(Cells \ (h.live \cup {a}))
        BY <2>2, <2>4 DEF a
      <4>2. h.live \cup {a} \in SUBSET Cells
        BY <3>1, <3>2
      <4> DEFINE left == h.left - 1
                 live == h.live \cup {a}
      <4>3. left \in Nat /\ left <= Cardinality(Cells \ live) /\ live \in SUBSET Cells
            /\ g = [car |-> car, cdr |-> cdr, live |-> live, left |-> left]
        BY <3>7, <4>1, <4>2
      <4> HIDE DEF left, live
      <4>4. car \in [Cells -> Values \cup {NoValue}]
        BY <3>8
      <4>5. cdr \in [Cells -> Pointers]
        BY <3>8
      <4>6. IsHeap(g) /\ g.car = car /\ g.cdr = cdr /\ g.live = live
        BY <4>3, <4>4, <4>5, HeapMade
      <4> QED  BY <4>6 DEF live
    <3>10. a \notin ToSet(s) /\ a \notin rest /\ end \in ToSet(s) /\ a # end /\ ToSet(s) \subseteq Cells
      <4>1. end \in ToSet(s) /\ ToSet(s) \subseteq Cells
        BY <1>2, <1>3, CellsFacts, LinkedInFacts
      <4> QED  BY <1>2, <3>1, <4>1
    <3>11. /\ cdr[a] = Null /\ cdr[end] = a
           /\ \A x \in ToSet(s) \ {end} : cdr[x] = h.cdr[x]
      BY <1>3, <3>1, <3>2, <3>10
    <3>12. LinkedIn(Cells, Null, g.cdr, Append(s, a), c)
      <4> HIDE DEF cdr
      <4>1. LinkedIn(Cells, Null, cdr, Append(s, a), c)
        BY <1>2, <3>1, <3>10, <3>11, CellsFacts, LinkedInEnd
      <4> QED  BY <3>9, <4>1
    <3>13. Holds(g, Append(s, a), Append(values, v))
      <4>1. /\ Len(Append(s, a)) = Len(s) + 1 /\ Append(s, a)[Len(s) + 1] = a
            /\ \A i \in 1..Len(s) : Append(s, a)[i] = s[i]
        BY <1>2, <3>1, AppendProperties
      <4>2. /\ Append(values, v) \in Seq(Values) /\ Len(Append(values, v)) = Len(s) + 1
            /\ Append(values, v)[Len(s) + 1] = v
            /\ \A i \in 1..Len(s) : Append(values, v)[i] = values[i]
        BY <1>1, <1>2, <1>7, AppendProperties
      <4>3. g.car[a] = v
        BY <3>1, <3>2, <3>9
      <4>4. \A i \in 1..Len(s) : s[i] \in ToSet(s)
        BY <1>2, CellsFacts, LinkedInFacts
      <4>5. \A i \in 1..Len(s) : g.car[s[i]] = values[i]
        BY <1>1, <1>2, <1>7, <3>2, <3>9, <3>10, <4>4
      <4>6. \A i \in 1..(Len(s) + 1) : i \in 1..Len(s) \/ i = Len(s) + 1
        BY <1>2
      <4>7. \A i \in 1..Len(Append(s, a)) : g.car[Append(s, a)[i]] = Append(values, v)[i]
        BY <4>1, <4>2, <4>3, <4>5, <4>6
      <4> QED  BY <4>1, <4>2, <4>7 DEF Holds
    <3>14. ToSet(Append(s, a)) = ToSet(s) \cup {a}
      BY <1>2, <3>1, ToSetAppend
    <3>15. Owns(g, Append(s, a), c, Append(values, v), rest)
      BY <1>2, <3>9, <3>10, <3>12, <3>13, <3>14 DEF Owns
    <3> QED  BY <3>9, <3>15
  <2> QED  BY <2>3, <2>4
<1> QED  BY <1>6, <1>7

(* list_push: either nothing happens or the value is in front.              *)
LEMMA PushFacts ==
  ASSUME NEW h, IsHeap(h), NEW s, NEW c, NEW values, NEW rest, Owns(h, s, c, values, rest),
         NEW v \in Values, NEW g, g = list_push(h, c, v)
  PROVE  /\ IsHeap(g)
         /\ \E t, new : Owns(g, t, c, new, rest) /\ new \in {values, <<v>> \o values}
<1> DEFINE k == list_create(h)
<1>1. /\ list_is_empty(h, c) <=> values = <<>>
      /\ values # <<>> => Len(values) = Len(s) /\ \A i \in 1..Len(s) : h.car[s[i]] = values[i]
  BY ListFacts
<1>2. /\ LinkedIn(Cells, Null, h.cdr, s, c) /\ h.live = ToSet(s) \cup rest /\ ToSet(s) \cap rest = {}
      /\ c \in Cells /\ s[1] = c /\ Len(s) \in Nat /\ Len(s) >= 1 /\ s \in Seq(Cells)
      /\ s \in [1..Len(s) -> Cells]
      /\ values \in Seq(Values) /\ values \in [1..Len(values) -> Values] /\ rest \subseteq Cells
  BY OwnsFacts
<1>3. CASE values = <<>>
  <2>1. g = [h EXCEPT !.car[c] = v]
    BY <1>1, <1>3 DEF list_push
  <2>2. IsHeap(g) /\ Owns(g, s, c, <<v>>, rest)
    BY <1>3, <2>1, Filled
  <2>3. <<v>> \o values = <<v>>
    BY <1>3
  <2> QED  BY <2>2, <2>3
<1>4. CASE values # <<>>
  <2>1. g = IF k.at = Null THEN h
            ELSE [k.heap EXCEPT !.car[k.at] = h.car[c], !.cdr[k.at] = h.cdr[c], !.car[c] = v, !.cdr[c] = k.at]
    BY <1>1, <1>4 DEF list_push
  <2>2. /\ IsHeap(k.heap) /\ k.at \in Pointers
        /\ h.left = 0 => k.at = Null /\ k.heap = h
        /\ h.left # 0 => /\ k.at \in Cells /\ k.at \notin h.live
                         /\ k.heap = [car |-> [h.car EXCEPT ![k.at] = NoValue],
                                       cdr |-> [h.cdr EXCEPT ![k.at] = Null],
                                       live |-> h.live \cup {k.at}, left |-> h.left - 1]
                         /\ h.left - 1 \in Nat
                         /\ h.left - 1 <= Cardinality(Cells \ (h.live \cup {k.at}))
    BY CreateFacts
  <2> HIDE DEF k
  <2>3. CASE h.left = 0
    BY <2>1, <2>2, <2>3
  <2>4. CASE h.left # 0
    <3> DEFINE a == k.at
               moved == [h.cdr EXCEPT ![a] = h.cdr[c]]
               car == [[h.car EXCEPT ![a] = h.car[c]] EXCEPT ![c] = v]
               cdr == [moved EXCEPT ![c] = a]
    <3>1. a \in Cells /\ a # Null /\ a \notin h.live
      BY <2>2, <2>4, CellsFacts
    <3>2. /\ h.car \in [Cells -> Values \cup {NoValue}] /\ h.cdr \in [Cells -> Pointers]
          /\ h.live \in SUBSET Cells
      BY HeapFacts
    <3> DEFINE h1 == [k.heap EXCEPT !.car[a] = h.car[c]]
               h2 == [h1 EXCEPT !.cdr[a] = h.cdr[c]]
               h3 == [h2 EXCEPT !.car[c] = v]
    <3>3. h1 = [car |-> [h.car EXCEPT ![a] = h.car[c]], cdr |-> [h.cdr EXCEPT ![a] = Null],
                live |-> h.live \cup {a}, left |-> h.left - 1]
      <4>1. [[h.car EXCEPT ![a] = NoValue] EXCEPT ![a] = h.car[c]] = [h.car EXCEPT ![a] = h.car[c]]
        BY <3>1, <3>2
      <4>2. k.heap = [car |-> [h.car EXCEPT ![a] = NoValue], cdr |-> [h.cdr EXCEPT ![a] = Null],
                      live |-> h.live \cup {a}, left |-> h.left - 1]
        BY <2>2, <2>4
      <4> QED  BY <4>1, <4>2, Written
    <3>4. [[h.cdr EXCEPT ![a] = Null] EXCEPT ![a] = h.cdr[c]] = moved
      BY <3>1, <3>2
    <3>5. g = [h3 EXCEPT !.cdr[c] = a]
      BY <2>1, <3>1
    <3> HIDE DEF h1, a
    <3>6. h2 = [car |-> [h.car EXCEPT ![a] = h.car[c]], cdr |-> moved,
                live |-> h.live \cup {a}, left |-> h.left - 1]
      BY <3>3, <3>4
    <3> HIDE DEF h2
    <3>7. h3 = [car |-> car, cdr |-> moved, live |-> h.live \cup {a}, left |-> h.left - 1]
      BY <3>6
    <3> HIDE DEF h3
    <3>8. g = [car |-> car, cdr |-> cdr, live |-> h.live \cup {a}, left |-> h.left - 1]
      BY <3>5, <3>7
    <3>9. car \in [Cells -> Values \cup {NoValue}] /\ cdr \in [Cells -> Pointers] /\ moved \in [Cells -> Pointers]
      BY <1>2, <3>1, <3>2 DEF Pointers
    <3>10. IsHeap(g) /\ g.car = car /\ g.cdr = cdr /\ g.live = h.live \cup {a}
      <4> HIDE DEF car, cdr
      <4>1. h.left - 1 \in Nat /\ h.left - 1 <= Cardinality(Cells \ (h.live \cup {a}))
        BY <2>2, <2>4 DEF a
      <4>2. h.live \cup {a} \in SUBSET Cells
        BY <3>1, <3>2
      <4> DEFINE left == h.left - 1
                 live == h.live \cup {a}
      <4>3. left \in Nat /\ left <= Cardinality(Cells \ live) /\ live \in SUBSET Cells
            /\ g = [car |-> car, cdr |-> cdr, live |-> live, left |-> left]
        BY <3>8, <4>1, <4>2
      <4> HIDE DEF left, live
      <4>4. IsHeap(g) /\ g.car = car /\ g.cdr = cdr /\ g.live = live
        BY <3>9, <4>3, HeapMade
      <4> QED  BY <4>4 DEF live
    <3>11. a \notin ToSet(s) /\ a \notin rest /\ c \in ToSet(s) /\ a # c /\ ToSet(s) \subseteq Cells
           /\ \A i \in 1..Len(s) : s[i] \in ToSet(s)
      <4>1. c \in ToSet(s) /\ ToSet(s) \subseteq Cells /\ \A i \in 1..Len(s) : s[i] \in ToSet(s)
        BY <1>2, CellsFacts, LinkedInFacts
      <4> QED  BY <1>2, <3>1, <4>1
    <3>12. LinkedIn(Cells, Null, moved, s, c)
      <4>1. h.cdr \in [Cells -> Cells \cup {Null}]
        BY <3>2 DEF Pointers
      <4> QED  BY <1>2, <3>1, <3>11, <4>1, CellsFacts, LinkedInElsewhere
    <3>13. /\ moved[a] = moved[c] /\ cdr[c] = a
           /\ \A d \in Cells \ {c} : cdr[d] = moved[d]
      BY <1>2, <3>1, <3>2, <3>9, <3>11
    <3> HIDE DEF moved, cdr
    <3>14. /\ LinkedIn(Cells, Null, g.cdr, Inserted(s, a), c)
           /\ Len(Inserted(s, a)) = Len(s) + 1
           /\ ToSet(Inserted(s, a)) = ToSet(s) \cup {a}
      <4>1. moved \in [Cells -> Cells \cup {Null}]
        BY <3>9 DEF Pointers
      <4>2. /\ LinkedIn(Cells, Null, cdr, Inserted(s, a), c)
            /\ Len(Inserted(s, a)) = Len(s) + 1
            /\ ToSet(Inserted(s, a)) = ToSet(s) \cup {a}
        BY <3>1, <3>11, <3>12, <3>13, <4>1, CellsFacts, LinkedInInserted
      <4> QED  BY <3>10, <4>2
    <3>15. Holds(g, Inserted(s, a), <<v>> \o values)
      <4> DEFINE t == Inserted(s, a)
                 new == <<v>> \o values
      <4>1. /\ new \in Seq(Values) /\ Len(new) = Len(s) + 1 /\ new[1] = v
            /\ \A j \in 1..Len(s) : new[j + 1] = values[j]
        BY <1>1, <1>2, <1>4, FrontEntries
      <4>2. t[1] = c /\ t[2] = a /\ \A i \in 3..(Len(s) + 1) : t[i] = s[i - 1]
        BY <1>2 DEF Inserted
      <4> HIDE DEF t, new
      <4>3. g.car[c] = v /\ g.car[a] = h.car[c] /\ \A x \in ToSet(s) \ {c} : g.car[x] = h.car[x]
        BY <1>2, <3>1, <3>2, <3>10, <3>11
      <4>4. ASSUME NEW i \in 1..(Len(s) + 1) PROVE g.car[t[i]] = new[i]
        <5>1. CASE i = 1
          BY <4>1, <4>2, <4>3, <5>1
        <5>2. CASE i = 2
          <6>1. 1 \in 1..Len(s) /\ 1 + 1 = 2
            BY <1>2
          <6>2. new[2] = values[1] /\ h.car[c] = values[1]
            BY <1>1, <1>2, <1>4, <4>1, <6>1
          <6> QED  BY <4>2, <4>3, <5>2, <6>2
        <5>3. CASE i \in 3..(Len(s) + 1)
          <6>1. i - 1 \in 1..Len(s) /\ (i - 1) + 1 = i /\ 1 \in 1..Len(s) /\ i - 1 # 1
            BY <1>2, <5>3
          <6>2. t[i] = s[i - 1] /\ new[i] = values[i - 1]
            BY <4>1, <4>2, <5>3, <6>1
          <6>3. s[i - 1] # c
            <7>1. \A p, q \in 1..Len(s) : s[p] = s[q] => p = q
              BY <1>2, CellsFacts, LinkedInFacts
            <7> QED  BY <1>2, <6>1, <7>1
          <6> QED  BY <1>1, <1>4, <3>11, <4>3, <6>1, <6>2, <6>3
        <5>4. i = 1 \/ i = 2 \/ i \in 3..(Len(s) + 1)
          BY <1>2
        <5> QED  BY <5>1, <5>2, <5>3, <5>4
      <4> QED  BY <3>14, <4>1, <4>4 DEF Holds, t, new
    <3>16. Owns(g, Inserted(s, a), c, <<v>> \o values, rest)
      BY <1>2, <3>10, <3>11, <3>14, <3>15 DEF Owns
    <3> QED  BY <3>10, <3>16
  <2> QED  BY <2>3, <2>4
<1> QED  BY <1>3, <1>4

(* free() gives cells back.                                                 *)
LEMMA FreeFacts ==
  ASSUME NEW h, IsHeap(h), NEW cells, NEW g, g = FreeCells(h, cells)
  PROVE  /\ IsHeap(g)
         /\ g.live = h.live \ cells
         /\ g.car = [c \in Cells |-> IF c \in cells THEN NoValue ELSE h.car[c]]
         /\ g.cdr = [c \in Cells |-> IF c \in cells THEN Null ELSE h.cdr[c]]
<1> DEFINE car == [c \in Cells |-> IF c \in cells THEN NoValue ELSE h.car[c]]
           cdr == [c \in Cells |-> IF c \in cells THEN Null ELSE h.cdr[c]]
           live == h.live \ cells
           left == h.left
<1>1. /\ h.car \in [Cells -> Values \cup {NoValue}] /\ h.cdr \in [Cells -> Pointers]
      /\ h.live \in SUBSET Cells /\ left \in Nat /\ left <= Cardinality(Cells \ h.live)
      /\ h = [car |-> h.car, cdr |-> h.cdr, live |-> h.live, left |-> h.left]
  BY HeapFacts
<1>2. g = [car |-> car, cdr |-> cdr, live |-> live, left |-> left]
  BY <1>1 DEF FreeCells
<1>3. car \in [Cells -> Values \cup {NoValue}]
  BY <1>1
<1>4. cdr \in [Cells -> Pointers]
  BY <1>1 DEF Pointers
<1>5. live \in SUBSET Cells
  BY <1>1
<1>6. left <= Cardinality(Cells \ live)
  <2> DEFINE before == Cells \ h.live
             after == Cells \ live
  <2>1. IsFiniteSet(after) /\ before \subseteq after
    BY CellsFacts, FS_Subset
  <2> HIDE DEF before, after
  <2>2. Cardinality(before) <= Cardinality(after) /\ Cardinality(before) \in Nat /\ Cardinality(after) \in Nat
    BY <2>1, FS_Subset, FS_CardinalityType
  <2>3. left <= Cardinality(before)
    BY <1>1 DEF before
  <2>4. left <= Cardinality(after)
    BY <1>1, <2>2, <2>3
  <2> QED  BY <2>4 DEF after
<1> HIDE DEF car, cdr, live, left
<1>7. left \in Nat
  BY <1>1
<1>8. IsHeap(g) /\ g.car = car /\ g.cdr = cdr /\ g.live = live
  BY <1>2, <1>3, <1>4, <1>5, <1>6, <1>7, HeapMade
<1> QED  BY <1>8 DEF car, cdr, live

(* A list of several cells loses one behind the first.                      *)
Loses(g, h, s, k, new) ==
  /\ new \in Seq(Values) /\ Len(new) = Len(s) - 1
  /\ g.live = h.live \ {s[k]}
  /\ g.cdr[s[k - 1]] = h.cdr[s[k]]
  /\ \A x \in Cells \ {s[k - 1], s[k]} : g.cdr[x] = h.cdr[x]
  /\ \A i \in 1..(Len(s) - 1) : g.car[Without(s, k)[i]] = new[i]

(* The rest of it is the same list without that value.                     *)
LEMMA Shortened ==
  ASSUME NEW h, IsHeap(h), NEW s, NEW c, NEW values, NEW rest, Owns(h, s, c, values, rest),
         NEW k \in 2..Len(s), NEW g, NEW new, Loses(g, h, s, k, new)
  PROVE  Owns(g, Without(s, k), c, new, rest)
<1>1. /\ LinkedIn(Cells, Null, h.cdr, s, c) /\ h.live = ToSet(s) \cup rest /\ ToSet(s) \cap rest = {}
      /\ Len(s) \in Nat /\ s \in [1..Len(s) -> Cells] /\ rest \subseteq Cells
  BY OwnsFacts
<1> DEFINE mid == [h.cdr EXCEPT ![s[k - 1]] = h.cdr[s[k]]]
<1>2. h.cdr \in [Cells -> Cells \cup {Null}]
  BY HeapFacts DEF Pointers
<1>3. k - 1 \in 1..Len(s) /\ k \in 1..Len(s) /\ k \in Nat
  BY <1>1
<1>4. s[k - 1] \in Cells /\ s[k] \in Cells /\ s[k] \in ToSet(s) /\ ToSet(s) \subseteq Cells
  BY <1>1, <1>3, CellsFacts, LinkedInFacts
<1>5. mid[s[k - 1]] = h.cdr[s[k]] /\ \A d \in Cells \ {s[k - 1]} : mid[d] = h.cdr[d]
  BY <1>2, <1>4
<1>51. Skips(Cells, mid, h.cdr, s, k)
  BY <1>5 DEF Skips
<1> HIDE DEF mid
<1>6. /\ LinkedIn(Cells, Null, mid, Without(s, k), c)
      /\ Len(Without(s, k)) = Len(s) - 1
      /\ ToSet(Without(s, k)) = ToSet(s) \ {s[k]}
  <2>1. LinkedIn(Cells, Null, h.cdr, s, c)
    BY <1>1
  <2>2. Null \notin Cells
    BY CellsFacts
  <2> QED  BY <1>2, <1>51, <2>1, <2>2, LinkedInWithout
<1>7. \A x \in ToSet(Without(s, k)) : g.cdr[x] = mid[x]
  <2> SUFFICES ASSUME NEW x \in ToSet(s) \ {s[k]} PROVE g.cdr[x] = mid[x]
    BY <1>6
  <2>1. CASE x = s[k - 1]
    BY <1>5, <2>1 DEF Loses
  <2>2. CASE x # s[k - 1]
    BY <1>4, <1>5, <2>2 DEF Loses
  <2> QED  BY <2>1, <2>2
<1>8. LinkedIn(Cells, Null, g.cdr, Without(s, k), c)
  BY <1>6, <1>7, CellsFacts, LinkedInFrame
<1>9. Holds(g, Without(s, k), new)
  BY <1>6 DEF Holds, Loses
<1>10. g.live = ToSet(Without(s, k)) \cup rest /\ ToSet(Without(s, k)) \cap rest = {}
  BY <1>1, <1>4, <1>6 DEF Loses
<1> QED  BY <1>8, <1>9, <1>10 DEF Owns

(* list_pop: the first value, if there is one, is taken out and returned.   *)
LEMMA PopFacts ==
  ASSUME NEW h, IsHeap(h), NEW s, NEW c, NEW values, NEW rest, Owns(h, s, c, values, rest),
         NEW r, r = list_pop(h, c)
  PROVE  /\ values = <<>> => r.heap = h /\ r.ret = NoValue
         /\ values # <<>> => /\ IsHeap(r.heap) /\ r.ret = values[1]
                             /\ \E t : Owns(r.heap, t, c, RemoveAt(values, 1), rest)
<1>1. /\ list_is_empty(h, c) <=> values = <<>>
      /\ values # <<>> => Len(values) = Len(s) /\ \A i \in 1..Len(s) : h.car[s[i]] = values[i]
      /\ c # Null
  BY ListFacts
<1>2. CASE values = <<>>
  <2>1. r = [heap |-> h, ret |-> NoValue]
    BY <1>1, <1>2 DEF list_pop
  <2> QED  BY <1>2, <2>1
<1>3. CASE values # <<>>
  <2> DEFINE n == h.cdr[c]
             one == [h EXCEPT !.car[c] = NoValue]
             two == [h EXCEPT !.car[c] = h.car[n], !.cdr[c] = h.cdr[n]]
  <2>1. /\ r.ret = h.car[c]
        /\ r.heap = IF n = Null THEN one ELSE FreeCells(two, {n})
    BY <1>1, <1>3 DEF list_pop, list_cdr
  <2>2. /\ LinkedIn(Cells, Null, h.cdr, s, c) /\ h.live = ToSet(s) \cup rest /\ ToSet(s) \cap rest = {}
        /\ c \in Cells /\ s[1] = c /\ Len(s) \in Nat /\ Len(s) >= 1 /\ s \in Seq(Cells)
        /\ s \in [1..Len(s) -> Cells] /\ values \in Seq(Values) /\ rest \subseteq Cells
    BY OwnsFacts
  <2>3. /\ n = Null <=> Len(s) = 1
        /\ Len(s) >= 2 => n = s[2]
        /\ \A i, j \in 1..Len(s) : s[i] = s[j] => i = j
    <3>1. (n = Null <=> Len(s) = 1) /\ (Len(s) >= 2 => n = s[2])
      BY <2>2, CellsFacts, LinkedInFacts
    <3>2. \A i, j \in 1..Len(s) : s[i] = s[j] => i = j
      BY <2>2, CellsFacts, LinkedInFacts
    <3> QED  BY <3>1, <3>2
  <2>4. /\ h.car \in [Cells -> Values \cup {NoValue}] /\ h.cdr \in [Cells -> Pointers]
        /\ h.live \in SUBSET Cells /\ h.left \in Nat /\ h.left <= Cardinality(Cells \ h.live)
        /\ h = [car |-> h.car, cdr |-> h.cdr, live |-> h.live, left |-> h.left]
    BY HeapFacts
  <2>5. 1 \in 1..Len(s) /\ h.car[c] = values[1]
    BY <1>1, <1>3, <2>2
  <2>6. /\ RemoveAt(values, 1) \in Seq(Values) /\ Len(RemoveAt(values, 1)) = Len(s) - 1
        /\ \A j \in 1..(Len(s) - 1) : RemoveAt(values, 1)[j] = values[j + 1]
    <3>1. 1 \in 1..Len(values) /\ \A j \in 1..(Len(s) - 1) : ~(j < 1)
      BY <1>1, <1>3, <2>5
    <3>2. /\ RemoveAt(values, 1) \in Seq(Values) /\ Len(RemoveAt(values, 1)) = Len(values) - 1
          /\ \A j \in 1..(Len(values) - 1) : RemoveAt(values, 1)[j] = IF j < 1 THEN values[j] ELSE values[j + 1]
      BY <2>2, <3>1, RemoveAtEntries
    <3> QED  BY <1>1, <1>3, <3>1, <3>2
  <2>7. CASE n = Null
    <3> DEFINE car == [h.car EXCEPT ![c] = NoValue]
    <3>1. car \in [Cells -> Values \cup {NoValue}] /\ car[c] = NoValue
      BY <2>2, <2>4
    <3>2. r.heap = [car |-> car, cdr |-> h.cdr, live |-> h.live, left |-> h.left]
      BY <2>1, <2>4, <2>7
    <3> HIDE DEF car
    <3>3. IsHeap(r.heap) /\ r.heap.car = car /\ r.heap.cdr = h.cdr /\ r.heap.live = h.live
      BY <2>4, <3>1, <3>2, HeapMade
    <3>4. RemoveAt(values, 1) = <<>>
      BY <2>3, <2>6, <2>7, EmptySeq
    <3>5. Holds(r.heap, s, <<>>)
      <4>1. Len(s) = 1 /\ r.heap.car[s[1]] = NoValue
        BY <2>2, <2>3, <2>7, <3>1, <3>3
      <4> QED  BY <4>1, EmptySeq DEF Holds
    <3>6. Owns(r.heap, s, c, RemoveAt(values, 1), rest)
      BY <2>2, <3>3, <3>4, <3>5 DEF Owns
    <3> QED  BY <1>3, <2>1, <2>5, <3>3, <3>6
  <2>8. CASE n # Null
    <3> DEFINE car == [h.car EXCEPT ![c] = h.car[n]]
               cdr == [h.cdr EXCEPT ![c] = h.cdr[n]]
    <3>1. n = s[2] /\ Len(s) >= 2 /\ 2 \in 1..Len(s) /\ n \in Cells /\ n # c
      BY <2>2, <2>3, <2>5, <2>8
    <3>2. two = [car |-> car, cdr |-> cdr, live |-> h.live, left |-> h.left]
      <4> DEFINE a == [h EXCEPT !.car[c] = h.car[n]]
      <4>1. a = [car |-> car, cdr |-> h.cdr, live |-> h.live, left |-> h.left]
        BY <2>4, Written
      <4>2. two = [a EXCEPT !.cdr[c] = h.cdr[n]]
        OBVIOUS
      <4> HIDE DEF a, two, n
      <4> QED  BY <4>1, <4>2
    <3>3. car \in [Cells -> Values \cup {NoValue}]
      BY <2>4, <3>1
    <3>4. cdr \in [Cells -> Pointers]
      BY <2>4, <3>1
    <3>5. /\ car[c] = h.car[n] /\ \A x \in Cells : x # c => car[x] = h.car[x]
          /\ cdr[c] = h.cdr[n] /\ \A x \in Cells : x # c => cdr[x] = h.cdr[x]
      BY <2>2, <2>4
    <3> HIDE DEF two, car, cdr
    <3>6. IsHeap(two) /\ two.car = car /\ two.cdr = cdr /\ two.live = h.live
      BY <2>4, <3>2, <3>3, <3>4, HeapMade
    <3>7. /\ IsHeap(r.heap) /\ r.heap.live = h.live \ {n}
          /\ r.heap.car = [x \in Cells |-> IF x \in {n} THEN NoValue ELSE car[x]]
          /\ r.heap.cdr = [x \in Cells |-> IF x \in {n} THEN Null ELSE cdr[x]]
      <4>1. r.heap = FreeCells(two, {n})
        BY <2>1, <2>8
      <4> QED  BY <3>6, <4>1, FreeFacts
    <3>8. \A x \in Cells : x # n => r.heap.car[x] = car[x] /\ r.heap.cdr[x] = cdr[x]
      BY <3>7
    <3>9. \A i \in 1..(Len(s) - 1) : Without(s, 2)[i] = IF i < 2 THEN s[i] ELSE s[i + 1]
      BY DEF Without
    <3>10. ASSUME NEW i \in 1..(Len(s) - 1)
           PROVE  r.heap.car[Without(s, 2)[i]] = RemoveAt(values, 1)[i]
      <4>1. CASE i = 1
        <5>1. Without(s, 2)[i] = c /\ RemoveAt(values, 1)[i] = values[1 + 1]
          BY <2>2, <2>6, <3>9, <4>1
        <5>2. h.car[n] = values[2]
          BY <1>1, <1>3, <3>1
        <5> QED  BY <2>2, <3>1, <3>5, <3>8, <5>1, <5>2
      <4>2. CASE i # 1
        <5>1. i + 1 \in 1..Len(s) /\ i + 1 # 1 /\ i + 1 # 2
          BY <2>2, <4>2
        <5>2. Without(s, 2)[i] = s[i + 1] /\ RemoveAt(values, 1)[i] = values[i + 1]
          BY <2>2, <2>6, <3>9, <4>2
        <5>3. s[i + 1] \in Cells /\ s[i + 1] # c /\ s[i + 1] # n
          BY <2>2, <2>3, <2>5, <3>1, <5>1
        <5> QED  BY <1>1, <1>3, <3>5, <3>8, <5>1, <5>2, <5>3
      <4> QED  BY <4>1, <4>2
    <3>11. /\ r.heap.cdr[s[2 - 1]] = h.cdr[s[2]]
           /\ \A x \in Cells \ {s[2 - 1], s[2]} : r.heap.cdr[x] = h.cdr[x]
      BY <2>2, <3>1, <3>5, <3>8
    <3>12. 2 \in 2..Len(s) /\ r.heap.live = h.live \ {s[2]}
      BY <2>2, <3>1, <3>7
    <3>13. Loses(r.heap, h, s, 2, RemoveAt(values, 1))
      BY <2>6, <3>10, <3>11, <3>12 DEF Loses
    <3>14. Owns(r.heap, Without(s, 2), c, RemoveAt(values, 1), rest)
      BY <3>12, <3>13, Shortened
    <3> QED  BY <1>3, <2>1, <2>5, <3>7, <3>14
  <2> QED  BY <2>7, <2>8
<1> QED  BY <1>2, <1>3

(* list_remove does so with any entry.                                      *)
LEMMA RemoveFacts ==
  ASSUME NEW h, IsHeap(h), NEW s, NEW c, NEW values, NEW rest, Owns(h, s, c, values, rest),
         NEW index \in Int, NEW r, r = list_remove(h, c, index)
  PROVE  /\ index \notin 0..(Len(values) - 1) => r.heap = h /\ r.ret = NoValue
         /\ index \in 0..(Len(values) - 1) =>
              /\ IsHeap(r.heap) /\ r.ret = values[index + 1]
              /\ \E t : Owns(r.heap, t, c, RemoveAt(values, index + 1), rest)
<1>1. /\ list_size(h, c) = Len(values)
      /\ values # <<>> => Len(values) = Len(s) /\ \A i \in 1..Len(s) : h.car[s[i]] = values[i]
      /\ CellsFrom(h, c) = s
  BY ListFacts
<1>2. /\ LinkedIn(Cells, Null, h.cdr, s, c) /\ s[1] = c /\ Len(s) \in Nat /\ Len(s) >= 1 /\ s \in Seq(Cells)
      /\ s \in [1..Len(s) -> Cells] /\ values \in Seq(Values) /\ Len(values) \in Nat
  BY OwnsFacts
<1>3. values = <<>> <=> Len(values) = 0
  BY <1>2, EmptySeq
<1> DEFINE prev == s[index]
           target == h.cdr[prev]
           linked == [h EXCEPT !.cdr[prev] = h.cdr[target]]
<1>4. OutOfBounds(h, c, index) <=> index < 0 \/ index > Len(values)
  BY <1>1 DEF OutOfBounds
<1>5. r = IF OutOfBounds(h, c, index) THEN [heap |-> h, ret |-> NoValue]
          ELSE IF index = 0 THEN list_pop(h, c)
          ELSE IF target = Null THEN [heap |-> h, ret |-> NoValue]
          ELSE [heap |-> FreeCells(linked, {target}), ret |-> h.car[target]]
  BY <1>1 DEF list_remove
<1>6. CASE OutOfBounds(h, c, index)
  <2>1. index \notin 0..(Len(values) - 1)
    BY <1>2, <1>4, <1>6
  <2> QED  BY <1>5, <1>6, <2>1
<1>7. CASE ~OutOfBounds(h, c, index) /\ index = 0
  <2>1. r = list_pop(h, c)
    BY <1>5, <1>7
  <2>2. CASE values = <<>>
    <3>1. r.heap = h /\ r.ret = NoValue
      BY <2>1, <2>2, PopFacts
    <3>2. index \notin 0..(Len(values) - 1)
      BY <1>3, <1>7, <2>2
    <3> QED  BY <3>1, <3>2
  <2>3. CASE values # <<>>
    <3>1. /\ IsHeap(r.heap) /\ r.ret = values[1]
          /\ \E t : Owns(r.heap, t, c, RemoveAt(values, 1), rest)
      BY <2>1, <2>3, PopFacts
    <3>2. index \in 0..(Len(values) - 1) /\ index + 1 = 1
      BY <1>2, <1>3, <1>7, <2>3
    <3> QED  BY <3>1, <3>2
  <2> QED  BY <2>2, <2>3
<1>8. CASE ~OutOfBounds(h, c, index) /\ index # 0
  <2>1. index \in 1..Len(s) /\ values # <<>> /\ Len(values) = Len(s)
    BY <1>1, <1>2, <1>3, <1>4, <1>8
  <2>2. CASE index = Len(s)
    <3>1. target = Null
      BY <1>2, <2>2, CellsFacts, LinkedInFacts
    <3>2. index \notin 0..(Len(values) - 1)
      BY <1>2, <2>1, <2>2
    <3> QED  BY <1>5, <1>8, <3>1, <3>2
  <2>3. CASE index # Len(s)
    <3> DEFINE k == index + 1
    <3>1. index \in 1..(Len(s) - 1) /\ k \in 2..Len(s) /\ k \in 1..Len(s) /\ k - 1 = index
      <4>1. Len(s) \in Nat /\ index \in 1..Len(s)
        BY <1>2, <2>1
      <4> QED  BY <2>3, <4>1
    <3>2. target = s[k]
      BY <1>2, <3>1, CellsFacts, LinkedInFacts
    <3>3. /\ target \in Cells /\ target # Null /\ prev \in Cells /\ prev # target
          /\ \A i, j \in 1..Len(s) : s[i] = s[j] => i = j
      <4>1. \A i, j \in 1..Len(s) : s[i] = s[j] => i = j
        BY <1>2, CellsFacts, LinkedInFacts
      <4>2. k # index
        BY <3>1
      <4>3. s[k] \in Cells /\ s[index] \in Cells /\ s[k] # s[index]
        BY <1>2, <2>1, <3>1, <4>1, <4>2
      <4>4. s[k] # Null
        BY <4>3, CellsFacts
      <4> QED  BY <3>2, <4>1, <4>3, <4>4
    <3>4. r.heap = FreeCells(linked, {target}) /\ r.ret = h.car[target]
      BY <1>5, <1>8, <3>3
    <3>5. /\ h.car \in [Cells -> Values \cup {NoValue}] /\ h.cdr \in [Cells -> Pointers]
          /\ h.live \in SUBSET Cells /\ h.left \in Nat /\ h.left <= Cardinality(Cells \ h.live)
          /\ h = [car |-> h.car, cdr |-> h.cdr, live |-> h.live, left |-> h.left]
      BY HeapFacts
    <3> DEFINE cdr == [h.cdr EXCEPT ![prev] = h.cdr[target]]
    <3>6. linked = [car |-> h.car, cdr |-> cdr, live |-> h.live, left |-> h.left]
      BY <3>5, Written
    <3>7. /\ cdr \in [Cells -> Pointers] /\ cdr[prev] = h.cdr[target]
          /\ \A x \in Cells : x # prev => cdr[x] = h.cdr[x]
      BY <3>3, <3>5
    <3> HIDE DEF linked, cdr, prev, target, k
    <3>8. IsHeap(linked) /\ linked.car = h.car /\ linked.cdr = cdr /\ linked.live = h.live
      BY <3>5, <3>6, <3>7, HeapMade
    <3>9. /\ IsHeap(r.heap) /\ r.heap.live = h.live \ {target}
          /\ r.heap.car = [x \in Cells |-> IF x \in {target} THEN NoValue ELSE h.car[x]]
          /\ r.heap.cdr = [x \in Cells |-> IF x \in {target} THEN Null ELSE cdr[x]]
      BY <3>4, <3>8, FreeFacts
    <3>10. \A x \in Cells : x # target => r.heap.car[x] = h.car[x] /\ r.heap.cdr[x] = cdr[x]
      BY <3>9
    <3>11. prev = s[k - 1]
      BY <3>1 DEF prev
    <3>12. /\ RemoveAt(values, k) \in Seq(Values) /\ Len(RemoveAt(values, k)) = Len(s) - 1
           /\ \A j \in 1..(Len(s) - 1) : RemoveAt(values, k)[j] = IF j < k THEN values[j] ELSE values[j + 1]
      BY <1>2, <2>1, <3>1, RemoveAtEntries
    <3>13. \A i \in 1..(Len(s) - 1) : Without(s, k)[i] = IF i < k THEN s[i] ELSE s[i + 1]
      BY DEF Without
    <3>14. ASSUME NEW i \in 1..(Len(s) - 1)
           PROVE  r.heap.car[Without(s, k)[i]] = RemoveAt(values, k)[i]
      <4> DEFINE p == IF i < k THEN i ELSE i + 1
      <4>1. p \in 1..Len(s) /\ p # k
        BY <1>2, <3>1
      <4>2. Without(s, k)[i] = s[p] /\ RemoveAt(values, k)[i] = values[p]
        BY <3>12, <3>13
      <4> HIDE DEF p
      <4>3. s[p] \in Cells /\ s[p] # target
        BY <1>2, <3>1, <3>2, <3>3, <4>1
      <4> QED  BY <1>1, <2>1, <3>10, <4>1, <4>2, <4>3
    <3>15. /\ r.heap.cdr[s[k - 1]] = h.cdr[s[k]]
           /\ \A x \in Cells \ {s[k - 1], s[k]} : r.heap.cdr[x] = h.cdr[x]
      BY <3>2, <3>3, <3>7, <3>10, <3>11
    <3>16. Owns(r.heap, Without(s, k), c, RemoveAt(values, k), rest)
      <4>1. Loses(r.heap, h, s, k, RemoveAt(values, k))
        BY <3>2, <3>9, <3>12, <3>14, <3>15 DEF Loses
      <4> QED  BY <3>1, <4>1, Shortened
    <3>17. r.ret = values[k]
      BY <1>1, <2>1, <3>1, <3>2, <3>4
    <3> QED  BY <1>2, <2>1, <3>1, <3>9, <3>16, <3>17 DEF k
  <2> QED  BY <2>2, <2>3
<1> QED  BY <1>6, <1>7, <1>8

(* list_destroy gives the cells of a list back, and those of no other.      *)
LEMMA DestroyFacts ==
  ASSUME NEW h, IsHeap(h), NEW s, NEW c, NEW values, NEW rest, Owns(h, s, c, values, rest),
         NEW g, g = list_destroy(h, c)
  PROVE  IsHeap(g) /\ g.live = rest /\ Same(g, h, rest)
<1>1. CellsFrom(h, c) = s
  BY ListFacts
<1>2. h.live = ToSet(s) \cup rest /\ ToSet(s) \cap rest = {} /\ rest \subseteq Cells
  BY OwnsFacts
<1>3. g = FreeCells(h, ToSet(s))
  BY <1>1 DEF list_destroy
<1>4. /\ IsHeap(g) /\ g.live = h.live \ ToSet(s)
      /\ g.car = [x \in Cells |-> IF x \in ToSet(s) THEN NoValue ELSE h.car[x]]
      /\ g.cdr = [x \in Cells |-> IF x \in ToSet(s) THEN Null ELSE h.cdr[x]]
  BY <1>3, FreeFacts
<1>5. Same(g, h, rest)
  <2> SUFFICES ASSUME NEW x \in rest PROVE g.car[x] = h.car[x] /\ g.cdr[x] = h.cdr[x]
    BY DEF Same
  <2>1. x \in Cells /\ x \notin ToSet(s)
    BY <1>2
  <2> QED  BY <1>4, <2>1
<1>6. g.live = rest
  BY <1>2, <1>4
<1> QED  BY <1>4, <1>5, <1>6

(* There is nothing to give back of no list.                                *)
LEMMA DestroyNothing ==
  ASSUME NEW h, IsHeap(h), NEW g, g = list_destroy(h, Null)
  PROVE  IsHeap(g) /\ g.live = h.live /\ Same(g, h, Cells)
<1>1. CellsFrom(h, Null) = <<>>
  BY CellsFacts DEF CellsFrom, Chain
<1> DEFINE none == ToSet(CellsFrom(h, Null))
<1>2. none = {}
  BY <1>1 DEF ToSet
<1>3. g = FreeCells(h, none)
  BY DEF list_destroy
<1> HIDE DEF none
<1>4. /\ IsHeap(g) /\ g.live = h.live \ none
      /\ g.car = [x \in Cells |-> IF x \in none THEN NoValue ELSE h.car[x]]
      /\ g.cdr = [x \in Cells |-> IF x \in none THEN Null ELSE h.cdr[x]]
  BY <1>3, FreeFacts
<1> QED  BY <1>2, <1>4 DEF Same

(* The loop of list_filter and list_map so far, which began with the heap h *)
(* and has put these values in front of one another.                        *)
Loops == [heap : [car : [Cells -> Values \cup {NoValue}], cdr : [Cells -> Pointers],
                  live : SUBSET Cells, left : Nat],
          at : Pointers, acc : Pointers]

Loop(x, h, values) ==
  /\ x \in Loops /\ IsHeap(x.heap)
  /\ Same(x.heap, h, h.live)
  /\ \/ /\ x.at # Null /\ x.acc = x.at
        /\ \E t : Owns(x.heap, t, x.at, values, h.live)
     \/ x.at = Null /\ x.acc = Null /\ x.heap.live = h.live
     \/ /\ x.at = Null /\ x.acc # Null
        /\ \E t, some : Owns(x.heap, t, x.acc, some, h.live)

(* One round of the loop maintains that.                                   *)
LEMMA CollectedFacts ==
  ASSUME NEW h, IsHeap(h), NEW x, NEW values, Loop(x, h, values), NEW v \in Values, NEW keep,
         NEW y, y = Collected(x, v, keep)
  PROVE  /\ v \in keep => Loop(y, h, <<v>> \o values)
         /\ v \notin keep => Loop(y, h, values)
<1>1. CASE v \notin keep
  BY <1>1 DEF Collected
<1>2. CASE v \in keep /\ x.at = Null
  <2>1. y = x
    BY <1>2 DEF Collected
  <2> QED  BY <1>2, <2>1 DEF Loop
<1>3. CASE v \in keep /\ x.at # Null
  <2> DEFINE k == list_cons(x.heap, v, x.at)
  <2>1. y = [heap |-> k.heap, at |-> k.at, acc |-> IF k.at = Null THEN x.at ELSE k.at]
    BY <1>3 DEF Collected
  <2>2. PICK s : Owns(x.heap, s, x.at, values, h.live)
    BY <1>3 DEF Loop
  <2>3. IsHeap(x.heap) /\ Same(x.heap, h, h.live) /\ x \in Loops
    BY DEF Loop
  <2>4. /\ IsHeap(k.heap)
        /\ \/ k.at = Null /\ k.heap = x.heap
           \/ /\ k.at # Null /\ Same(k.heap, x.heap, h.live)
              /\ \E t : Owns(k.heap, t, k.at, <<v>> \o values, h.live)
    BY <2>2, <2>3, ConsFacts
  <2> HIDE DEF k
  <2>5. x.at \in Pointers
    BY <2>3 DEF Loops
  <2>6. CASE k.at = Null
    <3>1. y.heap = x.heap /\ y.at = Null /\ y.acc = x.at
      BY <2>1, <2>4, <2>6
    <3>2. y \in Loops
      BY <2>1, <2>4, <2>5, <2>6 DEF Loops, IsHeap, Pointers
    <3> QED  BY <1>3, <2>2, <2>3, <3>1, <3>2 DEF Loop
  <2>7. CASE k.at # Null
    <3>1. y.heap = k.heap /\ y.at = k.at /\ y.acc = k.at
      BY <2>1, <2>7
    <3>2. PICK t : Owns(k.heap, t, k.at, <<v>> \o values, h.live)
      BY <2>4, <2>7
    <3>3. k.at \in Pointers
      BY <2>4, <3>2, OwnsFacts DEF Pointers
    <3>4. y \in Loops
      BY <2>1, <2>4, <2>7, <3>3 DEF Loops, IsHeap
    <3>5. Same(k.heap, h, h.live)
      BY <2>3, <2>4, <2>7 DEF Same
    <3> QED  BY <1>3, <2>4, <2>7, <3>1, <3>2, <3>4, <3>5 DEF Loop
  <2> QED  BY <2>6, <2>7
<1> QED  BY <1>1, <1>2, <1>3

(* The recursion of AbstractList's Selected.                                *)
Selects(f, values, keep) ==
  f = [n \in 0..Len(values) |->
        IF n = 0 THEN <<>>
        ELSE IF values[n] \in keep THEN Append(f[n - 1], values[n]) ELSE f[n - 1]]

(* There is such a function, and it is what Selected computes.             *)
LEMMA SelectedFacts ==
  ASSUME NEW values \in Seq(Values), NEW keep
  PROVE  \E f : /\ f \in [0..Len(values) -> Seq(Values)]
                /\ f[0] = <<>>
                /\ \A n \in 1..Len(values) :
                     f[n] = IF values[n] \in keep THEN Append(f[n - 1], values[n]) ELSE f[n - 1]
                /\ Sequence!Selected(values, keep) = f[Len(values)]
<1> DEFINE N == Len(values)
           S == Seq(Values)
           step == [p \in (1..N) \X S |-> IF values[p[1]] \in keep THEN Append(p[2], values[p[1]]) ELSE p[2]]
           Chosen == CHOOSE f : Selects(f, values, keep)
<1>1. N \in Nat /\ \A n \in 1..N : values[n] \in Values
  BY LenProperties
<1>2. step \in [(1..N) \X S -> S]
  <2>1. \A p \in (1..N) \X S : (IF values[p[1]] \in keep THEN Append(p[2], values[p[1]]) ELSE p[2]) \in S
    BY <1>1
  <2> QED  BY <2>1
<1>3. <<>> \in S
  OBVIOUS
<1>4. \A n \in 1..N, x \in S : step[<<n, x>>] = IF values[n] \in keep THEN Append(x, values[n]) ELSE x
  OBVIOUS
<1> HIDE DEF S, step
<1>5. PICK f : Computes(f, S, <<>>, N, step)
  BY <1>1, <1>2, <1>3, Recursion
<1>6. f \in [0..N -> S] /\ f[0] = <<>> /\ \A n \in 1..N : f[n] = step[<<n, f[n - 1]>>]
  BY <1>5 DEF Computes
<1>7. \A n \in 1..N : n \in 0..N /\ n - 1 \in 0..N /\ f[n - 1] \in S
  <2>1. \A n \in 1..N : n \in 0..N /\ n - 1 \in 0..N
    BY <1>1
  <2> QED  BY <1>6, <2>1
<1>8. \A n \in 1..N : f[n] = IF values[n] \in keep THEN Append(f[n - 1], values[n]) ELSE f[n - 1]
  BY <1>4, <1>6, <1>7
<1>9. Selects(f, values, keep)
  <2>1. \A n \in 0..N : n = 0 \/ n \in 1..N
    BY <1>1
  <2>2. \A n \in 0..N : f[n] = IF n = 0 THEN <<>>
                               ELSE IF values[n] \in keep THEN Append(f[n - 1], values[n]) ELSE f[n - 1]
    BY <1>6, <1>8, <2>1
  <2> QED  BY <1>6, <2>2 DEF Selects
<1>10. Selects(Chosen, values, keep)
  BY <1>9
<1>11. Sequence!Selected(values, keep) = Chosen[N]
  BY DEF Sequence!Selected, Selects
<1> HIDE DEF Chosen
<1>12. /\ DOMAIN Chosen = 0..N
       /\ \A n \in 0..N : Chosen[n] = IF n = 0 THEN <<>>
                               ELSE IF values[n] \in keep THEN Append(Chosen[n - 1], values[n]) ELSE Chosen[n - 1]
  BY <1>10 DEF Selects
<1>13. \A n \in Nat : n <= N => Chosen[n] = f[n]
  <2> DEFINE K == {n \in Nat : n <= N => Chosen[n] = f[n]}
  <2>1. 0 \in K
    BY <1>1, <1>6, <1>12
  <2>2. ASSUME NEW n \in Nat, n \in K PROVE n + 1 \in K
    <3> SUFFICES ASSUME n + 1 <= N PROVE Chosen[n + 1] = f[n + 1]
      OBVIOUS
    <3>1. n + 1 \in 0..N /\ n + 1 \in 1..N /\ n + 1 # 0 /\ (n + 1) - 1 = n /\ n <= N
      BY <1>1
    <3>2. Chosen[n] = f[n]
      BY <2>2, <3>1
    <3>3. Chosen[n + 1] = IF values[n + 1] \in keep THEN Append(Chosen[n], values[n + 1]) ELSE Chosen[n]
      BY <1>12, <3>1
    <3>4. f[n + 1] = IF values[n + 1] \in keep THEN Append(f[n], values[n + 1]) ELSE f[n]
      BY <1>8, <3>1
    <3> QED  BY <3>2, <3>3, <3>4
  <2> HIDE DEF K
  <2>3. Nat \subseteq K
    BY <2>1, <2>2, SetInduction
  <2> QED  BY <2>3 DEF K
<1>14. Sequence!Selected(values, keep) = f[N]
  BY <1>1, <1>11, <1>13
<1> QED  BY <1>6, <1>8, <1>14 DEF S

(* If everything is kept that is the sequence itself.                       *)
LEMMA SelectedAll ==
  ASSUME NEW values \in Seq(Values), NEW keep, \A i \in 1..Len(values) : values[i] \in keep
  PROVE  Sequence!Selected(values, keep) = values
<1>1. PICK f : /\ f \in [0..Len(values) -> Seq(Values)]
               /\ f[0] = <<>>
               /\ \A n \in 1..Len(values) :
                    f[n] = IF values[n] \in keep THEN Append(f[n - 1], values[n]) ELSE f[n - 1]
               /\ Sequence!Selected(values, keep) = f[Len(values)]
  BY SelectedFacts
<1> DEFINE N == Len(values)
           K == {n \in Nat : n <= N => f[n] \in Seq(Values) /\ Len(f[n]) = n
                                        /\ \A i \in 1..n : f[n][i] = values[i]}
<1>2. N \in Nat /\ \A n \in 1..N : values[n] \in Values
  BY LenProperties
<1>3. 0 \in K
  BY <1>1
<1>4. ASSUME NEW n \in Nat, n \in K PROVE n + 1 \in K
  <2> SUFFICES ASSUME n + 1 <= N
               PROVE  f[n + 1] \in Seq(Values) /\ Len(f[n + 1]) = n + 1
                      /\ \A i \in 1..(n + 1) : f[n + 1][i] = values[i]
    OBVIOUS
  <2>1. n + 1 \in 1..N /\ (n + 1) - 1 = n /\ n <= N
    BY <1>2
  <2> DEFINE t == f[n]
  <2>2. t \in Seq(Values) /\ Len(t) = n /\ \A i \in 1..n : t[i] = values[i]
    BY <1>4, <2>1
  <2>3. f[n + 1] = Append(t, values[n + 1])
    BY <1>1, <2>1
  <2> HIDE DEF t
  <2>4. values[n + 1] \in Values
    BY <1>2, <2>1
  <2>5. /\ Append(t, values[n + 1]) \in Seq(Values) /\ Len(Append(t, values[n + 1])) = n + 1
        /\ \A i \in 1..n : Append(t, values[n + 1])[i] = t[i]
        /\ Append(t, values[n + 1])[n + 1] = values[n + 1]
    BY <2>2, <2>4, AppendProperties
  <2>6. \A i \in 1..(n + 1) : i \in 1..n \/ i = n + 1
    OBVIOUS
  <2> QED  BY <2>2, <2>3, <2>5, <2>6
<1>5. f[N] \in Seq(Values) /\ Len(f[N]) = N /\ \A i \in 1..N : f[N][i] = values[i]
  <2> HIDE DEF K
  <2>1. Nat \subseteq K
    BY <1>3, <1>4, SetInduction
  <2> QED  BY <1>2, <2>1 DEF K
<1>6. f[N] = values
  BY <1>5, SeqEqual
<1> QED  BY <1>1, <1>6

--------------------------------------------------------------------------------
(* A new list, if there is memory for it.                                   *)
LEMMA CreateOwned ==
  ASSUME NEW h, IsHeap(h), NEW r, r = list_create(h)
  PROVE  /\ IsHeap(r.heap) /\ Same(r.heap, h, h.live)
         /\ \/ r.at = Null /\ r.heap = h
            \/ r.at \in Cells /\ r.at # Null /\ Owns(r.heap, <<r.at>>, r.at, <<>>, h.live)
<1>1. /\ IsHeap(r.heap) /\ r.at \in Pointers
      /\ h.left = 0 => r.at = Null /\ r.heap = h
      /\ h.left # 0 => /\ r.at \in Cells /\ r.at \notin h.live
                       /\ r.heap.live = h.live \cup {r.at}
                       /\ r.heap.car = [h.car EXCEPT ![r.at] = NoValue]
                       /\ r.heap.cdr = [h.cdr EXCEPT ![r.at] = Null]
  BY CreateFacts
<1>2. CASE h.left = 0
  BY <1>1, <1>2 DEF Same
<1>3. CASE h.left # 0
  <2> DEFINE n == r.at
             g == r.heap
  <2>1. /\ n \in Cells /\ n \notin h.live /\ g.live = h.live \cup {n}
        /\ g.car = [h.car EXCEPT ![n] = NoValue] /\ g.cdr = [h.cdr EXCEPT ![n] = Null]
    BY <1>1, <1>3
  <2>2. h.car \in [Cells -> Values \cup {NoValue}] /\ h.cdr \in [Cells -> Pointers] /\ h.live \subseteq Cells
    BY HeapFacts
  <2> HIDE DEF n, g
  <2>3. g.car[n] = NoValue /\ g.cdr[n] = Null
    BY <2>1, <2>2
  <2>4. Same(g, h, h.live)
    <3> SUFFICES ASSUME NEW x \in h.live PROVE g.car[x] = h.car[x] /\ g.cdr[x] = h.cdr[x]
      BY DEF Same
    <3>1. x \in Cells /\ x # n
      BY <2>1, <2>2
    <3> QED  BY <2>1, <2>2, <3>1
  <2>5. <<n>> \in Seq(Cells) /\ Len(<<n>>) = 1 /\ <<n>>[1] = n
    BY <2>1
  <2>6. LinkedIn(Cells, Null, g.cdr, <<n>>, n)
    <3> DEFINE s == <<n>>
    <3>1. s \in Seq(Cells) /\ Len(s) = 1 /\ s[1] = n
      BY <2>5
    <3> HIDE DEF s
    <3>2. LinkedIn(Cells, Null, g.cdr, s, n)
      BY <2>3, <3>1 DEF LinkedIn
    <3> QED  BY <3>2 DEF s
  <2>7. Holds(g, <<n>>, <<>>)
    BY <2>3, <2>5 DEF Holds
  <2>8. ToSet(<<n>>) = {n}
    BY DEF ToSet
  <2>9. n # Null
    BY <2>1, CellsFacts
  <2>10. Owns(g, <<n>>, n, <<>>, h.live)
    BY <2>1, <2>6, <2>7, <2>8 DEF Owns
  <2> QED  BY <1>1, <2>1, <2>4, <2>9, <2>10 DEF n, g
<1> QED  BY <1>2, <1>3

(* The recursion of Collect.                                                *)
Collects(at, h, values, keep) ==
  at = [i \in 0..Len(values) |->
         IF i = 0 THEN [heap |-> list_create(h).heap, at |-> list_create(h).at, acc |-> list_create(h).at]
         ELSE Collected(at[i - 1], values[i], keep)]

(* The loop of list_filter and list_map: the values that are kept, in       *)
(* reverse order, unless memory runs out.                                   *)
LEMMA CollectFacts ==
  ASSUME NEW h, IsHeap(h), NEW values \in Seq(Values), NEW keep,
         NEW r, r = Collect(h, values, keep)
  PROVE  Loop(r, h, Reverse(Sequence!Selected(values, keep)))
<1> DEFINE N == Len(values)
           k == list_create(h)
           base == [heap |-> k.heap, at |-> k.at, acc |-> k.at]
           S == {x \in Loops : \E u \in Seq(Values) : Loop(x, h, u)}
           step == [p \in (1..N) \X S |-> Collected(p[2], values[p[1]], keep)]
           at == CHOOSE f : Collects(f, h, values, keep)
<1>1. N \in Nat /\ \A n \in 1..N : values[n] \in Values
  BY LenProperties
<1>2. base \in Loops /\ Loop(base, h, <<>>)
  <2>1. /\ IsHeap(k.heap) /\ Same(k.heap, h, h.live)
        /\ \/ k.at = Null /\ k.heap = h
           \/ k.at \in Cells /\ k.at # Null /\ Owns(k.heap, <<k.at>>, k.at, <<>>, h.live)
    BY CreateOwned
  <2> HIDE DEF k
  <2>2. k.at \in Pointers
    BY <2>1 DEF Pointers
  <2>3. base \in Loops
    BY <2>1, <2>2 DEF IsHeap, Loops
  <2>4. base.heap = k.heap /\ base.at = k.at /\ base.acc = k.at
    OBVIOUS
  <2> HIDE DEF base
  <2> QED  BY <2>1, <2>3, <2>4 DEF Loop
<1>3. \A x \in Loops, u \in Seq(Values), n \in 1..N : Loop(x, h, u) =>
        LET y == Collected(x, values[n], keep)
            new == IF values[n] \in keep THEN <<values[n]>> \o u ELSE u
        IN y \in Loops /\ new \in Seq(Values) /\ Loop(y, h, new)
  <2> SUFFICES ASSUME NEW x \in Loops, NEW u \in Seq(Values), NEW n \in 1..N, Loop(x, h, u)
               PROVE  LET y == Collected(x, values[n], keep)
                          new == IF values[n] \in keep THEN <<values[n]>> \o u ELSE u
                      IN y \in Loops /\ new \in Seq(Values) /\ Loop(y, h, new)
    OBVIOUS
  <2> DEFINE v == values[n]
             y == Collected(x, v, keep)
  <2>1. v \in Values
    BY <1>1
  <2> HIDE DEF v
  <2>2. /\ v \in keep => Loop(y, h, <<v>> \o u)
        /\ v \notin keep => Loop(y, h, u)
    BY <2>1, CollectedFacts
  <2>3. y \in Loops
    BY <2>2 DEF Loop
  <2>4. <<v>> \o u \in Seq(Values)
    BY <2>1, FrontEntries
  <2> HIDE DEF y
  <2>5. y \in Loops /\ (IF v \in keep THEN <<v>> \o u ELSE u) \in Seq(Values)
        /\ Loop(y, h, IF v \in keep THEN <<v>> \o u ELSE u)
    BY <2>2, <2>3, <2>4
  <2> QED  BY <2>5 DEF v, y
<1>4. base \in S
  <2>1. <<>> \in Seq(Values)
    OBVIOUS
  <2> HIDE DEF base
  <2> QED  BY <1>2, <2>1
<1>5. step \in [(1..N) \X S -> S]
  <2>1. ASSUME NEW p \in (1..N) \X S PROVE Collected(p[2], values[p[1]], keep) \in S
    <3>1. p[2] \in S /\ p[1] \in 1..N
      OBVIOUS
    <3>2. PICK u \in Seq(Values) : Loop(p[2], h, u)
      BY <3>1
    <3>3. p[2] \in Loops
      BY <3>1
    <3> QED  BY <1>3, <3>1, <3>2, <3>3
  <2> QED  BY <2>1
<1>6. \A n \in 1..N, x \in S : step[<<n, x>>] = Collected(x, values[n], keep)
  OBVIOUS
<1> HIDE DEF S, step, base, k
<1>7. PICK f : Computes(f, S, base, N, step)
  BY <1>1, <1>4, <1>5, Recursion
<1>8. f \in [0..N -> S] /\ f[0] = base /\ \A n \in 1..N : f[n] = step[<<n, f[n - 1]>>]
  BY <1>7 DEF Computes
<1>9. \A n \in 1..N : n \in 0..N /\ n - 1 \in 0..N /\ f[n - 1] \in S
  <2>1. \A n \in 1..N : n \in 0..N /\ n - 1 \in 0..N
    BY <1>1
  <2> QED  BY <1>8, <2>1
<1>10. \A n \in 1..N : f[n] = Collected(f[n - 1], values[n], keep)
  BY <1>6, <1>8, <1>9
<1>11. Collects(f, h, values, keep)
  <2>1. \A n \in 0..N : n = 0 \/ n \in 1..N
    BY <1>1
  <2>2. \A n \in 0..N : f[n] = IF n = 0 THEN base ELSE Collected(f[n - 1], values[n], keep)
    BY <1>8, <1>10, <2>1
  <2>3. f = [n \in 0..N |-> IF n = 0 THEN base ELSE Collected(f[n - 1], values[n], keep)]
    BY <1>8, <2>2
  <2> QED  BY <2>3 DEF Collects, base, k
<1>12. Collects(at, h, values, keep)
  BY <1>11
<1>13. r = at[N]
  BY DEF Collect, Collects
<1> HIDE DEF at
<1>14. \A n \in 0..N : at[n] = IF n = 0 THEN base ELSE Collected(at[n - 1], values[n], keep)
  BY <1>12 DEF Collects, base, k
<1>15. PICK g : /\ g \in [0..N -> Seq(Values)]
                /\ g[0] = <<>>
                /\ \A n \in 1..N :
                     g[n] = IF values[n] \in keep THEN Append(g[n - 1], values[n]) ELSE g[n - 1]
                /\ Sequence!Selected(values, keep) = g[N]
  BY SelectedFacts
<1> DEFINE K == {n \in Nat : n <= N => at[n] \in Loops /\ Loop(at[n], h, Reverse(g[n]))}
<1>16. 0 \in K
  <2>1. Reverse(<<>>) = <<>>
    BY DEF Reverse
  <2>2. at[0] = base
    BY <1>1, <1>14
  <2>3. g[0] = <<>>
    BY <1>15
  <2> QED  BY <1>2, <2>1, <2>2, <2>3
<1>17. ASSUME NEW n \in Nat, n \in K PROVE n + 1 \in K
  <2> SUFFICES ASSUME n + 1 <= N PROVE at[n + 1] \in Loops /\ Loop(at[n + 1], h, Reverse(g[n + 1]))
    OBVIOUS
  <2>1. n + 1 \in 0..N /\ n + 1 \in 1..N /\ n + 1 # 0 /\ (n + 1) - 1 = n /\ n <= N /\ n \in 0..N
    BY <1>1
  <2>2. at[n] \in Loops /\ Loop(at[n], h, Reverse(g[n]))
    BY <1>17, <2>1
  <2>3. at[n + 1] = Collected(at[n], values[n + 1], keep)
    BY <1>14, <2>1
  <2>4. g[n + 1] = IF values[n + 1] \in keep THEN Append(g[n], values[n + 1]) ELSE g[n]
    BY <1>15, <2>1
  <2>5. g[n] \in Seq(Values)
    BY <1>15, <2>1
  <2>6. values[n + 1] \in Values
    BY <1>1, <2>1
  <2>7. Reverse(g[n]) \in Seq(Values) /\ Reverse(Append(g[n], values[n + 1])) = <<values[n + 1]>> \o Reverse(g[n])
    BY <2>5, <2>6, ReverseEntries, ReverseAppend
  <2> HIDE DEF K
  <2>8. CASE values[n + 1] \in keep
    BY <1>3, <2>1, <2>2, <2>3, <2>4, <2>7, <2>8
  <2>9. CASE values[n + 1] \notin keep
    BY <1>3, <2>1, <2>2, <2>3, <2>4, <2>7, <2>9
  <2> QED  BY <2>8, <2>9
<1>18. Loop(at[N], h, Reverse(g[N]))
  <2> HIDE DEF K
  <2>1. Nat \subseteq K
    BY <1>16, <1>17, SetInduction
  <2> QED  BY <1>1, <2>1 DEF K
<1> QED  BY <1>13, <1>15, <1>18

(* list_filter: either there is no memory and every cell it has taken is    *)
(* given back, or it returns the values that are kept, in reverse order.    *)
LEMMA FilterFacts ==
  ASSUME NEW h, IsHeap(h), NEW s, NEW c, NEW values, NEW rest, Owns(h, s, c, values, rest),
         NEW keep, NEW r, r = list_filter(h, c, keep)
  PROVE  /\ IsHeap(r.heap) /\ Same(r.heap, h, h.live)
         /\ \/ r.at = Null /\ r.heap.live = h.live
            \/ /\ r.at # Null
               /\ \E t : Owns(r.heap, t, r.at, Reverse(Sequence!Selected(values, keep)), h.live)
<1> DEFINE x == Collect(h, Entries(h, c), keep)
           kept == Reverse(Sequence!Selected(values, keep))
<1>1. Entries(h, c) = values /\ values \in Seq(Values)
  BY ListFacts
<1>2. Loop(x, h, kept)
  <2>1. x = Collect(h, values, keep)
    BY <1>1
  <2> QED  BY <1>1, <2>1, CollectFacts
<1>3. r = [heap |-> IF x.at = Null THEN list_destroy(x.heap, x.acc) ELSE x.heap, at |-> x.at]
  BY DEF list_filter, GiveUpFilter
<1> HIDE DEF x, kept
<1>4. /\ IsHeap(x.heap) /\ Same(x.heap, h, h.live)
      /\ \/ /\ x.at # Null /\ x.acc = x.at
            /\ \E t : Owns(x.heap, t, x.at, kept, h.live)
         \/ x.at = Null /\ x.acc = Null /\ x.heap.live = h.live
         \/ /\ x.at = Null /\ x.acc # Null
            /\ \E t, some : Owns(x.heap, t, x.acc, some, h.live)
  BY <1>2 DEF Loop
<1>5. CASE x.at # Null
  <2>1. r.heap = x.heap /\ r.at = x.at
    BY <1>3, <1>5
  <2> QED  BY <1>4, <1>5, <2>1 DEF kept
<1>6. CASE x.at = Null /\ x.acc = Null
  <2>1. r.heap = list_destroy(x.heap, Null) /\ r.at = Null
    BY <1>3, <1>6
  <2>2. x.heap.live = h.live
    BY <1>4, <1>6
  <2>3. IsHeap(r.heap) /\ r.heap.live = x.heap.live /\ Same(r.heap, x.heap, Cells)
    BY <1>4, <2>1, DestroyNothing
  <2>4. h.live \subseteq Cells
    BY HeapFacts
  <2> QED  BY <1>4, <2>1, <2>2, <2>3, <2>4 DEF Same
<1>7. CASE x.at = Null /\ x.acc # Null
  <2>1. r.heap = list_destroy(x.heap, x.acc) /\ r.at = Null
    BY <1>3, <1>7
  <2>2. PICK t, some : Owns(x.heap, t, x.acc, some, h.live)
    BY <1>4, <1>7
  <2>3. IsHeap(r.heap) /\ r.heap.live = h.live /\ Same(r.heap, x.heap, h.live)
    BY <1>4, <2>1, <2>2, DestroyFacts
  <2> QED  BY <1>4, <2>1, <2>3 DEF Same
<1> QED  BY <1>5, <1>6, <1>7

(* list_map: either there is no memory, and the cells it has taken remain   *)
(* allocated, or it returns what the values become, in reverse order.       *)
LEMMA MapFacts ==
  ASSUME NEW h, IsHeap(h), NEW s, NEW c, NEW values, NEW rest, Owns(h, s, c, values, rest),
         NEW r, r = list_map(h, c, Mapping)
  PROVE  /\ IsHeap(r.heap) /\ Same(r.heap, h, h.live)
         /\ \/ r.at = Null /\ h.live \subseteq r.heap.live
            \/ /\ r.at # Null
               /\ \E t : Owns(r.heap, t, r.at, Reverse([i \in 1..Len(values) |-> Mapping[values[i]]]), h.live)
<1> DEFINE mapped == [i \in 1..Len(values) |-> Mapping[values[i]]]
           x == Collect(h, mapped, ToSet(mapped))
<1>1. Entries(h, c) = values /\ list_size(h, c) = Len(values) /\ values \in Seq(Values)
  BY ListFacts
<1>2. mapped \in Seq(Values) /\ Len(mapped) = Len(values)
  <2>1. Len(values) \in Nat /\ \A i \in 1..Len(values) : values[i] \in Values
    BY <1>1, LenProperties
  <2>2. mapped \in [1..Len(values) -> Values]
    BY <2>1, ValuesAssumption
  <2> HIDE DEF mapped
  <2> QED  BY <2>1, <2>2, SequenceOf
<1>3. r = [heap |-> x.heap, at |-> x.at]
  BY <1>1 DEF list_map
<1>4. Sequence!Selected(mapped, ToSet(mapped)) = mapped
  <2> HIDE DEF mapped
  <2>1. DOMAIN mapped = 1..Len(mapped)
    BY <1>2, LenProperties
  <2>2. \A i \in 1..Len(mapped) : mapped[i] \in ToSet(mapped)
    BY <2>1 DEF ToSet
  <2> QED  BY <1>2, <2>2, SelectedAll
<1> HIDE DEF mapped
<1>5. Loop(x, h, Reverse(mapped))
  <2>1. Loop(x, h, Reverse(Sequence!Selected(mapped, ToSet(mapped))))
    <3> DEFINE keep == ToSet(mapped)
    <3>1. x = Collect(h, mapped, keep)
      OBVIOUS
    <3> HIDE DEF keep, x
    <3>2. Loop(x, h, Reverse(Sequence!Selected(mapped, keep)))
      BY <1>2, <3>1, CollectFacts
    <3> QED  BY <3>2 DEF keep
  <2> QED  BY <1>4, <2>1
<1> HIDE DEF x
<1>6. /\ IsHeap(x.heap) /\ Same(x.heap, h, h.live)
      /\ \/ /\ x.at # Null /\ x.acc = x.at
            /\ \E t : Owns(x.heap, t, x.at, Reverse(mapped), h.live)
         \/ x.at = Null /\ x.acc = Null /\ x.heap.live = h.live
         \/ /\ x.at = Null /\ x.acc # Null
            /\ \E t, some : Owns(x.heap, t, x.acc, some, h.live)
  BY <1>5 DEF Loop
<1>7. r.heap = x.heap /\ r.at = x.at
  BY <1>3
<1>8. x.at = Null => h.live \subseteq x.heap.live
  BY <1>6 DEF Owns
<1> QED  BY <1>6, <1>7, <1>8 DEF mapped

--------------------------------------------------------------------------------
(* The cells of a list, each of which points to the one that was before it. *)
Turned(cdr, s) ==
  /\ cdr \in [Cells -> Pointers]
  /\ cdr[s[1]] = Null
  /\ \A i \in 2..Len(s) : cdr[s[i]] = s[i - 1]

(* Read from its other end such a list has its values reversed.            *)
LEMMA TurnedFacts ==
  ASSUME NEW h, IsHeap(h), NEW s, NEW c, NEW values, NEW rest, Owns(h, s, c, values, rest),
         values # <<>>, NEW cdr, Turned(cdr, s), NEW g, g = [h EXCEPT !.cdr = cdr]
  PROVE  /\ IsHeap(g) /\ Owns(g, Reverse(s), s[Len(s)], Reverse(values), rest)
         /\ s[Len(s)] \in Cells
<1>1. /\ h.car \in [Cells -> Values \cup {NoValue}] /\ h.cdr \in [Cells -> Pointers]
      /\ h.live \in SUBSET Cells /\ h.left \in Nat /\ h.left <= Cardinality(Cells \ h.live)
      /\ h = [car |-> h.car, cdr |-> h.cdr, live |-> h.live, left |-> h.left]
  BY HeapFacts
<1>2. /\ LinkedIn(Cells, Null, h.cdr, s, c) /\ h.live = ToSet(s) \cup rest /\ ToSet(s) \cap rest = {}
      /\ s[1] = c /\ Len(s) \in Nat /\ Len(s) >= 1 /\ s \in Seq(Cells) /\ s \in [1..Len(s) -> Cells]
      /\ values \in Seq(Values)
  BY OwnsFacts
<1>3. Len(values) = Len(s) /\ \A i \in 1..Len(s) : h.car[s[i]] = values[i]
  BY ListFacts
<1>4. g = [car |-> h.car, cdr |-> cdr, live |-> h.live, left |-> h.left]
  BY <1>1
<1>5. IsHeap(g) /\ g.car = h.car /\ g.cdr = cdr /\ g.live = h.live
  <2> DEFINE car == h.car
             live == h.live
             left == h.left
  <2>1. /\ car \in [Cells -> Values \cup {NoValue}] /\ cdr \in [Cells -> Pointers]
        /\ live \in SUBSET Cells /\ left \in Nat /\ left <= Cardinality(Cells \ live)
        /\ g = [car |-> car, cdr |-> cdr, live |-> live, left |-> left]
    BY <1>1, <1>4 DEF Turned
  <2> HIDE DEF car, live, left
  <2>3. car \in [Cells -> Values \cup {NoValue}]
    BY <2>1
  <2>4. cdr \in [Cells -> Pointers]
    BY <2>1
  <2>5. live \in SUBSET Cells
    BY <2>1
  <2>6. left \in Nat /\ left <= Cardinality(Cells \ live)
    BY <2>1
  <2>7. g = [car |-> car, cdr |-> cdr, live |-> live, left |-> left]
    BY <2>1
  <2>2. IsHeap(g) /\ g.car = car /\ g.cdr = cdr /\ g.live = live
    BY <2>3, <2>4, <2>5, <2>6, <2>7 DEF IsHeap
  <2> QED  BY <2>2 DEF car, live
<1>6. LinkedIn(Cells, Null, g.cdr, Reverse(s), s[Len(s)])
  <2>1. cdr[c] = Null /\ \A i \in 2..Len(s) : cdr[s[i]] = s[i - 1]
    BY <1>2 DEF Turned
  <2>2. LinkedIn(Cells, Null, cdr, Reverse(s), s[Len(s)])
    BY <1>2, <2>1, CellsFacts, LinkedInReversed
  <2> QED  BY <1>5, <2>2
<1>7. ToSet(Reverse(s)) = ToSet(s)
  BY <1>2, ReverseElements
<1>8. Holds(g, Reverse(s), Reverse(values))
  <2> DEFINE t == Reverse(s)
             new == Reverse(values)
  <2>1. /\ t \in Seq(Cells) /\ Len(t) = Len(s)
        /\ \A j \in 1..Len(s) : t[j] = s[Len(s) - j + 1]
    BY <1>2, ReverseEntries
  <2>2. /\ new \in Seq(Values) /\ Len(new) = Len(s)
        /\ \A j \in 1..Len(s) : new[j] = values[Len(s) - j + 1]
    BY <1>2, <1>3, ReverseEntries
  <2> HIDE DEF t, new
  <2>3. \A j \in 1..Len(s) : Len(s) - j + 1 \in 1..Len(s)
    BY <1>2
  <2>4. \A j \in 1..Len(t) : g.car[t[j]] = new[j]
    BY <1>3, <1>5, <2>1, <2>2, <2>3
  <2> QED  BY <2>1, <2>2, <2>4 DEF Holds, t, new
<1>9. s[Len(s)] \in Cells
  BY <1>2
<1> QED  BY <1>2, <1>5, <1>6, <1>7, <1>8, <1>9 DEF Owns

(* The three pointers stand so many cells further on, and what is behind    *)
(* them is turned.                                                          *)
Stands(x, h, s, j) ==
  /\ j \in 0..(Len(s) - 4)
  /\ x.p = s[j + 2] /\ x.q = s[j + 3] /\ x.r = s[j + 4]
  /\ x.cdr \in [Cells -> Pointers]
  /\ x.cdr[s[1]] = Null
  /\ \A i \in 2..(j + 2) : x.cdr[s[i]] = s[i - 1]
  /\ \A i \in (j + 3)..Len(s) : x.cdr[s[i]] = h.cdr[s[i]]

(* A round of the loop turns the next pointer, while there is one.         *)
LEMMA AlongFacts ==
  ASSUME NEW h, NEW s, NEW c, LinkedIn(Cells, Null, h.cdr, s, c),
         NEW x, NEW j, Stands(x, h, s, j), NEW y, y = Along(x)
  PROVE  /\ j = Len(s) - 4 => y = x
         /\ j # Len(s) - 4 => Stands(y, h, s, j + 1)
<1>1. /\ Len(s) \in Nat /\ s \in [1..Len(s) -> Cells]
      /\ \A i, k \in 1..Len(s) : s[i] = s[k] => i = k
      /\ \A i \in 1..(Len(s) - 1) : h.cdr[s[i]] = s[i + 1]
      /\ h.cdr[s[Len(s)]] = Null
  BY CellsFacts, LinkedInFacts
<1>2. /\ j \in 0..(Len(s) - 4)
      /\ x.p = s[j + 2] /\ x.q = s[j + 3] /\ x.r = s[j + 4]
      /\ x.cdr \in [Cells -> Pointers]
      /\ x.cdr[s[1]] = Null
      /\ \A i \in 2..(j + 2) : x.cdr[s[i]] = s[i - 1]
      /\ \A i \in (j + 3)..Len(s) : x.cdr[s[i]] = h.cdr[s[i]]
  BY DEF Stands
<1>3. x.cdr[x.r] = h.cdr[s[j + 4]]
  <2>1. j + 4 \in (j + 3)..Len(s)
    BY <1>1, <1>2
  <2> QED  BY <1>2, <2>1
<1>4. CASE j = Len(s) - 4
  <2>1. j + 4 = Len(s)
    BY <1>1, <1>4
  <2>2. x.cdr[x.r] = Null
    BY <1>1, <1>3, <2>1
  <2> QED  BY <1>4, <2>2 DEF Along
<1>5. CASE j # Len(s) - 4
  <2>1. j \in Nat /\ j + 1 \in 0..(Len(s) - 4) /\ j + 4 \in 1..(Len(s) - 1) /\ j + 5 \in 1..Len(s)
        /\ j + 3 \in 1..Len(s) /\ j + 2 \in 1..Len(s) /\ (j + 4) + 1 = j + 5 /\ 1 \in 1..Len(s)
    <3> DEFINE L == Len(s)
    <3>1. L \in Nat /\ j \in 0..(L - 4) /\ j # L - 4
      BY <1>1, <1>2, <1>5
    <3> HIDE DEF L
    <3>2. j \in Nat /\ j + 4 < L
      BY <3>1
    <3>3. j \in Nat /\ j + 1 \in 0..(L - 4) /\ j + 4 \in 1..(L - 1) /\ j + 5 \in 1..L
          /\ j + 3 \in 1..L /\ j + 2 \in 1..L /\ (j + 4) + 1 = j + 5 /\ 1 \in 1..L
      BY <3>1, <3>2
    <3> QED  BY <3>3 DEF L
  <2>2. x.cdr[x.r] = s[j + 5] /\ s[j + 5] \in Cells
    BY <1>1, <1>3, <2>1
  <2>3. x.cdr[x.r] # Null
    BY <2>2, CellsFacts
  <2>4. y = [p |-> x.q, q |-> x.r, r |-> x.cdr[x.r], cdr |-> [x.cdr EXCEPT ![x.q] = x.p]]
    BY <2>3 DEF Along
  <2> DEFINE cdr == [x.cdr EXCEPT ![s[j + 3]] = s[j + 2]]
  <2>5. y.p = s[j + 3] /\ y.q = s[j + 4] /\ y.r = s[j + 5] /\ y.cdr = cdr
    BY <1>2, <2>2, <2>4
  <2>6. s[j + 3] \in Cells /\ s[j + 2] \in Cells
    BY <1>1, <2>1
  <2>7. cdr \in [Cells -> Pointers]
    BY <1>2, <2>6 DEF Pointers
  <2>8. cdr[s[j + 3]] = s[j + 2] /\ \A d \in Cells : d # s[j + 3] => cdr[d] = x.cdr[d]
    BY <1>2, <2>6
  <2>9. \A i \in 1..Len(s) : i # j + 3 => cdr[s[i]] = x.cdr[s[i]]
    BY <1>1, <2>1, <2>8
  <2> HIDE DEF cdr
  <2>10. cdr[s[1]] = Null
    <3>1. 1 # j + 3
      BY <2>1
    <3> QED  BY <1>2, <2>1, <2>9, <3>1
  <2>11. \A i \in 2..((j + 1) + 2) : cdr[s[i]] = s[i - 1]
    <3> SUFFICES ASSUME NEW i \in 2..((j + 1) + 2) PROVE cdr[s[i]] = s[i - 1]
      OBVIOUS
    <3>1. CASE i = j + 3
      <4>1. i - 1 = j + 2
        BY <2>1, <3>1
      <4> QED  BY <2>8, <3>1, <4>1
    <3>2. CASE i # j + 3
      <4>1. i \in 1..Len(s) /\ i \in 2..(j + 2)
        BY <2>1, <3>2
      <4> QED  BY <1>2, <2>9, <3>2, <4>1
    <3> QED  BY <3>1, <3>2
  <2>12. \A i \in ((j + 1) + 3)..Len(s) : cdr[s[i]] = h.cdr[s[i]]
    <3> SUFFICES ASSUME NEW i \in ((j + 1) + 3)..Len(s) PROVE cdr[s[i]] = h.cdr[s[i]]
      OBVIOUS
    <3>1. i \in 1..Len(s) /\ i # j + 3 /\ i \in (j + 3)..Len(s)
      BY <1>1, <2>1
    <3> QED  BY <1>2, <2>9, <3>1
  <2>13. (j + 1) + 2 = j + 3 /\ (j + 1) + 3 = j + 4 /\ (j + 1) + 4 = j + 5
    BY <2>1
  <2> QED  BY <1>5, <2>1, <2>5, <2>7, <2>10, <2>11, <2>12, <2>13 DEF Stands
<1> QED  BY <1>4, <1>5

(* The recursion of list_reverse.                                           *)
Runs(at, h, c, two) ==
  at = [n \in 0..MaxCells |->
         IF n = 0 THEN [p |-> list_cdr(h, c), q |-> list_cdr(h, list_cdr(h, c)),
                        r |-> h.cdr[list_cdr(h, list_cdr(h, c))], cdr |-> two]
         ELSE Along(at[n - 1])]

(* The loop of list_reverse ends with the last three cells of the list.     *)
LEMMA RunFacts ==
  ASSUME NEW h, IsHeap(h), NEW s, NEW c, LinkedIn(Cells, Null, h.cdr, s, c), Len(s) >= 4,
         NEW two, two = [h.cdr EXCEPT ![s[1]] = Null, ![s[2]] = s[1]]
  PROVE  Stands((CHOOSE f : Runs(f, h, c, two))[MaxCells], h, s, Len(s) - 4)
<1> DEFINE at == CHOOSE f : Runs(f, h, c, two)
           L == Len(s)
           Records == [p : Cells, q : Cells, r : Cells, cdr : [Cells -> Pointers]]
           S == {x \in Records : \E j \in 0..(L - 4) : Stands(x, h, s, j)}
           N == MaxCells
           base == [p |-> s[2], q |-> s[3], r |-> s[4], cdr |-> two]
           step == [n \in (1..N) \X S |-> Along(n[2])]
<1>1. /\ L \in Nat /\ s \in [1..L -> Cells] /\ s[1] = c
      /\ \A i, k \in 1..L : s[i] = s[k] => i = k
      /\ \A i \in 1..(L - 1) : h.cdr[s[i]] = s[i + 1]
      /\ h.cdr[s[L]] = Null /\ L >= 4
  <2>1. /\ L \in Nat /\ s \in [1..L -> Cells] /\ s[1] = c
        /\ \A i, k \in 1..L : s[i] = s[k] => i = k
        /\ \A i \in 1..(L - 1) : h.cdr[s[i]] = s[i + 1]
        /\ h.cdr[s[L]] = Null
    BY CellsFacts, LinkedInFacts
  <2> QED  BY <2>1
<1>2. L <= N /\ N \in Nat
  <2>1. s \in Injection(1..L, Cells)
    BY <1>1 DEF Injection, IsInjective
  <2>2. IsFiniteSet(1..L) /\ Cardinality(1..L) = L
    BY <1>1, FS_Interval
  <2>3. Cardinality(1..L) <= Cardinality(Cells)
    BY <2>1, CellsFacts, FS_Injection
  <2> QED  BY <2>2, <2>3, CellsFacts
<1>3. h.cdr \in [Cells -> Pointers]
  BY HeapFacts
<1> DEFINE Last4 == L - 4
<1>4. Last4 \in Nat /\ 0 \in 0..Last4 /\ 1 \in 1..L /\ 2 \in 1..L /\ 3 \in 1..L /\ 4 \in 1..L
      /\ 1 \in 1..(L - 1) /\ 2 \in 1..(L - 1) /\ 3 \in 1..(L - 1)
  BY <1>1
<1>5. list_cdr(h, c) = s[2] /\ list_cdr(h, s[2]) = s[3] /\ h.cdr[s[3]] = s[4]
      /\ s[1] \in Cells /\ s[2] \in Cells /\ s[3] \in Cells /\ s[4] \in Cells
  <2>1. s[1] \in Cells /\ s[2] \in Cells /\ s[3] \in Cells /\ s[4] \in Cells
    BY <1>1, <1>4
  <2>2. 1 + 1 = 2 /\ 2 + 1 = 3 /\ 3 + 1 = 4
    OBVIOUS
  <2>3. h.cdr[s[1]] = s[2] /\ h.cdr[s[2]] = s[3] /\ h.cdr[s[3]] = s[4]
    BY <1>1, <1>4, <2>2
  <2> QED  BY <1>1, <2>1, <2>3, CellsFacts DEF list_cdr
<1>6. base \in Records /\ Stands(base, h, s, 0)
  <2>1. two \in [Cells -> Pointers]
    BY <1>3, <1>5 DEF Pointers
  <2>2. s[1] # s[2]
    BY <1>1, <1>4
  <2>3. two[s[1]] = Null /\ two[s[2]] = s[1]
        /\ \A d \in Cells : d # s[1] /\ d # s[2] => two[d] = h.cdr[d]
    BY <1>3, <1>5, <2>2
  <2>4. \A i \in 3..L : two[s[i]] = h.cdr[s[i]]
    <3> SUFFICES ASSUME NEW i \in 3..L PROVE two[s[i]] = h.cdr[s[i]]
      OBVIOUS
    <3>1. i \in 1..L /\ i # 1 /\ i # 2
      BY <1>1
    <3>2. s[i] # s[1] /\ s[i] # s[2] /\ s[i] \in Cells
      BY <1>1, <1>4, <3>1
    <3> QED  BY <2>3, <3>2
  <2>5. \A i \in 2..2 : i = 2 /\ i - 1 = 1
    OBVIOUS
  <2>6. base.p = s[2] /\ base.q = s[3] /\ base.r = s[4] /\ base.cdr = two
    OBVIOUS
  <2>8. base \in Records
    BY <1>5, <2>1
  <2> HIDE DEF base
  <2>9. \A i \in 2..2 : two[s[i]] = s[i - 1]
    BY <2>3, <2>5
  <2>10. ASSUME NEW j, j = 0 PROVE Stands(base, h, s, j)
    <3>1. j + 2 = 2 /\ j + 3 = 3 /\ j + 4 = 4 /\ j \in 0..(Len(s) - 4)
      BY <1>4, <2>10
    <3> QED  BY <2>1, <2>3, <2>4, <2>6, <2>9, <3>1 DEF Stands
  <2> QED  BY <2>8, <2>10
<1>7. ASSUME NEW x \in Records, NEW j \in 0..Last4, Stands(x, h, s, j)
      PROVE  /\ Along(x) \in Records
             /\ j = Last4 => Stands(Along(x), h, s, j)
             /\ j # Last4 => j + 1 \in 0..Last4 /\ Stands(Along(x), h, s, j + 1)
  <2> DEFINE y == Along(x)
  <2>1. /\ j = Len(s) - 4 => y = x
        /\ j # Len(s) - 4 => Stands(y, h, s, j + 1)
    BY <1>7, AlongFacts
  <2>2. CASE j = Last4
    BY <1>7, <2>1, <2>2
  <2>3. CASE j # Last4
    <3>1. Stands(y, h, s, j + 1)
      BY <2>1, <2>3
    <3>2. j + 1 \in 0..Last4
      BY <1>4, <2>3
    <3>3. y \in Records
      <4>1. y.p = s[(j + 1) + 2] /\ y.q = s[(j + 1) + 3] /\ y.r = s[(j + 1) + 4] /\ y.cdr \in [Cells -> Pointers]
        BY <3>1 DEF Stands
      <4>2. (j + 1) + 2 \in 1..L /\ (j + 1) + 3 \in 1..L /\ (j + 1) + 4 \in 1..L
        BY <1>1, <3>2
      <4>3. y.p \in Cells /\ y.q \in Cells /\ y.r \in Cells
        BY <1>1, <4>1, <4>2
      <4>4. y = x \/ y = [p |-> y.p, q |-> y.q, r |-> y.r, cdr |-> y.cdr]
        BY DEF Along
      <4> QED  BY <4>1, <4>3, <4>4
    <3> QED  BY <2>3, <3>1, <3>2, <3>3
  <2> QED  BY <2>2, <2>3
<1>8. base \in S
  <2>1. 0 \in 0..(L - 4)
    BY <1>4
  <2> HIDE DEF base
  <2> QED  BY <1>6, <2>1
<1>9. step \in [(1..N) \X S -> S]
  <2>1. ASSUME NEW p \in (1..N) \X S PROVE Along(p[2]) \in S
    <3>1. p[2] \in S
      OBVIOUS
    <3>2. PICK j \in 0..(L - 4) : Stands(p[2], h, s, j)
      BY <3>1
    <3>3. p[2] \in Records
      BY <3>1
    <3> QED  BY <1>7, <3>2, <3>3
  <2> QED  BY <2>1
<1>10. \A n \in 1..N, x \in S : step[<<n, x>>] = Along(x)
  OBVIOUS
<1> HIDE DEF S, step, base
<1>11. PICK f : Computes(f, S, base, N, step)
  BY <1>2, <1>8, <1>9, Recursion
<1>12. f \in [0..N -> S] /\ f[0] = base /\ \A n \in 1..N : f[n] = step[<<n, f[n - 1]>>]
  BY <1>11 DEF Computes
<1>13. \A n \in 1..N : f[n] = Along(f[n - 1])
  <2>1. \A n \in 1..N : n - 1 \in 0..N
    BY <1>2
  <2> QED  BY <1>10, <1>12, <2>1
<1>14. Runs(f, h, c, two)
  <2>1. \A n \in 0..N : n = 0 \/ n \in 1..N
    BY <1>2
  <2>2. \A n \in 0..N : f[n] = IF n = 0 THEN base ELSE Along(f[n - 1])
    BY <1>12, <1>13, <2>1
  <2>3. f = [n \in 0..N |-> IF n = 0 THEN base ELSE Along(f[n - 1])]
    BY <1>12, <2>2
  <2>4. base = [p |-> list_cdr(h, c), q |-> list_cdr(h, list_cdr(h, c)),
                r |-> h.cdr[list_cdr(h, list_cdr(h, c))], cdr |-> two]
    BY <1>5 DEF base
  <2> QED  BY <2>3, <2>4 DEF Runs
<1>15. Runs(at, h, c, two)
  BY <1>14
<1> HIDE DEF at
<1>16. \A n \in 0..N : at[n] = IF n = 0 THEN base ELSE Along(at[n - 1])
  <2>4. base = [p |-> list_cdr(h, c), q |-> list_cdr(h, list_cdr(h, c)),
                r |-> h.cdr[list_cdr(h, list_cdr(h, c))], cdr |-> two]
    BY <1>5 DEF base
  <2> DEFINE b == [p |-> list_cdr(h, c), q |-> list_cdr(h, list_cdr(h, c)),
                   r |-> h.cdr[list_cdr(h, list_cdr(h, c))], cdr |-> two]
  <2>5. at = [n \in 0..N |-> IF n = 0 THEN b ELSE Along(at[n - 1])]
    BY <1>15 DEF Runs
  <2>6. base = b
    BY <2>4
  <2> HIDE DEF b
  <2> QED  BY <2>5, <2>6
<1> HIDE DEF Last4, Records
<1> DEFINE K == {n \in Nat : n <= N => /\ at[n] \in Records
                                       /\ Stands(at[n], h, s, IF n < Last4 THEN n ELSE Last4)}
<1>17. 0 \in K
  <2>1. (IF 0 < Last4 THEN 0 ELSE Last4) = 0
    BY <1>4
  <2>2. at[0] = base
    BY <1>2, <1>16
  <2> QED  BY <1>6, <2>1, <2>2 DEF Records
<1>18. ASSUME NEW n \in Nat, n \in K PROVE n + 1 \in K
  <2> DEFINE j == IF n < Last4 THEN n ELSE Last4
             k == IF n + 1 < Last4 THEN n + 1 ELSE Last4
  <2> SUFFICES ASSUME n + 1 <= N PROVE at[n + 1] \in Records /\ Stands(at[n + 1], h, s, k)
    OBVIOUS
  <2>1. n + 1 \in 0..N /\ n + 1 # 0 /\ (n + 1) - 1 = n /\ n <= N
    BY <1>2
  <2>2. at[n] \in Records /\ Stands(at[n], h, s, j)
    BY <1>18, <2>1
  <2>3. at[n + 1] = Along(at[n])
    BY <1>16, <2>1
  <2>4. j \in 0..Last4 /\ (j = Last4 => k = j) /\ (j # Last4 => k = j + 1)
    BY <1>4
  <2> HIDE DEF j, k
  <2> QED  BY <1>7, <2>2, <2>3, <2>4
<1>19. at[N] \in Records /\ Stands(at[N], h, s, Last4)
  <2> HIDE DEF K
  <2>1. Nat \subseteq K
    BY <1>17, <1>18, SetInduction
  <2>2. (IF N < Last4 THEN N ELSE Last4) = Last4
    <3>1. L \in Nat /\ N \in Nat /\ L <= N /\ Last4 = L - 4
      BY <1>1, <1>2 DEF Last4
    <3> HIDE DEF L, N
    <3> QED  BY <3>1
  <2>3. N \in K
    BY <1>2, <2>1
  <2> QED  BY <1>2, <2>2, <2>3 DEF K
<1> QED  BY <1>19 DEF Last4, at

(* list_reverse: the same cells, with the values in reverse order.          *)
LEMMA ReverseFacts ==
  ASSUME NEW h, IsHeap(h), NEW s, NEW c, NEW values, NEW rest, Owns(h, s, c, values, rest),
         NEW r, r = list_reverse(h, c)
  PROVE  /\ IsHeap(r.heap) /\ r.at \in Cells
         /\ \E t : Owns(r.heap, t, r.at, Reverse(values), rest)
<1> DEFINE N == Len(values)
           two == [h.cdr EXCEPT ![c] = Null, ![list_cdr(h, c)] = c]
           third == list_cdr(h, list_cdr(h, c))
           end == (CHOOSE f : Runs(f, h, c, two))[MaxCells]
           Short == [heap |-> h, at |-> c]
           Pair == [heap |-> [h EXCEPT !.cdr = two], at |-> list_cdr(h, c)]
           Three == [heap |-> [h EXCEPT !.cdr = [two EXCEPT ![third] = list_cdr(h, c)]], at |-> third]
           Long == [heap |-> [h EXCEPT !.cdr = [end.cdr EXCEPT ![end.q] = end.p, ![end.r] = end.q]],
                    at |-> end.r]
<1>1. /\ list_size(h, c) = N /\ c \in Cells /\ values \in Seq(Values)
      /\ values # <<>> => N = Len(s)
  BY ListFacts
<1>2. /\ LinkedIn(Cells, Null, h.cdr, s, c) /\ s[1] = c /\ s \in [1..Len(s) -> Cells]
      /\ s \in Seq(Cells) /\ N \in Nat
  BY OwnsFacts
<1>3. h.cdr \in [Cells -> Pointers]
  BY HeapFacts
<1>4. r = IF N <= 1 THEN Short ELSE IF N = 2 THEN Pair ELSE IF N = 3 THEN Three ELSE Long
  <2>1. r = CASE list_size(h, c) <= 1 -> Short
              [] list_size(h, c) = 2 -> Pair
              [] list_size(h, c) = 3 -> Three
              [] OTHER -> Long
    BY DEF list_reverse, Runs
  <2> HIDE DEF Short, Pair, Three, Long, N
  <2> QED  BY <1>1, <1>2, <2>1
<1>5. values = <<>> <=> N = 0
  BY <1>1, EmptySeq
<1>6. /\ \A i \in 1..(Len(s) - 1) : h.cdr[s[i]] = s[i + 1]
      /\ \A i, k \in 1..Len(s) : s[i] = s[k] => i = k
      /\ h.cdr[s[Len(s)]] = Null
      /\ \A i \in 1..Len(s) : s[i] # Null /\ s[i] \in Cells
  BY <1>2, CellsFacts, LinkedInFacts
<1>7. CASE N <= 1
  <2>1. r.heap = h /\ r.at = c
    BY <1>4, <1>7
  <2>2. Reverse(values) = values
    <3>1. /\ Reverse(values) \in Seq(Values) /\ Len(Reverse(values)) = N
          /\ \A j \in 1..N : Reverse(values)[j] = values[N - j + 1]
      BY <1>1, ReverseEntries
    <3> DEFINE t == Reverse(values)
    <3> HIDE DEF t
    <3>2. \A j \in 1..N : j = 1 /\ N - j + 1 = j
      BY <1>2, <1>7
    <3>3. \A j \in 1..N : t[j] = values[j]
      BY <3>1, <3>2 DEF t
    <3>4. t = values
      BY <1>1, <3>1, <3>3, SeqEqual DEF t
    <3> QED  BY <3>4 DEF t
  <2> QED  BY <1>1, <2>1, <2>2
<1>8. CASE N >= 2
  <2>0. Len(s) = N /\ values # <<>>
    BY <1>1, <1>5, <1>8
  <2>1. 1 \in 1..N /\ 2 \in 1..N /\ 1 \in 1..(N - 1) /\ 1 + 1 = 2 /\ N \in 1..N
    BY <1>2, <1>8
  <2>2. list_cdr(h, c) = s[2] /\ s[2] \in Cells /\ s[2] # s[1]
    <3>1. s[1] # Null /\ h.cdr[s[1]] = s[2]
      BY <1>6, <2>0, <2>1
    <3>2. s[2] \in Cells /\ s[2] # s[1]
      BY <1>6, <2>0, <2>1
    <3> QED  BY <1>2, <3>1, <3>2 DEF list_cdr
  <2>3. two = [h.cdr EXCEPT ![s[1]] = Null, ![s[2]] = s[1]]
    BY <1>2, <2>2
  <2> HIDE DEF two
  <2>4. /\ two \in [Cells -> Pointers] /\ two[s[1]] = Null /\ two[s[2]] = s[1]
        /\ \A d \in Cells : d # s[1] /\ d # s[2] => two[d] = h.cdr[d]
    BY <1>1, <1>2, <1>3, <2>2, <2>3 DEF Pointers
  <2> SUFFICES ASSUME NEW cdr, Turned(cdr, s), r = [heap |-> [h EXCEPT !.cdr = cdr], at |-> s[N]]
               PROVE  /\ IsHeap(r.heap) /\ r.at \in Cells
                      /\ \E t : Owns(r.heap, t, r.at, Reverse(values), rest)
    <3>1. CASE N = 2
      <4>1. r = [heap |-> [h EXCEPT !.cdr = two], at |-> s[N]]
        BY <1>4, <2>2, <3>1
      <4>2. \A i \in 2..Len(s) : i = 2 /\ i - 1 = 1
        BY <2>0, <3>1
      <4>3. Turned(two, s)
        BY <2>4, <4>2 DEF Turned
      <4> QED  BY <4>1, <4>3
    <3>2. CASE N = 3
      <4> DEFINE cdr == [two EXCEPT ![third] = list_cdr(h, c)]
      <4>1. 2 \in 1..(N - 1) /\ 2 + 1 = 3 /\ 3 \in 1..N
        BY <3>2
      <4>2. third = s[3] /\ s[3] \in Cells /\ s[3] # s[1] /\ s[3] # s[2]
        <5>1. s[2] # Null /\ h.cdr[s[2]] = s[3]
          BY <1>6, <2>0, <2>1, <4>1
        <5>2. s[3] \in Cells /\ s[3] # s[1] /\ s[3] # s[2]
          BY <1>6, <2>0, <2>1, <4>1
        <5> QED  BY <2>2, <5>1, <5>2 DEF list_cdr
      <4>3. r = Three
        BY <1>4, <3>2
      <4>4. r = [heap |-> [h EXCEPT !.cdr = cdr], at |-> s[N]]
        BY <3>2, <4>2, <4>3
      <4>5. cdr \in [Cells -> Pointers] /\ cdr[s[1]] = Null /\ cdr[s[2]] = s[1] /\ cdr[s[3]] = s[2]
        BY <1>1, <1>2, <2>2, <2>4, <4>2 DEF Pointers
      <4> HIDE DEF cdr
      <4>6. \A i \in 2..Len(s) : (i = 2 /\ i - 1 = 1) \/ (i = 3 /\ i - 1 = 2)
        BY <2>0, <3>2
      <4>7. Turned(cdr, s)
        BY <4>5, <4>6 DEF Turned
      <4> QED  BY <4>4, <4>7
    <3>3. CASE N > 3
      <4> DEFINE once == [end.cdr EXCEPT ![end.q] = end.p]
                 cdr == [once EXCEPT ![end.r] = end.q]
      <4>1. Stands(end, h, s, Len(s) - 4)
        <5>1. Len(s) >= 4
          BY <1>2, <2>0, <3>3
        <5> QED  BY <1>2, <2>3, <5>1, RunFacts
      <4>2. r = Long
        <5> HIDE DEF Short, Pair, Three, Long, N
        <5> QED  BY <1>2, <1>4, <3>3
      <4>3. r = [heap |-> [h EXCEPT !.cdr = cdr], at |-> end.r]
        BY <4>2
      <4> HIDE DEF end
      <4>4. (N - 4) + 2 = N - 2 /\ (N - 4) + 3 = N - 1 /\ (N - 4) + 4 = N
            /\ N - 2 \in 1..N /\ N - 1 \in 1..N /\ N - 1 # N /\ N - 2 # N /\ N - 2 # N - 1 /\ 1 # N - 1 /\ 1 # N
        <5> HIDE DEF N
        <5> QED  BY <1>2, <3>3
      <4> DEFINE p == s[N - 2]
                 q == s[N - 1]
                 o == s[N]
      <4>5. /\ end.p = p /\ end.q = q /\ end.r = o
            /\ end.cdr \in [Cells -> Pointers] /\ end.cdr[s[1]] = Null
            /\ \A i \in 2..(N - 2) : end.cdr[s[i]] = s[i - 1]
        BY <2>0, <4>1, <4>4 DEF Stands
      <4>6. p \in Cells /\ q \in Cells /\ o \in Cells /\ q # o /\ s[1] # q /\ s[1] # o
        BY <1>6, <2>0, <2>1, <4>4
      <4>7. cdr = [[end.cdr EXCEPT ![q] = p] EXCEPT ![o] = q]
        BY <4>5
      <4>8. /\ cdr \in [Cells -> Pointers] /\ cdr[q] = p /\ cdr[o] = q /\ cdr[s[1]] = Null
            /\ \A d \in Cells : d # q /\ d # o => cdr[d] = end.cdr[d]
        <5> HIDE DEF cdr, p, q, o
        <5>1. s[1] \in Cells
          BY <1>1, <1>2
        <5> QED  BY <4>5, <4>6, <4>7, <5>1 DEF Pointers
      <4> HIDE DEF cdr
      <4>9. \A i \in 2..Len(s) : cdr[s[i]] = s[i - 1]
        <5> SUFFICES ASSUME NEW i \in 2..N PROVE cdr[s[i]] = s[i - 1]
          BY <2>0
        <5>1. CASE i = N
          BY <4>8, <5>1
        <5>2. CASE i = N - 1
          <6>1. i - 1 = N - 2
            BY <1>2, <5>2
          <6> QED  BY <4>8, <5>2, <6>1
        <5>3. CASE i # N /\ i # N - 1
          <6>1. i \in 1..N /\ i \in 2..(N - 2)
            <7> HIDE DEF N
            <7> QED  BY <1>2, <5>3
          <6>2. s[i] \in Cells /\ s[i] # q /\ s[i] # o
            BY <1>6, <2>0, <2>1, <4>4, <5>3, <6>1
          <6> QED  BY <4>5, <4>8, <6>1, <6>2
        <5> QED  BY <5>1, <5>2, <5>3
      <4>10. Turned(cdr, s)
        BY <4>8, <4>9 DEF Turned
      <4> QED  BY <4>3, <4>5, <4>10
    <3>4. N = 2 \/ N = 3 \/ N > 3
      <4> HIDE DEF N
      <4> QED  BY <1>2, <1>8
    <3> QED  BY <3>1, <3>2, <3>3, <3>4
  <2> DEFINE g == [h EXCEPT !.cdr = cdr]
  <2>5. r.heap = g /\ r.at = s[N]
    OBVIOUS
  <2> HIDE DEF g
  <2>6. IsHeap(g) /\ Owns(g, Reverse(s), s[Len(s)], Reverse(values), rest) /\ s[Len(s)] \in Cells
    BY <2>0, TurnedFacts DEF g
  <2> QED  BY <2>0, <2>5, <2>6
<1> QED  BY <1>2, <1>7, <1>8

--------------------------------------------------------------------------------
(* Nothing but the fields of a heap matters to a list, ...                  *)
LEMMA OwnsElsewhere ==
  ASSUME NEW h, NEW g, g.car = h.car, g.cdr = h.cdr, g.live = h.live,
         NEW s, NEW c, NEW values, NEW rest, Owns(h, s, c, values, rest)
  PROVE  Owns(g, s, c, values, rest)
  BY DEF Owns, Holds

(* ... and of those only its own cells.                                     *)
LEMMA OwnsFrame ==
  ASSUME NEW h, IsHeap(h), NEW s, NEW c, NEW values, NEW rest, Owns(h, s, c, values, rest),
         NEW g, Same(g, h, ToSet(s)), NEW others, g.live = ToSet(s) \cup others, ToSet(s) \cap others = {}
  PROVE  Owns(g, s, c, values, others)
<1>1. LinkedIn(Cells, Null, h.cdr, s, c) /\ Holds(h, s, values)
  BY DEF Owns
<1>2. LinkedIn(Cells, Null, g.cdr, s, c)
  <2>1. \A x \in ToSet(s) : g.cdr[x] = h.cdr[x]
    BY DEF Same
  <2> QED  BY <1>1, <2>1, CellsFacts, LinkedInFrame
<1>3. Holds(g, s, values)
  <2>1. \A i \in 1..Len(s) : s[i] \in ToSet(s)
    BY <1>1, CellsFacts, LinkedInFacts
  <2>2. Len(s) \in Nat /\ Len(s) >= 1
    BY <1>1, CellsFacts, LinkedInFacts
  <2>3. \A i \in 1..Len(s) : g.car[s[i]] = h.car[s[i]]
    BY <2>1 DEF Same
  <2>4. g.car[s[1]] = h.car[s[1]]
    BY <2>2, <2>3
  <2> QED  BY <1>1, <2>3, <2>4 DEF Holds
<1> QED  BY <1>2, <1>3 DEF Owns

(* The cells are the same whatever malloc will do.                          *)
LEMMA RoomyFacts ==
  ASSUME IsHeap(heap), NEW cells \in Int, NEW h \in Roomy(cells)
  PROVE  IsHeap(h) /\ h.car = heap.car /\ h.cdr = heap.cdr /\ h.live = heap.live
<1> DEFINE free == Cardinality(Cells \ heap.live)
<1>1. free \in Nat
  <2>1. IsFiniteSet(Cells \ heap.live)
    BY CellsFacts, FS_Subset
  <2> QED  BY <2>1, FS_CardinalityType
<1>2. Min({cells, free}) <= free /\ Min({cells, free}) \in Int
  <2> HIDE DEF free
  <2>1. \E x \in {cells, free} : \A y \in {cells, free} : x <= y
    BY <1>1
  <2> QED  BY <1>1, <2>1 DEF Min
<1>3. PICK n \in 0..Min({cells, free}) : h = [heap EXCEPT !.left = n]
  BY DEF Roomy
<1> HIDE DEF free
<1>4. n \in Nat /\ n <= free
  BY <1>1, <1>2, <1>3
<1>5. /\ heap.car \in [Cells -> Values \cup {NoValue}] /\ heap.cdr \in [Cells -> Pointers]
      /\ heap.live \in SUBSET Cells
      /\ heap = [car |-> heap.car, cdr |-> heap.cdr, live |-> heap.live, left |-> heap.left]
  BY HeapFacts
<1>6. h = [car |-> heap.car, cdr |-> heap.cdr, live |-> heap.live, left |-> n]
  BY <1>3, <1>5
<1>7. n <= Cardinality(Cells \ heap.live)
  BY <1>4 DEF free
<1> QED  BY <1>4, <1>5, <1>6, <1>7 DEF IsHeap

(* What malloc has left does not matter once a call is over.               *)
LEMMA SettledFacts ==
  ASSUME NEW h, IsHeap(h), NEW g, g = Settled(h)
  PROVE  IsHeap(g) /\ g.car = h.car /\ g.cdr = h.cdr /\ g.live = h.live /\ g.left = 0
<1>1. /\ h.car \in [Cells -> Values \cup {NoValue}] /\ h.cdr \in [Cells -> Pointers]
      /\ h.live \in SUBSET Cells
      /\ h = [car |-> h.car, cdr |-> h.cdr, live |-> h.live, left |-> h.left]
  BY HeapFacts
<1>2. g = [car |-> h.car, cdr |-> h.cdr, live |-> h.live, left |-> 0]
  BY <1>1 DEF Settled
<1>3. 0 <= Cardinality(Cells \ h.live)
  <2>1. IsFiniteSet(Cells \ h.live)
    BY CellsFacts, FS_Subset
  <2>2. Cardinality(Cells \ h.live) \in Nat
    BY <2>1, FS_CardinalityType
  <2> QED  BY <2>2
<1> QED  BY <1>1, <1>2, <1>3 DEF IsHeap

(* The inductive invariant: the allocated cells are those of the caller's   *)
(* lists and those that list_map has left behind, without overlap.          *)
Alone(values) == \E s : Owns(heap, s, l, values, leaked)
Both(values, new) ==
  \E s, t : /\ Owns(heap, s, l, values, ToSet(t) \cup leaked)
            /\ Owns(heap, t, m, new, ToSet(s) \cup leaked)

Partition ==
  /\ IsHeap(heap) /\ heap.left = 0
  /\ \/ m = Null /\ \E values : Alone(values)
     \/ m # Null /\ \E values, new : Both(values, new)

(* What the abstraction sees of it.                                         *)
LEMMA AloneFacts ==
  ASSUME IsHeap(heap), NEW values, Alone(values)
  PROVE  Entries(heap, l) = values /\ values \in Seq(Values)
  BY ListFacts DEF Alone

(* The same where the caller has two lists.                                *)
LEMMA BothFacts ==
  ASSUME IsHeap(heap), NEW values, NEW new, Both(values, new)
  PROVE  /\ Entries(heap, l) = values /\ values \in Seq(Values)
         /\ Entries(heap, m) = new /\ new \in Seq(Values) /\ new # NoList
<1>1. PICK s, t : /\ Owns(heap, s, l, values, ToSet(t) \cup leaked)
                  /\ Owns(heap, t, m, new, ToSet(s) \cup leaked)
  BY DEF Both
<1>2. Entries(heap, l) = values /\ values \in Seq(Values)
  BY <1>1, ListFacts
<1>3. Entries(heap, m) = new /\ new \in Seq(Values)
  BY <1>1, ListFacts
<1> QED  BY <1>2, <1>3, ValuesAssumption

(* At first the caller has one list, and it is empty.                      *)
LEMMA PartitionInit ==
  ASSUME Init
  PROVE  Partition /\ Alone(<<>>)
<1>1. 1 \in Cells
  BY MaxCellsAssumption DEF Cells
<1>2. heap = [car |-> [c \in Cells |-> NoValue], cdr |-> [c \in Cells |-> Null], live |-> {1}, left |-> 0]
      /\ l = 1 /\ m = Null /\ leaked = {}
  BY DEF Init
<1>3. heap.car[1] = NoValue /\ heap.cdr[1] = Null /\ heap.live = {1} /\ heap.left = 0
  BY <1>1, <1>2
<1>4. IsHeap(heap)
  <2>1. IsFiniteSet(Cells \ {1})
    BY CellsFacts, FS_Subset
  <2>2. Cardinality(Cells \ {1}) \in Nat
    BY <2>1, FS_CardinalityType
  <2> QED  BY <1>1, <1>2, <2>2 DEF IsHeap, Pointers
<1>5. Owns(heap, <<1>>, 1, <<>>, {})
  <2> DEFINE s == <<1>>
  <2>1. s \in Seq(Cells) /\ Len(s) = 1 /\ s[1] = 1
    BY <1>1
  <2>2. ToSet(s) = {1}
    BY DEF ToSet
  <2> HIDE DEF s
  <2>3. LinkedIn(Cells, Null, heap.cdr, s, 1)
    BY <1>3, <2>1 DEF LinkedIn
  <2>4. Holds(heap, s, <<>>)
    BY <1>3, <2>1 DEF Holds
  <2>5. Owns(heap, s, 1, <<>>, {})
    BY <1>3, <2>2, <2>3, <2>4 DEF Owns
  <2> QED  BY <2>5 DEF s
<1>6. Alone(<<>>)
  BY <1>2, <1>5 DEF Alone
<1> QED  BY <1>2, <1>3, <1>4, <1>6 DEF Partition

(* The invariant after a call that leaves the caller with one list, ...     *)
LEMMA AloneNext ==
  ASSUME IsHeap(heap'), heap'.left = 0, m' = Null,
         NEW s, NEW values, Owns(heap', s, l', values, leaked')
  PROVE  Partition' /\ Entries(heap', l') = values
<1>1. Entries(heap', l') = values
  BY ListFacts
<1>2. Alone(values)'
  BY DEF Alone
<1> QED  BY <1>1, <1>2 DEF Partition

(* ... and after one that may have called malloc.                           *)
LEMMA AloneSettled ==
  ASSUME NEW h, IsHeap(h), heap' = Settled(h), m' = Null,
         NEW s, NEW values, Owns(h, s, l', values, leaked')
  PROVE  Partition' /\ Entries(heap', l') = values
<1> DEFINE g == heap'
<1>1. IsHeap(g) /\ g.car = h.car /\ g.cdr = h.cdr /\ g.live = h.live /\ g.left = 0
  BY SettledFacts
<1>2. Owns(g, s, l', values, leaked')
  BY <1>1, OwnsElsewhere
<1> QED  BY <1>1, <1>2, AloneNext

(* free() does not decide how often malloc will succeed.                   *)
LEMMA FreeLeft ==
  ASSUME NEW car, NEW cdr, NEW live, NEW left,
         NEW h, h = [car |-> car, cdr |-> cdr, live |-> live, left |-> left], NEW cells
  PROVE  FreeCells(h, cells).left = left
<1> DEFINE a == [c \in Cells |-> IF c \in cells THEN NoValue ELSE car[c]]
           d == [c \in Cells |-> IF c \in cells THEN Null ELSE cdr[c]]
<1>1. FreeCells(h, cells) = [h EXCEPT !.car = a, !.cdr = d, !.live = live \ cells]
  BY DEF FreeCells
<1> HIDE DEF a, d
<1> DEFINE h1 == [h EXCEPT !.car = a]
           h2 == [h1 EXCEPT !.cdr = d]
           h3 == [h2 EXCEPT !.live = live \ cells]
<1>2. FreeCells(h, cells) = h3
  BY <1>1
<1>3. h1 = [car |-> a, cdr |-> cdr, live |-> live, left |-> left]
  OBVIOUS
<1> HIDE DEF h1
<1>4. h2 = [car |-> a, cdr |-> d, live |-> live, left |-> left]
  BY <1>3
<1> HIDE DEF h2
<1>5. h3 = [car |-> a, cdr |-> d, live |-> live \ cells, left |-> left]
  BY <1>4
<1> HIDE DEF h3
<1> QED  BY <1>2, <1>5

(* Functions that do not call malloc leave open how often it succeeds.      *)
LEMMA LeftFacts ==
  ASSUME NEW h, IsHeap(h), NEW c, NEW index
  PROVE  /\ list_destroy(h, c).left = h.left
         /\ list_pop(h, c).heap.left = h.left
         /\ list_remove(h, c, index).heap.left = h.left
         /\ list_reverse(h, c).heap.left = h.left
<1> DEFINE car == h.car
           cdr == h.cdr
           live == h.live
           left == h.left
<1>1. h = [car |-> car, cdr |-> cdr, live |-> live, left |-> left]
  BY HeapFacts
<1> HIDE DEF car, cdr, live, left
<1>2. \A cells : FreeCells(h, cells).left = left
  BY <1>1, FreeLeft
<1>3. ASSUME NEW x, NEW y
      PROVE  /\ [h EXCEPT !.car[c] = x].left = left
             /\ \A cells : FreeCells([h EXCEPT !.car[c] = x, !.cdr[c] = y], cells).left = left
  <2> DEFINE f == [h EXCEPT !.car[c] = x]
             g == [f EXCEPT !.cdr[c] = y]
  <2>1. f = [car |-> [car EXCEPT ![c] = x], cdr |-> cdr, live |-> live, left |-> left]
    BY <1>1, Written
  <2>2. [h EXCEPT !.car[c] = x, !.cdr[c] = y] = g
    OBVIOUS
  <2>3. f.left = left
    BY <2>1
  <2> HIDE DEF f
  <2>4. g = [car |-> [car EXCEPT ![c] = x], cdr |-> [cdr EXCEPT ![c] = y], live |-> live, left |-> left]
    BY <2>1
  <2> HIDE DEF g
  <2>5. \A cells : FreeCells(g, cells).left = left
    BY <2>4, FreeLeft
  <2> QED  BY <2>2, <2>3, <2>5 DEF f
<1>4. ASSUME NEW p, NEW y, NEW cells PROVE FreeCells([h EXCEPT !.cdr[p] = y], cells).left = left
  <2> DEFINE g == [h EXCEPT !.cdr[p] = y]
  <2>1. g = [car |-> car, cdr |-> [cdr EXCEPT ![p] = y], live |-> live, left |-> left]
    BY <1>1, Written
  <2> HIDE DEF g
  <2>2. FreeCells(g, cells).left = left
    BY <2>1, FreeLeft
  <2> QED  BY <2>2 DEF g
<1>5. list_destroy(h, c).left = h.left
  BY <1>2 DEF list_destroy, left
<1>6. list_pop(h, c).heap.left = h.left
  <2> DEFINE n == list_cdr(h, c)
             r == list_pop(h, c)
             x == h.car[n]
             y == h.cdr[n]
  <2>1. \/ r.heap = h
        \/ r.heap = [h EXCEPT !.car[c] = NoValue]
        \/ r.heap = FreeCells([h EXCEPT !.car[c] = x, !.cdr[c] = y], {n})
    BY DEF list_pop
  <2>2. \A z : [h EXCEPT !.car[c] = z].left = left
    BY <1>3
  <2> DEFINE g == [h EXCEPT !.car[c] = x, !.cdr[c] = y]
  <2> HIDE DEF n, x, y, r
  <2>3. FreeCells(g, {n}).left = left
    BY <1>3
  <2> HIDE DEF g
  <2>4. \/ r.heap = h
        \/ \E z : r.heap = [h EXCEPT !.car[c] = z]
        \/ r.heap = FreeCells(g, {n})
    BY <2>1 DEF g
  <2>5. r.heap.left = left
    BY <1>1, <2>2, <2>3, <2>4
  <2> QED  BY <2>5 DEF left, r
<1>7. list_remove(h, c, index).heap.left = h.left
  <2> DEFINE prev == CellsFrom(h, c)[index]
             target == h.cdr[prev]
             r == list_remove(h, c, index)
  <2>1. \/ r.heap = h
        \/ r = list_pop(h, c)
        \/ r.heap = FreeCells([h EXCEPT !.cdr[prev] = h.cdr[target]], {target})
    BY DEF list_remove
  <2> HIDE DEF r
  <2> QED  BY <1>4, <1>6, <2>1 DEF left, r
<1>8. list_reverse(h, c).heap.left = h.left
  <2> DEFINE two == [h.cdr EXCEPT ![c] = Null, ![list_cdr(h, c)] = c]
             third == list_cdr(h, list_cdr(h, c))
             end == (CHOOSE f : Runs(f, h, c, two))[MaxCells]
             new3 == [two EXCEPT ![third] = list_cdr(h, c)]
             new4 == [end.cdr EXCEPT ![end.q] = end.p, ![end.r] = end.q]
             r == list_reverse(h, c)
  <2>1. r = CASE list_size(h, c) <= 1 -> [heap |-> h, at |-> c]
              [] list_size(h, c) = 2 -> [heap |-> [h EXCEPT !.cdr = two], at |-> list_cdr(h, c)]
              [] list_size(h, c) = 3 -> [heap |-> [h EXCEPT !.cdr = new3], at |-> third]
              [] OTHER -> [heap |-> [h EXCEPT !.cdr = new4], at |-> end.r]
    BY DEF list_reverse, Runs
  <2> HIDE DEF new3, new4, two, r, end, third
  <2>2. r.heap \in {h, [h EXCEPT !.cdr = two], [h EXCEPT !.cdr = new3], [h EXCEPT !.cdr = new4]}
    <3> DEFINE H2 == [h EXCEPT !.cdr = two]
               H3 == [h EXCEPT !.cdr = new3]
               H4 == [h EXCEPT !.cdr = new4]
    <3>1. r = CASE list_size(h, c) <= 1 -> [heap |-> h, at |-> c]
                [] list_size(h, c) = 2 -> [heap |-> H2, at |-> list_cdr(h, c)]
                [] list_size(h, c) = 3 -> [heap |-> H3, at |-> third]
                [] OTHER -> [heap |-> H4, at |-> end.r]
      BY <2>1
    <3> HIDE DEF H2, H3, H4
    <3>2. r.heap \in {h, H2, H3, H4}
      BY <3>1
    <3> QED  BY <3>2 DEF H2, H3, H4
  <2>3. \A new : [h EXCEPT !.cdr = new].left = left
    BY <1>1
  <2> QED  BY <2>2, <2>3 DEF left, r
<1> QED  BY <1>5, <1>6, <1>7, <1>8

(* Each action preserves the invariant and is a step of AbstractList.       *)
LEMMA ConsStep ==
  ASSUME Partition, m = Null, NEW v \in Values, ConsTo(v)
  PROVE  Partition' /\ Sequence!Insert
<1>1. PICK s, values : IsHeap(heap) /\ Owns(heap, s, l, values, leaked)
  BY DEF Partition, Alone
<1>2. PICK h \in Roomy(1) : LET r == list_cons(h, v, l) IN heap' = Settled(r.heap) /\ l' = Kept(r.at)
  BY DEF ConsTo
<1>3. call' = <<"insert">> /\ m' = m /\ leaked' = leaked
  BY DEF ConsTo
<1>4. IsHeap(h) /\ h.car = heap.car /\ h.cdr = heap.cdr /\ h.live = heap.live
  BY <1>1, RoomyFacts
<1>5. Owns(h, s, l, values, leaked)
  BY <1>1, <1>4, OwnsElsewhere
<1> DEFINE r == list_cons(h, v, l)
<1>6. /\ IsHeap(r.heap)
      /\ \/ r.at = Null /\ r.heap = h
         \/ /\ r.at # Null
            /\ \E t : Owns(r.heap, t, r.at, <<v>> \o values, leaked)
  BY <1>4, <1>5, ConsFacts
<1>7. heap' = Settled(r.heap) /\ l' = Kept(r.at)
  BY <1>2
<1>8. Entries(heap, l) = values
  BY <1>1, ListFacts
<1> HIDE DEF r
<1>9. Partition' /\ Entries(heap', l') \in {values, <<v>> \o values}
  <2>1. CASE r.at = Null
    <3>1. l' = l /\ r.heap = h
      BY <1>6, <1>7, <2>1 DEF Kept
    <3>2. Owns(r.heap, s, l', values, leaked')
      BY <1>3, <1>5, <3>1
    <3> QED  BY <1>3, <1>6, <1>7, <3>2, AloneSettled
  <2>2. CASE r.at # Null
    <3>1. l' = r.at
      BY <1>7, <2>2 DEF Kept
    <3>2. PICK t : Owns(r.heap, t, r.at, <<v>> \o values, leaked)
      BY <1>6, <2>2
    <3>3. Owns(r.heap, t, l', <<v>> \o values, leaked')
      BY <1>3, <3>1, <3>2
    <3> QED  BY <1>3, <1>6, <1>7, <3>3, AloneSettled
  <2> QED  BY <2>1, <2>2
<1> QED  BY <1>3, <1>8, <1>9 DEF Sequence!Insert

(* list_push is an insertion.                                              *)
LEMMA PushStep ==
  ASSUME Partition, m = Null, NEW v \in Values, PushTo(v)
  PROVE  Partition' /\ Sequence!Insert
<1>1. PICK s, values : IsHeap(heap) /\ Owns(heap, s, l, values, leaked)
  BY DEF Partition, Alone
<1>2. PICK h \in Roomy(1) : heap' = Settled(list_push(h, l, v))
  BY DEF PushTo
<1>3. call' = <<"insert">> /\ l' = l /\ m' = m /\ leaked' = leaked
  BY DEF PushTo
<1>4. IsHeap(h) /\ h.car = heap.car /\ h.cdr = heap.cdr /\ h.live = heap.live
  BY <1>1, RoomyFacts
<1>5. Owns(h, s, l, values, leaked)
  BY <1>1, <1>4, OwnsElsewhere
<1> DEFINE g == list_push(h, l, v)
<1>6. /\ IsHeap(g)
      /\ \E t, new : Owns(g, t, l, new, leaked) /\ new \in {values, <<v>> \o values}
  BY <1>4, <1>5, PushFacts
<1>7. heap' = Settled(g)
  BY <1>2
<1> HIDE DEF g
<1>8. PICK t, new : Owns(g, t, l, new, leaked) /\ new \in {values, <<v>> \o values}
  BY <1>6
<1>9. Partition' /\ Entries(heap', l') = new
  <2>1. Owns(g, t, l', new, leaked')
    BY <1>3, <1>8
  <2> QED  BY <1>3, <1>6, <1>7, <2>1, AloneSettled
<1>10. Entries(heap, l) = values
  BY <1>1, ListFacts
<1> QED  BY <1>3, <1>8, <1>9, <1>10 DEF Sequence!Insert

(* list_append adds at the end.                                            *)
LEMMA AddStep ==
  ASSUME Partition, m = Null, NEW v \in Values, AddTo(v)
  PROVE  Partition' /\ Sequence!Add
<1>1. PICK s, values : IsHeap(heap) /\ Owns(heap, s, l, values, leaked)
  BY DEF Partition, Alone
<1>2. PICK h \in Roomy(1) : heap' = Settled(list_append(h, l, v))
  BY DEF AddTo
<1>3. call' = <<"append">> /\ l' = l /\ m' = m /\ leaked' = leaked
  BY DEF AddTo
<1>4. IsHeap(h) /\ h.car = heap.car /\ h.cdr = heap.cdr /\ h.live = heap.live
  BY <1>1, RoomyFacts
<1>5. Owns(h, s, l, values, leaked)
  BY <1>1, <1>4, OwnsElsewhere
<1> DEFINE g == list_append(h, l, v)
<1>6. /\ IsHeap(g)
      /\ \E t, new : Owns(g, t, l, new, leaked) /\ new \in {values, Append(values, v)}
  BY <1>4, <1>5, AppendFacts
<1>7. heap' = Settled(g)
  BY <1>2
<1> HIDE DEF g
<1>8. PICK t, new : Owns(g, t, l, new, leaked) /\ new \in {values, Append(values, v)}
  BY <1>6
<1>9. Partition' /\ Entries(heap', l') = new
  <2>1. Owns(g, t, l', new, leaked')
    BY <1>3, <1>8
  <2> QED  BY <1>3, <1>6, <1>7, <2>1, AloneSettled
<1>10. Entries(heap, l) = values
  BY <1>1, ListFacts
<1> QED  BY <1>3, <1>8, <1>9, <1>10 DEF Sequence!Add

(* The operator of AbstractList is the one that the lemmas are about.       *)
LEMMA SameRemoveAt ==
  ASSUME NEW values, NEW i
  PROVE  Sequence!RemoveAt(values, i) = RemoveAt(values, i)
  BY DEF Sequence!RemoveAt, RemoveAt

(* So is this one.                                                         *)
LEMMA SameReverse ==
  ASSUME NEW values
  PROVE  Sequence!Reverse(values) = Reverse(values)
  BY DEF Sequence!Reverse, Reverse

(* list_pop takes the first value.                                         *)
LEMMA PopStep ==
  ASSUME Partition, m = Null, PopFrom
  PROVE  Partition' /\ Sequence!Next
<1>1. PICK s, values : IsHeap(heap) /\ heap.left = 0 /\ Owns(heap, s, l, values, leaked)
  BY DEF Partition, Alone
<1> DEFINE r == list_pop(heap, l)
<1>2. heap' = r.heap /\ call' = <<"remove", 0, r.ret>> /\ l' = l /\ m' = m /\ leaked' = leaked
  BY DEF PopFrom
<1>3. /\ values = <<>> => r.heap = heap /\ r.ret = NoValue
      /\ values # <<>> => /\ IsHeap(r.heap) /\ r.ret = values[1]
                          /\ \E t : Owns(r.heap, t, l, RemoveAt(values, 1), leaked)
  BY <1>1, PopFacts
<1>4. r.heap.left = 0
  BY <1>1, LeftFacts
<1> HIDE DEF r
<1>5. Entries(heap, l) = values /\ values \in Seq(Values)
  BY <1>1, ListFacts
<1>6. Len(values) \in Nat /\ values \in [1..Len(values) -> Values] /\ (values = <<>> <=> Len(values) = 0)
  BY <1>5, LenProperties, EmptySeq
<1>7. Partition' /\ Sequence!Take(0, r.ret) /\ r.ret \in Values \cup {NoValue}
  <2>1. CASE values = <<>>
    <3>1. Owns(heap', s, l', values, leaked')
      BY <1>1, <1>2, <1>3, <2>1
    <3>2. Partition' /\ Entries(heap', l') = values
      BY <1>1, <1>2, <1>3, <2>1, <3>1, AloneNext
    <3>3. 0 \notin 0..(Len(values) - 1)
      BY <1>6, <2>1
    <3> QED  BY <1>2, <1>3, <1>5, <2>1, <3>2, <3>3 DEF Sequence!Take
  <2>2. CASE values # <<>>
    <3>1. PICK t : Owns(r.heap, t, l, RemoveAt(values, 1), leaked)
      BY <1>3, <2>2
    <3>2. Owns(heap', t, l', RemoveAt(values, 1), leaked')
      BY <1>2, <3>1
    <3>3. Partition' /\ Entries(heap', l') = RemoveAt(values, 1)
      BY <1>2, <1>3, <1>4, <2>2, <3>2, AloneNext
    <3>4. 0 \in 0..(Len(values) - 1) /\ 1 \in 1..Len(values) /\ 0 + 1 = 1
      BY <1>6, <2>2
    <3>5. r.ret = values[0 + 1] /\ r.ret \in Values
      BY <1>3, <1>6, <2>2, <3>4
    <3>6. Entries(heap', l') = Sequence!RemoveAt(values, 0 + 1)
      BY <3>3, <3>4, SameRemoveAt
    <3> QED  BY <1>2, <1>5, <3>3, <3>4, <3>5, <3>6 DEF Sequence!Take
  <2> QED  BY <2>1, <2>2
<1>8. 0 \in -1..(Len(Entries(heap, l)) + 1)
  BY <1>5, <1>6
<1> QED  BY <1>7, <1>8 DEF Sequence!Next

(* list_remove takes the value at its index.                               *)
LEMMA RemoveStep ==
  ASSUME Partition, m = Null, NEW index \in -1..(list_size(heap, l) + 1), RemoveFrom(index)
  PROVE  Partition' /\ Sequence!Next
<1>1. PICK s, values : IsHeap(heap) /\ heap.left = 0 /\ Owns(heap, s, l, values, leaked)
  BY DEF Partition, Alone
<1> DEFINE r == list_remove(heap, l, index)
<1>2. heap' = r.heap /\ call' = <<"remove", index, r.ret>> /\ l' = l /\ m' = m /\ leaked' = leaked
  BY DEF RemoveFrom
<1>3. Entries(heap, l) = values /\ list_size(heap, l) = Len(values) /\ values \in Seq(Values)
  BY <1>1, ListFacts
<1>4. Len(values) \in Nat /\ values \in [1..Len(values) -> Values]
  BY <1>3, LenProperties
<1>5. index \in Int /\ index \in -1..(Len(Entries(heap, l)) + 1)
  BY <1>3, <1>4
<1>6. /\ index \notin 0..(Len(values) - 1) => r.heap = heap /\ r.ret = NoValue
      /\ index \in 0..(Len(values) - 1) =>
           /\ IsHeap(r.heap) /\ r.ret = values[index + 1]
           /\ \E t : Owns(r.heap, t, l, RemoveAt(values, index + 1), leaked)
  BY <1>1, <1>5, RemoveFacts
<1>7. r.heap.left = 0
  BY <1>1, LeftFacts
<1> HIDE DEF r
<1>8. Partition' /\ Sequence!Take(index, r.ret) /\ r.ret \in Values \cup {NoValue}
  <2>1. CASE index \notin 0..(Len(values) - 1)
    <3>1. Owns(heap', s, l', values, leaked')
      BY <1>1, <1>2, <1>6, <2>1
    <3>2. Partition' /\ Entries(heap', l') = values
      BY <1>1, <1>2, <1>6, <2>1, <3>1, AloneNext
    <3> QED  BY <1>2, <1>3, <1>6, <2>1, <3>2 DEF Sequence!Take
  <2>2. CASE index \in 0..(Len(values) - 1)
    <3> DEFINE new == RemoveAt(values, index + 1)
    <3>1. PICK t : Owns(r.heap, t, l, new, leaked)
      BY <1>6, <2>2
    <3>2. Owns(heap', t, l', new, leaked')
      BY <1>2, <3>1
    <3>3. Partition' /\ Entries(heap', l') = new
      BY <1>2, <1>6, <1>7, <2>2, <3>2, AloneNext
    <3>4. index + 1 \in 1..Len(values)
      BY <1>4, <2>2
    <3>5. r.ret = values[index + 1] /\ r.ret \in Values
      BY <1>4, <1>6, <2>2, <3>4
    <3>6. Entries(heap', l') = Sequence!RemoveAt(values, index + 1)
      BY <3>3, SameRemoveAt
    <3> QED  BY <1>2, <1>3, <2>2, <3>3, <3>5, <3>6 DEF Sequence!Take
  <2> QED  BY <2>1, <2>2
<1> QED  BY <1>5, <1>8 DEF Sequence!Next

(* list_reverse reverses.                                                  *)
LEMMA TurnStep ==
  ASSUME Partition, m = Null, Turn
  PROVE  Partition' /\ Sequence!Turn
<1>1. PICK s, values : IsHeap(heap) /\ heap.left = 0 /\ Owns(heap, s, l, values, leaked)
  BY DEF Partition, Alone
<1> DEFINE r == list_reverse(heap, l)
<1>2. heap' = r.heap /\ l' = r.at /\ call' = <<"reverse">> /\ m' = m /\ leaked' = leaked
  BY DEF Turn
<1>3. IsHeap(r.heap) /\ \E t : Owns(r.heap, t, r.at, Reverse(values), leaked)
  BY <1>1, ReverseFacts
<1>4. r.heap.left = 0
  BY <1>1, LeftFacts
<1> HIDE DEF r
<1>5. PICK t : Owns(r.heap, t, r.at, Reverse(values), leaked)
  BY <1>3
<1>6. Owns(heap', t, l', Reverse(values), leaked')
  BY <1>2, <1>5
<1>7. Partition' /\ Entries(heap', l') = Reverse(values)
  BY <1>2, <1>3, <1>4, <1>6, AloneNext
<1>8. Entries(heap, l) = values
  BY <1>1, ListFacts
<1> QED  BY <1>2, <1>7, <1>8, SameReverse DEF Sequence!Turn

(* The invariant after list_filter or list_map has made a second list, ...  *)
LEMMA DerivedNext ==
  ASSUME NEW h, IsHeap(h), NEW s, NEW values, Owns(h, s, l, values, leaked),
         NEW d, IsHeap(d.heap), Same(d.heap, h, h.live), d.at # Null,
         NEW t, NEW new, Owns(d.heap, t, d.at, new, h.live),
         heap' = Settled(d.heap), m' = d.at, l' = l, leaked' = leaked
  PROVE  Partition' /\ Entries(heap', l') = values /\ Entries(heap', m') = new
<1> DEFINE g == heap'
<1>1. IsHeap(g) /\ g.car = d.heap.car /\ g.cdr = d.heap.cdr /\ g.live = d.heap.live /\ g.left = 0
  BY SettledFacts
<1>2. h.live = ToSet(s) \cup leaked /\ ToSet(s) \cap leaked = {}
  BY DEF Owns
<1>3. g.live = ToSet(t) \cup h.live /\ ToSet(t) \cap h.live = {}
  BY <1>1 DEF Owns
<1>4. Owns(g, s, l, values, ToSet(t) \cup leaked)
  <2> DEFINE others == ToSet(t) \cup leaked
  <2>1. Same(g, h, ToSet(s))
    BY <1>1, <1>2 DEF Same
  <2>2. g.live = ToSet(s) \cup others /\ ToSet(s) \cap others = {}
    BY <1>2, <1>3
  <2> HIDE DEF others
  <2>3. Owns(g, s, l, values, others)
    BY <2>1, <2>2, OwnsFrame
  <2> QED  BY <2>3 DEF others
<1>5. Owns(g, t, d.at, new, ToSet(s) \cup leaked)
  <2>1. Owns(g, t, d.at, new, h.live)
    BY <1>1, OwnsElsewhere
  <2> QED  BY <1>2, <2>1
<1>6. Entries(g, l) = values
  BY <1>1, <1>4, ListFacts
<1>7. Entries(g, d.at) = new
  BY <1>1, <1>5, ListFacts
<1>8. Both(values, new)'
  BY <1>4, <1>5 DEF Both
<1> QED  BY <1>1, <1>6, <1>7, <1>8 DEF Partition

(* ... and after it has found no memory for one.                            *)
LEMMA DerivedNothing ==
  ASSUME NEW h, IsHeap(h), NEW s, NEW values, Owns(h, s, l, values, leaked),
         NEW g, IsHeap(g), Same(g, h, h.live),
         g.live = ToSet(s) \cup leaked', ToSet(s) \cap leaked' = {},
         heap' = Settled(g), m' = Null, l' = l
  PROVE  Partition' /\ Entries(heap', l') = values
<1>1. h.live = ToSet(s) \cup leaked
  BY DEF Owns
<1>2. Same(g, h, ToSet(s))
  BY <1>1 DEF Same
<1>3. Owns(g, s, l, values, leaked')
  <2> DEFINE others == leaked'
  <2>1. g.live = ToSet(s) \cup others /\ ToSet(s) \cap others = {}
    OBVIOUS
  <2> HIDE DEF others
  <2>2. Owns(g, s, l, values, others)
    BY <1>2, <2>1, OwnsFrame
  <2> QED  BY <2>2 DEF others
<1>4. Owns(g, s, l', values, leaked')
  BY <1>3
<1> QED  BY <1>4, AloneSettled

(* The bound on the calls of malloc is a number.                           *)
LEMMA RoomFacts ==
  ASSUME NEW n \in Nat
  PROVE  Max({1, n}) \in Int
<1>1. \E x \in {1, n} : \A y \in {1, n} : x >= y
  OBVIOUS
<1> QED  BY <1>1 DEF Max

(* list_filter returns the values that are kept.                           *)
LEMMA FilterStep ==
  ASSUME Partition, m = Null, NEW keep \in SUBSET Values, FilterOf(keep)
  PROVE  Partition' /\ Sequence!Filter(keep)
<1>1. PICK s, values : IsHeap(heap) /\ Owns(heap, s, l, values, leaked)
  BY DEF Partition, Alone
<1>2. Entries(heap, l) = values /\ list_size(heap, l) = Len(values) /\ values \in Seq(Values)
  BY <1>1, ListFacts
<1> DEFINE room == Max({1, list_size(heap, l)})
<1>3. room \in Int
  <2>1. Len(values) \in Nat
    BY <1>2, LenProperties
  <2> QED  BY <1>2, <2>1, RoomFacts
<1>4. PICK h \in Roomy(room) : Derived(list_filter(h, l, keep))
  BY DEF FilterOf
<1> HIDE DEF room
<1>5. IsHeap(h) /\ h.car = heap.car /\ h.cdr = heap.cdr /\ h.live = heap.live
  BY <1>1, <1>3, RoomyFacts
<1>6. Owns(h, s, l, values, leaked)
  BY <1>1, <1>5, OwnsElsewhere
<1> DEFINE d == list_filter(h, l, keep)
           kept == Sequence!Selected(values, keep)
<1>7. /\ IsHeap(d.heap) /\ Same(d.heap, h, h.live)
      /\ \/ d.at = Null /\ d.heap.live = h.live
         \/ /\ d.at # Null
            /\ \E t : Owns(d.heap, t, d.at, Reverse(kept), h.live)
  BY <1>5, <1>6, FilterFacts
<1>8. heap' = Settled(d.heap) /\ m' = d.at /\ l' = l
  BY <1>4 DEF Derived
<1>9. call' = <<"filter", keep>> /\ leaked' = leaked
  BY DEF FilterOf
<1> HIDE DEF d, kept
<1>10. CASE d.at = Null
  <2>1. d.heap.live = ToSet(s) \cup leaked' /\ ToSet(s) \cap leaked' = {}
    BY <1>6, <1>7, <1>9, <1>10 DEF Owns
  <2>2. Partition' /\ Entries(heap', l') = values
    BY <1>5, <1>6, <1>7, <1>8, <1>10, <2>1, DerivedNothing
  <2> QED  BY <1>2, <1>8, <1>9, <1>10, <2>2 DEF Sequence!Filter, Sequence!Derive
<1>11. CASE d.at # Null
  <2>1. PICK t : Owns(d.heap, t, d.at, Reverse(kept), h.live)
    BY <1>7, <1>11
  <2>2. Partition' /\ Entries(heap', l') = values /\ Entries(heap', m') = Reverse(kept)
    BY <1>5, <1>6, <1>7, <1>8, <1>9, <1>11, <2>1, DerivedNext
  <2>3. Sequence!Reverse(kept) = Reverse(kept)
    BY SameReverse
  <2> QED  BY <1>2, <1>8, <1>9, <1>11, <2>2, <2>3 DEF Sequence!Filter, Sequence!Derive, kept
<1> QED  BY <1>10, <1>11

(* list_map returns what the values become.                                *)
LEMMA MapStep ==
  ASSUME Partition, m = Null, MapOf
  PROVE  Partition' /\ Sequence!Map
<1>1. PICK s, values : IsHeap(heap) /\ Owns(heap, s, l, values, leaked)
  BY DEF Partition, Alone
<1>2. Entries(heap, l) = values /\ list_size(heap, l) = Len(values) /\ values \in Seq(Values)
  BY <1>1, ListFacts
<1> DEFINE room == Max({1, list_size(heap, l)})
<1>3. room \in Int
  <2>1. Len(values) \in Nat
    BY <1>2, LenProperties
  <2> QED  BY <1>2, <2>1, RoomFacts
<1>4. PICK h \in Roomy(room) : Derived(list_map(h, l, Mapping))
  BY DEF MapOf
<1> HIDE DEF room
<1>5. IsHeap(h) /\ h.car = heap.car /\ h.cdr = heap.cdr /\ h.live = heap.live
  BY <1>1, <1>3, RoomyFacts
<1>6. Owns(h, s, l, values, leaked)
  BY <1>1, <1>5, OwnsElsewhere
<1> DEFINE d == list_map(h, l, Mapping)
           mapped == [i \in 1..Len(values) |-> Mapping[values[i]]]
<1>7. /\ IsHeap(d.heap) /\ Same(d.heap, h, h.live)
      /\ \/ d.at = Null /\ h.live \subseteq d.heap.live
         \/ /\ d.at # Null
            /\ \E t : Owns(d.heap, t, d.at, Reverse(mapped), h.live)
  BY <1>5, <1>6, MapFacts
<1>8. heap' = Settled(d.heap) /\ m' = d.at /\ l' = l
  BY <1>4 DEF Derived
<1>9. /\ call' = <<"map">> /\ leaked = {}
      /\ leaked' = IF m' = Null THEN heap'.live \ heap.live ELSE {}
  BY DEF MapOf
<1>10. heap'.live = d.heap.live
  BY <1>7, <1>8, SettledFacts
<1> HIDE DEF d, mapped
<1>11. CASE d.at = Null
  <2>1. heap.live = ToSet(s)
    BY <1>1, <1>9 DEF Owns
  <2>2. leaked' = d.heap.live \ ToSet(s) /\ ToSet(s) \subseteq d.heap.live
    BY <1>5, <1>7, <1>8, <1>9, <1>10, <1>11, <2>1
  <2>3. d.heap.live = ToSet(s) \cup leaked' /\ ToSet(s) \cap leaked' = {}
    BY <2>2
  <2>4. Partition' /\ Entries(heap', l') = values
    BY <1>5, <1>6, <1>7, <1>8, <1>11, <2>3, DerivedNothing
  <2> QED  BY <1>2, <1>8, <1>9, <1>11, <2>4 DEF Sequence!Map, Sequence!Derive
<1>12. CASE d.at # Null
  <2>1. PICK t : Owns(d.heap, t, d.at, Reverse(mapped), h.live)
    BY <1>7, <1>12
  <2>2. leaked' = leaked
    BY <1>8, <1>9, <1>12
  <2>3. Partition' /\ Entries(heap', l') = values /\ Entries(heap', m') = Reverse(mapped)
    BY <1>5, <1>6, <1>7, <1>8, <1>12, <2>1, <2>2, DerivedNext
  <2>4. Sequence!Reverse(mapped) = Reverse(mapped)
    BY SameReverse
  <2> QED  BY <1>2, <1>8, <1>9, <1>12, <2>3, <2>4 DEF Sequence!Map, Sequence!Derive, mapped
<1> QED  BY <1>11, <1>12

(* The caller destroys the one list ...                                    *)
LEMMA KeepStep ==
  ASSUME Partition, KeepDerived
  PROVE  Partition' /\ Sequence!KeepDerived
<1>1. /\ m # Null /\ heap' = list_destroy(heap, l) /\ l' = m /\ m' = Null
      /\ call' = <<"destroy">> /\ leaked' = leaked
  BY DEF KeepDerived
<1>2. IsHeap(heap) /\ heap.left = 0
  BY DEF Partition
<1>3. PICK values, new : Both(values, new)
  BY <1>1 DEF Partition
<1>4. PICK s, t : /\ Owns(heap, s, l, values, ToSet(t) \cup leaked)
                  /\ Owns(heap, t, m, new, ToSet(s) \cup leaked)
  BY <1>3 DEF Both
<1> DEFINE g == list_destroy(heap, l)
<1>5. IsHeap(g) /\ g.live = ToSet(t) \cup leaked /\ Same(g, heap, ToSet(t) \cup leaked)
  BY <1>2, <1>4, DestroyFacts
<1>6. g.left = 0
  BY <1>2, LeftFacts
<1> HIDE DEF g
<1>7. Owns(g, t, m, new, leaked)
  <2>1. Same(g, heap, ToSet(t))
    BY <1>5 DEF Same
  <2>2. ToSet(t) \cap leaked = {}
    BY <1>4 DEF Owns
  <2> QED  BY <1>2, <1>4, <1>5, <2>1, <2>2, OwnsFrame
<1>8. heap' = g
  BY <1>1 DEF g
<1>9. Owns(heap', t, l', new, leaked')
  BY <1>1, <1>7, <1>8
<1>10. Partition' /\ Entries(heap', l') = new
  BY <1>1, <1>5, <1>6, <1>8, <1>9, AloneNext
<1>11. Entries(heap, m) = new /\ new # NoList
  BY <1>2, <1>3, BothFacts
<1> QED  BY <1>1, <1>10, <1>11 DEF Sequence!KeepDerived

(* ... or the other.                                                       *)
LEMMA DropStep ==
  ASSUME Partition, DropDerived
  PROVE  Partition' /\ Sequence!DropDerived
<1>1. /\ m # Null /\ heap' = list_destroy(heap, m) /\ l' = l /\ m' = Null
      /\ call' = <<"destroy">> /\ leaked' = leaked
  BY DEF DropDerived
<1>2. IsHeap(heap) /\ heap.left = 0
  BY DEF Partition
<1>3. PICK values, new : Both(values, new)
  BY <1>1 DEF Partition
<1>4. PICK s, t : /\ Owns(heap, s, l, values, ToSet(t) \cup leaked)
                  /\ Owns(heap, t, m, new, ToSet(s) \cup leaked)
  BY <1>3 DEF Both
<1> DEFINE g == list_destroy(heap, m)
<1>5. IsHeap(g) /\ g.live = ToSet(s) \cup leaked /\ Same(g, heap, ToSet(s) \cup leaked)
  BY <1>2, <1>4, DestroyFacts
<1>6. g.left = 0
  BY <1>2, LeftFacts
<1> HIDE DEF g
<1>7. Owns(g, s, l, values, leaked)
  <2>1. Same(g, heap, ToSet(s))
    BY <1>5 DEF Same
  <2>2. ToSet(s) \cap leaked = {}
    BY <1>4 DEF Owns
  <2> QED  BY <1>2, <1>4, <1>5, <2>1, <2>2, OwnsFrame
<1>8. heap' = g
  BY <1>1 DEF g
<1>9. Owns(heap', s, l', values, leaked')
  BY <1>1, <1>7, <1>8
<1>10. Partition' /\ Entries(heap', l') = values
  BY <1>1, <1>5, <1>6, <1>8, <1>9, AloneNext
<1>11. Entries(heap, l) = values /\ Entries(heap, m) = new /\ new # NoList
  BY <1>2, <1>3, BothFacts
<1> QED  BY <1>1, <1>10, <1>11 DEF Sequence!DropDerived

(* Every step of the caller preserves the invariant and is one of           *)
(* AbstractList's.                                                          *)
LEMMA NextStep ==
  ASSUME Partition, Next
  PROVE  Partition' /\ Sequence!Next
<1>1. CASE m = Null /\ \E v \in Values : ConsTo(v) \/ PushTo(v) \/ AddTo(v)
  BY <1>1, ConsStep, PushStep, AddStep DEF Sequence!Next
<1>2. CASE m = Null /\ PopFrom
  BY <1>2, PopStep
<1>3. CASE m = Null /\ \E index \in -1..(list_size(heap, l) + 1) : RemoveFrom(index)
  BY <1>3, RemoveStep
<1>4. CASE m = Null /\ Turn
  BY <1>4, TurnStep DEF Sequence!Next
<1>5. CASE m = Null /\ \E keep \in SUBSET Values : FilterOf(keep)
  BY <1>5, FilterStep DEF Sequence!Next
<1>6. CASE m = Null /\ MapOf
  BY <1>6, MapStep DEF Sequence!Next
<1>7. CASE KeepDerived
  BY <1>7, KeepStep DEF Sequence!Next
<1>8. CASE DropDerived
  BY <1>8, DropStep DEF Sequence!Next
<1> QED  BY <1>1, <1>2, <1>3, <1>4, <1>5, <1>6, <1>7, <1>8 DEF Next

(* Nothing changes if no variable does.                                    *)
LEMMA NothingHappens ==
  ASSUME Partition, UNCHANGED vars
  PROVE  Partition' /\ UNCHANGED Sequence!vars
  BY DEF vars, Partition, Alone, Both, Sequence!vars

(* The allocated cells are always those of the caller's lists and those     *)
(* that list_map has left behind, without overlap.                          *)
THEOREM Partitioned ==
  Spec => []Partition
<1>1. Init => Partition
  BY PartitionInit
<1>2. Partition /\ [Next]_vars => Partition'
  BY NextStep, NothingHappens
<1> QED  BY <1>1, <1>2, PTL DEF Spec

(* The fields of the cells hold values and pointers to cells, always.       *)
THEOREM TypeCorrect ==
  Spec => []TypeOK
<1>1. Partition => TypeOK
  <2> SUFFICES ASSUME Partition PROVE TypeOK
    OBVIOUS
  <2>1. IsHeap(heap) /\ heap.left = 0
    BY DEF Partition
  <2>2. heap \in [car : [Cells -> Values \cup {NoValue}], cdr : [Cells -> Cells \cup {Null}],
                  live : SUBSET Cells, left : {0}]
    <3>1. /\ heap.car \in [Cells -> Values \cup {NoValue}] /\ heap.cdr \in [Cells -> Pointers]
          /\ heap.live \in SUBSET Cells
          /\ heap = [car |-> heap.car, cdr |-> heap.cdr, live |-> heap.live, left |-> heap.left]
      BY <2>1, HeapFacts
    <3> QED  BY <2>1, <3>1 DEF Pointers
  <2>3. CASE m = Null
    <3>1. PICK s, values : Owns(heap, s, l, values, leaked)
      BY <2>3 DEF Partition, Alone
    <3>2. l \in Cells /\ leaked \subseteq Cells
      BY <2>1, <3>1, OwnsFacts
    <3> QED  BY <2>2, <2>3, <3>2 DEF TypeOK
  <2>4. CASE m # Null
    <3>1. PICK s, t, values, new : /\ Owns(heap, s, l, values, ToSet(t) \cup leaked)
                                   /\ Owns(heap, t, m, new, ToSet(s) \cup leaked)
      BY <2>4 DEF Partition, Both
    <3>2. l \in Cells /\ ToSet(t) \cup leaked \subseteq Cells
      BY <2>1, <3>1, OwnsFacts
    <3>3. m \in Cells
      BY <2>1, <3>1, OwnsFacts
    <3> QED  BY <2>2, <3>2, <3>3 DEF TypeOK
  <2> QED  BY <2>3, <2>4
<1> QED  BY <1>1, Partitioned, PTL

(* Every allocated cell belongs to exactly one list of the caller's or is   *)
(* one that list_map has left behind, and no list has a freed cell.         *)
THEOREM CellsAccountedFor ==
  Spec => []EveryCellHasAList
<1>1. Partition => EveryCellHasAList
  <2> SUFFICES ASSUME Partition PROVE EveryCellHasAList
    OBVIOUS
  <2>1. IsHeap(heap)
    BY DEF Partition
  <2>2. CASE m = Null
    <3>1. PICK s, values : Owns(heap, s, l, values, leaked)
      BY <2>2 DEF Partition, Alone
    <3>2. CellsFrom(heap, l) = s
      BY <2>1, <3>1, ListFacts
    <3>3. /\ s \in Seq(Cells) /\ LinkedIn(Cells, Null, heap.cdr, s, l)
          /\ heap.live = ToSet(s) \cup leaked /\ ToSet(s) \cap leaked = {}
      BY <2>1, <3>1, OwnsFacts
    <3>4. IsInjective(s) /\ heap.cdr[s[Len(s)]] = Null
      BY <3>3, CellsFacts, LinkedInFacts
    <3>5. s \o <<>> = s
      BY <3>3
    <3>6. ToSet(<<>>) = {}
      BY DEF ToSet
    <3>7. heap.live \ leaked = ToSet(s) \cup ToSet(<<>>)
      BY <3>3, <3>6
    <3> QED  BY <2>2, <3>2, <3>4, <3>5, <3>7 DEF EveryCellHasAList, Last
  <2>3. CASE m # Null
    <3>1. PICK s, t, values, new : /\ Owns(heap, s, l, values, ToSet(t) \cup leaked)
                                   /\ Owns(heap, t, m, new, ToSet(s) \cup leaked)
      BY <2>3 DEF Partition, Both
    <3>2. CellsFrom(heap, l) = s
      BY <2>1, <3>1, ListFacts
    <3>3. CellsFrom(heap, m) = t
      BY <2>1, <3>1, ListFacts
    <3>4. /\ s \in Seq(Cells) /\ LinkedIn(Cells, Null, heap.cdr, s, l)
          /\ heap.live = ToSet(s) \cup (ToSet(t) \cup leaked)
          /\ ToSet(s) \cap (ToSet(t) \cup leaked) = {}
      BY <2>1, <3>1, OwnsFacts
    <3>5. t \in Seq(Cells) /\ LinkedIn(Cells, Null, heap.cdr, t, m) /\ ToSet(t) \cap (ToSet(s) \cup leaked) = {}
      BY <2>1, <3>1, OwnsFacts
    <3>6. IsInjective(s) /\ heap.cdr[s[Len(s)]] = Null
      BY <3>4, CellsFacts, LinkedInFacts
    <3>7. IsInjective(t)
      BY <3>5, CellsFacts, LinkedInFacts
    <3>8. IsInjective(s \o t)
      BY <3>4, <3>5, <3>6, <3>7, InjectiveConcat
    <3>9. heap.live \ leaked = ToSet(s) \cup ToSet(t)
      BY <3>4, <3>5
    <3> QED  BY <2>3, <3>2, <3>3, <3>6, <3>8, <3>9 DEF EveryCellHasAList, Last
  <2> QED  BY <2>2, <2>3
<1> QED  BY <1>1, Partitioned, PTL

(* The functions of list.c implement the operations on sequences.           *)
THEOREM ListsImplementSequences ==
  Spec => ImplementsSequence
<1>1. Init => Sequence!Init
  <2> SUFFICES ASSUME Init PROVE Sequence!Init
    OBVIOUS
  <2>1. Partition /\ Alone(<<>>)
    BY PartitionInit
  <2>2. Entries(heap, l) = <<>>
    BY <2>1, AloneFacts DEF Partition
  <2> QED  BY <2>2 DEF Init, Sequence!Init
<1>2. Partition /\ [Next]_vars => [Sequence!Next]_(Sequence!vars)
  BY NextStep, NothingHappens
<1>3. Spec => []Partition
  BY Partitioned
<1> QED  BY <1>1, <1>2, <1>3, PTL DEF Spec, ImplementsSequence, Sequence!Spec

================================================================================
