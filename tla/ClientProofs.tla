------------------------------ MODULE ClientProofs ------------------------------
(***************************************************************************)
(* What holds of a client for any configuration files, any services, tags  *)
(* and any size of the memory: the writes of list.c keep the list whole    *)
(* and add up to the directory ServerDirectory describes, whose promises   *)
(* so hold of the list in memory; and a walk that no removal overlaps with *)
(* calls each server, whatever is inserted.  At the end, of its start: the *)
(* servers it calls are those of its configuration file.                   *)
(***************************************************************************)
EXTENDS Client, ClientStart, SequenceLemmas

--------------------------------------------------------------------------------
(* The cells s of the client's memory are those from c on along these      *)
(* pointers, to the null.                                                  *)
Linked(next, s, c) == LinkedIn(Cells, Null, next, s, c)

(* The memory is finite, and the null is no cell of it.                    *)
LEMMA Memory == Null \notin Cells /\ IsFiniteSet(Cells)
<1>1. SpareCells \in Nat
  BY SpareCellsAssumption
<1>2. IsFiniteSet(0..SpareCells)
  BY <1>1, FS_Interval
<1> QED  BY <1>1, <1>2 DEF Cells, Null

(* Chain finds the cells of such a list.                                   *)
LEMMA ChainIs ==
  ASSUME NEW next, NEW c, NEW s, Linked(next, s, c)
  PROVE  Chain(Cells, next, c) = s
BY Memory, ChainOf DEF Linked

(* What is known of lists in any memory, of this one: what their cells are, *)
LEMMA LinkedFacts ==
  ASSUME NEW next, NEW c, NEW s, Linked(next, s, c)
  PROVE  /\ Len(s) \in Nat /\ Len(s) >= 1
         /\ s \in Seq(Cells) /\ s \in [1..Len(s) -> Cells] /\ DOMAIN s = 1..Len(s)
         /\ s[1] = c /\ c \in Cells /\ c \in ToSet(s)
         /\ \A x : x \in ToSet(s) <=> \E i \in 1..Len(s) : x = s[i]
         /\ ToSet(s) \subseteq Cells
         /\ IsInjective(s)
         /\ \A i, j \in 1..Len(s) : s[i] = s[j] => i = j
         /\ \A i \in 1..(Len(s) - 1) : next[s[i]] = s[i + 1]
         /\ next[s[Len(s)]] = Null
         /\ \A i \in 1..Len(s) : s[i] # Null
         /\ next[c] = Null <=> Len(s) = 1
         /\ Len(s) >= 2 => next[c] = s[2]
BY Memory, LinkedInFacts DEF Linked

(* that cells outside a list may be written, ...                           *)
LEMMA LinkedElsewhere ==
  ASSUME NEW next \in [Cells -> Cells \cup {Null}], NEW c, NEW s, Linked(next, s, c),
         NEW n \in Cells, n \notin ToSet(s), NEW x
  PROVE  Linked([next EXCEPT ![n] = x], s, c)
BY Memory, LinkedInElsewhere DEF Linked

(* that another first cell may point where the first cell does, ...        *)
LEMMA LinkedSwap ==
  ASSUME NEW next \in [Cells -> Cells \cup {Null}], NEW c, NEW s, Linked(next, s, c),
         NEW n \in Cells, n \notin ToSet(s), next[n] = next[c]
  PROVE  /\ Linked(next, [s EXCEPT ![1] = n], n)
BY Memory, LinkedInSwap DEF Linked

(* that what is behind the first cell is a list of its own, ...            *)
LEMMA LinkedBehind ==
  ASSUME NEW next, NEW c, NEW s, Linked(next, s, c), Len(s) >= 2
  PROVE  Linked(next, Behind(s), s[2]) /\ Len(Behind(s)) = Len(s) - 1
BY Memory, LinkedInBehind DEF Linked

(* that a cell may be linked in behind the first, ...                      *)
LEMMA LinkedInserted ==
  ASSUME NEW next \in [Cells -> Cells \cup {Null}], NEW c, NEW s, Linked(next, s, c),
         NEW n \in Cells, n \notin ToSet(s), next[n] = next[c],
         NEW new, new[c] = n, \A d \in Cells \ {c} : new[d] = next[d]
  PROVE  /\ Linked(new, Inserted(s, n), c)
         /\ Len(Inserted(s, n)) = Len(s) + 1
         /\ ToSet(Inserted(s, n)) = ToSet(s) \cup {n}
BY Memory, LinkedInInserted DEF Linked

(* and that one behind the first may be linked over.                       *)
LEMMA LinkedWithout ==
  ASSUME NEW next \in [Cells -> Cells \cup {Null}], NEW c, NEW s, Linked(next, s, c),
         NEW k \in 2..Len(s),
         NEW new, new[s[k - 1]] = next[s[k]], \A d \in Cells \ {s[k - 1]} : new[d] = next[d]
  PROVE  /\ Linked(new, Without(s, k), c)
         /\ Len(Without(s, k)) = Len(s) - 1
         /\ ToSet(Without(s, k)) = ToSet(s) \ {s[k]}
<1>1. Skips(Cells, new, next, s, k)
  BY DEF Skips
<1> QED  BY <1>1, Memory, LinkedInWithout DEF Linked

--------------------------------------------------------------------------------
(* The list in memory.                                                     *)
chain == CellsFrom(First)
Apart == IF apc \in {"pushCdr", "free"} THEN {atom} ELSE {}

(* The values in these cells.                                              *)
Held(val, s) == [i \in 1..Len(s) |-> val[s[i]]]

Network ==
  /\ configured \in Configurations
  /\ browsing \in BOOLEAN
  /\ announced \in SUBSET Links
  /\ resolving \in SUBSET Links
  /\ failed \in SUBSET Links

Heap ==
  /\ car \in [Cells -> Servers \cup {NoServer}]
  /\ cdr \in [Cells -> Cells \cup {Null}]
  /\ apc \in {"idle", "pushCdr", "popCdr", "free"}
  /\ atom \in Cells
  /\ resolver \in Links \cup {NoLink}

(* The allocated cells are the list's and the one that is apart.           *)
Intact ==
  /\ Linked(cdr, chain, First)
  /\ ToSet(chain) \cap Apart = {}
  /\ live = ToSet(chain) \cup Apart

(* What is between the two writes of an insertion, or of a removal.        *)
Halfway ==
  /\ apc # "idle" => car[First] # NoServer /\ browsing = TRUE
  /\ apc = "pushCdr" =>
       /\ cdr[atom] = cdr[First] /\ car[atom] # NoServer
       /\ resolver \in resolving /\ car[First] = resolver[1]
  /\ apc = "popCdr" => Len(chain) >= 2 /\ atom = chain[2] /\ car[First] = car[atom]

(* Only the first cell may be without a server, and only if it is alone.   *)
Filled ==
  /\ car[First] = NoServer => Len(chain) = 1
  /\ \A i \in 2..Len(chain) : car[chain[i]] # NoServer

Whole == Network /\ Heap /\ Intact /\ Halfway /\ Filled

(* The test of the names in resolve_callback holds until the last write.   *)
StillUnknown == apc = "pushCdr" => ~Listed(resolver[1])

ListInv == Whole /\ StillUnknown

(* What the callbacks see of the list, from write to write.                *)
Seen ==
  /\ apc \in {"idle", "free"} => directory = IF car[First] = NoServer THEN <<>> ELSE Held(car, chain)
  /\ apc = "pushCdr" => directory = Held(car, [chain EXCEPT ![1] = atom])
  /\ apc = "popCdr" => directory = Held(car, Behind(chain))

(* What an intact list means for the callbacks' reading of it (Entries).   *)
LEMMA DirectoryIs == Whole => Seen
<1> SUFFICES ASSUME Whole
             PROVE  /\ apc \in {"idle", "free"} => directory = IF car[First] = NoServer THEN <<>> ELSE Held(car, chain)
                    /\ apc = "pushCdr" => directory = Held(car, [chain EXCEPT ![1] = atom])
                    /\ apc = "popCdr" => directory = Held(car, Behind(chain))
  BY DEF Seen
<1>1. Linked(cdr, chain, First) /\ cdr \in [Cells -> Cells \cup {Null}] /\ atom \in Cells
  BY DEF Whole, Heap, Intact
<1>2. cdr[First] = Null <=> Len(chain) = 1
  BY <1>1, LinkedFacts
<1>3. ASSUME apc \in {"idle", "free"}
      PROVE  directory = IF car[First] = NoServer THEN <<>> ELSE Held(car, chain)
  <2>1. directory = Entries(First)
    BY <1>3 DEF directory
  <2>2. IsEmpty(First) <=> car[First] = NoServer
    BY <1>2 DEF IsEmpty, Whole, Filled
  <2> QED  BY <2>1, <2>2 DEF Entries, Held, chain
<1>4. ASSUME apc = "pushCdr"
      PROVE  directory = Held(car, [chain EXCEPT ![1] = atom])
  <2>1. directory = Entries(atom)
    BY <1>4 DEF directory
  <2>2. car[atom] # NoServer /\ cdr[atom] = cdr[First] /\ atom \notin ToSet(chain)
    BY <1>4 DEF Whole, Halfway, Intact, Apart
  <2>3. Linked(cdr, [chain EXCEPT ![1] = atom], atom)
    BY <1>1, <2>2, LinkedSwap
  <2>4. CellsFrom(atom) = [chain EXCEPT ![1] = atom]
    BY <2>3, ChainIs DEF CellsFrom
  <2>5. ~IsEmpty(atom)
    BY <2>2 DEF IsEmpty
  <2> QED  BY <2>1, <2>4, <2>5 DEF Entries, Held
<1>5. ASSUME apc = "popCdr"
      PROVE  directory = Held(car, Behind(chain))
  <2>1. directory = Entries(atom)
    BY <1>5 DEF directory
  <2>2. Len(chain) >= 2 /\ atom = chain[2] /\ car[atom] # NoServer
    BY <1>5 DEF Whole, Halfway
  <2>3. Linked(cdr, Behind(chain), atom)
    BY <1>1, <2>2, LinkedBehind
  <2>4. CellsFrom(atom) = Behind(chain)
    BY <2>3, ChainIs DEF CellsFrom
  <2>5. ~IsEmpty(atom)
    BY <2>2 DEF IsEmpty
  <2> QED  BY <2>1, <2>4, <2>5 DEF Entries, Held
<1> QED  BY <1>3, <1>4, <1>5

(* The same after a step.                                                  *)
LEMMA DirectoryWillBe == Whole' => Seen'
BY DirectoryIs, PTL

(* The entries are servers, each at its place.                             *)
HeldIn(val, s, S) == Len(s) \in Nat /\ \A i \in 1..Len(s) : val[s[i]] \in S

LEMMA HeldAre ==
  ASSUME NEW S, NEW val, NEW s, HeldIn(val, s, S)
  PROVE  /\ Held(val, s) \in Seq(S) /\ Len(Held(val, s)) = Len(s)
         /\ \A i \in 1..Len(s) : Held(val, s)[i] = val[s[i]]
<1>1. Held(val, s) \in [1..Len(s) -> S] /\ Len(s) \in Nat
  BY DEF Held, HeldIn
<1>2. \A i \in 1..Len(s) : Held(val, s)[i] = val[s[i]]
  BY DEF Held
<1> QED  BY <1>1, <1>2, SequenceOf

(* The list read_config_servers leaves is whole, and the file's in         *)
(* reverse.                                                                *)
LEMMA InitList == Init => ListInv /\ Directory!Init
<1> SUFFICES ASSUME Init PROVE ListInv /\ Directory!Init
  OBVIOUS
<1> DEFINE n == Len(configured)
           m == IF n = 0 THEN 1 ELSE n
           s == [i \in 1..m |-> i - 1]
<1>1. /\ configured \in Configurations /\ browsing = TRUE /\ announced = {} /\ resolving = {} /\ failed = {}
      /\ car = [c \in Cells |-> IF c < n THEN Reverse(configured)[c + 1] ELSE NoServer]
      /\ cdr = [c \in Cells |-> IF c + 1 < n THEN c + 1 ELSE Null]
      /\ live = {First} \cup {c \in Cells : c < n}
      /\ apc = "idle" /\ atom = First /\ resolver = NoLink
  BY DEF Init
<1>2. configured \in Seq(Servers) /\ n <= SpareCells + 1 /\ SpareCells \in Nat /\ NoServer \notin Servers
  BY <1>1, ConfiguredAssumption, SpareCellsAssumption, NullAssumption
<1>3. n \in Nat
  BY <1>2, LenProperties
<1>4. /\ Reverse(configured) \in Seq(Servers) /\ Len(Reverse(configured)) = n
      /\ \A i \in 1..n : Reverse(configured)[i] \in Servers
  <2>1. Reverse(configured) \in Seq(Servers) /\ Len(Reverse(configured)) = n
    BY <1>2, ReverseEntries
  <2> QED  BY <2>1, ElementOfSeq
<1> DEFINE rev == Reverse(configured)
<1> HIDE DEF n, rev
<1>5. m \in Nat /\ m >= 1 /\ m <= SpareCells + 1
  BY <1>2, <1>3
<1>6. s \in [1..m -> Cells] /\ \A i \in 1..m : s[i] = i - 1
  BY <1>2, <1>5 DEF Cells
<1>7. s \in Seq(Cells) /\ Len(s) = m
  BY <1>5, <1>6, SequenceOf
<1>8. \A c \in Cells : cdr[c] = IF c + 1 < n THEN c + 1 ELSE Null
  BY <1>1
<1> HIDE DEF s
<1>9. Linked(cdr, s, First)
  <2>1. s[1] = First
    BY <1>5, <1>6 DEF First
  <2>2. \A i, j \in 1..m : s[i] = s[j] => i = j
    BY <1>5, <1>6
  <2>3. ASSUME NEW i \in 1..(m - 1) PROVE cdr[s[i]] = s[i + 1]
    <3>1. i \in 1..m /\ i + 1 \in 1..m /\ m = n /\ i < n
      BY <1>3
    <3>2. s[i] = i - 1 /\ s[i] \in Cells
      BY <1>6, <3>1
    <3>3. s[i + 1] = (i + 1) - 1
      BY <1>6, <3>1
    <3> QED  BY <1>3, <1>8, <3>1, <3>2, <3>3
  <2>4. cdr[s[m]] = Null
    <3>1. m \in 1..m
      BY <1>5
    <3>2. s[m] = m - 1 /\ s[m] \in Cells
      BY <1>6, <3>1
    <3> QED  BY <1>3, <1>8, <3>2
  <2> QED  BY <1>5, <1>7, <2>1, <2>2, <2>3, <2>4 DEF Linked, LinkedIn
<1>10. chain = s
  BY <1>9, ChainIs DEF chain, CellsFrom
<1>11. Network
  BY <1>1 DEF Network
<1>12. Heap
  <2>1. car \in [Cells -> Servers \cup {NoServer}]
    <3>1. \A c \in Cells : c < n => c + 1 \in 1..n
      BY <1>2, <1>3 DEF Cells
    <3> QED  BY <1>1, <1>4, <3>1 DEF rev
  <2>2. cdr \in [Cells -> Cells \cup {Null}]
    <3>1. \A c \in Cells : c + 1 < n => c + 1 \in Cells
      BY <1>2, <1>3 DEF Cells
    <3> QED  BY <1>1, <3>1
  <2>3. First \in Cells
    BY <1>2 DEF First, Cells
  <2> QED  BY <1>1, <2>1, <2>2, <2>3 DEF Heap
<1>13. Intact
  <2>1. Apart = {}
    BY <1>1 DEF Apart
  <2>2. \A x : x \in ToSet(s) <=> \E i \in 1..m : x = i - 1
    BY <1>6, <1>7, <1>9, LinkedFacts
  <2>3. ASSUME NEW x \in {First} \cup {c \in Cells : c < n}
        PROVE  \E i \in 1..m : x = i - 1
    <3>1. x \in Nat /\ x + 1 \in 1..m /\ x = (x + 1) - 1
      BY <1>2, <1>3 DEF Cells, First
    <3> QED  BY <3>1
  <2>4. ASSUME NEW i \in 1..m
        PROVE  i - 1 \in {First} \cup {c \in Cells : c < n}
    BY <1>2, <1>3, <1>5 DEF Cells, First
  <2>5. live = ToSet(s)
    BY <1>1, <2>2, <2>3, <2>4
  <2> QED  BY <1>9, <1>10, <2>1, <2>5 DEF Intact
<1>14. Halfway
  BY <1>1 DEF Halfway
<1>15. \A i \in 1..n : car[i - 1] = rev[i] /\ rev[i] \in Servers /\ rev[i] # NoServer /\ i - 1 \in Cells
  <2> SUFFICES ASSUME NEW i \in 1..n
               PROVE  car[i - 1] = rev[i] /\ rev[i] \in Servers /\ rev[i] # NoServer /\ i - 1 \in Cells
    OBVIOUS
  <2>1. i - 1 \in Cells /\ i - 1 < n /\ (i - 1) + 1 = i
    BY <1>2, <1>3 DEF Cells
  <2> QED  BY <1>1, <1>2, <1>4, <2>1 DEF rev
<1>16. Filled
  <2>1. car[First] = NoServer => m = 1
    <3> SUFFICES ASSUME n # 0 PROVE car[First] # NoServer
      OBVIOUS
    <3>1. 1 \in 1..n /\ 1 - 1 = First
      BY <1>3 DEF First
    <3> QED  BY <1>15, <3>1
  <2>2. ASSUME NEW i \in 2..m PROVE car[s[i]] # NoServer
    <3>1. i \in 1..n /\ i \in 1..m
      BY <1>3
    <3>2. s[i] = i - 1
      BY <1>6, <3>1
    <3> QED  BY <1>15, <3>1, <3>2
  <2> QED  BY <1>7, <1>10, <2>1, <2>2 DEF Filled
<1>17. Whole
  BY <1>11, <1>12, <1>13, <1>14, <1>16 DEF Whole
<1>18. directory = IF car[First] = NoServer THEN <<>> ELSE Held(car, s)
  BY <1>1, <1>10, <1>17, DirectoryIs DEF Seen
<1>19. directory = rev
  <2>1. CASE n = 0
    <3>1. car[First] = NoServer
      BY <1>1, <1>2, <2>1 DEF First, Cells
    <3>2. rev = <<>>
      BY <1>4, <2>1, EmptySeq DEF rev
    <3> QED  BY <1>18, <3>1, <3>2
  <2>2. CASE n # 0
    <3>1. 1 \in 1..n /\ 1 - 1 = First
      BY <1>3, <2>2 DEF First
    <3>2. car[First] # NoServer
      BY <1>15, <3>1
    <3>3. \A i \in 1..n : car[s[i]] = rev[i]
      BY <1>6, <1>15, <2>2
    <3>4. Held(car, s) = [i \in 1..n |-> rev[i]]
      BY <1>7, <2>2, <3>3 DEF Held
    <3>5. rev = [i \in 1..n |-> rev[i]]
      BY <1>4 DEF rev
    <3> QED  BY <1>18, <3>2, <3>4, <3>5
  <2> QED  BY <2>1, <2>2
<1>20. rev = Directory!Reverse(configured)
  BY DEF rev, Reverse, Directory!Reverse
<1>21. Directory!Init
  BY <1>1, <1>19, <1>20 DEF Directory!Init
<1>22. StillUnknown
  BY <1>1 DEF StillUnknown
<1> QED  BY <1>17, <1>21, <1>22 DEF ListInv

(* Without a write to the memory everything read from it stays.            *)
LEMMA SameHeap ==
  ASSUME UNCHANGED heapVars
  PROVE  /\ chain' = chain /\ Apart' = Apart
         /\ directory' = directory
         /\ \A s : Listed(s)' = Listed(s)
<1>1. UNCHANGED <<car, cdr, live, apc, atom, resolver>>
  BY DEF heapVars
<1>2. chain' = chain /\ Apart' = Apart
  BY <1>1 DEF chain, CellsFrom, Apart
<1>3. directory' = directory
  BY <1>1 DEF directory, Entries, IsEmpty, CellsFrom
<1> QED  BY <1>2, <1>3 DEF Listed

(* The reader's thread only reads, and the other callbacks do as well.     *)
LEMMA ReaderKeepsList ==
  ASSUME ListInv, UNCHANGED <<networkVars, heapVars>>
  PROVE  ListInv' /\ UNCHANGED Directory!vars
<1>1. /\ UNCHANGED <<car, cdr, live, apc, atom, resolver>>
      /\ UNCHANGED <<configured, browsing, announced, resolving, failed>>
  BY DEF heapVars, networkVars
<1>2. chain' = chain /\ Apart' = Apart /\ directory' = directory
  BY SameHeap
<1>3. Network' /\ Heap' /\ Intact' /\ Halfway' /\ Filled'
  BY <1>1, <1>2 DEF ListInv, Whole, Network, Heap, Intact, Halfway, Filled
<1>4. StillUnknown'
  BY <1>1, <1>2 DEF ListInv, StillUnknown, Listed
<1> QED  BY <1>1, <1>2, <1>3, <1>4 DEF ListInv, Whole, Directory!vars

(* So does a callback that writes only what is outside the list.           *)
LEMMA CallbackKeepsHeap ==
  ASSUME ListInv, apc = "idle", UNCHANGED heapVars, Network'
  PROVE  ListInv' /\ directory' = directory
<1>1. UNCHANGED <<car, cdr, live, apc, atom, resolver>>
  BY DEF heapVars
<1>2. chain' = chain /\ Apart' = Apart /\ directory' = directory
  BY SameHeap
<1>3. Heap' /\ Intact' /\ Halfway' /\ Filled'
  BY <1>1, <1>2 DEF ListInv, Whole, Heap, Intact, Halfway, Filled
<1>4. StillUnknown'
  BY <1>1 DEF StillUnknown
<1> QED  BY <1>2, <1>3, <1>4 DEF ListInv, Whole

(* Both modules mean the same by a listed name.                            *)
LEMMA SameListed == \A s : Directory!Listed(s) <=> Listed(s)
BY DEF Directory!Listed, Listed

(* The thread ends.                                                        *)
LEMMA QuitList ==
  ASSUME ListInv, Quit
  PROVE  ListInv' /\ Directory!Quit
<1>1. /\ apc = "idle" /\ browsing /\ browsing' = FALSE
      /\ UNCHANGED <<configured, announced, resolving, failed, heapVars>>
  BY DEF Quit, CallbackMayRun
<1>2. Network'
  BY <1>1 DEF ListInv, Whole, Network
<1> QED  BY <1>1, <1>2, CallbackKeepsHeap DEF Directory!Quit

(* AVAHI_BROWSER_NEW.                                                      *)
LEMMA AnnounceList ==
  ASSUME ListInv, NEW l \in Links, Announce(l)
  PROVE  ListInv' /\ Directory!Announce(l)
<1>1. /\ apc = "idle" /\ browsing /\ l \notin announced /\ announced' = announced \cup {l}
      /\ \/ resolving' = resolving \cup {l} /\ failed' = failed \ {l}
         \/ failed' = failed \cup {l} /\ UNCHANGED resolving
      /\ UNCHANGED <<configured, browsing, heapVars>>
  BY DEF Announce, CallbackMayRun
<1>2. Network'
  BY <1>1 DEF ListInv, Whole, Network
<1> QED  BY <1>1, <1>2, CallbackKeepsHeap DEF Directory!Announce

(* AVAHI_RESOLVER_FOUND for a name that is listed.                         *)
LEMMA FoundKnownList ==
  ASSUME ListInv, NEW l \in Links, FoundKnown(l)
  PROVE  ListInv' /\ Directory!Found(l)
<1>1. /\ apc = "idle" /\ browsing /\ l \in resolving /\ Listed(l[1]) /\ resolving' = resolving \ {l}
      /\ UNCHANGED <<configured, browsing, announced, failed, heapVars>>
  BY DEF FoundKnown, CallbackMayRun
<1>2. Network'
  BY <1>1 DEF ListInv, Whole, Network
<1> QED  BY <1>1, <1>2, CallbackKeepsHeap, SameListed DEF Directory!Found

(* AVAHI_RESOLVER_FAILURE.                                                 *)
LEMMA ResolveFailsList ==
  ASSUME ListInv, NEW l \in Links, ResolveFails(l)
  PROVE  ListInv' /\ Directory!ResolveFails(l)
<1>1. /\ apc = "idle" /\ browsing /\ l \in resolving
      /\ resolving' = resolving \ {l} /\ failed' = failed \cup {l}
      /\ UNCHANGED <<configured, browsing, announced, heapVars>>
  BY DEF ResolveFails, CallbackMayRun
<1>2. Network'
  BY <1>1 DEF ListInv, Whole, Network
<1> QED  BY <1>1, <1>2, CallbackKeepsHeap DEF Directory!ResolveFails

(* What the four outcomes of AVAHI_BROWSER_REMOVE share.                   *)
LEMMA RemovedFacts ==
  ASSUME NEW l, Removed(l)
  PROVE  /\ apc = "idle" /\ browsing /\ l \in announced /\ announced' = announced \ {l}
         /\ UNCHANGED <<configured, browsing, resolving, failed, resolver>>
BY DEF Removed, CallbackMayRun

(* AVAHI_BROWSER_REMOVE for a name that is not listed.                     *)
LEMMA WithdrawUnknownList ==
  ASSUME ListInv, NEW l \in Links, WithdrawUnknown(l)
  PROVE  ListInv' /\ Directory!Withdraw(l)
<1>1. /\ apc = "idle" /\ browsing /\ l \in announced /\ announced' = announced \ {l}
      /\ UNCHANGED <<configured, browsing, resolving, failed, heapVars>>
      /\ ~Listed(l[1])
  BY RemovedFacts DEF WithdrawUnknown, heapVars
<1>2. Network'
  BY <1>1 DEF ListInv, Whole, Network
<1> QED  BY <1>1, <1>2, CallbackKeepsHeap, SameListed DEF Directory!Withdraw

(* The names of services are servers, and no nulls.                        *)
LEMMA ServiceNames ==
  ASSUME NEW l \in Links
  PROVE  l[1] \in Servers /\ l[1] # NoServer
BY NullAssumption DEF Services, Servers

(* What the list is when no callback is between its writes.                *)
LEMMA IdleList ==
  ASSUME ListInv, apc = "idle"
  PROVE  /\ Linked(cdr, chain, First) /\ live = ToSet(chain) /\ First \in Cells
         /\ Len(chain) \in Nat /\ Len(chain) >= 1 /\ chain[1] = First
         /\ directory = IF car[First] = NoServer THEN <<>> ELSE Held(car, chain)
         /\ IsEmpty(First) <=> car[First] = NoServer
         /\ cdr[First] = Null <=> Len(chain) = 1
         /\ Len(chain) >= 2 => cdr[First] = chain[2]
         /\ car[First] = NoServer => Len(chain) = 1
<1>1. Linked(cdr, chain, First) /\ live = ToSet(chain)
  BY DEF ListInv, Whole, Intact, Apart
<1>2. /\ First \in Cells /\ Len(chain) \in Nat /\ Len(chain) >= 1 /\ chain[1] = First
      /\ cdr[First] = Null <=> Len(chain) = 1
      /\ Len(chain) >= 2 => cdr[First] = chain[2]
  BY <1>1, LinkedFacts
<1>3. directory = IF car[First] = NoServer THEN <<>> ELSE Held(car, chain)
  BY DirectoryIs DEF ListInv, Seen
<1>4. car[First] = NoServer => Len(chain) = 1
  BY DEF ListInv, Whole, Filled
<1> QED  BY <1>1, <1>2, <1>3, <1>4 DEF IsEmpty

(* The list's cells stay, with what the cells behind the first hold.       *)
Steady ==
  /\ chain' = chain
  /\ \A i \in 2..Len(chain) : car'[chain[i]] = car[chain[i]]
  /\ car[First] # NoServer => car'[First] # NoServer

(* list_push on an empty list is one write.                                *)
LEMMA FoundFirstList ==
  ASSUME ListInv, NEW l \in Links, FoundFirst(l)
  PROVE  ListInv' /\ Directory!Found(l) /\ Steady
<1>1. /\ apc = "idle" /\ browsing /\ l \in resolving /\ IsEmpty(First)
      /\ car' = [car EXCEPT ![First] = l[1]]
      /\ resolving' = resolving \ {l}
      /\ UNCHANGED <<configured, browsing, announced, failed, cdr, live, apc, atom, resolver>>
  BY DEF FoundFirst, CallbackMayRun
<1>2. chain' = chain /\ Apart' = Apart /\ Apart = {}
  BY <1>1 DEF chain, CellsFrom, Apart
<1>3. /\ Len(chain) = 1 /\ chain[1] = First /\ First \in Cells
      /\ directory = <<>>
  BY <1>1, IdleList
<1>4. l[1] \in Servers /\ l[1] # NoServer
  BY ServiceNames
<1>5. car'[First] = l[1] /\ car' \in [Cells -> Servers \cup {NoServer}]
  BY <1>1, <1>3, <1>4 DEF ListInv, Whole, Heap
<1>6. Whole'
  <2>1. Network'
    BY <1>1 DEF ListInv, Whole, Network
  <2>2. Heap'
    BY <1>1, <1>5 DEF ListInv, Whole, Heap
  <2>3. Intact' /\ Halfway'
    BY <1>1, <1>2 DEF ListInv, Whole, Intact, Halfway
  <2>4. Filled'
    BY <1>2, <1>3 DEF Filled
  <2> QED  BY <2>1, <2>2, <2>3, <2>4 DEF Whole
<1>7. directory' = Held(car', chain)
  <2>1. Seen'
    BY <1>6, DirectoryWillBe
  <2> QED  BY <1>1, <1>2, <1>4, <1>5, <2>1 DEF Seen
<1>8. directory' = <<l[1]>>
  BY <1>3, <1>5, <1>7 DEF Held
<1>9. directory' = <<l[1]>> \o directory
  BY <1>3, <1>8
<1>10. ~Directory!Listed(l[1])
  BY <1>3 DEF Directory!Listed
<1>11. StillUnknown'
  BY <1>1 DEF StillUnknown
<1>12. Steady
  <2>1. \A i \in 2..Len(chain) : FALSE
    BY <1>3
  <2> QED  BY <1>2, <1>4, <1>5, <2>1 DEF Steady
<1> QED  BY <1>1, <1>6, <1>9, <1>10, <1>11, <1>12 DEF ListInv, Directory!Found

(* Two descriptions of the same entries.                                   *)
LEMMA HeldSame ==
  ASSUME NEW val, NEW s, NEW val2, NEW s2, Len(s2) = Len(s),
         \A i \in 1..Len(s) : val2[s2[i]] = val[s[i]]
  PROVE  Held(val2, s2) = Held(val, s)
BY DEF Held

(* Between the writes of an insertion the callbacks still see what the     *)
(* list was before it.                                                     *)
LEMMA FoundNewList ==
  ASSUME ListInv, NEW l \in Links, FoundNew(l)
  PROVE  ListInv' /\ UNCHANGED Directory!vars /\ Steady
<1>1. /\ apc = "idle" /\ browsing = TRUE /\ l \in resolving
      /\ ~Listed(l[1]) /\ ~IsEmpty(First)
      /\ apc' = "pushCdr" /\ resolver' = l
      /\ UNCHANGED <<configured, browsing, announced, resolving, failed>>
  <2>1. browsing \in BOOLEAN
    BY DEF ListInv, Whole, Network
  <2>2. browsing = TRUE
    BY <2>1, Zenon DEF FoundNew, CallbackMayRun
  <2> QED  BY <2>2 DEF FoundNew, CallbackMayRun, Unknown, networkVars
<1>2. PICK n \in Cells \ live :
        /\ live' = live \cup {n} /\ atom' = n
        /\ car' = [car EXCEPT ![n] = car[First], ![First] = l[1]]
        /\ cdr' = [cdr EXCEPT ![n] = cdr[First]]
  BY DEF FoundNew, Cars, Cdrs
<1>3. /\ Linked(cdr, chain, First) /\ live = ToSet(chain) /\ First \in Cells
      /\ Len(chain) \in Nat /\ Len(chain) >= 1 /\ chain[1] = First
      /\ car[First] # NoServer /\ directory = Held(car, chain)
  BY <1>1, IdleList
<1>4. /\ First \in ToSet(chain) /\ \A i \in 1..Len(chain) : chain[i] \in Cells /\ chain[i] \in ToSet(chain)
      /\ \A i, j \in 1..Len(chain) : chain[i] = chain[j] => i = j
      /\ chain \in [1..Len(chain) -> Cells]
  BY <1>3, LinkedFacts
<1>5. n \in Cells /\ n \notin ToSet(chain) /\ n # First
  BY <1>2, <1>3, <1>4
<1>6. l[1] \in Servers /\ l[1] # NoServer
  BY ServiceNames
<1>7. car \in [Cells -> Servers \cup {NoServer}] /\ cdr \in [Cells -> Cells \cup {Null}]
  BY DEF ListInv, Whole, Heap
<1>8. /\ car' \in [Cells -> Servers \cup {NoServer}]
      /\ car'[n] = car[First] /\ car'[First] = l[1]
      /\ \A c \in Cells : c # n /\ c # First => car'[c] = car[c]
  BY <1>2, <1>3, <1>5, <1>6, <1>7
<1>9. /\ cdr' \in [Cells -> Cells \cup {Null}]
      /\ cdr'[n] = cdr[First] /\ cdr'[First] = cdr[First]
  BY <1>2, <1>3, <1>5, <1>7
<1>10. Linked(cdr', chain, First)
  BY <1>2, <1>3, <1>5, <1>7, LinkedElsewhere
<1>11. chain' = chain
  BY <1>10, ChainIs DEF chain, CellsFrom
<1>12. Apart' = {n}
  BY <1>1, <1>2 DEF Apart
<1>13. \A i \in 2..Len(chain) : chain[i] \in Cells /\ chain[i] # First /\ chain[i] # n
  <2> SUFFICES ASSUME NEW i \in 2..Len(chain) PROVE chain[i] \in Cells /\ chain[i] # First /\ chain[i] # n
    OBVIOUS
  <2>1. i \in 1..Len(chain) /\ 1 \in 1..Len(chain) /\ i # 1
    BY <1>3
  <2> QED  BY <1>3, <1>4, <1>5, <2>1
<1>14. Whole'
  <2>1. Network'
    BY <1>1 DEF ListInv, Whole, Network
  <2>2. Heap'
    BY <1>1, <1>2, <1>8, <1>9 DEF Heap
  <2>3. Intact'
    BY <1>2, <1>3, <1>5, <1>10, <1>11, <1>12 DEF Intact
  <2>4. Halfway'
    BY <1>1, <1>2, <1>3, <1>6, <1>8, <1>9 DEF Halfway
  <2>5. Filled'
    BY <1>6, <1>8, <1>11, <1>13 DEF ListInv, Whole, Filled
  <2> QED  BY <2>1, <2>2, <2>3, <2>4, <2>5 DEF Whole
<1>15. directory' = Held(car', [chain EXCEPT ![1] = n])
  <2>1. Seen'
    BY <1>14, DirectoryWillBe
  <2> QED  BY <1>1, <1>2, <1>11, <2>1 DEF Seen
<1>16. directory' = directory
  <2> DEFINE s == [chain EXCEPT ![1] = n]
  <2>1. cdr'[n] = cdr'[First] /\ n \in Cells /\ n \notin ToSet(chain)
    BY <1>5, <1>9
  <2>2. Len(s) = Len(chain)
    BY <1>9, <1>10, <2>1, LinkedSwap
  <2>3. s[1] = n /\ \A i \in 2..Len(chain) : s[i] = chain[i]
    BY <1>3, <1>4
  <2> HIDE DEF s
  <2>4. \A i \in 1..Len(chain) : car'[s[i]] = car[chain[i]]
    <3>1. \A i \in 1..Len(chain) : i = 1 \/ i \in 2..Len(chain)
      BY <1>3
    <3> QED  BY <1>3, <1>8, <1>13, <2>3, <3>1
  <2>5. Held(car', s) = Held(car, chain)
    BY <2>2, <2>4, HeldSame
  <2> QED  BY <1>3, <1>15, <2>5 DEF s
<1>17. StillUnknown'
  BY <1>1, <1>16 DEF StillUnknown, Listed
<1>18. Steady
  BY <1>6, <1>8, <1>11, <1>13 DEF Steady
<1> QED  BY <1>1, <1>14, <1>16, <1>17, <1>18 DEF ListInv, Directory!vars

(* The last write of an insertion puts the name in front.                  *)
LEMMA PushCdrList ==
  ASSUME ListInv, PushCdr
  PROVE  /\ ListInv' /\ resolver \in Links /\ Directory!Found(resolver)
         /\ chain' = Inserted(chain, atom) /\ UNCHANGED car
<1>1. /\ apc = "pushCdr" /\ cdr' = [cdr EXCEPT ![First] = atom]
      /\ apc' = "idle" /\ atom' = First /\ resolver' = NoLink
      /\ resolving' = resolving \ {resolver}
      /\ UNCHANGED <<configured, browsing, announced, failed, car, live>>
  BY DEF PushCdr, LinkCopy
<1>2. /\ Network /\ Heap /\ Intact /\ Halfway /\ Filled /\ Whole
      /\ ~Listed(resolver[1])
  BY <1>1 DEF ListInv, Whole, StillUnknown
<1>3. /\ car \in [Cells -> Servers \cup {NoServer}] /\ cdr \in [Cells -> Cells \cup {Null}] /\ atom \in Cells
      /\ resolver \in Links
      /\ cdr[atom] = cdr[First] /\ car[atom] # NoServer /\ car[First] # NoServer
      /\ resolver \in resolving /\ car[First] = resolver[1] /\ browsing = TRUE
  BY <1>1, <1>2 DEF Heap, Halfway, Network
<1>4. /\ Linked(cdr, chain, First) /\ atom \notin ToSet(chain) /\ live = ToSet(chain) \cup {atom}
  BY <1>1, <1>2 DEF Intact, Apart
<1>5. /\ Len(chain) \in Nat /\ Len(chain) >= 1 /\ chain[1] = First /\ First \in Cells
      /\ chain \in [1..Len(chain) -> Cells]
  BY <1>4, LinkedFacts
<1> DEFINE t == Inserted(chain, atom)
<1>6. /\ Linked(cdr', t, First) /\ Len(t) = Len(chain) + 1 /\ ToSet(t) = ToSet(chain) \cup {atom}
  <2>1. /\ cdr \in [Cells -> Cells \cup {Null}] /\ Linked(cdr, chain, First)
        /\ atom \in Cells /\ atom \notin ToSet(chain) /\ cdr[atom] = cdr[First]
        /\ cdr'[First] = atom /\ \A d \in Cells \ {First} : cdr'[d] = cdr[d]
    BY <1>1, <1>3, <1>4, <1>5
  <2>2. /\ Linked(cdr', Inserted(chain, atom), First)
        /\ Len(Inserted(chain, atom)) = Len(chain) + 1
        /\ ToSet(Inserted(chain, atom)) = ToSet(chain) \cup {atom}
    BY <2>1, LinkedInserted
  <2> QED  BY <2>2
<1>7. t[1] = First /\ t[2] = atom /\ \A i \in 3..(Len(chain) + 1) : t[i] = chain[i - 1]
  BY <1>5 DEF Inserted
<1> HIDE DEF t
<1>8. chain' = t
  BY <1>6, ChainIs DEF chain, CellsFrom
<1>9. Apart' = {}
  BY <1>1 DEF Apart
<1>10. Whole'
  <2>1. Network'
    BY <1>1, <1>2 DEF Network
  <2>2. Heap'
    BY <1>1, <1>2, <1>3, <1>5 DEF Heap
  <2>3. Intact'
    BY <1>1, <1>4, <1>6, <1>8, <1>9 DEF Intact
  <2>4. Halfway'
    BY <1>1 DEF Halfway
  <2>5. Filled'
    <3>1. \A i \in 2..(Len(chain) + 1) : i = 2 \/ (i \in 3..(Len(chain) + 1) /\ i - 1 \in 2..Len(chain))
      BY <1>5
    <3>2. \A i \in 2..Len(chain) : car[chain[i]] # NoServer
      BY <1>2 DEF Filled
    <3>3. \A i \in 2..(Len(chain) + 1) : car[t[i]] # NoServer
      BY <1>3, <1>7, <3>1, <3>2
    <3> QED  BY <1>1, <1>3, <1>6, <1>8, <3>3 DEF Filled
  <2> QED  BY <2>1, <2>2, <2>3, <2>4, <2>5 DEF Whole
<1>11. directory' = Held(car, t)
  <2>1. Seen'
    BY <1>10, DirectoryWillBe
  <2> QED  BY <1>1, <1>3, <1>8, <2>1 DEF Seen
<1> DEFINE s == [chain EXCEPT ![1] = atom]
<1>12. directory = Held(car, s)
  <2>1. Seen
    BY <1>2, DirectoryIs
  <2> QED  BY <1>1, <2>1 DEF Seen
<1>13. Len(s) = Len(chain)
  BY <1>3, <1>4, LinkedSwap
<1>14. s[1] = atom /\ \A i \in 2..Len(chain) : s[i] = chain[i]
  BY <1>5
<1> HIDE DEF s
<1>15. \A i \in 1..Len(chain) : t[i + 1] = s[i] /\ s[i] \in Cells
  <2> SUFFICES ASSUME NEW i \in 1..Len(chain) PROVE t[i + 1] = s[i] /\ s[i] \in Cells
    OBVIOUS
  <2>1. CASE i = 1
    BY <1>3, <1>7, <1>14, <2>1
  <2>2. CASE i # 1
    <3>1. i \in 2..Len(chain) /\ i + 1 \in 3..(Len(chain) + 1) /\ (i + 1) - 1 = i
      BY <1>5, <2>2
    <3> QED  BY <1>5, <1>7, <1>14, <3>1
  <2> QED  BY <2>1, <2>2
<1>16. \A i \in 1..Len(s) : car[s[i]] \in Servers \cup {NoServer}
  BY <1>3, <1>13, <1>15
<1>17. /\ directory \in Seq(Servers \cup {NoServer}) /\ Len(directory) = Len(chain)
       /\ \A i \in 1..Len(chain) : directory[i] = car[s[i]]
  <2> DEFINE S == Servers \cup {NoServer}
  <2>1. HeldIn(car, s, S)
    BY <1>5, <1>13, <1>16 DEF HeldIn
  <2> HIDE DEF S
  <2>2. /\ Held(car, s) \in Seq(S) /\ Len(Held(car, s)) = Len(s)
        /\ \A i \in 1..Len(s) : Held(car, s)[i] = car[s[i]]
    BY <2>1, HeldAre
  <2> QED  BY <1>12, <1>13, <2>2 DEF S
<1>18. resolver[1] \in Servers \cup {NoServer}
  BY <1>3, ServiceNames
<1> DEFINE d == <<resolver[1]>> \o directory
<1>19. /\ d \in Seq(Servers \cup {NoServer}) /\ Len(d) = Len(chain) + 1 /\ d[1] = resolver[1]
       /\ \A j \in 1..Len(chain) : d[j + 1] = directory[j]
  BY <1>17, <1>18, FrontEntries
<1> HIDE DEF d
<1>20. \A i \in 1..(Len(chain) + 1) : car[t[i]] = d[i]
  <2> SUFFICES ASSUME NEW i \in 1..(Len(chain) + 1) PROVE car[t[i]] = d[i]
    OBVIOUS
  <2>1. CASE i = 1
    BY <1>3, <1>7, <1>19, <2>1
  <2>2. CASE i # 1
    <3>1. i - 1 \in 1..Len(chain) /\ (i - 1) + 1 = i
      BY <1>5, <2>2
    <3>2. t[(i - 1) + 1] = s[i - 1] /\ d[(i - 1) + 1] = directory[i - 1] /\ directory[i - 1] = car[s[i - 1]]
      BY <1>15, <1>17, <1>19, <3>1
    <3> QED  BY <3>1, <3>2
  <2> QED  BY <2>1, <2>2
<1>21. directory' = d
  <2>1. d = [i \in 1..(Len(chain) + 1) |-> d[i]]
    BY <1>19
  <2>2. Held(car, t) = [i \in 1..(Len(chain) + 1) |-> car[t[i]]]
    BY <1>6 DEF Held
  <2> QED  BY <1>11, <1>20, <2>1, <2>2
<1>22. ~Directory!Listed(resolver[1])
  BY <1>2, SameListed
<1>23. StillUnknown'
  BY <1>1 DEF StillUnknown
<1> QED  BY <1>1, <1>3, <1>8, <1>10, <1>21, <1>22, <1>23 DEF ListInv, Directory!Found, d, t

(* A removal of the only entry leaves the first cell without a server.     *)
LEMMA WithdrawOnlyList ==
  ASSUME ListInv, NEW l \in Links, WithdrawOnly(l)
  PROVE  ListInv' /\ Directory!Withdraw(l)
<1>1. /\ apc = "idle" /\ browsing /\ l \in announced /\ announced' = announced \ {l}
      /\ UNCHANGED <<configured, browsing, resolving, failed, resolver, cdr, live, apc, atom>>
      /\ car[First] = l[1] /\ cdr[First] = Null
      /\ car' = [car EXCEPT ![First] = NoServer]
  BY RemovedFacts DEF WithdrawOnly
<1>2. l[1] \in Servers /\ l[1] # NoServer
  BY ServiceNames
<1>3. /\ Len(chain) = 1 /\ chain[1] = First /\ First \in Cells
      /\ directory = Held(car, chain)
  BY <1>1, <1>2, IdleList
<1>4. directory = <<l[1]>>
  BY <1>1, <1>3 DEF Held
<1>5. chain' = chain /\ Apart' = Apart
  BY <1>1 DEF chain, CellsFrom, Apart
<1>6. car'[First] = NoServer /\ car' \in [Cells -> Servers \cup {NoServer}]
  BY <1>1, <1>3 DEF ListInv, Whole, Heap
<1>7. Whole'
  <2>1. Network'
    BY <1>1 DEF ListInv, Whole, Network
  <2>2. Heap'
    BY <1>1, <1>6 DEF ListInv, Whole, Heap
  <2>3. Intact' /\ Halfway'
    BY <1>1, <1>5 DEF ListInv, Whole, Intact, Halfway
  <2>4. Filled'
    <3>1. \A i \in 2..Len(chain) : FALSE
      BY <1>3
    <3> QED  BY <1>3, <1>5, <3>1 DEF Filled
  <2> QED  BY <2>1, <2>2, <2>3, <2>4 DEF Whole
<1>8. directory' = <<>>
  <2>1. Seen'
    BY <1>7, DirectoryWillBe
  <2> QED  BY <1>1, <1>6, <2>1 DEF Seen
<1>9. /\ Len(directory) = 1 /\ directory[1] = l[1] /\ directory \in Seq(Servers)
  BY <1>2, <1>4
<1>10. directory' = Directory!RemoveAt(directory, 1)
  <2>1. 1 \in 1..Len(directory)
    BY <1>9
  <2>2. RemoveAt(directory, 1) \in Seq(Servers) /\ Len(RemoveAt(directory, 1)) = Len(directory) - 1
    BY <1>9, <2>1, RemoveAtEntries
  <2>3. RemoveAt(directory, 1) = <<>>
    BY <1>9, <2>2, EmptySeq
  <2> QED  BY <1>8, <2>3 DEF RemoveAt, Directory!RemoveAt
<1>11. Directory!Listed(l[1])
  BY <1>9 DEF Directory!Listed
<1>12. 1 \in 1..Len(directory)
  BY <1>9
<1>13. StillUnknown'
  BY <1>1 DEF StillUnknown
<1> QED  BY <1>1, <1>7, <1>9, <1>10, <1>11, <1>12, <1>13 DEF ListInv, Directory!Withdraw

(* Two more: the first entry left out, and any other.                      *)
LEMMA HeldWithout ==
  ASSUME NEW val, NEW s, NEW val2, NEW s2, NEW k \in 1..Len(s), NEW S,
         Len(s) \in Nat, Held(val, s) \in Seq(S),
         Len(s2) = Len(s) - 1,
         \A i \in 1..(Len(s) - 1) : val2[s2[i]] = IF i < k THEN val[s[i]] ELSE val[s[i + 1]]
  PROVE  Held(val2, s2) = RemoveAt(Held(val, s), k)
<1> DEFINE d == Held(val, s)
           r == RemoveAt(d, k)
           m == Len(s)
<1>1. d = [i \in 1..m |-> val[s[i]]]
  BY DEF Held
<1>2. m \in Nat /\ k \in 1..m
  OBVIOUS
<1>3. Held(val2, s2) = [i \in 1..(m - 1) |-> val2[s2[i]]]
  BY DEF Held
<1>4. d \in Seq(S) /\ \A i \in 1..(m - 1) : val2[s2[i]] = IF i < k THEN val[s[i]] ELSE val[s[i + 1]]
  OBVIOUS
<1> HIDE DEF d, m, r
<1>5. Len(d) = m /\ \A i \in 1..m : d[i] = val[s[i]]
  <2>1. DOMAIN d = 1..m
    BY <1>1
  <2>2. DOMAIN d = 1..Len(d) /\ Len(d) \in Nat
    BY <1>4, LenProperties
  <2> QED  BY <1>1, <1>2, <2>1, <2>2
<1>6. /\ r \in Seq(S) /\ Len(r) = m - 1
      /\ \A j \in 1..(m - 1) : r[j] = IF j < k THEN d[j] ELSE d[j + 1]
  BY <1>2, <1>4, <1>5, RemoveAtEntries DEF r
<1>7. \A i \in 1..(m - 1) : r[i] = val2[s2[i]]
  <2> SUFFICES ASSUME NEW i \in 1..(m - 1) PROVE r[i] = val2[s2[i]]
    OBVIOUS
  <2>1. i \in 1..m /\ i + 1 \in 1..m
    BY <1>2
  <2> QED  BY <1>4, <1>5, <1>6, <2>1
<1>8. r = [i \in 1..(m - 1) |-> r[i]]
  <2>1. DOMAIN r = 1..Len(r) /\ r \in [1..Len(r) -> S]
    BY <1>6, LenProperties
  <2> QED  BY <1>6, <2>1
<1> QED  BY <1>3, <1>7, <1>8 DEF d, r

(* The first write of the removal of the first entry.                      *)
LEMMA WithdrawFrontList ==
  ASSUME ListInv, NEW l \in Links, WithdrawFront(l)
  PROVE  ListInv' /\ Directory!Withdraw(l)
<1>1. /\ apc = "idle" /\ browsing = TRUE /\ l \in announced /\ announced' = announced \ {l}
      /\ UNCHANGED <<configured, browsing, resolving, failed, resolver, cdr, live>>
      /\ car[First] = l[1] /\ cdr[First] # Null
      /\ car' = [car EXCEPT ![First] = car[cdr[First]]]
      /\ apc' = "popCdr" /\ atom' = cdr[First]
  <2>1. browsing \in BOOLEAN
    BY DEF ListInv, Whole, Network
  <2>2. browsing
    BY RemovedFacts DEF WithdrawFront
  <2>3. browsing = TRUE
    BY <2>1, <2>2, Zenon
  <2> QED  BY <2>3, RemovedFacts DEF WithdrawFront
<1>2. l[1] \in Servers /\ l[1] # NoServer
  BY ServiceNames
<1>3. /\ Linked(cdr, chain, First) /\ live = ToSet(chain) /\ First \in Cells
      /\ Len(chain) \in Nat /\ Len(chain) >= 2 /\ chain[1] = First
      /\ cdr[First] = chain[2]
      /\ directory = Held(car, chain)
  <2>1. Len(chain) # 1 /\ Len(chain) >= 1 /\ Len(chain) \in Nat
    BY <1>1, IdleList
  <2>2. Len(chain) >= 2
    <3> DEFINE m == Len(chain)
    <3>1. m # 1 /\ m >= 1 /\ m \in Nat
      BY <2>1
    <3> HIDE DEF m
    <3>2. m >= 2
      BY <3>1
    <3> QED  BY <3>2 DEF m
  <2> QED  BY <1>1, <1>2, <2>2, IdleList
<1>4. /\ chain \in [1..Len(chain) -> Cells]
      /\ \A i, j \in 1..Len(chain) : chain[i] = chain[j] => i = j
  BY <1>3, LinkedFacts
<1>5. chain[2] \in Cells /\ chain[2] # First
  <2>1. 1 \in 1..Len(chain) /\ 2 \in 1..Len(chain)
    BY <1>3
  <2> QED  BY <1>3, <1>4, <2>1
<1>6. chain' = chain /\ Apart' = Apart /\ Apart = {}
  BY <1>1 DEF chain, CellsFrom, Apart
<1>7. car \in [Cells -> Servers \cup {NoServer}]
  BY DEF ListInv, Whole, Heap
<1>8. /\ car' \in [Cells -> Servers \cup {NoServer}]
      /\ car'[First] = car[chain[2]]
      /\ \A c \in Cells : c # First => car'[c] = car[c]
  BY <1>1, <1>3, <1>5, <1>7
<1>9. \A i \in 2..Len(chain) : chain[i] \in Cells /\ chain[i] # First
  <2> SUFFICES ASSUME NEW i \in 2..Len(chain) PROVE chain[i] \in Cells /\ chain[i] # First
    OBVIOUS
  <2>1. i \in 1..Len(chain) /\ 1 \in 1..Len(chain) /\ i # 1
    BY <1>3
  <2> QED  BY <1>3, <1>4, <2>1
<1>10. \A i \in 2..Len(chain) : car[chain[i]] # NoServer
  BY DEF ListInv, Whole, Filled
<1>11. car[chain[2]] # NoServer
  <2>1. 2 \in 2..Len(chain)
    BY <1>3
  <2> QED  BY <1>10, <2>1
<1>12. Whole'
  <2>1. Network'
    BY <1>1 DEF ListInv, Whole, Network
  <2>2. Heap'
    BY <1>1, <1>3, <1>5, <1>8 DEF ListInv, Whole, Heap
  <2>3. Intact'
    BY <1>1, <1>6 DEF ListInv, Whole, Intact
  <2>4. Halfway'
    BY <1>1, <1>3, <1>5, <1>6, <1>8, <1>11 DEF Halfway
  <2>5. Filled'
    BY <1>6, <1>8, <1>9, <1>10, <1>11 DEF Filled
  <2> QED  BY <2>1, <2>2, <2>3, <2>4, <2>5 DEF Whole
<1>13. directory' = Held(car', Behind(chain))
  <2>1. Seen'
    BY <1>12, DirectoryWillBe
  <2> QED  BY <1>1, <1>6, <2>1 DEF Seen
<1> DEFINE S == Servers \cup {NoServer}
<1>14. \A i \in 1..Len(chain) : car[chain[i]] \in S
  BY <1>4, <1>7
<1> HIDE DEF S
<1>15. /\ Held(car, chain) \in Seq(S) /\ Len(Held(car, chain)) = Len(chain)
       /\ \A i \in 1..Len(chain) : Held(car, chain)[i] = car[chain[i]]
  <2>1. HeldIn(car, chain, S)
    BY <1>3, <1>14 DEF HeldIn
  <2> QED  BY <2>1, HeldAre
<1>16. /\ Len(Behind(chain)) = Len(chain) - 1
       /\ \A i \in 1..(Len(chain) - 1) : Behind(chain)[i] = chain[i + 1]
  <2>1. Len(Behind(chain)) = Len(chain) - 1
    BY <1>3, LinkedBehind
  <2> QED  BY <2>1 DEF Behind
<1>17. \A i \in 1..(Len(chain) - 1) :
         car'[Behind(chain)[i]] = IF i < 1 THEN car[chain[i]] ELSE car[chain[i + 1]]
  <2> SUFFICES ASSUME NEW i \in 1..(Len(chain) - 1)
               PROVE  car'[Behind(chain)[i]] = car[chain[i + 1]] /\ ~(i < 1)
    OBVIOUS
  <2>1. i + 1 \in 2..Len(chain) /\ ~(i < 1)
    BY <1>3
  <2> QED  BY <1>8, <1>9, <1>16, <2>1
<1>18. 1 \in 1..Len(chain)
  BY <1>3
<1>19. Held(car', Behind(chain)) = RemoveAt(Held(car, chain), 1)
  BY <1>3, <1>15, <1>16, <1>17, <1>18, HeldWithout
<1>20. directory' = Directory!RemoveAt(directory, 1)
  BY <1>3, <1>13, <1>19 DEF RemoveAt, Directory!RemoveAt
<1>21. 1 \in 1..Len(directory) /\ directory[1] = l[1]
  BY <1>1, <1>3, <1>15, <1>18
<1>22. Directory!Listed(l[1])
  BY <1>21 DEF Directory!Listed
<1>23. StillUnknown'
  BY <1>1 DEF StillUnknown
<1> QED  BY <1>1, <1>12, <1>20, <1>21, <1>22, <1>23 DEF ListInv, Directory!Withdraw

(* The second write: the callbacks saw the second cell and now the first.  *)
LEMMA PopCdrList ==
  ASSUME ListInv, PopCdr
  PROVE  ListInv' /\ UNCHANGED Directory!vars
<1>1. /\ apc = "popCdr" /\ cdr' = [cdr EXCEPT ![First] = cdr[atom]]
      /\ apc' = "free"
      /\ UNCHANGED <<configured, browsing, announced, resolving, failed, car, live, atom, resolver>>
  BY DEF PopCdr, networkVars
<1>2. /\ Network /\ Heap /\ Intact /\ Halfway /\ Filled /\ Whole
  BY DEF ListInv, Whole
<1>3. /\ car \in [Cells -> Servers \cup {NoServer}] /\ cdr \in [Cells -> Cells \cup {Null}] /\ atom \in Cells
      /\ Len(chain) >= 2 /\ atom = chain[2] /\ car[First] = car[atom]
      /\ car[First] # NoServer /\ browsing = TRUE
  BY <1>1, <1>2 DEF Heap, Halfway
<1>4. Linked(cdr, chain, First) /\ live = ToSet(chain)
  BY <1>1, <1>2 DEF Intact, Apart
<1>5. /\ Len(chain) \in Nat /\ chain[1] = First /\ First \in Cells
      /\ chain \in [1..Len(chain) -> Cells]
      /\ \A x : x \in ToSet(chain) <=> \E i \in 1..Len(chain) : x = chain[i]
  BY <1>4, LinkedFacts
<1> DEFINE t == Without(chain, 2)
<1>6. /\ Linked(cdr', t, First)
      /\ Len(t) = Len(chain) - 1
      /\ ToSet(t) = ToSet(chain) \ {atom}
  <2>1. /\ 2 \in 2..Len(chain)
        /\ cdr'[chain[2 - 1]] = cdr[chain[2]] /\ \A d \in Cells \ {chain[2 - 1]} : cdr'[d] = cdr[d]
    BY <1>1, <1>3, <1>5
  <2>2. /\ Linked(cdr', Without(chain, 2), First)
        /\ Len(Without(chain, 2)) = Len(chain) - 1
        /\ ToSet(Without(chain, 2)) = ToSet(chain) \ {chain[2]}
    BY <1>3, <1>4, <2>1, LinkedWithout
  <2> QED  BY <1>3, <2>2
<1>7. t[1] = First /\ \A i \in 2..(Len(chain) - 1) : t[i] = chain[i + 1]
  BY <1>3, <1>5 DEF Without
<1> HIDE DEF t
<1>8. chain' = t
  BY <1>6, ChainIs DEF chain, CellsFrom
<1>9. Apart' = {atom}
  BY <1>1 DEF Apart
<1>10. atom \in ToSet(chain)
  BY <1>3, <1>5
<1>11. Whole'
  <2>1. Network'
    BY <1>1, <1>2 DEF Network
  <2>2. Heap'
    BY <1>1, <1>2, <1>3, <1>5 DEF Heap
  <2>3. Intact'
    BY <1>1, <1>4, <1>6, <1>8, <1>9, <1>10 DEF Intact
  <2>4. Halfway'
    BY <1>1, <1>3 DEF Halfway
  <2>5. Filled'
    <3>1. \A i \in 2..(Len(chain) - 1) : i + 1 \in 2..Len(chain)
      BY <1>5
    <3>2. \A i \in 2..Len(chain) : car[chain[i]] # NoServer
      BY <1>2 DEF Filled
    <3>3. \A i \in 2..(Len(chain) - 1) : car[t[i]] # NoServer
      BY <1>7, <3>1, <3>2
    <3> QED  BY <1>1, <1>3, <1>6, <1>8, <3>3 DEF Filled
  <2> QED  BY <2>1, <2>2, <2>3, <2>4, <2>5 DEF Whole
<1>12. directory' = Held(car, t)
  <2>1. Seen'
    BY <1>11, DirectoryWillBe
  <2> QED  BY <1>1, <1>3, <1>8, <2>1 DEF Seen
<1>13. directory = Held(car, Behind(chain))
  <2>1. Seen
    BY <1>2, DirectoryIs
  <2> QED  BY <1>1, <2>1 DEF Seen
<1>14. /\ Len(Behind(chain)) = Len(chain) - 1
       /\ \A i \in 1..(Len(chain) - 1) : Behind(chain)[i] = chain[i + 1]
  <2>1. Len(Behind(chain)) = Len(chain) - 1
    BY <1>3, <1>4, LinkedBehind
  <2> QED  BY <2>1 DEF Behind
<1>15. \A i \in 1..Len(Behind(chain)) : car[t[i]] = car[Behind(chain)[i]]
  <2> SUFFICES ASSUME NEW i \in 1..(Len(chain) - 1) PROVE car[t[i]] = car[Behind(chain)[i]]
    BY <1>14
  <2>1. CASE i = 1
    BY <1>3, <1>7, <1>14, <2>1
  <2>2. CASE i # 1
    <3>1. i \in 2..(Len(chain) - 1)
      BY <1>5, <2>2
    <3> QED  BY <1>7, <1>14, <3>1
  <2> QED  BY <2>1, <2>2
<1>16. directory' = directory
  <2>1. Held(car, t) = Held(car, Behind(chain))
    BY <1>6, <1>14, <1>15, HeldSame
  <2> QED  BY <1>12, <1>13, <2>1
<1>17. StillUnknown'
  BY <1>1 DEF StillUnknown
<1> QED  BY <1>1, <1>11, <1>16, <1>17 DEF ListInv, Directory!vars

(* A later entry goes with one write.                                      *)
LEMMA WithdrawLaterList ==
  ASSUME ListInv, NEW l \in Links, WithdrawLater(l)
  PROVE  ListInv' /\ Directory!Withdraw(l)
<1>1. /\ apc = "idle" /\ browsing = TRUE /\ l \in announced /\ announced' = announced \ {l}
      /\ UNCHANGED <<configured, browsing, resolving, failed, resolver, car, live>>
      /\ apc' = "free"
  <2>1. browsing \in BOOLEAN
    BY DEF ListInv, Whole, Network
  <2>2. browsing
    BY RemovedFacts DEF WithdrawLater
  <2>3. browsing = TRUE
    BY <2>1, <2>2, Zenon
  <2> QED  BY <2>3, RemovedFacts DEF WithdrawLater
<1>2. PICK k \in 2..Len(directory) :
        /\ directory[k] = l[1]
        /\ cdr' = [cdr EXCEPT ![chain[k - 1]] = cdr[chain[k]]]
        /\ atom' = chain[k]
  BY DEF WithdrawLater, LinkOver, chain
<1>3. /\ Linked(cdr, chain, First) /\ live = ToSet(chain) /\ First \in Cells
      /\ Len(chain) \in Nat /\ chain[1] = First
      /\ directory = IF car[First] = NoServer THEN <<>> ELSE Held(car, chain)
  BY <1>1, IdleList
<1>4. directory = Held(car, chain) /\ car[First] # NoServer
  <2> SUFFICES ASSUME directory = <<>> PROVE FALSE
    BY <1>3
  <2>1. Len(directory) = 0
    OBVIOUS
  <2> QED  BY <2>1
<1>5. /\ chain \in [1..Len(chain) -> Cells]
      /\ \A i, j \in 1..Len(chain) : chain[i] = chain[j] => i = j
      /\ \A x : x \in ToSet(chain) <=> \E i \in 1..Len(chain) : x = chain[i]
  BY <1>3, LinkedFacts
<1>6. car \in [Cells -> Servers \cup {NoServer}] /\ cdr \in [Cells -> Cells \cup {Null}]
  BY DEF ListInv, Whole, Heap
<1> DEFINE S == Servers \cup {NoServer}
<1>7. \A i \in 1..Len(chain) : car[chain[i]] \in S
  BY <1>5, <1>6
<1> HIDE DEF S
<1>8. /\ Held(car, chain) \in Seq(S) /\ Len(Held(car, chain)) = Len(chain)
      /\ \A i \in 1..Len(chain) : Held(car, chain)[i] = car[chain[i]]
  <2>1. Len(chain) \in Nat
    BY <1>3
  <2>2. Held(car, chain) \in [1..Len(chain) -> S]
    BY <1>7 DEF Held
  <2>3. \A i \in 1..Len(chain) : Held(car, chain)[i] = car[chain[i]]
    BY DEF Held
  <2> QED  BY <2>1, <2>2, <2>3, SequenceOf
<1>9. k \in 2..Len(chain) /\ k \in 1..Len(chain) /\ k - 1 \in 1..Len(chain) /\ k \in Nat /\ k >= 2
  BY <1>3, <1>4, <1>8
<1> DEFINE t == Without(chain, k)
<1>10. /\ Linked(cdr', t, First)
       /\ Len(t) = Len(chain) - 1
       /\ ToSet(t) = ToSet(chain) \ {chain[k]}
  <2>1. chain[k - 1] \in Cells /\ chain[k] \in Cells
    BY <1>5, <1>9
  <2>2. cdr'[chain[k - 1]] = cdr[chain[k]] /\ \A d \in Cells \ {chain[k - 1]} : cdr'[d] = cdr[d]
    BY <1>2, <1>6, <2>1
  <2> QED  BY <1>3, <1>6, <1>9, <2>2, LinkedWithout
<1>11. \A i \in 1..(Len(chain) - 1) : t[i] = IF i < k THEN chain[i] ELSE chain[i + 1]
  BY DEF Without
<1> HIDE DEF t
<1>12. chain' = t
  BY <1>10, ChainIs DEF chain, CellsFrom
<1>13. Apart' = {chain[k]}
  BY <1>1, <1>2 DEF Apart
<1>14. chain[k] \in ToSet(chain) /\ chain[k] \in Cells
  BY <1>5, <1>9
<1>15. cdr' \in [Cells -> Cells \cup {Null}]
  <2>1. cdr[chain[k]] \in Cells \cup {Null}
    BY <1>6, <1>14
  <2> QED  BY <1>2, <1>6, <2>1
<1>16. Whole'
  <2>1. Network'
    BY <1>1 DEF ListInv, Whole, Network
  <2>2. Heap'
    BY <1>1, <1>2, <1>14, <1>15 DEF ListInv, Whole, Heap
  <2>3. Intact'
    BY <1>1, <1>3, <1>10, <1>12, <1>13, <1>14 DEF Intact
  <2>4. Halfway'
    BY <1>1, <1>4 DEF Halfway
  <2>5. Filled'
    <3>1. \A i \in 2..(Len(chain) - 1) : i \in 2..Len(chain) /\ i + 1 \in 2..Len(chain) /\ i \in 1..(Len(chain) - 1)
      BY <1>3
    <3>2. \A i \in 2..Len(chain) : car[chain[i]] # NoServer
      BY DEF ListInv, Whole, Filled
    <3>3. \A i \in 2..(Len(chain) - 1) : car[t[i]] # NoServer
      BY <1>11, <3>1, <3>2
    <3> QED  BY <1>1, <1>4, <1>10, <1>12, <3>3 DEF Filled
  <2> QED  BY <2>1, <2>2, <2>3, <2>4, <2>5 DEF Whole
<1>17. directory' = Held(car, t)
  <2>1. Seen'
    BY <1>16, DirectoryWillBe
  <2> QED  BY <1>1, <1>4, <1>12, <2>1 DEF Seen
<1>18. \A i \in 1..(Len(chain) - 1) : car[t[i]] = IF i < k THEN car[chain[i]] ELSE car[chain[i + 1]]
  BY <1>11
<1>19. Held(car, t) = RemoveAt(Held(car, chain), k)
  BY <1>3, <1>8, <1>9, <1>10, <1>18, HeldWithout
<1>20. directory' = Directory!RemoveAt(directory, k)
  BY <1>4, <1>17, <1>19 DEF RemoveAt, Directory!RemoveAt
<1>21. k \in 1..Len(directory)
  BY <1>4, <1>8, <1>9
<1>22. Directory!Listed(l[1])
  BY <1>2, <1>21 DEF Directory!Listed
<1>23. StillUnknown'
  BY <1>1 DEF StillUnknown
<1> QED  BY <1>1, <1>2, <1>16, <1>20, <1>21, <1>22, <1>23 DEF ListInv, Directory!Withdraw

(* The cell that was taken out is freed.                                   *)
LEMMA FreeAtomList ==
  ASSUME ListInv, FreeAtom
  PROVE  ListInv' /\ UNCHANGED Directory!vars
<1>1. /\ apc = "free" /\ live' = live \ {atom} /\ apc' = "idle" /\ atom' = First
      /\ UNCHANGED <<configured, browsing, announced, resolving, failed, car, cdr, resolver>>
  BY DEF FreeAtom, Freed, networkVars
<1>2. chain' = chain /\ Apart' = {} /\ Apart = {atom}
  BY <1>1 DEF chain, CellsFrom, Apart
<1>3. directory' = directory
  BY <1>1 DEF directory, Entries, IsEmpty, CellsFrom
<1>4. Linked(cdr, chain, First) /\ ToSet(chain) \cap Apart = {} /\ live = ToSet(chain) \cup Apart
  BY DEF ListInv, Whole, Intact
<1>5. First \in Cells
  BY <1>4, LinkedFacts
<1>6. Network' /\ Heap' /\ Halfway' /\ Filled'
  BY <1>1, <1>2, <1>5 DEF ListInv, Whole, Network, Heap, Halfway, Filled
<1>7. Intact'
  BY <1>1, <1>2, <1>4 DEF Intact
<1>8. StillUnknown'
  BY <1>1 DEF StillUnknown
<1> QED  BY <1>1, <1>3, <1>6, <1>7, <1>8 DEF ListInv, Whole, Directory!vars

(* The steps that only read.                                               *)
LEMMA WalkReads ==
  ASSUME Walk \/ \E t \in Tags : TagRead(t) \/ TagDropped(t)
  PROVE  UNCHANGED <<networkVars, heapVars>>
BY DEF Walk, ReadCar, TestCar, TestCdr, Notify, NextCell, Return, ReadFreed, TagRead, TagDropped

(* Each step keeps the list whole and is one of the directory, or none.    *)
LEMMA NextList == ListInv /\ [Next]_vars => ListInv' /\ [Directory!Next]_(Directory!vars)
<1> SUFFICES ASSUME ListInv, [Next]_vars
             PROVE  ListInv' /\ [Directory!Next]_(Directory!vars)
  OBVIOUS
<1>1. CASE UNCHANGED vars
  <2>1. UNCHANGED <<networkVars, heapVars>>
    BY <1>1 DEF vars, networkVars, heapVars
  <2> QED  BY <2>1, ReaderKeepsList
<1>2. CASE Walk \/ \E t \in Tags : TagRead(t) \/ TagDropped(t)
  BY <1>2, WalkReads, ReaderKeepsList
<1>3. CASE PushCdr
  BY <1>3, PushCdrList DEF Directory!Next
<1>4. CASE PopCdr
  BY <1>4, PopCdrList
<1>5. CASE FreeAtom
  BY <1>5, FreeAtomList
<1>6. CASE Quit
  BY <1>6, QuitList DEF Directory!Next
<1>7. ASSUME NEW l \in Links, Announce(l)
      PROVE  ListInv' /\ Directory!Next
  BY <1>7, AnnounceList DEF Directory!Next
<1>8. ASSUME NEW l \in Links, FoundKnown(l)
      PROVE  ListInv' /\ Directory!Next
  BY <1>8, FoundKnownList DEF Directory!Next
<1>9. ASSUME NEW l \in Links, FoundFirst(l)
      PROVE  ListInv' /\ Directory!Next
  BY <1>9, FoundFirstList DEF Directory!Next
<1>10. ASSUME NEW l \in Links, FoundNew(l)
       PROVE  ListInv' /\ UNCHANGED Directory!vars
  BY <1>10, FoundNewList
<1>11. ASSUME NEW l \in Links, ResolveFails(l)
       PROVE  ListInv' /\ Directory!Next
  BY <1>11, ResolveFailsList DEF Directory!Next
<1>12. ASSUME NEW l \in Links, WithdrawUnknown(l) \/ WithdrawOnly(l) \/ WithdrawFront(l) \/ WithdrawLater(l)
       PROVE  ListInv' /\ Directory!Next
  <2>1. ListInv' /\ Directory!Withdraw(l)
    BY <1>12, WithdrawUnknownList, WithdrawOnlyList, WithdrawFrontList, WithdrawLaterList
  <2> QED  BY <2>1 DEF Directory!Next
<1> QED
  BY <1>1, <1>2, <1>3, <1>4, <1>5, <1>6, <1>7, <1>8, <1>9, <1>10, <1>11, <1>12 DEF Next, Callback

(* The list is whole in every state, ...                                   *)
THEOREM ListInvariance == Spec => []ListInv
<1>1. Init => ListInv
  BY InitList
<1> QED  BY <1>1, NextList, PTL DEF Spec

(* ... and nothing leaks, is shared or dangles, from the first write of an *)
(* operation of list.c to the last.                                        *)
THEOREM ListStaysIntact == Spec => []ListIntact
<1>1. ListInv => ListIntact
  <2> SUFFICES ASSUME Intact PROVE ListIntact
    BY DEF ListInv, Whole
  <2>1. Linked(cdr, chain, First) /\ ToSet(chain) \cap Apart = {} /\ live = ToSet(chain) \cup Apart
    BY DEF Intact
  <2>2. IsInjective(chain) /\ cdr[chain[Len(chain)]] = Null
    BY <2>1, LinkedFacts
  <2> QED  BY <2>1, <2>2 DEF ListIntact, chain, Apart, Last
<1> QED  BY <1>1, ListInvariance, PTL

(* The writes of list.c add up to the callbacks' whole insertions and      *)
(* removals: seen by the callbacks, the list is the directory.             *)
THEOREM ClientImplementsDirectory == Spec => ImplementsDirectory
<1>1. Init => Directory!Init /\ ListInv
  BY InitList
<1>2. ListInv /\ [Next]_vars => ListInv' /\ [Directory!Next]_(Directory!vars)
  BY NextList
<1> QED  BY <1>1, <1>2, PTL DEF Spec, ImplementsDirectory, Directory!Spec

--------------------------------------------------------------------------------
(* The configured servers are among those the directory speaks of.         *)
LEMMA Proper ==
  /\ Directory!Servers = Servers
  /\ \A link \in Links : link[1] \in Services /\ link[1] \in Servers
  /\ \A c \in Configurations : c \in Seq(Servers) /\ IsInjective(c)
<1>1. Directory!Servers = Servers
  BY DEF Directory!Servers, Servers, Directory!Services, Services, Directory!ToSet, ToSet
<1>2. \A link \in Links : link[1] \in Services /\ link[1] \in Servers
  BY DEF Services, Servers
<1> QED  BY <1>1, <1>2, ConfiguredAssumption

(* RemoveAt and Reverse are the same operators in the directory's module.  *)
LEMMA SameOperators ==
  /\ \A s, i : Directory!RemoveAt(s, i) = RemoveAt(s, i)
  /\ \A s : Directory!Reverse(s) = Reverse(s)
BY DEF Directory!RemoveAt, RemoveAt, Directory!Reverse, Reverse

(* The parts of the invariant support each other: a removal takes a service*)
(* out, never a configured server, because the two never share an entry.   *)
DirectoryInv == Directory!TypeOK /\ Directory!UniqueNames /\ Directory!ConfiguredStay

(* The configured servers make a proper directory.                         *)
LEMMA DirectoryBegins ==
  ASSUME Directory!Init
  PROVE  DirectoryInv
<1>1. configured \in Seq(Servers) /\ IsInjective(configured)
  BY Proper DEF Directory!Init
<1>2. /\ directory \in Seq(Servers)
      /\ Len(directory) = Len(configured)
      /\ \A j \in 1..Len(configured) : directory[j] = configured[Len(configured) - j + 1]
  BY <1>1, SameOperators, ReverseEntries DEF Directory!Init
<1>len. Len(configured) \in Nat
  BY <1>1, LenProperties
<1>3. Directory!TypeOK
  BY <1>2, Proper DEF Directory!Init, Directory!TypeOK
<1>4. \A i, j \in 1..Len(configured) : configured[i] = configured[j] => i = j
  BY <1>1 DEF IsInjective
<1>5. Directory!UniqueNames
  <2>1. ASSUME NEW i \in 1..Len(directory), NEW j \in 1..Len(directory), directory[i] = directory[j]
        PROVE  i = j
    <3>1. /\ Len(configured) - i + 1 \in 1..Len(configured)
          /\ Len(configured) - j + 1 \in 1..Len(configured)
      BY <1>2, <1>len
    <3>2. configured[Len(configured) - i + 1] = configured[Len(configured) - j + 1]
      BY <1>2, <2>1
    <3>3. Len(configured) - i + 1 = Len(configured) - j + 1
      BY <1>4, <3>1, <3>2
    <3> QED
      BY <1>2, <1>len, <3>3
  <2> QED
    BY <2>1 DEF Directory!UniqueNames
<1>6. Directory!ConfiguredStay
  <2> SUFFICES ASSUME NEW m \in 1..Len(configured)
               PROVE  /\ Directory!Listed(configured[m])
                      /\ \A n \in 1..(m - 1), i, j \in 1..Len(directory) :
                           directory[i] = configured[m] /\ directory[j] = configured[n] => i < j
    BY DEF Directory!ConfiguredStay
  <2>1. /\ Len(configured) - m + 1 \in 1..Len(directory)
        /\ directory[Len(configured) - m + 1] = configured[Len(configured) - (Len(configured) - m + 1) + 1]
    BY <1>2, <1>len
  <2>same. Len(configured) - (Len(configured) - m + 1) + 1 = m
    BY <1>len
  <2>2. Directory!Listed(configured[m])
    BY <2>1, <2>same DEF Directory!Listed
  <2>3. ASSUME NEW n \in 1..(m - 1), NEW i \in 1..Len(directory), NEW j \in 1..Len(directory),
               directory[i] = configured[m], directory[j] = configured[n]
        PROVE  i < j
    <3>1. Len(configured) - i + 1 = m /\ Len(configured) - j + 1 = n
      <4>1. /\ Len(configured) - i + 1 \in 1..Len(configured)
            /\ Len(configured) - j + 1 \in 1..Len(configured)
            /\ n \in 1..Len(configured)
        BY <1>2, <1>len
      <4>2. /\ configured[Len(configured) - i + 1] = configured[m]
            /\ configured[Len(configured) - j + 1] = configured[n]
        BY <1>2, <2>3
      <4> QED
        BY <1>4, <4>1, <4>2
    <3> QED
      BY <1>2, <1>len, <3>1
  <2> QED
    BY <2>2, <2>3
<1> QED
  BY <1>3, <1>5, <1>6 DEF DirectoryInv

(* Every event of Avahi keeps the invariant.                               *)
LEMMA DirectoryGoesOn ==
  ASSUME DirectoryInv, [Directory!Next]_(Directory!vars)
  PROVE  DirectoryInv'
<1> USE DEF DirectoryInv
<1>1. directory \in Seq(Servers) /\ configured \in Seq(Servers) /\ configured \in Configurations
  BY Proper DEF Directory!TypeOK
<1>2. \A link \in Links : link[1] \in Services /\ link[1] \in Servers
  BY Proper
<1>3. \A link \in Links, m \in 1..Len(configured) : configured[m] # link[1]
  BY <1>1, <1>2, ConfiguredAssumption DEF ToSet
<1>4. ASSUME UNCHANGED <<configured, directory>>, browsing' \in BOOLEAN,
             announced' \in SUBSET Links, resolving' \in SUBSET Links, failed' \in SUBSET Links
      PROVE  DirectoryInv'
  BY <1>4 DEF Directory!TypeOK, Directory!UniqueNames, Directory!ConfiguredStay, Directory!Listed
<1>5. ASSUME NEW link \in Links, Directory!Announce(link)
      PROVE  DirectoryInv'
  BY <1>4, <1>5 DEF Directory!Announce, Directory!TypeOK
<1>6. ASSUME NEW link \in Links, Directory!Found(link)
      PROVE  DirectoryInv'
  <2>1. CASE Directory!Listed(link[1])
    BY <1>4, <1>6, <2>1 DEF Directory!Found, Directory!TypeOK
  <2>2. CASE ~Directory!Listed(link[1])
    <3>1. directory' = <<link[1]>> \o directory /\ configured' = configured
      BY <1>6, <2>2 DEF Directory!Found
    <3>2. /\ directory' \in Seq(Servers)
          /\ Len(directory') = Len(directory) + 1
          /\ directory'[1] = link[1]
          /\ \A j \in 1..Len(directory) : directory'[j + 1] = directory[j]
      BY <1>1, <1>2, <3>1, FrontEntries
    <3>3. \A j \in 1..Len(directory') :
            \/ j = 1 /\ directory'[j] = link[1]
            \/ j - 1 \in 1..Len(directory) /\ directory'[j] = directory[j - 1]
      BY <1>1, <3>2
    <3>4. Directory!TypeOK'
      BY <1>6, <3>2, Proper DEF Directory!Found, Directory!TypeOK
    <3>5. Directory!UniqueNames'
      <4>1. \A j \in 1..Len(directory) : directory[j] # link[1]
        BY <2>2 DEF Directory!Listed
      <4>2. ASSUME NEW i \in 1..Len(directory'), NEW j \in 1..Len(directory'),
                   directory'[i] = directory'[j]
            PROVE  i = j
        <5>1. CASE i = 1 \/ j = 1
          BY <3>3, <4>1, <4>2, <5>1
        <5>2. CASE i # 1 /\ j # 1
          <6>1. /\ i - 1 \in 1..Len(directory) /\ j - 1 \in 1..Len(directory)
                /\ directory[i - 1] = directory[j - 1]
            BY <3>3, <4>2, <5>2
          <6>2. i - 1 = j - 1
            BY <6>1 DEF Directory!UniqueNames
          <6> QED
            BY <6>2
        <5> QED
          BY <5>1, <5>2
      <4> QED
        BY <4>2 DEF Directory!UniqueNames
    <3>6. Directory!ConfiguredStay'
      <4> SUFFICES ASSUME NEW m \in 1..Len(configured)
                   PROVE  /\ Directory!Listed(configured[m])'
                          /\ \A n \in 1..(m - 1), i, j \in 1..Len(directory') :
                               directory'[i] = configured[m] /\ directory'[j] = configured[n] => i < j
        BY <3>1 DEF Directory!ConfiguredStay
      <4>1. PICK k \in 1..Len(directory) : directory[k] = configured[m]
        BY DEF Directory!ConfiguredStay, Directory!Listed
      <4>2. k + 1 \in 1..Len(directory') /\ directory'[k + 1] = configured[m]
        BY <3>2, <4>1
      <4>3. Directory!Listed(configured[m])'
        BY <3>1, <4>2 DEF Directory!Listed
      <4>4. ASSUME NEW n \in 1..(m - 1), NEW i \in 1..Len(directory'), NEW j \in 1..Len(directory'),
                   directory'[i] = configured[m], directory'[j] = configured[n]
            PROVE  i < j
        <5>1. n \in 1..Len(configured) /\ Len(configured) \in Nat
          BY <1>1, LenProperties
        <5>2. /\ i - 1 \in 1..Len(directory) /\ directory[i - 1] = configured[m]
              /\ j - 1 \in 1..Len(directory) /\ directory[j - 1] = configured[n]
          BY <1>3, <3>3, <4>4, <5>1
        <5>3. i - 1 < j - 1
          BY <5>2 DEF Directory!ConfiguredStay
        <5> QED
          BY <3>2, <5>3
      <4> QED
        BY <4>3, <4>4
    <3> QED
      BY <3>4, <3>5, <3>6
  <2> QED
    BY <2>1, <2>2
<1>7. ASSUME NEW link \in Links, Directory!ResolveFails(link)
      PROVE  DirectoryInv'
  BY <1>4, <1>7 DEF Directory!ResolveFails, Directory!TypeOK
<1>8. ASSUME NEW link \in Links, Directory!Withdraw(link)
      PROVE  DirectoryInv'
  <2>1. CASE ~Directory!Listed(link[1])
    BY <1>4, <1>8, <2>1 DEF Directory!Withdraw, Directory!TypeOK
  <2>2. CASE Directory!Listed(link[1])
    <3>1. PICK r \in 1..Len(directory) :
            directory[r] = link[1] /\ directory' = RemoveAt(directory, r)
      BY <1>8, <2>2, SameOperators DEF Directory!Withdraw
    <3>2. /\ directory' \in Seq(Servers)
          /\ Len(directory') = Len(directory) - 1
          /\ \A j \in 1..(Len(directory) - 1) :
               directory'[j] = IF j < r THEN directory[j] ELSE directory[j + 1]
      BY <1>1, <3>1, RemoveAtEntries
    <3>3. configured' = configured
      BY <1>8 DEF Directory!Withdraw
    <3>4. Directory!TypeOK'
      BY <1>8, <3>2, Proper DEF Directory!Withdraw, Directory!TypeOK
    <3>5. Directory!UniqueNames'
      <4> DEFINE Old(x) == IF x < r THEN x ELSE x + 1
      <4>1. Len(directory) \in Nat
        BY <1>1, LenProperties
      <4>2. ASSUME NEW i \in 1..Len(directory'), NEW j \in 1..Len(directory'), directory'[i] = directory'[j]
            PROVE  i = j
        <5>1. i \in 1..(Len(directory) - 1) /\ j \in 1..(Len(directory) - 1)
          BY <3>2
        <5>2. Old(i) \in 1..Len(directory) /\ Old(j) \in 1..Len(directory)
          BY <4>1, <5>1
        <5>3. directory[Old(i)] = directory'[i] /\ directory[Old(j)] = directory'[j]
          BY <3>2, <5>1
        <5>4. Old(i) = Old(j)
          <6> HIDE DEF Old
          <6> QED  BY <4>2, <5>2, <5>3 DEF Directory!UniqueNames
        <5> QED  BY <4>1, <5>1, <5>4
      <4> QED  BY <4>2 DEF Directory!UniqueNames
    <3>6. Directory!ConfiguredStay'
      <4> SUFFICES ASSUME NEW m \in 1..Len(configured)
                   PROVE  /\ Directory!Listed(configured[m])'
                          /\ \A n \in 1..(m - 1), i, j \in 1..Len(directory') :
                               directory'[i] = configured[m] /\ directory'[j] = configured[n] => i < j
        BY <3>3 DEF Directory!ConfiguredStay
      <4>1. PICK k \in 1..Len(directory) : directory[k] = configured[m]
        BY DEF Directory!ConfiguredStay, Directory!Listed
      <4>2. k # r
        BY <1>3, <3>1, <4>1
      <4>3. Directory!Listed(configured[m])'
        <5>1. CASE k < r
          BY <1>1, <3>2, <3>3, <4>1, <5>1 DEF Directory!Listed
        <5>2. CASE k > r
          <6>1. k - 1 \in 1..Len(directory') /\ directory'[k - 1] = configured[m]
            BY <1>1, <3>2, <4>1, <5>2
          <6> QED
            BY <3>3, <6>1 DEF Directory!Listed
        <5> QED
          BY <4>2, <5>1, <5>2
      <4>4. ASSUME NEW n \in 1..(m - 1), NEW i \in 1..Len(directory'), NEW j \in 1..Len(directory'),
                   directory'[i] = configured[m], directory'[j] = configured[n]
            PROVE  i < j
        <5> DEFINE Old(x) == IF x < r THEN x ELSE x + 1
        <5>1. /\ Old(i) \in 1..Len(directory) /\ Old(j) \in 1..Len(directory)
              /\ directory[Old(i)] = configured[m] /\ directory[Old(j)] = configured[n]
          BY <1>1, <3>2, <4>4
        <5>2. Old(i) < Old(j)
          <6> HIDE DEF Old
          <6> QED
            BY <5>1 DEF Directory!ConfiguredStay
        <5> QED
          BY <1>1, <3>2, <5>2
      <4> QED
        BY <4>3, <4>4
    <3> QED
      BY <3>4, <3>5, <3>6
  <2> QED
    BY <2>1, <2>2
<1>9. CASE Directory!Quit
  BY <1>4, <1>9 DEF Directory!Quit, Directory!TypeOK
<1>10. CASE UNCHANGED Directory!vars
  BY <1>4, <1>10 DEF Directory!vars, Directory!TypeOK
<1> QED
  BY <1>5, <1>6, <1>7, <1>8, <1>9, <1>10 DEF Directory!Next

(* The inductive invariant holds in every reachable state.                 *)
LEMMA DirectoryInvariance == Directory!Spec => []DirectoryInv
<1>1. Directory!Init => DirectoryInv
  BY DirectoryBegins
<1>2. DirectoryInv /\ [Directory!Next]_(Directory!vars) => DirectoryInv'
  BY DirectoryGoesOn
<1> QED  BY <1>1, <1>2, PTL DEF Directory!Spec

(* A service seen on one interface only, whose resolver has answered, is   *)
(* listed: only a withdrawal on another interface could remove its name.   *)
LEMMA DirectoryListsServices == Directory!Spec => []Directory!SingleHomedIsListed
<1>1. Directory!Init => Directory!SingleHomedIsListed
  BY DEF Directory!Init, Directory!SingleHomedIsListed
<1>2. DirectoryInv /\ Directory!SingleHomedIsListed /\ [Directory!Next]_(Directory!vars) => Directory!SingleHomedIsListed'
  <2> SUFFICES ASSUME DirectoryInv, Directory!SingleHomedIsListed, [Directory!Next]_(Directory!vars)
               PROVE  Directory!SingleHomedIsListed'
    OBVIOUS
  <2>1. directory \in Seq(Servers)
    BY Proper DEF DirectoryInv, Directory!TypeOK
  <2>2. \A link \in Links : link[1] \in Servers
    BY Proper
  <2> SUFFICES ASSUME NEW link \in announced' \ (resolving' \cup failed'),
                      \A other \in Links : other[1] = link[1] => other = link
               PROVE  Directory!Listed(link[1])'
    BY DEF Directory!SingleHomedIsListed
  <2>3. CASE UNCHANGED Directory!vars
    BY <2>3 DEF Directory!vars, Directory!SingleHomedIsListed, Directory!Listed
  <2>4. CASE Directory!Quit
    BY <2>4 DEF Directory!Quit, Directory!SingleHomedIsListed, Directory!Listed
  <2>5. ASSUME NEW other \in Links, Directory!Announce(other)
        PROVE  Directory!Listed(link[1])'
    BY <2>5 DEF Directory!Announce, Directory!SingleHomedIsListed, Directory!Listed
  <2>6. ASSUME NEW other \in Links, Directory!ResolveFails(other)
        PROVE  Directory!Listed(link[1])'
    BY <2>6 DEF Directory!ResolveFails, Directory!SingleHomedIsListed, Directory!Listed
  <2>7. ASSUME NEW other \in Links, Directory!Found(other)
        PROVE  Directory!Listed(link[1])'
    <3>1. link = other \/ Directory!Listed(link[1])
      BY <2>7 DEF Directory!Found, Directory!SingleHomedIsListed
    <3>2. CASE Directory!Listed(other[1])
      BY <2>7, <3>1, <3>2 DEF Directory!Found, Directory!Listed
    <3>3. CASE ~Directory!Listed(other[1])
      <4>1. directory' = <<other[1]>> \o directory
        BY <2>7, <3>3 DEF Directory!Found
      <4>2. /\ Len(directory') = Len(directory) + 1
            /\ directory'[1] = other[1]
            /\ \A j \in 1..Len(directory) : directory'[j + 1] = directory[j]
        BY <2>1, <2>2, <4>1, FrontEntries
      <4>3. Len(directory) \in Nat
        BY <2>1, LenProperties
      <4>4. CASE link = other
        <5>1. 1 \in 1..Len(directory')
          BY <4>2, <4>3
        <5> QED
          BY <4>2, <4>4, <5>1 DEF Directory!Listed
      <4>5. CASE Directory!Listed(link[1])
        <5>1. PICK j \in 1..Len(directory) : directory[j] = link[1]
          BY <4>5 DEF Directory!Listed
        <5>2. j + 1 \in 1..Len(directory') /\ directory'[j + 1] = link[1]
          BY <4>2, <4>3, <5>1
        <5> QED
          BY <5>2 DEF Directory!Listed
      <4> QED
        BY <3>1, <4>4, <4>5
    <3> QED
      BY <3>2, <3>3
  <2>8. ASSUME NEW other \in Links, Directory!Withdraw(other)
        PROVE  Directory!Listed(link[1])'
    <3>1. link # other /\ Directory!Listed(link[1]) /\ other[1] # link[1]
      BY <2>8 DEF Directory!Withdraw, Directory!SingleHomedIsListed
    <3>2. CASE ~Directory!Listed(other[1])
      BY <2>8, <3>1, <3>2 DEF Directory!Withdraw, Directory!Listed
    <3>3. CASE Directory!Listed(other[1])
      <4>1. PICK r \in 1..Len(directory) :
              directory[r] = other[1] /\ directory' = RemoveAt(directory, r)
        BY <2>8, <3>3, SameOperators DEF Directory!Withdraw
      <4>2. /\ Len(directory') = Len(directory) - 1
            /\ \A j \in 1..(Len(directory) - 1) :
                 directory'[j] = IF j < r THEN directory[j] ELSE directory[j + 1]
        BY <2>1, <4>1, RemoveAtEntries
      <4>3. Len(directory) \in Nat
        BY <2>1, LenProperties
      <4>4. PICK k \in 1..Len(directory) : directory[k] = link[1]
        BY <3>1 DEF Directory!Listed
      <4>5. CASE k < r
        <5>1. k \in 1..(Len(directory) - 1)
          BY <4>3, <4>5
        <5> QED
          BY <4>2, <4>4, <4>5, <5>1 DEF Directory!Listed
      <4>6. CASE k > r
        <5>1. k - 1 \in 1..(Len(directory) - 1) /\ ~(k - 1 < r) /\ (k - 1) + 1 = k
          BY <4>3, <4>6
        <5>2. directory'[k - 1] = link[1]
          BY <4>2, <4>4, <5>1
        <5> QED
          BY <4>2, <5>1, <5>2 DEF Directory!Listed
      <4>7. k # r
        BY <3>1, <4>1, <4>4
      <4> QED
        BY <4>3, <4>5, <4>6, <4>7
    <3> QED
      BY <3>2, <3>3
  <2> QED
    BY <2>3, <2>4, <2>5, <2>6, <2>7, <2>8 DEF Directory!Next
<1> QED
  BY <1>1, <1>2, DirectoryInvariance, PTL DEF Directory!Spec

(* No name is in the list in memory twice, whatever is found on however    *)
(* many interfaces.                                                        *)
THEOREM NamesAreUnique == Spec => []UniqueNames
<1>1. DirectoryInv => UniqueNames
  BY DEF DirectoryInv, UniqueNames
<1> QED  BY <1>1, ClientImplementsDirectory, DirectoryInvariance, PTL DEF ImplementsDirectory

(* The servers of the configuration file are never removed or reordered.   *)
THEOREM ConfiguredServersStay == Spec => []ConfiguredStay
<1>1. DirectoryInv => ConfiguredStay
  BY DEF DirectoryInv, ConfiguredStay
<1> QED  BY <1>1, ClientImplementsDirectory, DirectoryInvariance, PTL DEF ImplementsDirectory

(* A service seen on one interface, whose resolver has answered, is in it. *)
THEOREM ServicesAreListed == Spec => []SingleHomedIsListed
<1>1. Directory!SingleHomedIsListed => SingleHomedIsListed
  BY DEF SingleHomedIsListed
<1> QED  BY <1>1, ClientImplementsDirectory, DirectoryListsServices, PTL DEF ImplementsDirectory

--------------------------------------------------------------------------------
(* The reader's thread is at a cell from the start of a walk to its end.   *)
OnItsWay == rpc \in {"car", "test", "testCdr", "notify", "next"}

ReaderOK ==
  /\ rpc \in {"poll", "car", "test", "testCdr", "notify", "next", "done", "crashed"}
  /\ lastTag \in Tags \cup {NoTag}
  /\ temp \in Cells \cup {Null}
  /\ OnItsWay => temp \in Cells
  /\ info \in Servers \cup {NoServer}
  /\ told \in [Watched -> 0..3]
  /\ due \in SUBSET Watched
  /\ passedOver \in Servers \cup {NoServer}
  /\ disturbed \in BOOLEAN

(* What the callbacks leave alone of the reader's thread.                  *)
LEMMA CallbackLeaves ==
  ASSUME Callback
  PROVE  /\ UNCHANGED <<rpc, lastTag, temp, info, told, passedOver>>
         /\ \/ UNCHANGED <<due, disturbed>>
            \/ \E l \in Links : due' = due \ {l[1]} /\ disturbed' = (rpc # "poll")
<1>1. ASSUME UNCHANGED readerVars PROVE UNCHANGED <<rpc, lastTag, temp, info, told, due, passedOver, disturbed>>
  BY <1>1 DEF readerVars
<1>2. ASSUME NEW l \in Links, Removed(l)
      PROVE  /\ UNCHANGED <<rpc, lastTag, temp, info, told, passedOver>>
             /\ due' = due \ {l[1]} /\ disturbed' = (rpc # "poll")
  BY <1>2 DEF Removed
<1>3. CASE PushCdr \/ PopCdr \/ FreeAtom \/ Quit
  BY <1>1, <1>3 DEF PushCdr, PopCdr, FreeAtom, Quit
<1>4. ASSUME NEW l \in Links, Announce(l) \/ FoundKnown(l) \/ FoundFirst(l) \/ FoundNew(l) \/ ResolveFails(l)
      PROVE  UNCHANGED readerVars
  BY <1>4 DEF Announce, FoundKnown, FoundFirst, FoundNew, ResolveFails
<1>5. ASSUME NEW l \in Links, WithdrawUnknown(l) \/ WithdrawOnly(l) \/ WithdrawFront(l) \/ WithdrawLater(l)
      PROVE  Removed(l)
  BY <1>5 DEF WithdrawUnknown, WithdrawOnly, WithdrawFront, WithdrawLater
<1> QED  BY <1>1, <1>2, <1>3, <1>4, <1>5 DEF Callback

(* The reader's thread starts out well typed ...                           *)
LEMMA ReaderInit == Init => ReaderOK
<1> SUFFICES ASSUME Init PROVE ReaderOK
  OBVIOUS
<1>1. /\ rpc = "poll" /\ lastTag = NoTag /\ temp = Null /\ info = NoServer
      /\ told = NoCalls /\ due = {} /\ passedOver = NoServer /\ disturbed = FALSE
  BY DEF Init
<1>2. told \in [Watched -> 0..3]
  BY <1>1 DEF NoCalls
<1>3. disturbed \in BOOLEAN
  BY <1>1, Zenon
<1> QED  BY <1>1, <1>2, <1>3 DEF ReaderOK, OnItsWay

(* ... and stays so.                                                       *)
LEMMA ReaderNext == ListInv /\ ReaderOK /\ [Next]_vars => ReaderOK'
<1> SUFFICES ASSUME ListInv, ReaderOK, [Next]_vars PROVE ReaderOK'
  OBVIOUS
<1>1. /\ rpc \in {"poll", "car", "test", "testCdr", "notify", "next", "done", "crashed"}
      /\ lastTag \in Tags \cup {NoTag}
      /\ temp \in Cells \cup {Null}
      /\ OnItsWay => temp \in Cells
      /\ info \in Servers \cup {NoServer}
      /\ told \in [Watched -> 0..3]
      /\ due \in SUBSET Watched
      /\ passedOver \in Servers \cup {NoServer}
  BY DEF ReaderOK
<1>2. disturbed' \in BOOLEAN
  <2>1. disturbed \in BOOLEAN
    BY DEF ReaderOK
  <2>2. CASE disturbed' = disturbed
    BY <2>1, <2>2, Zenon
  <2>3. CASE disturbed' = (rpc # "poll") \/ disturbed' = (apc = "popCdr") \/ disturbed' = FALSE
    BY <2>3, Zenon
  <2>4. CASE UNCHANGED vars
    BY <2>2, <2>4 DEF vars
  <2>5. CASE Callback
    BY <2>2, <2>3, <2>5, CallbackLeaves, Zenon
  <2>6. CASE Walk
    BY <2>2, <2>3, <2>6, Zenon DEF Walk, ReadCar, TestCar, TestCdr, Notify, NextCell, Return, ReadFreed
  <2>7. CASE \E t \in Tags : TagRead(t) \/ TagDropped(t)
    BY <2>2, <2>3, <2>7, Zenon DEF TagRead, TagDropped
  <2> QED  BY <2>4, <2>5, <2>6, <2>7 DEF Next
<1> DEFINE Rest ==
  /\ rpc' \in {"poll", "car", "test", "testCdr", "notify", "next", "done", "crashed"}
  /\ lastTag' \in Tags \cup {NoTag}
  /\ temp' \in Cells \cup {Null}
  /\ OnItsWay' => temp' \in Cells
  /\ info' \in Servers \cup {NoServer}
  /\ told' \in [Watched -> 0..3]
  /\ due' \in SUBSET Watched
  /\ passedOver' \in Servers \cup {NoServer}
<1>3. car \in [Cells -> Servers \cup {NoServer}] /\ cdr \in [Cells -> Cells \cup {Null}] /\ atom \in Cells
  BY DEF ListInv, Whole, Heap
<1>4. First \in Cells
  BY SpareCellsAssumption DEF First, Cells
<1>5. ASSUME UNCHANGED vars PROVE Rest
  BY <1>1, <1>5 DEF vars, OnItsWay
<1>6. ASSUME Callback PROVE Rest
  <2>1. UNCHANGED <<rpc, lastTag, temp, info, told, passedOver>> /\ due' \subseteq due
    BY <1>6, CallbackLeaves
  <2> QED  BY <1>1, <2>1 DEF OnItsWay
<1>7. ASSUME ReadCar PROVE Rest
  BY <1>1, <1>3, <1>7 DEF ReadCar, OnItsWay
<1>8. ASSUME TestCar PROVE Rest
  BY <1>1, <1>8 DEF TestCar, OnItsWay
<1>9. ASSUME TestCdr PROVE Rest
  BY <1>1, <1>9 DEF TestCdr, EndWalk, OnItsWay
<1>10. ASSUME Notify PROVE Rest
  <2>1. told' \in [Watched -> 0..3]
    <3>1. CASE info = NoServer
      BY <1>1, <1>10, <3>1 DEF Notify
    <3>2. CASE info # NoServer
      <4>1. \A s \in Watched : (IF s = info /\ told[s] < 3 THEN told[s] + 1 ELSE told[s]) \in 0..3
        BY <1>1
      <4> QED  BY <1>10, <3>2, <4>1 DEF Notify
    <3> QED  BY <3>1, <3>2
  <2> QED  BY <1>1, <1>10, <2>1 DEF Notify, OnItsWay
<1>11. ASSUME NextCell PROVE Rest
  <2>1. passedOver' \in Servers \cup {NoServer}
    BY <1>1, <1>3, <1>11 DEF NextCell, OnTheMove
  <2> QED  BY <1>1, <1>3, <1>11, <2>1 DEF NextCell, EndWalk, OnItsWay
<1>12. ASSUME Return PROVE Rest
  <2>1. told' \in [Watched -> 0..3]
    BY <1>12 DEF Return, NoCalls
  <2> QED  BY <1>1, <1>12, <2>1 DEF Return, OnItsWay
<1>13. ASSUME ReadFreed PROVE Rest
  BY <1>1, <1>13 DEF ReadFreed, OnItsWay
<1>14. ASSUME \E t \in Tags : TagRead(t) \/ TagDropped(t) PROVE Rest
  <2>1. due' \in SUBSET Watched
    BY <1>1, <1>14 DEF TagRead, TagDropped
  <2> QED  BY <2>1, <1>1, <1>4, <1>14 DEF TagRead, TagDropped, OnItsWay
<1>15. Rest
  BY <1>5, <1>6, <1>7, <1>8, <1>9, <1>10, <1>11, <1>12, <1>13, <1>14 DEF Next, Walk
<1> QED  BY <1>2, <1>15 DEF ReaderOK

(* Type correctness of both threads.                                       *)
THEOREM TypeCorrect == Spec => []TypeOK
<1>1. Spec => []ReaderOK
  <2>1. Spec => [](ListInv /\ ReaderOK)
    BY ReaderInit, ReaderNext, InitList, NextList, PTL DEF Spec
  <2> QED  BY <2>1, PTL
<1>2. Spec => []Directory!TypeOK
  <2>1. DirectoryInv => Directory!TypeOK
    BY DEF DirectoryInv
  <2> QED  BY <2>1, ClientImplementsDirectory, DirectoryInvariance, PTL DEF ImplementsDirectory
<1>3. ListInv /\ ReaderOK /\ Directory!TypeOK => TypeOK
  <2> SUFFICES ASSUME ListInv, ReaderOK, Directory!TypeOK PROVE TypeOK
    OBVIOUS
  <2>2. live \in SUBSET Cells
    <3>1. Linked(cdr, chain, First) /\ live = ToSet(chain) \cup Apart
      BY DEF ListInv, Whole, Intact
    <3>2. ToSet(chain) \subseteq Cells
      BY <3>1, LinkedFacts
    <3> QED  BY <3>1, <3>2 DEF ListInv, Whole, Heap, Apart
  <2>3. disturbed \in BOOLEAN
    BY DEF ReaderOK
  <2> QED  BY <2>2, <2>3 DEF ListInv, Whole, Heap, ReaderOK, TypeOK
<1> QED  BY <1>1, <1>2, <1>3, ListInvariance, PTL

--------------------------------------------------------------------------------
(* The cells behind the walk's hold this server.                           *)
Ahead(v) ==
  \E i, j \in 1..Len(chain) : i < j /\ chain[i] = temp /\ car[chain[j]] = v

(* The walk is about to call this server, or still to come to it.          *)
Owed(v) ==
  \/ rpc = "car" /\ v = car[temp]
  \/ rpc \in {"test", "testCdr", "notify"} /\ v = info
  \/ rpc \in {"car", "test", "testCdr", "notify", "next"} /\ Ahead(v)

(* An insertion has it on the move from the first cell, where the walk is. *)
OnMove(v) == temp = First /\ apc = "pushCdr" /\ v = car[atom]

(* The walk is on the list; only at the first cell may another server have *)
(* been written since the walk read it, and only there may it have read    *)
(* that there is none.                                                     *)
OnTheList ==
  /\ temp \in ToSet(chain)
  /\ apc # "popCdr"
  /\ temp = First => passedOver = NoServer
  /\ rpc \in {"test", "testCdr", "notify"} =>
       /\ info = NoServer => temp = First /\ due = {} /\ configured = <<>>
       /\ temp = First /\ info # NoServer => car[First] # NoServer
       /\ temp # First => info = car[temp]
       /\ rpc = "testCdr" => info = NoServer

(* Each server it owes a call has had it or will, or is on the move.       *)
CallsEach ==
  \A v \in due \ {passedOver} : told[v] >= 1 \/ Owed(v) \/ OnMove(v)

(* The first cell's server may move to the second cell and be called again,*)
(* but nothing moves behind the walk otherwise.                            *)
CallsFew ==
  /\ temp = First /\ rpc # "next" => told = NoCalls
  /\ temp = First => \A v \in Watched : told[v] <= 1
  /\ \A v \in Watched : Owed(v) => told[v] <= 1

Undisturbed ==
  /\ OnItsWay => OnTheList /\ CallsEach /\ CallsFew
  /\ \A v \in Watched : told[v] <= 2
  /\ rpc = "done" => \A v \in due \ {passedOver} : told[v] >= 1
  /\ rpc = "crashed" => configured = <<>>

WalkInv ==
  /\ rpc = "poll" => told = NoCalls /\ passedOver = NoServer
  /\ ~disturbed => Undisturbed

(* What an insertion may do to a walk: something new may come behind the   *)
(* first cell, while the walk is there.                                    *)
Grows ==
  /\ temp \in ToSet(chain')
  /\ apc' # "popCdr"
  /\ \A v : Ahead(v) => \E i, j \in 1..Len(chain') : i < j /\ chain'[i] = temp /\ car'[chain'[j]] = v
  /\ temp # First =>
       /\ car'[temp] = car[temp]
       /\ \A v : (\E i, j \in 1..Len(chain') : i < j /\ chain'[i] = temp /\ car'[chain'[j]] = v) => Ahead(v)
  /\ car[First] # NoServer => car'[First] # NoServer

(* Whatever leaves the cells behind the first alone is harmless.           *)
LEMMA SteadyGrows ==
  ASSUME ListInv, temp \in ToSet(chain), Steady, apc' # "popCdr"
  PROVE  Grows
<1>1. Linked(cdr, chain, First)
  BY DEF ListInv, Whole, Intact
<1>2. /\ chain' = chain
      /\ \A i \in 2..Len(chain) : car'[chain[i]] = car[chain[i]]
      /\ car[First] # NoServer => car'[First] # NoServer
  BY DEF Steady
<1>3. /\ Len(chain) \in Nat /\ chain[1] = First
      /\ \A x : x \in ToSet(chain) <=> \E i \in 1..Len(chain) : x = chain[i]
  BY <1>1, LinkedFacts
<1>4. \A i, j \in 1..Len(chain) : i < j => j \in 2..Len(chain)
  BY <1>3
<1>5. \A i, j \in 1..Len(chain) : i < j => car'[chain[j]] = car[chain[j]]
  BY <1>2, <1>4
<1>6. temp # First => car'[temp] = car[temp]
  <2> SUFFICES ASSUME temp # First PROVE car'[temp] = car[temp]
    OBVIOUS
  <2>1. PICK i \in 1..Len(chain) : temp = chain[i]
    BY <1>3
  <2>2. i \in 2..Len(chain)
    BY <1>3, <2>1
  <2> QED  BY <1>2, <2>1, <2>2
<1> QED  BY <1>2, <1>5, <1>6 DEF Grows, Ahead

(* So is the write that links the new cell in.                             *)
LEMMA InsertionGrows ==
  ASSUME ListInv, temp \in ToSet(chain), PushCdr
  PROVE  Grows
<1>1. chain' = Inserted(chain, atom) /\ UNCHANGED car
  BY PushCdrList
<1>2. Linked(cdr, chain, First) /\ atom \notin ToSet(chain) /\ apc' # "popCdr"
  BY DEF ListInv, Whole, Intact, Apart, PushCdr
<1>3. /\ Len(chain) \in Nat /\ Len(chain) >= 1 /\ chain[1] = First
      /\ \A x : x \in ToSet(chain) <=> \E i \in 1..Len(chain) : x = chain[i]
  BY <1>2, LinkedFacts
<1>4. Linked(cdr', chain', First)
  BY PushCdrList DEF ListInv, Whole, Intact
<1>5. /\ Len(chain') \in Nat
      /\ \A x : x \in ToSet(chain') <=> \E i \in 1..Len(chain') : x = chain'[i]
  BY <1>4, LinkedFacts
<1> DEFINE t == Inserted(chain, atom)
<1>6. Len(t) = Len(chain) + 1
  <2>1. t = [i \in 1..(Len(chain) + 1) |-> IF i = 1 THEN chain[1] ELSE IF i = 2 THEN atom ELSE chain[i - 1]]
    BY DEF Inserted
  <2>2. DOMAIN t = 1..(Len(chain) + 1)
    BY <2>1
  <2>3. t \in Seq(Cells)
    BY <1>1, <1>4, LinkedFacts
  <2> HIDE DEF t
  <2>4. DOMAIN t = 1..Len(t) /\ Len(t) \in Nat
    BY <2>3, LenProperties
  <2> QED  BY <1>3, <2>2, <2>4
<1>7. t[1] = chain[1] /\ t[2] = atom /\ \A i \in 3..(Len(chain) + 1) : t[i] = chain[i - 1]
  BY <1>3 DEF Inserted
<1> HIDE DEF t
<1>8. \A i \in 2..Len(chain) : i + 1 \in 1..Len(t) /\ t[i + 1] = chain[i]
  <2> SUFFICES ASSUME NEW i \in 2..Len(chain) PROVE i + 1 \in 1..Len(t) /\ t[i + 1] = chain[i]
    OBVIOUS
  <2>1. i + 1 \in 3..(Len(chain) + 1) /\ (i + 1) - 1 = i
    BY <1>3
  <2> QED  BY <1>3, <1>6, <1>7, <2>1
<1>9. ASSUME NEW i \in 1..Len(chain), NEW j \in 1..Len(chain), i < j
      PROVE  \E p, q \in 1..Len(t) : p < q /\ t[p] = chain[i] /\ t[q] = chain[j]
  <2>1. j \in 2..Len(chain) /\ j + 1 \in 1..Len(t) /\ t[j + 1] = chain[j]
    BY <1>3, <1>8, <1>9
  <2>2. CASE i = 1
    <3>1. 1 \in 1..Len(t) /\ 1 < j + 1 /\ t[1] = chain[i]
      BY <1>3, <1>6, <1>7, <2>2
    <3> QED  BY <2>1, <3>1
  <2>3. CASE i # 1
    <3>1. i \in 2..Len(chain) /\ i + 1 < j + 1
      BY <1>3, <1>9, <2>3
    <3> QED  BY <1>8, <2>1, <3>1
  <2> QED  BY <2>2, <2>3
<1>10. \A v : Ahead(v) => \E p, q \in 1..Len(t) : p < q /\ t[p] = temp /\ car[t[q]] = v
  BY <1>9 DEF Ahead
<1>11. ASSUME NEW p \in 1..Len(t), NEW q \in 1..Len(t), p < q, t[p] = temp, temp # First
       PROVE  \E i, j \in 1..Len(chain) : i < j /\ chain[i] = temp /\ chain[j] = t[q]
  <2>1. p # 1 /\ p # 2
    BY <1>2, <1>3, <1>7, <1>11
  <2>2. /\ p \in 3..(Len(chain) + 1) /\ q \in 3..(Len(chain) + 1)
        /\ p - 1 \in 1..Len(chain) /\ q - 1 \in 1..Len(chain) /\ p - 1 < q - 1
    BY <1>3, <1>6, <1>11, <2>1
  <2>3. t[p] = chain[p - 1] /\ t[q] = chain[q - 1]
    BY <1>7, <2>2
  <2> QED  BY <1>11, <2>2, <2>3
<1>12. temp # First => \A v : (\E p, q \in 1..Len(t) : p < q /\ t[p] = temp /\ car[t[q]] = v) => Ahead(v)
  BY <1>11 DEF Ahead
<1>13. temp \in ToSet(chain')
  <2>1. PICK i \in 1..Len(chain) : temp = chain[i]
    BY <1>3
  <2>2. CASE i = 1
    <3>1. 1 \in 1..Len(t) /\ t[1] = temp
      BY <1>3, <1>6, <1>7, <2>1, <2>2
    <3> QED  BY <1>1, <1>5, <3>1 DEF t
  <2>3. CASE i # 1
    <3>1. i \in 2..Len(chain)
      BY <1>3, <2>3
    <3>2. i + 1 \in 1..Len(t) /\ t[i + 1] = temp
      BY <1>8, <2>1, <3>1
    <3> QED  BY <1>1, <1>5, <3>2 DEF t
  <2> QED  BY <2>2, <2>3
<1> QED  BY <1>1, <1>2, <1>10, <1>12, <1>13 DEF Grows, t

(* No callback changes what the configuration file listed.                 *)
LEMMA CallbackKeepsConfigured == Callback => configured' = configured
BY DEF Callback, PushCdr, PopCdr, FreeAtom, Quit, Announce, FoundKnown, FoundFirst, FoundNew, ResolveFails,
       WithdrawUnknown, WithdrawOnly, WithdrawFront, WithdrawLater, Removed, networkVars

(* While a walk goes on undisturbed the callbacks only insert.             *)
LEMMA CallbackGrows ==
  ASSUME ListInv, Callback, ~disturbed', rpc # "poll", temp \in ToSet(chain), apc # "popCdr"
  PROVE  Grows /\ UNCHANGED <<configured, rpc, temp, info, told, due, passedOver, disturbed>>
<1>1. /\ UNCHANGED <<rpc, temp, info, told, due, passedOver, disturbed>>
  <2>1. ASSUME disturbed' = (rpc # "poll") PROVE FALSE
    BY <2>1, Zenon
  <2> QED  BY <2>1, CallbackLeaves
<1>2. ASSUME NEW l \in Links, Removed(l) PROVE FALSE
  <2>1. disturbed' = (rpc # "poll")
    BY <1>2 DEF Removed
  <2> QED  BY <2>1, Zenon
<1>3. UNCHANGED configured
  BY CallbackKeepsConfigured
<1>4. ASSUME UNCHANGED heapVars PROVE Grows
  <2>1. UNCHANGED <<car, apc>>
    BY <1>4 DEF heapVars
  <2>2. chain' = chain
    BY <1>4, SameHeap
  <2> QED  BY <2>1, <2>2, SteadyGrows DEF Steady
<1>5. ASSUME PushCdr PROVE Grows
  BY <1>5, InsertionGrows
<1>6. ASSUME PopCdr PROVE Grows
  BY <1>6 DEF PopCdr
<1>7. ASSUME FreeAtom PROVE Grows
  <2>1. UNCHANGED <<car, cdr>> /\ apc' = "idle"
    BY <1>7 DEF FreeAtom
  <2>2. chain' = chain
    BY <2>1 DEF chain, CellsFrom
  <2> QED  BY <2>1, <2>2, SteadyGrows DEF Steady
<1>8. ASSUME Quit PROVE Grows
  BY <1>4, <1>8 DEF Quit
<1>9. ASSUME NEW l \in Links, Announce(l) \/ FoundKnown(l) \/ ResolveFails(l)
      PROVE  Grows
  BY <1>4, <1>9 DEF Announce, FoundKnown, ResolveFails
<1>10. ASSUME NEW l \in Links, FoundFirst(l)
       PROVE  Grows
  <2>1. apc' = apc
    BY <1>10 DEF FoundFirst
  <2> QED  BY <1>10, <2>1, FoundFirstList, SteadyGrows
<1>11. ASSUME NEW l \in Links, FoundNew(l)
       PROVE  Grows
  <2>1. apc' = "pushCdr"
    BY <1>11 DEF FoundNew
  <2> QED  BY <1>11, <2>1, FoundNewList, SteadyGrows
<1>12. ASSUME NEW l \in Links, WithdrawUnknown(l) \/ WithdrawOnly(l) \/ WithdrawFront(l) \/ WithdrawLater(l)
       PROVE  Removed(l)
  BY <1>12 DEF WithdrawUnknown, WithdrawOnly, WithdrawFront, WithdrawLater
<1>13. Grows
  BY <1>2, <1>5, <1>6, <1>7, <1>8, <1>9, <1>10, <1>11, <1>12 DEF Callback
<1> QED  BY <1>1, <1>3, <1>13

(* A server taken from the first cell is in the copy, ...                  *)
LEMMA FrontKept ==
  ASSUME ListInv, Callback, ~disturbed', rpc # "poll", apc # "popCdr", car[First] # NoServer
  PROVE  car'[First] = car[First] \/ (apc' = "pushCdr" /\ car'[atom'] = car[First])
<1> DEFINE Kept == car'[First] = car[First] \/ (apc' = "pushCdr" /\ car'[atom'] = car[First])
<1>1. ASSUME NEW l \in Links, Removed(l) PROVE FALSE
  <2>1. disturbed' = (rpc # "poll")
    BY <1>1 DEF Removed
  <2> QED  BY <2>1, Zenon
<1>2. CASE PushCdr \/ PopCdr \/ FreeAtom \/ Quit
  BY <1>2 DEF PushCdr, PopCdr, FreeAtom, Quit, heapVars
<1>3. ASSUME NEW l \in Links, Announce(l) \/ FoundKnown(l) \/ ResolveFails(l) \/ FoundFirst(l)
      PROVE  Kept
  BY <1>3 DEF Announce, FoundKnown, ResolveFails, FoundFirst, IsEmpty, heapVars
<1>4. ASSUME NEW l \in Links, FoundNew(l)
      PROVE  Kept
  <2>1. PICK n \in Cells \ live : car' = Cars(n, l[1]) /\ atom' = n
    BY <1>4 DEF FoundNew
  <2>2. Linked(cdr, chain, First) /\ ToSet(chain) \subseteq live /\ car \in [Cells -> Servers \cup {NoServer}]
    BY DEF ListInv, Whole, Intact, Heap
  <2>3. First \in live
    BY <2>2, LinkedFacts
  <2>4. car'[n] = car[First]
    BY <2>1, <2>2, <2>3 DEF Cars
  <2> QED  BY <1>4, <2>1, <2>4 DEF FoundNew
<1>5. ASSUME NEW l \in Links, WithdrawUnknown(l) \/ WithdrawOnly(l) \/ WithdrawFront(l) \/ WithdrawLater(l)
      PROVE  Removed(l)
  BY <1>5 DEF WithdrawUnknown, WithdrawOnly, WithdrawFront, WithdrawLater
<1> QED  BY <1>1, <1>2, <1>3, <1>4, <1>5 DEF Callback

(* ... which the next write links behind the first.                        *)
LEMMA MoveEnds ==
  ASSUME ListInv, Callback, apc = "pushCdr"
  PROVE  \E i, j \in 1..Len(chain') : i < j /\ chain'[i] = First /\ car'[chain'[j]] = car[atom]
<1>1. PushCdr
  BY DEF Callback, PopCdr, FreeAtom, Quit, Announce, FoundKnown, FoundFirst, FoundNew, ResolveFails,
         WithdrawUnknown, WithdrawOnly, WithdrawFront, WithdrawLater, Removed, CallbackMayRun
<1>2. ListInv' /\ chain' = Inserted(chain, atom) /\ car' = car
  BY <1>1, PushCdrList
<1>3. Linked(cdr, chain, First) /\ Linked(cdr', chain', First)
  BY <1>2 DEF ListInv, Whole, Intact
<1>4. Len(chain) \in Nat /\ Len(chain) >= 1
  BY <1>3, LinkedFacts
<1>5. chain' \in [1..Len(chain') -> Cells] /\ Len(chain') \in Nat /\ chain'[1] = First
  BY <1>3, LinkedFacts
<1>6. DOMAIN chain' = 1..(Len(chain) + 1) /\ chain'[2] = atom
  BY <1>2, <1>4 DEF Inserted
<1>7. 1 \in 1..Len(chain') /\ 2 \in 1..Len(chain')
  <2>1. DOMAIN chain' = 1..Len(chain')
    BY <1>5
  <2>2. 1 \in 1..(Len(chain) + 1) /\ 2 \in 1..(Len(chain) + 1)
    BY <1>4
  <2> QED  BY <1>6, <2>1, <2>2
<1> QED  BY <1>2, <1>5, <1>6, <1>7

(* No walk goes on at first.                                               *)
LEMMA WalkInit == Init => WalkInv
<1> SUFFICES ASSUME Init PROVE WalkInv
  OBVIOUS
<1>1. rpc = "poll" /\ told = NoCalls /\ passedOver = NoServer
  BY DEF Init
<1>2. \A v \in Watched : told[v] <= 2
  BY <1>1 DEF NoCalls
<1> QED  BY <1>1, <1>2 DEF WalkInv, Undisturbed, OnItsWay

(* A callback.                                                             *)
LEMMA CallbackKeepsWalk ==
  ASSUME ListInv, ReaderOK, WalkInv, Callback
  PROVE  WalkInv'
<1>1. UNCHANGED <<rpc, temp, info, told, passedOver>>
  BY CallbackLeaves
<1>2. rpc' = "poll" => told' = NoCalls /\ passedOver' = NoServer
  BY <1>1 DEF WalkInv
<1> SUFFICES ASSUME ~disturbed' PROVE Undisturbed'
  BY <1>2 DEF WalkInv
<1>3. CASE rpc = "poll"
  <2>1. told' = NoCalls /\ rpc' = "poll"
    BY <1>1, <1>2, <1>3
  <2>2. \A v \in Watched : told'[v] <= 2
    BY <2>1 DEF NoCalls
  <2> QED  BY <2>1, <2>2 DEF Undisturbed, OnItsWay
<1>4. CASE rpc # "poll"
  <2>1. UNCHANGED <<rpc, temp, info, told, due, passedOver, disturbed>>
    <3>1. ASSUME disturbed' = (rpc # "poll") PROVE FALSE
      BY <1>4, <3>1, Zenon
    <3> QED  BY <3>1, CallbackLeaves
  <2>2. Undisturbed
    <3>1. ~disturbed
      BY <2>1, Zenon
    <3> QED  BY <3>1 DEF WalkInv
  <2>3. CASE ~OnItsWay
    <3>1. \A v \in Watched : told'[v] <= 2
      BY <2>1, <2>2 DEF Undisturbed
    <3>2. rpc' = "done" => \A v \in due' \ {passedOver'} : told'[v] >= 1
      BY <2>1, <2>2 DEF Undisturbed
    <3>3. rpc' = "crashed" => configured' = <<>>
      <4>1. configured' = configured
        BY CallbackKeepsConfigured
      <4> QED  BY <2>1, <2>2, <4>1 DEF Undisturbed
    <3> QED  BY <2>1, <2>3, <3>1, <3>2, <3>3 DEF Undisturbed, OnItsWay
  <2>4. CASE OnItsWay
    <3>1. OnTheList /\ CallsEach /\ CallsFew
      BY <2>2, <2>4 DEF Undisturbed
    <3>2. Grows /\ configured' = configured
      BY <1>4, <3>1, CallbackGrows DEF OnTheList
    <3>3. OnTheList'
      BY <2>1, <3>1, <3>2 DEF OnTheList, Grows
    <3>4. \A v : Ahead(v) => Ahead(v)'
      BY <2>1, <3>2 DEF Grows, Ahead
    <3>5. temp # First => \A v : Ahead(v)' => Ahead(v)
      BY <2>1, <3>2 DEF Grows, Ahead
    <3>6. temp # First => car'[temp] = car[temp]
      BY <3>2 DEF Grows
    <3>7. ASSUME NEW v \in due, Owed(v) \/ OnMove(v)
          PROVE  Owed(v)' \/ OnMove(v)'
      <4>1. v # NoServer
        BY WatchedAssumption, NullAssumption DEF ReaderOK
      <4>2. CASE OnMove(v)
        <5>1. \E i, j \in 1..Len(chain') : i < j /\ chain'[i] = First /\ car'[chain'[j]] = car[atom]
          BY <4>2, MoveEnds DEF OnMove
        <5>2. Ahead(v)'
          BY <2>1, <4>2, <5>1 DEF Ahead, OnMove
        <5> QED  BY <2>1, <2>4, <5>2 DEF Owed, OnItsWay
      <4>3. CASE Owed(v) /\ ~(rpc = "car" /\ temp = First /\ v = car[First])
        BY <2>1, <3>4, <3>6, <4>3 DEF Owed
      <4>4. CASE rpc = "car" /\ temp = First /\ v = car[First]
        <5>1. car'[First] = car[First] \/ (apc' = "pushCdr" /\ car'[atom'] = car[First])
          BY <1>4, <3>1, <4>1, <4>4, FrontKept DEF OnTheList
        <5> QED  BY <2>1, <4>4, <5>1 DEF Owed, OnMove
      <4> QED  BY <3>7, <4>2, <4>3, <4>4
    <3>8. CallsEach'
      BY <2>1, <3>1, <3>7 DEF CallsEach
    <3>9. temp # First => \A v : Owed(v)' => Owed(v)
      BY <2>1, <3>5, <3>6 DEF Owed
    <3>10. CallsFew'
      <4>1. CASE temp = First
        BY <2>1, <3>1, <4>1 DEF CallsFew
      <4>2. CASE temp # First
        BY <2>1, <3>1, <3>9, <4>2 DEF CallsFew
      <4> QED  BY <4>1, <4>2
    <3>11. /\ \A v \in Watched : told'[v] <= 2
           /\ rpc' # "done" /\ rpc' # "crashed"
      BY <2>1, <2>2, <2>4 DEF Undisturbed, OnItsWay
    <3> QED  BY <3>3, <3>8, <3>10, <3>11 DEF Undisturbed
  <2> QED  BY <2>3, <2>4
<1> QED  BY <1>3, <1>4

(* No server is behind the first cell twice.                               *)
LEMMA DistinctBehind ==
  ASSUME ListInv, UniqueNames, apc # "popCdr",
         NEW j \in 2..Len(chain), NEW k \in 2..Len(chain), car[chain[j]] = car[chain[k]]
  PROVE  j = k
<1>1. Linked(cdr, chain, First) /\ Seen
  BY DirectoryIs DEF ListInv, Whole, Intact
<1>2. Len(chain) \in Nat /\ chain \in [1..Len(chain) -> Cells]
  BY <1>1, LinkedFacts
<1>3. \A m, n \in 1..Len(directory) : directory[m] = directory[n] => m = n
  BY DEF UniqueNames, Directory!UniqueNames
<1>4. apc \in {"idle", "pushCdr", "popCdr", "free"} /\ (car[First] = NoServer => Len(chain) = 1)
  BY DEF ListInv, Whole, Heap, Filled
<1>5. Len(chain) >= 2 /\ j \in 1..Len(chain) /\ k \in 1..Len(chain)
  BY <1>2
<1>6. car[First] # NoServer
  <2> SUFFICES ASSUME Len(chain) = 1 PROVE FALSE
    BY <1>4
  <2> QED  BY <1>5
<1> DEFINE s == IF apc = "pushCdr" THEN [chain EXCEPT ![1] = atom] ELSE chain
<1>7. directory = Held(car, s)
  BY <1>1, <1>4, <1>6 DEF Seen
<1>8. atom \in Cells
  BY DEF ListInv, Whole, Heap
<1>9. s \in [1..Len(chain) -> Cells] /\ \A i \in 2..Len(chain) : s[i] = chain[i]
  BY <1>2, <1>8
<1> HIDE DEF s
<1>10. Len(s) = Len(chain)
  BY <1>2, <1>9, SequenceOf
<1>11. directory = [i \in 1..Len(chain) |-> car[s[i]]]
  BY <1>7, <1>10 DEF Held
<1>12. Len(directory) = Len(chain)
  <2> DEFINE V == {car[s[i]] : i \in 1..Len(chain)}
             f == [i \in 1..Len(chain) |-> car[s[i]]]
  <2>1. f \in [1..Len(chain) -> V]
    OBVIOUS
  <2> HIDE DEF V, f
  <2>2. Len(f) = Len(chain)
    BY <1>2, <2>1, SequenceOf
  <2> QED  BY <1>11, <2>2 DEF f
<1>13. directory[j] = car[chain[j]] /\ directory[k] = car[chain[k]]
  BY <1>5, <1>9, <1>11
<1> QED  BY <1>3, <1>5, <1>12, <1>13

(* A list without a server: nothing is configured.                         *)
LEMMA NothingListed ==
  ASSUME ListInv, ConfiguredStay, apc # "popCdr", car[First] = NoServer
  PROVE  configured = <<>> /\ apc = "idle" /\ Len(chain) = 1
<1>1. apc = "idle"
  BY DEF ListInv, Whole, Halfway
<1>2. directory = <<>> /\ Len(chain) = 1
  <2>1. Seen
    BY DirectoryIs DEF ListInv
  <2> QED  BY <1>1, <2>1 DEF Seen, ListInv, Whole, Filled
<1>3. configured \in Seq(Servers)
  BY ConfiguredAssumption DEF ListInv, Whole, Network
<1>4. Len(configured) \in Nat
  BY <1>3, LenProperties
<1>5. ASSUME Len(configured) >= 1 PROVE FALSE
  <2>1. 1 \in 1..Len(configured)
    BY <1>4, <1>5
  <2>2. Directory!Listed(configured[1])
    BY <2>1 DEF ConfiguredStay, Directory!ConfiguredStay
  <2> QED  BY <1>2, <2>2 DEF Directory!Listed
<1>6. Len(configured) = 0
  BY <1>4, <1>5
<1> QED  BY <1>1, <1>2, <1>3, <1>6, EmptySeq

(* What a walk owes as it begins is in the list's cells, or on the move.   *)
LEMMA DirectoryHeld ==
  ASSUME ListInv, apc # "popCdr", NEW v \in ToSet(directory)
  PROVE  \/ v = car[First]
         \/ \E i \in 2..Len(chain) : car[chain[i]] = v
         \/ apc = "pushCdr" /\ v = car[atom]
<1>1. Seen /\ apc \in {"idle", "pushCdr", "popCdr", "free"} /\ atom \in Cells
  BY DirectoryIs DEF ListInv, Whole, Heap
<1>2. Linked(cdr, chain, First)
  BY DEF ListInv, Whole, Intact
<1>3. Len(chain) \in Nat /\ Len(chain) >= 1 /\ chain[1] = First /\ chain \in [1..Len(chain) -> Cells]
  BY <1>2, LinkedFacts
<1>4. CASE apc \in {"idle", "free"}
  <2>1. directory = <<>> \/ directory = Held(car, chain)
    BY <1>1, <1>4 DEF Seen
  <2>2. CASE directory = <<>>
    BY <2>2 DEF ToSet
  <2>3. CASE directory = Held(car, chain)
    <3>1. PICK i \in 1..Len(chain) : v = car[chain[i]]
      BY <2>3 DEF Held, ToSet
    <3>2. i = 1 \/ i \in 2..Len(chain)
      BY <1>3
    <3> QED  BY <1>3, <3>1, <3>2
  <2> QED  BY <2>1, <2>2, <2>3
<1>5. CASE apc = "pushCdr"
  <2> DEFINE t == [chain EXCEPT ![1] = atom]
  <2>1. directory = Held(car, t)
    BY <1>1, <1>5 DEF Seen
  <2>2. t \in [1..Len(chain) -> Cells] /\ t[1] = atom /\ \A i \in 2..Len(chain) : t[i] = chain[i]
    BY <1>1, <1>3
  <2> HIDE DEF t
  <2>3. Len(t) = Len(chain)
    BY <1>3, <2>2, SequenceOf
  <2>4. PICK i \in 1..Len(chain) : v = car[t[i]]
    BY <2>1, <2>3 DEF Held, ToSet
  <2>5. i = 1 \/ i \in 2..Len(chain)
    BY <1>3
  <2> QED  BY <1>5, <2>2, <2>4, <2>5
<1> QED  BY <1>1, <1>4, <1>5

(* Only the first cell may be empty.                                       *)
LEMMA EmptyIsFirst ==
  ASSUME ListInv, temp \in ToSet(chain), car[temp] = NoServer
  PROVE  temp = First
<1>1. Linked(cdr, chain, First)
  BY DEF ListInv, Whole, Intact
<1>2. PICK i \in 1..Len(chain) : temp = chain[i]
  BY <1>1, LinkedFacts
<1>3. Len(chain) \in Nat /\ chain[1] = First
  BY <1>1, LinkedFacts
<1>4. i = 1 \/ i \in 2..Len(chain)
  BY <1>3
<1> QED  BY <1>2, <1>3, <1>4 DEF ListInv, Whole, Filled

(* The steps of the walk leave the list alone.                             *)
LEMMA WalkSees ==
  ASSUME Walk \/ \E t \in Tags : TagRead(t) \/ TagDropped(t)
  PROVE  chain' = chain /\ UNCHANGED <<configured, car, cdr, live, apc, atom>>
<1>1. UNCHANGED <<networkVars, heapVars>>
  BY WalkReads
<1> QED  BY <1>1, SameHeap DEF networkVars, heapVars

(* The start of the walk and its end.                                      *)
LEMMA TagReadWalk ==
  ASSUME ListInv, WalkInv, NEW t \in Tags, TagRead(t)
  PROVE  WalkInv'
<1>1. /\ rpc = "poll" /\ rpc' = "car" /\ temp' = First /\ UNCHANGED <<info, told, passedOver>>
      /\ due' = ToSet(directory) \cap Watched
  BY DEF TagRead
<1>2. chain' = chain /\ UNCHANGED <<configured, car, cdr, live, apc, atom>>
  BY WalkSees
<1>3. told' = NoCalls /\ passedOver' = NoServer
  BY <1>1 DEF WalkInv
<1>4. \A v \in Watched : told'[v] <= 1 /\ told'[v] <= 2
  BY <1>3 DEF NoCalls
<1> SUFFICES ASSUME ~disturbed' PROVE Undisturbed'
  BY <1>1 DEF WalkInv
<1>5. apc' # "popCdr"
  <2>1. apc = "popCdr" => disturbed'
    BY DEF TagRead
  <2> QED  BY <1>2, <2>1
<1>6. First \in ToSet(chain)
  <2>1. Linked(cdr, chain, First)
    BY DEF ListInv, Whole, Intact
  <2> QED  BY <2>1, LinkedFacts
<1>7. OnTheList'
  BY <1>1, <1>2, <1>3, <1>5, <1>6 DEF OnTheList
<1>8. CallsFew'
  BY <1>1, <1>3, <1>4 DEF CallsFew
<1>9. ASSUME NEW v \in due' PROVE Owed(v)' \/ OnMove(v)'
  <2>1. \/ v = car[First]
        \/ \E i \in 2..Len(chain) : car[chain[i]] = v
        \/ apc = "pushCdr" /\ v = car[atom]
    BY <1>1, <1>2, <1>5, <1>9, DirectoryHeld
  <2>2. CASE v = car[First]
    BY <1>1, <1>2, <2>2 DEF Owed
  <2>3. ASSUME NEW i \in 2..Len(chain), car[chain[i]] = v
        PROVE  Ahead(v)'
    <3>1. Len(chain) \in Nat /\ chain[1] = First
      <4>1. Linked(cdr, chain, First)
        BY DEF ListInv, Whole, Intact
      <4> QED  BY <4>1, LinkedFacts
    <3>2. 1 \in 1..Len(chain) /\ i \in 1..Len(chain) /\ 1 < i
      BY <3>1
    <3> QED  BY <1>1, <1>2, <2>3, <3>1, <3>2 DEF Ahead
  <2>4. CASE apc = "pushCdr" /\ v = car[atom]
    BY <1>1, <1>2, <2>4 DEF OnMove
  <2> QED  BY <1>1, <2>1, <2>2, <2>3, <2>4 DEF Owed
<1>10. CallsEach'
  BY <1>9 DEF CallsEach
<1> QED  BY <1>1, <1>4, <1>7, <1>8, <1>10 DEF Undisturbed

(* A tag that could not be remembered starts no walk.                      *)
LEMMA TagDroppedWalk ==
  ASSUME WalkInv, NEW t \in Tags, TagDropped(t)
  PROVE  WalkInv'
<1>1. rpc = "poll" /\ rpc' = "poll" /\ UNCHANGED <<told, passedOver, disturbed>>
  BY DEF TagDropped
<1>2. told' = NoCalls /\ passedOver' = NoServer
  BY <1>1 DEF WalkInv
<1>3. \A v \in Watched : told'[v] <= 2
  BY <1>2 DEF NoCalls
<1> QED  BY <1>1, <1>2, <1>3 DEF WalkInv, Undisturbed, OnItsWay

(* reader_handle_tag returns.                                              *)
LEMMA ReturnWalk ==
  ASSUME WalkInv, Return
  PROVE  WalkInv'
<1>1. rpc' = "poll" /\ told' = NoCalls /\ passedOver' = NoServer
  BY DEF Return
<1>2. \A v \in Watched : told'[v] <= 2
  BY <1>1 DEF NoCalls
<1> QED  BY <1>1, <1>2 DEF WalkInv, Undisturbed, OnItsWay

(* The read of the car.                                                    *)
LEMMA ReadCarWalk ==
  ASSUME ListInv, ConfiguredStay, ReaderOK, WalkInv, ReadCar
  PROVE  WalkInv'
<1>1. /\ rpc = "car" /\ rpc' = "test" /\ info' = car[temp]
      /\ UNCHANGED <<temp, told, due, passedOver, disturbed>>
  BY DEF ReadCar
<1>2. chain' = chain /\ UNCHANGED <<configured, car, cdr, live, apc, atom>>
  BY WalkSees DEF Walk
<1> SUFFICES ASSUME ~disturbed' PROVE Undisturbed'
  BY <1>1 DEF WalkInv
<1>3. OnTheList /\ CallsEach /\ CallsFew /\ \A v \in Watched : told[v] <= 2
  <2>1. Undisturbed
    BY <1>1 DEF WalkInv
  <2> QED  BY <1>1, <2>1 DEF Undisturbed, OnItsWay
<1>4. temp \in ToSet(chain) /\ apc # "popCdr"
  BY <1>3 DEF OnTheList
<1>5. OnTheList'
  <2>1. ASSUME car[temp] = NoServer
        PROVE  temp = First /\ due = {} /\ configured = <<>>
    <3>1. temp = First
      BY <1>4, <2>1, EmptyIsFirst
    <3>2. configured = <<>> /\ apc = "idle" /\ Len(chain) = 1
      BY <1>4, <2>1, <3>1, NothingListed
    <3>3. ASSUME NEW v \in due PROVE FALSE
      <4>1. v \in Watched /\ v # NoServer
        BY WatchedAssumption, NullAssumption DEF ReaderOK
      <4>2. passedOver = NoServer /\ told = NoCalls
        BY <1>1, <1>3, <3>1 DEF OnTheList, CallsFew
      <4>3. told[v] >= 1 \/ Owed(v) \/ OnMove(v)
        BY <1>3, <4>1, <4>2 DEF CallsEach
      <4>4. ~(told[v] >= 1)
        BY <4>1, <4>2 DEF NoCalls
      <4>5. ~OnMove(v)
        BY <3>2 DEF OnMove
      <4>6. ~Ahead(v)
        BY <3>2 DEF Ahead
      <4> QED  BY <1>1, <2>1, <4>1, <4>3, <4>4, <4>5, <4>6 DEF Owed
    <3> QED  BY <3>1, <3>2, <3>3
  <2> QED  BY <1>1, <1>2, <1>3, <1>4, <2>1 DEF OnTheList
<1>6. \A v : (Owed(v)' <=> Owed(v)) /\ (OnMove(v)' <=> OnMove(v))
  BY <1>1, <1>2 DEF Owed, Ahead, OnMove
<1>7. CallsEach' /\ CallsFew'
  BY <1>1, <1>3, <1>6 DEF CallsEach, CallsFew
<1> QED  BY <1>1, <1>3, <1>5, <1>7 DEF Undisturbed

(* The tests of the car and of the cdr.                                    *)
LEMMA TestCarWalk ==
  ASSUME ListInv, WalkInv, TestCar
  PROVE  WalkInv'
<1>1. /\ rpc = "test" /\ rpc' = (IF car[temp] # NoServer THEN "notify" ELSE "testCdr")
      /\ UNCHANGED <<temp, info, told, due, passedOver, disturbed>>
  BY DEF TestCar
<1>2. chain' = chain /\ UNCHANGED <<configured, car, cdr, live, apc, atom>>
  BY WalkSees DEF Walk
<1> SUFFICES ASSUME ~disturbed' PROVE Undisturbed'
  BY <1>1 DEF WalkInv
<1>3. OnTheList /\ CallsEach /\ CallsFew /\ \A v \in Watched : told[v] <= 2
  <2>1. Undisturbed
    BY <1>1 DEF WalkInv
  <2> QED  BY <1>1, <2>1 DEF Undisturbed, OnItsWay
<1>4. car[temp] = NoServer => info = NoServer
  <2> SUFFICES ASSUME car[temp] = NoServer PROVE info = NoServer
    OBVIOUS
  <2>1. temp = First
    BY <1>3, EmptyIsFirst DEF OnTheList
  <2> QED  BY <1>1, <1>3, <2>1 DEF OnTheList
<1>5. OnTheList'
  BY <1>1, <1>2, <1>3, <1>4 DEF OnTheList
<1>6. \A v : (Owed(v)' <=> Owed(v)) /\ (OnMove(v)' <=> OnMove(v))
  BY <1>1, <1>2 DEF Owed, Ahead, OnMove
<1>7. CallsEach' /\ CallsFew'
  BY <1>1, <1>3, <1>6 DEF CallsEach, CallsFew
<1> QED  BY <1>1, <1>3, <1>5, <1>7 DEF Undisturbed

(* The cdr is only tested where the walk has read that there is no server. *)
LEMMA TestCdrWalk ==
  ASSUME ListInv, WalkInv, TestCdr
  PROVE  WalkInv'
<1>1. /\ rpc = "testCdr"
      /\ \/ rpc' = "notify" /\ UNCHANGED <<temp, info>>
         \/ rpc' = "done"
      /\ UNCHANGED <<told, due, passedOver, disturbed>>
  BY DEF TestCdr, EndWalk
<1>2. chain' = chain /\ UNCHANGED <<configured, car, cdr, live, apc, atom>>
  BY WalkSees DEF Walk
<1> SUFFICES ASSUME ~disturbed' PROVE Undisturbed'
  BY <1>1 DEF WalkInv
<1>3. OnTheList /\ CallsEach /\ CallsFew /\ \A v \in Watched : told[v] <= 2
  <2>1. Undisturbed
    BY <1>1 DEF WalkInv
  <2> QED  BY <1>1, <2>1 DEF Undisturbed, OnItsWay
<1>4. CASE rpc' = "done"
  <2>1. due' = {}
    BY <1>1, <1>3 DEF OnTheList
  <2> QED  BY <1>1, <1>3, <1>4, <2>1 DEF Undisturbed, OnItsWay
<1>5. CASE rpc' = "notify" /\ UNCHANGED <<temp, info>>
  <2>1. OnTheList'
    BY <1>1, <1>2, <1>3, <1>5 DEF OnTheList
  <2>2. \A v : (Owed(v)' <=> Owed(v)) /\ (OnMove(v)' <=> OnMove(v))
    BY <1>1, <1>2, <1>5 DEF Owed, Ahead, OnMove
  <2>3. CallsEach' /\ CallsFew'
    BY <1>1, <1>3, <1>5, <2>2 DEF CallsEach, CallsFew
  <2> QED  BY <1>1, <1>3, <1>5, <2>1, <2>3 DEF Undisturbed
<1> QED  BY <1>1, <1>4, <1>5

(* The call: a server that is behind this cell is not called here.         *)
LEMMA NotifyWalk ==
  ASSUME ListInv, UniqueNames, ReaderOK, WalkInv, Notify
  PROVE  WalkInv'
<1>1. /\ rpc = "notify" /\ UNCHANGED <<temp, info, due, passedOver, disturbed>>
      /\ \/ info = NoServer /\ rpc' = "crashed" /\ UNCHANGED told
         \/ /\ info # NoServer /\ rpc' = "next"
            /\ told' = [s \in Watched |-> IF s = info /\ told[s] < 3 THEN told[s] + 1 ELSE told[s]]
  BY DEF Notify
<1>2. chain' = chain /\ UNCHANGED <<configured, car, cdr, live, apc, atom>>
  BY WalkSees DEF Walk
<1> SUFFICES ASSUME ~disturbed' PROVE Undisturbed'
  BY <1>1 DEF WalkInv
<1>3. OnTheList /\ CallsEach /\ CallsFew /\ \A v \in Watched : told[v] <= 2
  <2>1. Undisturbed
    BY <1>1 DEF WalkInv
  <2> QED  BY <1>1, <2>1 DEF Undisturbed, OnItsWay
<1>4. CASE info = NoServer
  <2>1. configured = <<>>
    BY <1>1, <1>3, <1>4 DEF OnTheList
  <2> QED  BY <1>1, <1>2, <1>3, <1>4, <2>1 DEF Undisturbed, OnItsWay
<1>5. CASE info # NoServer
  <2>1. rpc' = "next" /\ \A v \in Watched : told'[v] = IF v = info /\ told[v] < 3 THEN told[v] + 1 ELSE told[v]
    BY <1>1, <1>5
  <2>2. \A v \in Watched : told[v] \in 0..3
    BY DEF ReaderOK
  <2>3. \A v \in Watched : told'[v] >= told[v]
    BY <2>1, <2>2
  <2>4. \A v : Ahead(v)' <=> Ahead(v)
    BY <1>1, <1>2 DEF Ahead
  <2>5. \A v : Owed(v)' <=> Ahead(v)
    BY <2>1, <2>4 DEF Owed
  <2>6. \A v : Owed(v) <=> v = info \/ Ahead(v)
    BY <1>1 DEF Owed
  <2>7. due \subseteq Watched
    BY DEF ReaderOK
  <2>8. \A v \in Watched : told'[v] <= 2
    <3>1. \A v \in Watched : v = info => told[v] <= 1
      BY <1>3, <2>6 DEF CallsFew
    <3> QED  BY <1>3, <2>1, <2>2, <3>1
  <2>9. OnTheList'
    BY <1>1, <1>2, <1>3, <2>1 DEF OnTheList
  <2>10. CallsEach'
    <3> SUFFICES ASSUME NEW v \in due \ {passedOver} PROVE told'[v] >= 1 \/ Owed(v)' \/ OnMove(v)'
      BY <1>1 DEF CallsEach
    <3>1. v \in Watched
      BY <2>7
    <3>2. told[v] >= 1 \/ Owed(v) \/ OnMove(v)
      BY <1>3 DEF CallsEach
    <3>3. CASE told[v] >= 1
      BY <2>2, <2>1, <3>1, <3>3
    <3>4. CASE v = info
      BY <2>1, <2>2, <3>1, <3>4
    <3>5. CASE Ahead(v)
      BY <2>5, <3>5
    <3>6. CASE OnMove(v)
      BY <1>1, <1>2, <3>6 DEF OnMove
    <3> QED  BY <2>6, <3>2, <3>3, <3>4, <3>5, <3>6
  <2>11. CallsFew'
    <3>1. CASE temp = First
      <4>1. \A v \in Watched : told[v] = 0
        BY <1>1, <1>3, <3>1 DEF CallsFew, NoCalls
      <4>2. \A v \in Watched : told'[v] <= 1
        BY <2>1, <4>1
      <4> QED  BY <1>1, <2>1, <4>2 DEF CallsFew
    <3>2. CASE temp # First
      <4>1. ASSUME NEW v \in Watched, Ahead(v)
            PROVE  v # info
        <5> SUFFICES ASSUME v = info PROVE FALSE
          OBVIOUS
        <5>1. Linked(cdr, chain, First)
          BY DEF ListInv, Whole, Intact
        <5>2. Len(chain) \in Nat /\ chain[1] = First
          BY <5>1, LinkedFacts
        <5>3. PICK i, j \in 1..Len(chain) : i < j /\ chain[i] = temp /\ car[chain[j]] = v
          BY <4>1 DEF Ahead
        <5>4. i \in 2..Len(chain) /\ j \in 2..Len(chain) /\ i # j
          BY <3>2, <5>2, <5>3
        <5>5. info = car[temp] /\ apc # "popCdr"
          BY <1>1, <1>3, <3>2 DEF OnTheList
        <5>6. car[chain[i]] = car[chain[j]]
          BY <5>3, <5>5
        <5> QED  BY <5>4, <5>5, <5>6, DistinctBehind
      <4>2. \A v \in Watched : Owed(v)' => told'[v] <= 1
        <5> SUFFICES ASSUME NEW v \in Watched, Ahead(v) PROVE told'[v] <= 1
          BY <2>5
        <5>1. told[v] <= 1
          BY <1>3, <2>6 DEF CallsFew
        <5>2. v # info
          BY <4>1
        <5> QED  BY <2>1, <5>1, <5>2
      <4> QED  BY <1>1, <3>2, <4>2 DEF CallsFew
    <3> QED  BY <3>1, <3>2
  <2> QED  BY <2>1, <2>8, <2>9, <2>10, <2>11 DEF Undisturbed
<1> QED  BY <1>4, <1>5

(* To the next cell, or the end.                                           *)
LEMMA NextCellWalk ==
  ASSUME ListInv, ReaderOK, WalkInv, NextCell
  PROVE  WalkInv'
<1>1. /\ rpc = "next" /\ UNCHANGED <<told, due, disturbed>> /\ passedOver' = OnTheMove
      /\ \/ cdr[temp] = Null /\ rpc' = "done"
         \/ cdr[temp] # Null /\ rpc' = "car" /\ temp' = cdr[temp]
  BY DEF NextCell, EndWalk
<1>2. chain' = chain /\ UNCHANGED <<configured, car, cdr, live, apc, atom>>
  BY WalkSees DEF Walk
<1> SUFFICES ASSUME ~disturbed' PROVE Undisturbed'
  BY <1>1 DEF WalkInv
<1>3. OnTheList /\ CallsEach /\ CallsFew /\ \A v \in Watched : told[v] <= 2
  <2>1. Undisturbed
    BY <1>1 DEF WalkInv
  <2> QED  BY <1>1, <2>1 DEF Undisturbed, OnItsWay
<1>4. \A v : Owed(v) <=> Ahead(v)
  BY <1>1 DEF Owed
<1>5. Linked(cdr, chain, First)
  BY DEF ListInv, Whole, Intact
<1>6. /\ Len(chain) \in Nat /\ chain[1] = First
      /\ \A x : x \in ToSet(chain) <=> \E i \in 1..Len(chain) : x = chain[i]
      /\ \A i, j \in 1..Len(chain) : chain[i] = chain[j] => i = j
      /\ \A i \in 1..(Len(chain) - 1) : cdr[chain[i]] = chain[i + 1]
      /\ cdr[chain[Len(chain)]] = Null
      /\ \A i \in 1..Len(chain) : chain[i] # Null
  BY <1>5, LinkedFacts
<1>7. PICK k \in 1..Len(chain) : temp = chain[k]
  BY <1>3, <1>6 DEF OnTheList
<1>8. \A i \in 1..Len(chain) : chain[i] = temp => i = k
  BY <1>6, <1>7
<1>0. ASSUME NEW v \in due' \ {passedOver'}
      PROVE  told[v] >= 1 \/ Owed(v)
  <2>1. v \in due /\ v # NoServer
    BY <1>1, WatchedAssumption, NullAssumption DEF ReaderOK
  <2>2. ~OnMove(v)
    BY <1>0, <1>1 DEF OnMove, OnTheMove
  <2>3. v # passedOver
    <3>1. CASE temp = First
      BY <1>3, <2>1, <3>1 DEF OnTheList
    <3>2. CASE temp # First
      BY <1>0, <1>1, <3>2 DEF OnTheMove
    <3> QED  BY <3>1, <3>2
  <2> QED  BY <1>3, <2>1, <2>2, <2>3 DEF CallsEach
<1>9. CASE cdr[temp] = Null /\ rpc' = "done"
  <2>1. k = Len(chain)
    <3> SUFFICES ASSUME k # Len(chain) PROVE FALSE
      OBVIOUS
    <3>1. k \in 1..(Len(chain) - 1) /\ k + 1 \in 1..Len(chain)
      BY <1>6
    <3> QED  BY <1>6, <1>7, <1>9, <3>1
  <2>2. \A v : ~Ahead(v)
    <3> SUFFICES ASSUME NEW i \in 1..Len(chain), NEW j \in 1..Len(chain), i < j, chain[i] = temp
                 PROVE  FALSE
      BY DEF Ahead
    <3>1. i = Len(chain)
      BY <1>8, <2>1
    <3> QED  BY <1>6, <3>1
  <2>3. \A v \in due' \ {passedOver'} : told'[v] >= 1
    BY <1>0, <1>1, <1>4, <2>2
  <2> QED  BY <1>1, <1>3, <1>9, <2>3 DEF Undisturbed, OnItsWay
<1>10. CASE cdr[temp] # Null /\ rpc' = "car" /\ temp' = cdr[temp]
  <2>1. k \in 1..(Len(chain) - 1) /\ k + 1 \in 2..Len(chain) /\ k + 1 \in 1..Len(chain)
    <3>1. k # Len(chain)
      BY <1>6, <1>7, <1>10
    <3> QED  BY <1>6, <3>1
  <2>2. temp' = chain[k + 1]
    BY <1>6, <1>7, <1>10, <2>1
  <2>3. temp' # First
    <3>1. k + 1 # 1 /\ 1 \in 1..Len(chain)
      BY <2>1
    <3> QED  BY <1>6, <2>1, <2>2, <3>1
  <2>4. OnTheList'
    BY <1>1, <1>2, <1>3, <1>6, <1>10, <2>1, <2>2, <2>3 DEF OnTheList
  <2>5. ASSUME NEW v, Ahead(v)
        PROVE  Owed(v)'
    <3>1. PICK i, j \in 1..Len(chain) : i < j /\ chain[i] = temp /\ car[chain[j]] = v
      BY <2>5 DEF Ahead
    <3>2. i = k
      BY <1>8, <3>1
    <3>3. CASE j = k + 1
      BY <1>2, <1>10, <2>2, <3>1, <3>3 DEF Owed
    <3>4. CASE j # k + 1
      <4>1. k + 1 < j
        BY <1>6, <3>1, <3>2, <3>4
      <4>2. Ahead(v)'
        BY <1>2, <2>1, <2>2, <3>1, <4>1 DEF Ahead
      <4> QED  BY <1>10, <4>2 DEF Owed
    <3> QED  BY <3>3, <3>4
  <2>6. ASSUME NEW v, Owed(v)'
        PROVE  Ahead(v)
    <3>1. v = car[temp'] \/ Ahead(v)'
      BY <1>2, <1>10, <2>6 DEF Owed
    <3>2. CASE v = car[temp']
      <4>1. k < k + 1 /\ chain[k] = temp /\ car[chain[k + 1]] = v
        BY <1>7, <2>1, <2>2, <3>2
      <4> QED  BY <2>1, <4>1 DEF Ahead
    <3>3. CASE Ahead(v)'
      <4>1. PICK i, j \in 1..Len(chain) : i < j /\ chain[i] = temp' /\ car[chain[j]] = v
        BY <1>2, <3>3 DEF Ahead
      <4>2. i = k + 1
        BY <1>6, <2>1, <2>2, <4>1
      <4>3. k < j /\ chain[k] = temp
        BY <1>6, <1>7, <4>1, <4>2
      <4> QED  BY <4>1, <4>3 DEF Ahead
    <3> QED  BY <3>1, <3>2, <3>3
  <2>7. CallsEach'
    BY <1>0, <1>1, <1>4, <2>5 DEF CallsEach
  <2>8. CallsFew'
    BY <1>1, <1>3, <1>4, <2>3, <2>6 DEF CallsFew
  <2> QED  BY <1>1, <1>3, <1>10, <2>4, <2>7, <2>8 DEF Undisturbed
<1> QED  BY <1>1, <1>9, <1>10

(* An undisturbed walk is at an allocated cell.                            *)
LEMMA ReadFreedWalk ==
  ASSUME ListInv, WalkInv, ReadFreed
  PROVE  WalkInv'
<1>1. /\ OnItsWay /\ temp \notin live /\ rpc' = "crashed" /\ UNCHANGED disturbed
  BY DEF ReadFreed, OnItsWay
<1>2. ToSet(chain) \subseteq live
  BY DEF ListInv, Whole, Intact
<1>3. ~Undisturbed
  BY <1>1, <1>2 DEF Undisturbed, OnTheList
<1> QED  BY <1>1, <1>3 DEF WalkInv

(* Each step of either thread keeps the invariant of the walk.             *)
LEMMA NextWalk ==
  ListInv /\ UniqueNames /\ ConfiguredStay /\ ReaderOK /\ WalkInv /\ [Next]_vars => WalkInv'
<1> SUFFICES ASSUME ListInv, UniqueNames, ConfiguredStay, ReaderOK, WalkInv, [Next]_vars
             PROVE  WalkInv'
  OBVIOUS
<1>1. CASE UNCHANGED vars
  <2>1. UNCHANGED <<configured, rpc, temp, info, told, due, passedOver, disturbed>> /\ UNCHANGED heapVars
    BY <1>1 DEF vars, heapVars
  <2>2. chain' = chain /\ UNCHANGED <<car, cdr, live, apc, atom>>
    BY <2>1, SameHeap DEF heapVars
  <2>3. \A v : (Owed(v)' <=> Owed(v)) /\ (OnMove(v)' <=> OnMove(v))
    BY <2>1, <2>2 DEF Owed, Ahead, OnMove
  <2>4. OnTheList' <=> OnTheList
    BY <2>1, <2>2 DEF OnTheList
  <2>5. (CallsEach' <=> CallsEach) /\ (CallsFew' <=> CallsFew)
    BY <2>1, <2>3 DEF CallsEach, CallsFew
  <2>6. Undisturbed' <=> Undisturbed
    BY <2>1, <2>4, <2>5 DEF Undisturbed, OnItsWay
  <2> QED  BY <2>1, <2>6 DEF WalkInv
<1>2. CASE Callback
  BY <1>2, CallbackKeepsWalk
<1>3. CASE Walk
  BY <1>3, ReadCarWalk, TestCarWalk, TestCdrWalk, NotifyWalk, NextCellWalk, ReturnWalk, ReadFreedWalk DEF Walk
<1>4. CASE \E t \in Tags : TagRead(t) \/ TagDropped(t)
  BY <1>4, TagReadWalk, TagDroppedWalk
<1> QED  BY <1>1, <1>2, <1>3, <1>4 DEF Next

(* Walks and insertions, in every interleaving of their reads and writes.  *)
THEOREM WalkInvariance == Spec => [](ReaderOK /\ WalkInv)
<1>1. Init => ReaderOK /\ WalkInv
  BY ReaderInit, WalkInit
<1>2. ListInv /\ UniqueNames /\ ConfiguredStay /\ ReaderOK /\ WalkInv /\ [Next]_vars => ReaderOK' /\ WalkInv'
  BY ReaderNext, NextWalk
<1> QED  BY <1>1, <1>2, ListInvariance, NamesAreUnique, ConfiguredServersStay, PTL DEF Spec

(* A walk no removal overlaps with calls every server of the list it set   *)
(* out on, once or twice, whatever is inserted meanwhile, but for one that *)
(* an insertion has on the move when the walk leaves the first cell.       *)
THEOREM OneAtMostIsMissed == Spec => []WalkMissesOneAtMost
<1>1. ReaderOK /\ WalkInv => WalkMissesOneAtMost
  BY DEF WalkInv, Undisturbed, WalkMissesOneAtMost, EachServerTold
<1> QED  BY <1>1, WalkInvariance, PTL

(* Without a removal the walk follows no null and no freed pointer, if a   *)
(* server is configured.                                                   *)
THEOREM ReaderIsSafe == Spec => []ReaderSurvives
<1>1. ReaderOK /\ WalkInv => ReaderSurvives
  BY DEF WalkInv, Undisturbed, ReaderSurvives
<1> QED  BY <1>1, WalkInvariance, PTL

--------------------------------------------------------------------------------
(* The start: what a configuration file declares.                          *)

(* A server as a configuration file may declare it.                        *)
Addressed == [url : Fragments, port : Nat]

(* A value says of one server or of none, ...                              *)
LEMMA ServerOfFacts ==
  ASSUME NEW v \in Seq(Fragments)
  PROVE  ServerOf(v) \in Seq(Addressed)
<1>1. Len(v) \in Nat
  BY LenProperties
<1>2. CASE Len(v) \notin 1..2
  BY <1>2 DEF ServerOf
<1>3. CASE Len(v) \in 1..2
  <2>1. v[1] \in Fragments /\ (Len(v) # 1 => v[2] \in Fragments)
    BY <1>1, <1>3
  <2>2. \A f \in Fragments : f.size \in Nat
    BY DEF Fragments
  <2>3. \A n \in Nat : PortKept(n) \in Nat
    BY DEF PortKept, PortLimit
  <2> DEFINE p == IF Len(v) = 1 \/ v[2].host \/ v[2].size = 0 THEN 80 ELSE PortKept(v[2].size)
  <2>4. p \in Nat
    BY <2>1, <2>2, <2>3
  <2>5. ServerOf(v) = <<[url |-> v[1], port |-> p]>>
    BY <1>3 DEF ServerOf
  <2> HIDE DEF p
  <2>6. [url |-> v[1], port |-> p] \in Addressed
    BY <2>1, <2>4 DEF Addressed
  <2> QED  BY <2>5, <2>6
<1> QED  BY <1>2, <1>3

(* ... and so does a line.                                                 *)
LEMMA DeclaredFacts ==
  ASSUME NEW x \in Lines
  PROVE  DeclaredIn(x) \in Seq(Addressed)
<1>1. x.value \in Seq(Fragments)
  BY DEF Lines, Values
<1>2. ServerOf(x.value) \in Seq(Addressed)
  BY <1>1, ServerOfFacts
<1> QED  BY <1>2 DEF DeclaredIn

(* The recursion of DeclaredUpTo.                                          *)
Declares(f, lines) ==
  f = [n \in 0..Len(lines) |-> IF n = 0 THEN <<>> ELSE DeclaredIn(lines[n]) \o f[n - 1]]

(* There is such a function, and it is the one DeclaredUpTo chooses.       *)
LEMMA DeclaredUpToFacts ==
  ASSUME NEW lines \in Seq(Lines)
  PROVE  /\ DeclaredUpTo(lines) \in [0..Len(lines) -> Seq(Addressed)]
         /\ DeclaredUpTo(lines)[0] = <<>>
         /\ \A n \in 1..Len(lines) : DeclaredUpTo(lines)[n] = DeclaredIn(lines[n]) \o DeclaredUpTo(lines)[n - 1]
<1> DEFINE N == Len(lines)
           S == Seq(Addressed)
           step == [p \in (1..N) \X S |-> DeclaredIn(lines[p[1]]) \o p[2]]
           Chosen == CHOOSE f : Declares(f, lines)
<1>1. N \in Nat /\ \A n \in 1..N : DeclaredIn(lines[n]) \in S
  BY LenProperties, DeclaredFacts
<1>2. step \in [(1..N) \X S -> S]
  <2>1. \A p \in (1..N) \X S : p[1] \in 1..N /\ p[2] \in S
    OBVIOUS
  <2>2. \A p \in (1..N) \X S : DeclaredIn(lines[p[1]]) \o p[2] \in S
    BY <1>1, <2>1, ConcatProperties
  <2> QED  BY <2>2
<1>3. <<>> \in S
  OBVIOUS
<1>4. \A n \in 1..N, x \in S : step[<<n, x>>] = DeclaredIn(lines[n]) \o x
  OBVIOUS
<1>5. DeclaredUpTo(lines) = Chosen
  BY DEF DeclaredUpTo, Declares
<1> HIDE DEF S, step, Chosen
<1>6. PICK f : Computes(f, S, <<>>, N, step)
  BY <1>1, <1>2, <1>3, Recursion
<1>7. f \in [0..N -> S] /\ f[0] = <<>> /\ \A n \in 1..N : f[n] = step[<<n, f[n - 1]>>]
  BY <1>6 DEF Computes
<1>8. \A n \in 1..N : n \in 0..N /\ n - 1 \in 0..N
  BY <1>1
<1>9. \A n \in 1..N : f[n] = DeclaredIn(lines[n]) \o f[n - 1]
  <2>1. \A n \in 1..N : f[n - 1] \in S
    BY <1>7, <1>8
  <2> QED  BY <1>4, <1>7, <2>1
<1>10. Declares(f, lines)
  <2>1. \A n \in 0..N : n = 0 \/ n \in 1..N
    BY <1>1
  <2>2. \A n \in 0..N : f[n] = IF n = 0 THEN <<>> ELSE DeclaredIn(lines[n]) \o f[n - 1]
    BY <1>7, <1>9, <2>1
  <2> QED  BY <1>7, <2>2 DEF Declares
<1>11. Declares(Chosen, lines)
  BY <1>10 DEF Chosen
<1>12. /\ DOMAIN Chosen = 0..N
       /\ Chosen = [n \in 0..N |-> Chosen[n]]
       /\ \A n \in 0..N : Chosen[n] = IF n = 0 THEN <<>> ELSE DeclaredIn(lines[n]) \o Chosen[n - 1]
  BY <1>11 DEF Declares
<1>13. Chosen[0] = <<>> /\ \A n \in 1..N : Chosen[n] = DeclaredIn(lines[n]) \o Chosen[n - 1]
  <2>1. 0 \in 0..N /\ \A n \in 1..N : n \in 0..N /\ n # 0
    BY <1>1
  <2> QED  BY <1>12, <2>1
<1>14. \A n \in Nat : n <= N => Chosen[n] \in S
  <2> DEFINE K == {n \in Nat : n <= N => Chosen[n] \in S}
  <2>1. 0 \in K
    BY <1>3, <1>13
  <2>2. ASSUME NEW n \in Nat, n \in K PROVE n + 1 \in K
    <3> SUFFICES ASSUME n + 1 <= N PROVE Chosen[n + 1] \in S
      OBVIOUS
    <3>1. n + 1 \in 1..N /\ (n + 1) - 1 = n /\ n <= N
      BY <1>1
    <3>2. Chosen[n] \in S
      BY <2>2, <3>1
    <3>3. Chosen[n + 1] = DeclaredIn(lines[n + 1]) \o Chosen[n]
      BY <1>13, <3>1
    <3>4. DeclaredIn(lines[n + 1]) \in S
      BY <1>1, <3>1
    <3> QED  BY <3>2, <3>3, <3>4, ConcatProperties DEF S
  <2> HIDE DEF K
  <2>3. Nat \subseteq K
    BY <2>1, <2>2, SetInduction
  <2> QED  BY <2>3 DEF K
<1>15. Chosen \in [0..N -> S]
  <2>1. \A n \in 0..N : n \in Nat /\ n <= N
    BY <1>1
  <2> QED  BY <1>12, <1>14, <2>1
<1> QED  BY <1>5, <1>13, <1>15 DEF S

(* Lines that declare nothing change nothing.                              *)
LEMMA NothingDeclared ==
  ASSUME NEW lines \in Seq(Lines), NEW k \in 0..Len(lines), NEW n \in k..Len(lines),
         \A j \in (k + 1)..n : DeclaredIn(lines[j]) = <<>>
  PROVE  DeclaredUpTo(lines)[n] = DeclaredUpTo(lines)[k]
<1> DEFINE U == DeclaredUpTo(lines)
           N == Len(lines)
           K == {d \in Nat : k + d <= n => U[k + d] = U[k]}
<1>1. /\ N \in Nat /\ U \in [0..N -> Seq(Addressed)]
      /\ \A j \in 1..N : U[j] = DeclaredIn(lines[j]) \o U[j - 1]
  BY DeclaredUpToFacts, LenProperties
<1>2. k \in Nat /\ n \in Nat /\ n <= N /\ k <= n /\ N \in Nat
  BY <1>1
<1> HIDE DEF U, N
<1>3. 0 \in K
  BY <1>2
<1>4. ASSUME NEW d \in Nat, d \in K PROVE d + 1 \in K
  <2> SUFFICES ASSUME k + (d + 1) <= n PROVE U[k + (d + 1)] = U[k]
    OBVIOUS
  <2> DEFINE j == k + (d + 1)
  <2>1. j \in 1..N /\ j \in (k + 1)..n /\ j - 1 = k + d /\ k + d <= n /\ k + d \in 0..N
    BY <1>2
  <2>2. U[k + d] = U[k] /\ U[k + d] \in Seq(Addressed)
    BY <1>1, <1>4, <2>1
  <2>3. DeclaredIn(lines[j]) = <<>>
    BY <2>1
  <2>4. U[j] = DeclaredIn(lines[j]) \o U[j - 1]
    BY <1>1, <2>1
  <2>5. \A s \in Seq(Addressed) : <<>> \o s = s
    BY ConcatEmptySeq
  <2> HIDE DEF j
  <2>6. U[j] = U[k]
    BY <2>1, <2>2, <2>3, <2>4, <2>5
  <2> QED  BY <2>6 DEF j
<1> HIDE DEF K
<1>5. Nat \subseteq K
  BY <1>3, <1>4, SetInduction
<1>6. PICK d \in Nat : k + d = n
  BY <1>2, n - k \in Nat /\ k + (n - k) = n
<1>7. d \in K
  BY <1>5
<1>8. U[k + d] = U[k]
  BY <1>2, <1>6, <1>7 DEF K
<1> QED  BY <1>6, <1>8 DEF U

(* A sequence is a suffix of another if it is what the other ends with.    *)
LEMMA SuffixAt ==
  ASSUME NEW S, NEW s \in Seq(S), NEW t \in Seq(S), Len(s) <= Len(t),
         \A i \in 1..Len(s) : t[i + (Len(t) - Len(s))] = s[i]
  PROVE  IsSuffix(s, t)
<1> DEFINE a == Reverse(s)
           b == Reverse(t)
           m == Len(s)
           n == Len(t)
<1>1. /\ a \in Seq(S) /\ Len(a) = m /\ \A j \in 1..m : a[j] = s[m - j + 1]
      /\ b \in Seq(S) /\ Len(b) = n /\ \A j \in 1..n : b[j] = t[n - j + 1]
      /\ m \in Nat /\ n \in Nat
  BY ReverseEntries, LenProperties
<1> HIDE DEF a, b
<1>2. \A j \in 1..m : a[j] = b[j]
  <2> SUFFICES ASSUME NEW j \in 1..m PROVE a[j] = b[j]
    OBVIOUS
  <2> DEFINE i == m - j + 1
  <2>1. i \in 1..m /\ j \in 1..n /\ i + (n - m) = n - j + 1
    BY <1>1
  <2>2. t[i + (n - m)] = s[i]
    BY <2>1
  <2>3. b[j] = t[n - j + 1] /\ a[j] = s[i]
    BY <1>1, <2>1
  <2> QED  BY <2>1, <2>2, <2>3
<1> HIDE DEF m, n
<1>3. m <= n
  BY DEF m, n
<1>4. SubSeq(a, 1, m) = [i \in 1..m |-> a[i]] /\ SubSeq(b, 1, m) = [i \in 1..m |-> b[i]]
  <2>1. \A i \in 1..m : (1 + i) - 1 = i
    BY <1>1
  <2>2. 1..((m + 1) - 1) = 1..m
    BY <1>1
  <2> QED  BY <1>1, <1>3, <2>1, <2>2, SubSeqProperties
<1>5. SubSeq(a, 1, m) = SubSeq(b, 1, m)
  BY <1>2, <1>4
<1> QED  BY <1>1, <1>3, <1>5 DEF IsSuffix, IsPrefix, a, b

--------------------------------------------------------------------------------
(* The value that is read from a line of this file, and whether one is, in  *)
(* search of the servers.                                                  *)
ValueIn(f, n) ==
  IF n = Len(f.lines) /\ ~f.closed THEN CutShort(f.lines[n].value) ELSE f.lines[n].value
Counts(f, n) ==
  f.lines[n].key = "server" /\ ~(n = Len(f.lines) /\ ~f.closed /\ f.lines[n].value = <<>>)

(* These are the lines that count among those from lo to hi, and read.      *)
Indexes(f, index, read, lo, hi) ==
  /\ index \in [1..Len(read) -> lo..hi]
  /\ \A i \in 1..Len(read) : Counts(f, index[i]) /\ read[i] = ValueIn(f, index[i])
  /\ \A i, j \in 1..Len(read) : i < j => index[i] < index[j]
  /\ \A n \in lo..hi : Counts(f, n) => \E i \in 1..Len(read) : index[i] = n
AreOf(f, read, lo, hi) == \E index : Indexes(f, index, read, lo, hi)

(* At first none is read; ...                                              *)
LEMMA AreOfNone ==
  ASSUME NEW f
  PROVE  AreOf(f, <<>>, 1, 0)
<1> DEFINE index == [i \in 1..0 |-> 1]
<1>1. index \in [1..0 -> 1..0]
  OBVIOUS
<1>2. Len(<<>>) = 0
  OBVIOUS
<1>3. Indexes(f, index, <<>>, 1, 0)
  BY <1>1, <1>2 DEF Indexes
<1> QED  BY <1>3 DEF AreOf

(* ... a line that does not count is passed over, ...                      *)
LEMMA AreOfSkip ==
  ASSUME NEW f, NEW read, NEW lo \in Nat, NEW hi \in Nat, AreOf(f, read, lo, hi), ~Counts(f, hi + 1)
  PROVE  AreOf(f, read, lo, hi + 1)
<1>1. PICK index : Indexes(f, index, read, lo, hi)
  BY DEF AreOf
<1>2. \A n \in lo..(hi + 1) : n \in lo..hi \/ n = hi + 1
  OBVIOUS
<1>3. index \in [1..Len(read) -> lo..(hi + 1)]
  <2>1. index \in [1..Len(read) -> lo..hi]
    BY <1>1 DEF Indexes
  <2>2. lo..hi \subseteq lo..(hi + 1)
    OBVIOUS
  <2> QED  BY <2>1, <2>2
<1>4. Indexes(f, index, read, lo, hi + 1)
  BY <1>1, <1>2, <1>3 DEF Indexes
<1> QED  BY <1>4 DEF AreOf

(* ... and the value of one that does is the last.                         *)
LEMMA AreOfMore ==
  ASSUME NEW f, NEW S, NEW read \in Seq(S), NEW lo \in Nat, NEW hi \in Nat, lo <= hi + 1,
         AreOf(f, read, lo, hi), Counts(f, hi + 1), ValueIn(f, hi + 1) \in S
  PROVE  AreOf(f, Append(read, ValueIn(f, hi + 1)), lo, hi + 1)
<1> DEFINE v == ValueIn(f, hi + 1)
           more == Append(read, v)
           l == Len(read)
<1>1. PICK index : Indexes(f, index, read, lo, hi)
  BY DEF AreOf
<1>2. /\ index \in [1..l -> lo..hi]
      /\ \A i \in 1..l : Counts(f, index[i]) /\ read[i] = ValueIn(f, index[i])
      /\ \A i, j \in 1..l : i < j => index[i] < index[j]
      /\ \A n \in lo..hi : Counts(f, n) => \E i \in 1..l : index[i] = n
  BY <1>1 DEF Indexes
<1>3. l \in Nat /\ Len(more) = l + 1 /\ more[l + 1] = v /\ \A i \in 1..l : more[i] = read[i]
  BY AppendProperties, LenProperties
<1> HIDE DEF more, l
<1> DEFINE last == [i \in 1..(l + 1) |-> IF i = l + 1 THEN hi + 1 ELSE index[i]]
<1>4. \A i \in 1..(l + 1) : i = l + 1 \/ i \in 1..l
  BY <1>3
<1>5. \A i \in 1..l : i # l + 1 /\ i \in 1..(l + 1) /\ index[i] \in lo..hi
  BY <1>2, <1>3
<1>6. last[l + 1] = hi + 1 /\ \A i \in 1..l : last[i] = index[i]
  BY <1>3, <1>5
<1>7. last \in [1..(l + 1) -> lo..(hi + 1)]
  <2>1. \A i \in 1..l : index[i] \in lo..(hi + 1)
    BY <1>5
  <2>2. hi + 1 \in lo..(hi + 1)
    OBVIOUS
  <2> QED  BY <1>4, <2>1, <2>2
<1> HIDE DEF last
<1>8. \A i \in 1..(l + 1) : Counts(f, last[i]) /\ more[i] = ValueIn(f, last[i])
  BY <1>2, <1>3, <1>4, <1>6 DEF v
<1>9. \A i, j \in 1..(l + 1) : i < j => last[i] < last[j]
  <2> SUFFICES ASSUME NEW i \in 1..(l + 1), NEW j \in 1..(l + 1), i < j PROVE last[i] < last[j]
    OBVIOUS
  <2>1. i \in 1..l
    BY <1>3
  <2>2. CASE j = l + 1
    <3>1. index[i] \in lo..hi
      BY <1>5, <2>1
    <3> QED  BY <1>6, <2>1, <2>2, <3>1
  <2>3. CASE j # l + 1
    BY <1>2, <1>4, <1>6, <2>1, <2>3
  <2> QED  BY <2>2, <2>3
<1>10. \A n \in lo..(hi + 1) : Counts(f, n) => \E i \in 1..(l + 1) : last[i] = n
  <2> SUFFICES ASSUME NEW n \in lo..(hi + 1), Counts(f, n) PROVE \E i \in 1..(l + 1) : last[i] = n
    OBVIOUS
  <2>1. CASE n = hi + 1
    <3>1. l + 1 \in 1..(l + 1)
      BY <1>3
    <3> QED  BY <1>6, <2>1, <3>1
  <2>2. CASE n # hi + 1
    <3>1. n \in lo..hi
      BY <2>2
    <3>2. PICK i \in 1..l : index[i] = n
      BY <1>2, <3>1
    <3> QED  BY <1>5, <1>6, <3>2
  <2> QED  BY <2>1, <2>2
<1>11. Indexes(f, last, more, lo, hi + 1)
  BY <1>3, <1>7, <1>8, <1>9, <1>10 DEF Indexes
<1> QED  BY <1>11 DEF AreOf, more, v

(* What is read is the value of the first line that counts, and what       *)
(* follows it those of the lines behind that line.                         *)
LEMMA AreOfTail ==
  ASSUME NEW f, NEW S, NEW read \in Seq(S), read # <<>>, NEW lo \in Nat, NEW hi \in Nat,
         AreOf(f, read, lo, hi)
  PROVE  \E n \in lo..hi : /\ Counts(f, n) /\ Head(read) = ValueIn(f, n)
                           /\ \A k \in lo..(n - 1) : ~Counts(f, k)
                           /\ AreOf(f, Tail(read), n + 1, hi)
<1> DEFINE l == Len(read)
           rest == Tail(read)
<1>1. PICK index : Indexes(f, index, read, lo, hi)
  BY DEF AreOf
<1>2. /\ index \in [1..l -> lo..hi]
      /\ \A i \in 1..l : Counts(f, index[i]) /\ read[i] = ValueIn(f, index[i])
      /\ \A i, j \in 1..l : i < j => index[i] < index[j]
      /\ \A n \in lo..hi : Counts(f, n) => \E i \in 1..l : index[i] = n
  BY <1>1 DEF Indexes
<1>3. /\ l \in Nat /\ l >= 1 /\ Len(rest) = l - 1 /\ Head(read) = read[1]
      /\ \A i \in 1..(l - 1) : rest[i] = read[i + 1]
  BY HeadTailProperties, LenProperties, EmptySeq
<1> HIDE DEF l, rest
<1> DEFINE n == index[1]
           behind == [i \in 1..(l - 1) |-> index[i + 1]]
<1>4. 1 \in 1..l /\ \A i \in 1..(l - 1) : i + 1 \in 1..l /\ i + 1 > 1
  BY <1>3
<1>5. n \in lo..hi /\ Counts(f, n) /\ Head(read) = ValueIn(f, n)
  BY <1>2, <1>3, <1>4
<1>6. \A i \in 1..l : i = 1 \/ (1 < i /\ i - 1 \in 1..(l - 1) /\ (i - 1) + 1 = i)
  BY <1>3
<1>7. \A i \in 1..l : index[i] \in lo..hi /\ (i # 1 => n < index[i])
  BY <1>2, <1>4, <1>6
<1>8. \A k \in lo..(n - 1) : ~Counts(f, k)
  <2> SUFFICES ASSUME NEW k \in lo..(n - 1), Counts(f, k) PROVE FALSE
    OBVIOUS
  <2>1. k \in lo..hi /\ k < n
    BY <1>5
  <2>2. PICK i \in 1..l : index[i] = k
    BY <1>2, <2>1
  <2> QED  BY <1>5, <1>7, <2>1, <2>2
<1>9. behind \in [1..(l - 1) -> (n + 1)..hi]
  <2>1. \A i \in 1..(l - 1) : index[i + 1] \in lo..hi /\ n < index[i + 1]
    BY <1>4, <1>7
  <2>2. \A i \in 1..(l - 1) : index[i + 1] \in (n + 1)..hi
    BY <1>5, <2>1
  <2> QED  BY <2>2
<1>10. \A i \in 1..(l - 1) : Counts(f, behind[i]) /\ rest[i] = ValueIn(f, behind[i])
  BY <1>2, <1>3, <1>4
<1>11. \A i, j \in 1..(l - 1) : i < j => behind[i] < behind[j]
  <2>1. \A i, j \in 1..(l - 1) : i < j => i + 1 < j + 1 /\ i + 1 \in 1..l /\ j + 1 \in 1..l
    BY <1>4
  <2> QED  BY <1>2, <2>1
<1>12. \A k \in (n + 1)..hi : Counts(f, k) => \E i \in 1..(l - 1) : behind[i] = k
  <2> SUFFICES ASSUME NEW k \in (n + 1)..hi, Counts(f, k) PROVE \E i \in 1..(l - 1) : behind[i] = k
    OBVIOUS
  <2>1. k \in lo..hi /\ k # n
    BY <1>5
  <2>2. PICK i \in 1..l : index[i] = k
    BY <1>2, <2>1
  <2>3. i - 1 \in 1..(l - 1) /\ (i - 1) + 1 = i
    BY <1>6, <2>1, <2>2
  <2>4. behind[i - 1] = k
    BY <2>2, <2>3
  <2> QED  BY <2>3, <2>4
<1> HIDE DEF behind
<1>13. Indexes(f, behind, rest, n + 1, hi)
  BY <1>3, <1>9, <1>10, <1>11, <1>12 DEF Indexes
<1>14. AreOf(f, rest, n + 1, hi)
  BY <1>13 DEF AreOf
<1> HIDE DEF n
<1> QED  BY <1>5, <1>8, <1>14 DEF rest

(* If nothing is left to be read no line is left that counts.              *)
LEMMA AreOfNothing ==
  ASSUME NEW f, NEW lo, NEW hi, AreOf(f, <<>>, lo, hi)
  PROVE  \A n \in lo..hi : ~Counts(f, n)
<1>1. Len(<<>>) = 0 /\ \A i \in 1..0 : FALSE
  OBVIOUS
<1> QED  BY <1>1 DEF AreOf, Indexes

(* Remainder the last line nothing is left to be read.                        *)
LEMMA AreOfNoLines ==
  ASSUME NEW f, NEW S, NEW read \in Seq(S), NEW hi \in Nat, AreOf(f, read, hi + 1, hi)
  PROVE  read = <<>>
<1>1. PICK index : index \in [1..Len(read) -> (hi + 1)..hi]
  BY DEF AreOf, Indexes
<1>2. (hi + 1)..hi = {}
  OBVIOUS
<1>3. Len(read) = 0
  <2> SUFFICES ASSUME Len(read) # 0 PROVE FALSE
    OBVIOUS
  <2>1. 1 \in 1..Len(read)
    BY LenProperties
  <2> QED  BY <1>1, <1>2, <2>1
<1> QED  BY <1>3, EmptySeq

--------------------------------------------------------------------------------
Entered == [url : Fragments, port : Ports]

(* Where the lists of values and of servers are no null pointers.          *)
Present ==
  /\ pc = "line" => values # NoList
  /\ pc \in {"open", "line", "answer"} /\ key = "server" => servers # NoList
  /\ pc \in {"threads", "avahi", "running"} => servers # NoList
  /\ pc = "list" => key = "server"
  /\ pc = "name" => key = "mode"

(* Whatever fails, each value comes from a line of the key that is being   *)
(* looked for, and each server is what so many failures may have made of a  *)
(* line of the servers.                                                    *)
ComesFrom(f, v, k) == \E n \in 1..Len(f.lines) : f.lines[n].key = k /\ v = ValueIn(f, n)
Named(f, server, misses) ==
  \E n \in 1..Len(f.lines) : f.lines[n].key = "server" /\ Understood(server, ValueIn(f, n), misses)
AllNamed(f, list, misses) == \A i \in 1..Len(list) : Named(f, list[i], misses)
Sourced ==
  /\ pc \in {"line", "answer"} /\ values # NoList =>
       \A i \in 1..Len(values) : ComesFrom(file, values[i], key)
  /\ servers # NoList => AllNamed(file, servers, faults)

StartInv == StartTypeOK /\ Present /\ Sourced

(* The lines of the file.                                                  *)
LEMMA FileFacts ==
  ASSUME file \in Files
  PROVE  /\ file.lines \in Seq(Lines) /\ Len(file.lines) \in Nat /\ file.closed \in BOOLEAN
         /\ \A n \in 1..Len(file.lines) : /\ file.lines[n] \in Lines
                                          /\ file.lines[n].value \in Seq(Fragments)
                                          /\ Len(file.lines[n].value) \in Nat
<1>1. file.lines \in Seq(Lines) /\ file.closed \in BOOLEAN
  BY FilesAssumption
<1>2. \A n \in 1..Len(file.lines) : file.lines[n] \in Lines
  BY <1>1, LenProperties
<1>3. \A x \in Lines : x.value \in Seq(Fragments) /\ Len(x.value) \in Nat
  BY LenProperties DEF Lines, Values
<1> QED  BY <1>1, <1>2, <1>3, LenProperties

(* A value that is cut short is a value.                                   *)
LEMMA CutShortFacts ==
  ASSUME NEW v \in Seq(Fragments)
  PROVE  CutShort(v) \in Seq(Fragments)
<1> SUFFICES ASSUME v # <<>> PROVE CutShort(v) \in Seq(Fragments)
  BY DEF CutShort
<1> DEFINE l == Last(v)
           left == IF l.host THEN l.size - 1 ELSE l.size \div 10
           end == IF left = 0 THEN <<>> ELSE <<[l EXCEPT !.size = left]>>
<1>1. l \in Fragments /\ Len(v) \in Nat /\ Len(v) >= 1
  <2>1. Len(v) \in Nat /\ Len(v) >= 1
    BY LenProperties, EmptySeq
  <2> QED  BY <2>1, LenProperties DEF Last
<1>2. l \in [host : BOOLEAN, size : Nat] /\ (l.host => l.size > 0)
  BY <1>1 DEF Fragments
<1>3. left \in Nat
  <2>1. CASE l.host
    BY <1>2, <2>1
  <2>2. CASE ~l.host
    BY <1>2, <2>2
  <2> QED  BY <2>1, <2>2
<1>4. end \in Seq(Fragments)
  <2>1. CASE left = 0
    BY <2>1
  <2>2. CASE left # 0
    <3> HIDE DEF l
    <3>1. l = [host |-> l.host, size |-> l.size] /\ l.host \in BOOLEAN
      BY <1>2
    <3> HIDE DEF left
    <3>2. [l EXCEPT !.size = left] = [host |-> l.host, size |-> left]
      BY <3>1
    <3>3. left > 0
      BY <1>3, <2>2
    <3>4. [host |-> l.host, size |-> left] \in Fragments
      BY <1>3, <3>1, <3>3 DEF Fragments
    <3> QED  BY <2>2, <3>2, <3>4
  <2> QED  BY <2>1, <2>2
<1>5. Front(v) \in Seq(Fragments)
  <2>1. 1 \in 1..(Len(v) + 1) /\ Len(v) - 1 \in 0..Len(v)
    BY <1>1
  <2> QED  BY <1>1, <2>1, SubSeqProperties DEF Front
<1>6. CutShort(v) = Front(v) \o end
  BY DEF CutShort
<1> HIDE DEF end
<1> QED  BY <1>4, <1>5, <1>6, ConcatProperties

(* The value that ReadLine reads is that of the file.                      *)
LEMMA ValueFacts ==
  ASSUME file \in Files, NEW n \in 1..Len(file.lines)
  PROVE  /\ Value(n) = ValueIn(file, n)
         /\ ValueIn(file, n) \in Seq(Fragments)
         /\ key = "server" => (Skipped(n) <=> ~Counts(file, n))
<1>1. Value(n) = ValueIn(file, n)
  BY DEF Value, ValueIn
<1>2. ValueIn(file, n) \in Seq(Fragments)
  BY FileFacts, CutShortFacts DEF ValueIn
<1>3. key = "server" => (Skipped(n) <=> ~Counts(file, n))
  BY DEF Skipped, Counts
<1> QED  BY <1>1, <1>2, <1>3

(* 80 is a port.                                                           *)
LEMMA PortFacts == PortLimit \in Nat /\ PortLimit > 0 /\ 80 \in Ports
BY DEF PortLimit, Ports

(* The servers of a value are what it says.                                *)
LEMMA AddressesFacts ==
  ASSUME NEW v \in Seq(Fragments)
  PROVE  /\ Addresses(v) \in Seq(Entered)
         /\ Len(Addresses(v)) \in {0, 1}
         /\ Addresses(v) = ServerOf(v)
<1>1. Len(v) \in Nat /\ v \in [1..Len(v) -> Fragments]
  BY LenProperties
<1>2. ASSUME NEW f \in Fragments
      PROVE  PortOf(f) \in Ports /\ PortOf(f) = IF f.host \/ f.size = 0 THEN 80 ELSE PortKept(f.size)
  <2>1. f.size \in Nat
    BY DEF Fragments
  <2>2. f.size % PortLimit \in Ports
    BY <2>1, PortFacts DEF Ports
  <2>3. f.size < PortLimit => f.size % PortLimit = f.size
    BY <2>1, PortFacts
  <2>4. PortKept(f.size) = f.size % PortLimit
    BY <2>3 DEF PortKept
  <2> QED  BY <2>2, <2>4, PortFacts DEF PortOf, Port
<1>3. ASSUME NEW p \in Ports, Len(v) \in 1..2, Addresses(v) = <<[url |-> v[1], port |-> p]>>
      PROVE  Addresses(v) \in Seq(Entered) /\ Len(Addresses(v)) \in {0, 1}
  <2>1. 1 \in 1..Len(v)
    BY <1>1, <1>3
  <2>2. v[1] \in Fragments
    BY <1>1, <2>1
  <2> DEFINE e == [url |-> v[1], port |-> p]
  <2>3. e \in Entered
    BY <2>2 DEF Entered
  <2>4. Addresses(v) = <<e>>
    BY <1>3
  <2> HIDE DEF e
  <2>5. Len(<<e>>) = 1 /\ <<e>> \in Seq(Entered)
    BY <2>3
  <2> QED  BY <2>4, <2>5
<1>4. CASE Len(v) = 2
  <2> DEFINE f == v[2]
  <2>1. f \in Fragments /\ Len(v) \in 1..2 /\ Len(v) # 1
    BY <1>1, <1>4
  <2>2. Addresses(v) = <<[url |-> v[1], port |-> PortOf(f)]>>
    BY <1>4 DEF Addresses
  <2>3. ServerOf(v) = <<[url |-> v[1], port |-> IF f.host \/ f.size = 0 THEN 80 ELSE PortKept(f.size)]>>
    BY <2>1 DEF ServerOf
  <2> HIDE DEF f
  <2> QED  BY <1>2, <1>3, <2>1, <2>2, <2>3
<1>5. CASE Len(v) = 1
  <2>1. Addresses(v) = <<[url |-> v[1], port |-> 80]>>
    BY <1>5 DEF Addresses
  <2>2. 80 \in Ports /\ Len(v) \in 1..2
    BY <1>5, PortFacts
  <2>3. ServerOf(v) = <<[url |-> v[1], port |-> 80]>>
    BY <1>5, <2>2 DEF ServerOf
  <2> QED  BY <1>3, <2>1, <2>2, <2>3
<1>6. CASE Len(v) \notin 1..2
  <2>1. Addresses(v) = <<>> /\ ServerOf(v) = <<>>
    BY <1>6 DEF Addresses, ServerOf
  <2> QED  BY <2>1
<1> QED  BY <1>1, <1>4, <1>5, <1>6

(* What is left of a value behind its first fragments.                     *)
LEMMA BehindFacts ==
  ASSUME NEW v \in Seq(Fragments)
  PROVE  /\ \A k \in 0..Len(v) : Remainder(v, k) \in Seq(Fragments)
         /\ 0 \in 0..Len(v) /\ Remainder(v, 0) = v
<1>1. Len(v) \in Nat
  BY LenProperties
<1>2. ASSUME NEW k \in 0..Len(v) PROVE Remainder(v, k) \in Seq(Fragments)
  <2>1. k + 1 \in Int /\ Len(v) \in Int
    BY <1>1
  <2>2. \A i \in (k + 1)..Len(v) : v[i] \in Fragments
    BY <1>1, LenProperties
  <2> QED  BY <2>1, <2>2, SubSeqProperties DEF Remainder
<1>3. Remainder(v, 0) = v
  <2>1. v = [i \in 1..Len(v) |-> v[i]]
    BY LenProperties
  <2>2. (Len(v) - 1) + 1 = Len(v) /\ \A i \in 1..Len(v) : (1 + i) - 1 = i
    BY <1>1
  <2>3. SubSeq(v, 1, Len(v)) = [i \in 1..Len(v) |-> v[i]]
    <3>1. SubSeq(v, 1, Len(v)) \in Seq(Fragments)
      BY <1>1, <1>2, 0 \in 0..Len(v), 0 + 1 = 1 DEF Remainder
    <3>2. /\ Len(SubSeq(v, 1, Len(v))) = Len(v)
          /\ \A i \in 1..Len(v) : SubSeq(v, 1, Len(v))[i] = v[i]
      <4>1. 1 \in Int /\ Len(v) \in Int /\ \A i \in 1..Len(v) : v[i] \in Fragments
        BY <1>1, LenProperties
      <4>2. /\ Len(SubSeq(v, 1, Len(v))) = IF 1 <= Len(v) THEN (Len(v) - 1) + 1 ELSE 0
            /\ \A i \in 1..((Len(v) - 1) + 1) : SubSeq(v, 1, Len(v))[i] = v[(1 + i) - 1]
        BY <4>1, SubSeqProperties
      <4>3. Len(v) = 0 \/ 1 <= Len(v)
        BY <1>1
      <4> QED  BY <2>2, <4>2, <4>3
    <3> QED  BY <3>1, <3>2, LenProperties
  <2>4. 0 + 1 = 1
    OBVIOUS
  <2> QED  BY <2>1, <2>3, <2>4 DEF Remainder
<1> QED  BY <1>1, <1>2, <1>3

(* Failures make servers of what is left; more of them can do as much.     *)
LEMMA UnderstoodFacts ==
  ASSUME NEW v \in Seq(Fragments), NEW k \in 0..Len(v), NEW misses \in Nat,
         NEW i \in 1..Len(Addresses(Remainder(v, k)))
  PROVE  LET e == Addresses(Remainder(v, k))[i]
         IN /\ k <= misses => Understood(e, v, misses)
            /\ k < misses => Understood([url |-> NoUrl, port |-> e.port], v, misses)
<1> DEFINE a == Addresses(Remainder(v, k))
           e == a[i]
<1>1. a = ServerOf(Remainder(v, k)) /\ a \in Seq(Entered)
  BY BehindFacts, AddressesFacts
<1> HIDE DEF a
<1>2. e \in ToSet(a)
  <2>1. i \in 1..Len(a)
    BY DEF a
  <2>2. DOMAIN a = 1..Len(a)
    BY <1>1, LenProperties
  <2> QED  BY <2>1, <2>2 DEF ToSet
<1> HIDE DEF e
<1>3. e \in ToSet(ServerOf(Remainder(v, k)))
  BY <1>1, <1>2
<1>4. k <= misses => Understood(e, v, misses)
  BY <1>3 DEF Understood
<1>5. k < misses => Understood([url |-> NoUrl, port |-> e.port], v, misses)
  BY <1>3 DEF Understood
<1> QED  BY <1>4, <1>5 DEF e, a

LEMMA NamedStays ==
  ASSUME file \in Files, NEW list, NEW m \in Nat, NEW n \in Nat, m <= n, AllNamed(file, list, m)
  PROVE  AllNamed(file, list, n)
<1>1. ASSUME NEW s, NEW v \in Seq(Fragments), Understood(s, v, m) PROVE Understood(s, v, n)
  <2>1. PICK k \in 0..Len(v) : \E e \in ToSet(ServerOf(Remainder(v, k))) :
          \/ k <= m /\ s = e
          \/ k < m /\ s = [url |-> NoUrl, port |-> e.port]
    BY <1>1 DEF Understood
  <2>2. k \in Nat
    BY LenProperties
  <2>3. (k <= m => k <= n) /\ (k < m => k < n)
    BY <2>2
  <2> QED  BY <2>1, <2>3 DEF Understood
<1>2. \A j \in 1..Len(file.lines) : ValueIn(file, j) \in Seq(Fragments)
  BY ValueFacts
<1> QED  BY <1>1, <1>2 DEF AllNamed, Named

(* Servers that are named in the file are still when one more is pushed.   *)
LEMMA PushFacts ==
  ASSUME NEW f, NEW n, NEW old \in Seq(Entered), NEW e \in Seq(Entered), AllNamed(f, old, n), AllNamed(f, e, n)
  PROVE  e \o old \in Seq(Entered) /\ AllNamed(f, e \o old, n)
<1>1. /\ e \o old \in Seq(Entered) /\ Len(e \o old) = Len(e) + Len(old)
      /\ Len(e) \in Nat /\ Len(old) \in Nat
      /\ \A i \in 1..Len(e) : (e \o old)[i] = e[i]
      /\ \A i \in 1..Len(old) : (e \o old)[i + Len(e)] = old[i]
  BY ConcatAt
<1>2. \A i \in 1..(Len(e) + Len(old)) :
        i \in 1..Len(e) \/ (i - Len(e) \in 1..Len(old) /\ (i - Len(e)) + Len(e) = i)
  BY <1>1
<1>3. ASSUME NEW i \in 1..Len(e \o old) PROVE Named(f, (e \o old)[i], n)
  <2>1. CASE i \in 1..Len(e)
    BY <1>1, <2>1 DEF AllNamed
  <2>2. CASE i - Len(e) \in 1..Len(old) /\ (i - Len(e)) + Len(e) = i
    <3>1. (e \o old)[i] = old[i - Len(e)]
      BY <1>1, <2>2
    <3> QED  BY <2>2, <3>1 DEF AllNamed
  <2> QED  BY <1>1, <1>2, <2>1, <2>2
<1> QED  BY <1>1, <1>3 DEF AllNamed

--------------------------------------------------------------------------------
(* The start begins without values and servers.                            *)
LEMMA StartInvInit == StartInit => StartInv
<1> SUFFICES ASSUME StartInit PROVE StartInv
  OBVIOUS
<1>1. /\ file \in Files /\ pc = "name" /\ key = "mode" /\ line = 1 /\ values = NoList
      /\ settings = [s \in {"mode", "action"} |-> NoText] /\ servers = NoList /\ faults = 0
  BY DEF StartInit
<1>2. line \in 1..(Len(file.lines) + 1) /\ faults \in 0..MaxFaults
  BY <1>1, FileFacts, FaultsAssumption
<1>3. StartTypeOK
  BY <1>1, <1>2 DEF StartTypeOK, Keys
<1> QED  BY <1>1, <1>3 DEF StartInv, Present, Sourced

(* A call that works or fails.                                             *)
LEMMA FaultFacts ==
  ASSUME StartTypeOK, Works \/ Fails
  PROVE  faults' \in 0..MaxFaults
BY FaultsAssumption DEF StartTypeOK, Works, Fails

(* The servers found so far are named after a call as before it.           *)
LEMMA NamedAfterwards ==
  ASSUME StartTypeOK, Sourced, Works \/ Fails, file' = file, servers' = servers, servers # NoList
  PROVE  AllNamed(file', servers', faults')
<1>1. AllNamed(file, servers, faults)
  BY DEF Sourced
<1>2. faults \in Nat /\ faults' \in Nat /\ faults <= faults'
  BY FaultsAssumption DEF StartTypeOK, Works, Fails
<1>3. \A m, n \in Nat : m <= n /\ AllNamed(file, servers, m) => AllNamed(file, servers, n)
  BY NamedStays DEF StartTypeOK
<1> QED  BY <1>1, <1>2, <1>3

(* config_get_all opens the file.                                          *)
LEMMA OpenInv == StartInv /\ Open => StartInv'
<1> SUFFICES ASSUME StartInv, Open PROVE StartInv'
  OBVIOUS
<1>1. StartTypeOK /\ Present /\ Sourced
  BY DEF StartInv
<1>2. /\ pc = "open" /\ line' = 1 /\ file' = file /\ key' = key /\ settings' = settings /\ servers' = servers
      /\ \/ pc' = "line" /\ values' = <<>>
         \/ pc' = "answer" /\ values' = NoList
      /\ Works \/ Fails
  BY DEF Open
<1>3. faults' \in 0..MaxFaults
  BY <1>1, <1>2, FaultFacts
<1>4. line' \in 1..(Len(file.lines) + 1)
  BY <1>1, <1>2, FileFacts DEF StartTypeOK
<1>5. <<>> \in Seq(Values) /\ Len(<<>>) = 0 /\ <<>> # NoList
  <2>1. <<>> \in Seq(Values)
    OBVIOUS
  <2>2. Len(<<>>) = 0
    OBVIOUS
  <2> QED  BY <2>1, <2>2, NoListAssumption
<1>6. StartTypeOK'
  BY <1>1, <1>2, <1>3, <1>4, <1>5 DEF StartTypeOK
<1>7. Present'
  BY <1>1, <1>2, <1>5 DEF Present
<1>8. Sourced'
  BY <1>1, <1>2, <1>5, NamedAfterwards DEF Sourced
<1> QED  BY <1>6, <1>7, <1>8 DEF StartInv

(* It reads a line, ...                                                    *)
LEMMA ReadLineInv == StartInv /\ ReadLine => StartInv'
<1> SUFFICES ASSUME StartInv, ReadLine PROVE StartInv'
  OBVIOUS
<1>1. StartTypeOK /\ Present /\ Sourced
  BY DEF StartInv
<1>2. /\ pc = "line" /\ line <= Len(file.lines) /\ line' = line + 1
      /\ file' = file /\ key' = key /\ settings' = settings /\ servers' = servers
      /\ Works \/ Fails
  BY DEF ReadLine
<1>3. /\ file \in Files /\ line \in 1..(Len(file.lines) + 1) /\ Len(file.lines) \in Nat
      /\ values \in Seq(Values) /\ values # NoList
  BY <1>1, <1>2, FileFacts DEF StartTypeOK, Present
<1>4. line \in 1..Len(file.lines) /\ line' \in 1..(Len(file.lines) + 1)
  BY <1>2, <1>3
<1>5. faults' \in 0..MaxFaults
  BY <1>1, <1>2, FaultFacts
<1>6. CASE values' = values /\ pc' = pc
  <2>1. StartTypeOK'
    BY <1>1, <1>2, <1>4, <1>5, <1>6 DEF StartTypeOK
  <2> QED  BY <1>1, <1>2, <1>6, <2>1, NamedAfterwards DEF StartInv, Present, Sourced
<1>7. CASE values' = NoList /\ pc' = "answer"
  <2>1. StartTypeOK'
    BY <1>1, <1>2, <1>4, <1>5, <1>7 DEF StartTypeOK
  <2> QED  BY <1>1, <1>2, <1>7, <2>1, NamedAfterwards DEF StartInv, Present, Sourced
<1>8. CASE values' = Append(values, Value(line)) /\ pc' = pc /\ ~Skipped(line)
  <2> DEFINE v == ValueIn(file, line)
  <2>1. v \in Values /\ values' = Append(values, v)
    BY <1>3, <1>4, <1>8, ValueFacts DEF Values
  <2>2. /\ values' \in Seq(Values) /\ Len(values') = Len(values) + 1 /\ Len(values) \in Nat
        /\ values'[Len(values) + 1] = v /\ \A i \in 1..Len(values) : values'[i] = values[i]
    BY <1>3, <2>1, AppendProperties, LenProperties
  <2>3. values' # NoList
    BY <2>2, NoListAssumption
  <2>4. StartTypeOK'
    BY <1>1, <1>2, <1>4, <1>5, <1>8, <2>2 DEF StartTypeOK
  <2>5. Present'
    BY <1>1, <1>2, <1>8, <2>3 DEF Present
  <2>6. ComesFrom(file, v, key)
    <3>1. file.lines[line].key = key
      BY <1>8 DEF Skipped
    <3> QED  BY <1>4, <3>1 DEF ComesFrom
  <2>7. \A i \in 1..Len(values') : ComesFrom(file, values'[i], key)
    <3>1. \A i \in 1..Len(values') : i \in 1..Len(values) \/ i = Len(values) + 1
      BY <2>2
    <3>2. \A i \in 1..Len(values) : ComesFrom(file, values[i], key)
      BY <1>1, <1>2, <1>3 DEF Sourced
    <3> HIDE DEF v
    <3> QED  BY <2>2, <2>6, <3>1, <3>2
  <2>8. Sourced'
    BY <1>1, <1>2, <2>7, NamedAfterwards DEF Sourced
  <2> QED  BY <2>4, <2>5, <2>8 DEF StartInv
<1>9. \/ values' = values /\ pc' = pc
      \/ values' = NoList /\ pc' = "answer"
      \/ values' = Append(values, Value(line)) /\ pc' = pc /\ ~Skipped(line)
  BY DEF ReadLine
<1> QED  BY <1>6, <1>7, <1>8, <1>9

(* ... up to the last.                                                     *)
LEMMA EndOfFileInv == StartInv /\ EndOfFile => StartInv'
BY DEF StartInv, StartTypeOK, Present, Sourced, EndOfFile

(* config_get makes a setting of what config_get_all has found.            *)
LEMMA SettingFacts ==
  ASSUME StartTypeOK, key \in {"mode", "action"}, Setting
  PROVE  settings' \in [{"mode", "action"} -> Values \cup {NoText}] /\ (Works \/ Fails)
<1>1. settings \in [{"mode", "action"} -> Values \cup {NoText}] /\ values \in Seq(Values) \cup {NoList}
  BY DEF StartTypeOK
<1>2. \A v \in Values : [settings EXCEPT ![key] = v] \in [{"mode", "action"} -> Values \cup {NoText}]
  BY <1>1
<1>3. Default \in Values
  BY DEF Default, Values, Fragments
<1>4. values \notin {NoList, <<>>} => Head(values) \in Values
  BY <1>1, HeadTailProperties
<1>5. CASE values \in {NoList, <<>>}
  BY <1>1, <1>2, <1>3, <1>5 DEF Setting
<1>6. CASE values \notin {NoList, <<>>}
  BY <1>1, <1>2, <1>4, <1>6 DEF Setting
<1> QED  BY <1>5, <1>6

(* So the mode and the action are read.                                    *)
LEMMA ReadModeInv == StartInv /\ ReadMode => StartInv'
<1> SUFFICES ASSUME StartInv, ReadMode PROVE StartInv'
  OBVIOUS
<1>1. StartTypeOK /\ Present /\ Sourced
  BY DEF StartInv
<1>2. /\ settings' \in [{"mode", "action"} -> Values \cup {NoText}] /\ (Works \/ Fails)
      /\ key' = "action" /\ pc' = "open"
      /\ file' = file /\ line' = line /\ values' = values /\ servers' = servers
  BY <1>1, SettingFacts DEF ReadMode
<1>3. faults' \in 0..MaxFaults
  BY <1>1, <1>2, FaultFacts
<1>4. StartTypeOK'
  BY <1>1, <1>2, <1>3 DEF StartTypeOK, Keys
<1> QED  BY <1>1, <1>2, <1>4, NamedAfterwards DEF StartInv, Present, Sourced

LEMMA ReadActionInv == StartInv /\ ReadAction => StartInv'
<1> SUFFICES ASSUME StartInv, ReadAction PROVE StartInv'
  OBVIOUS
<1>1. StartTypeOK /\ Present /\ Sourced
  BY DEF StartInv
<1>2. /\ settings' \in [{"mode", "action"} -> Values \cup {NoText}] /\ (Works \/ Fails)
      /\ key' = "server" /\ pc' = "list"
      /\ file' = file /\ line' = line /\ values' = values /\ servers' = servers
  BY <1>1, SettingFacts DEF ReadAction
<1>3. faults' \in 0..MaxFaults
  BY <1>1, <1>2, FaultFacts
<1>4. StartTypeOK'
  BY <1>1, <1>2, <1>3 DEF StartTypeOK, Keys
<1> QED  BY <1>1, <1>2, <1>4, NamedAfterwards DEF StartInv, Present, Sourced

(* read_config_servers makes the list.                                     *)
LEMMA MakeServersInv == StartInv /\ MakeServers => StartInv'
<1> SUFFICES ASSUME StartInv, MakeServers PROVE StartInv'
  OBVIOUS
<1>1. StartTypeOK /\ Present /\ Sourced
  BY DEF StartInv
<1>2. /\ pc = "list" /\ (Works \/ Fails)
      /\ \/ pc' = "open" /\ servers' = <<>>
         \/ pc' = "failed" /\ servers' = servers
      /\ file' = file /\ line' = line /\ values' = values /\ settings' = settings /\ key' = key
  BY DEF MakeServers
<1>3. faults' \in 0..MaxFaults
  BY <1>1, <1>2, FaultFacts
<1>4. <<>> \in Seq(Entered) /\ Len(<<>>) = 0 /\ <<>> # NoList
  <2>1. <<>> \in Seq(Entered)
    OBVIOUS
  <2>2. Len(<<>>) = 0
    OBVIOUS
  <2> QED  BY <2>1, <2>2, NoListAssumption DEF Entered
<1>5. StartTypeOK'
  BY <1>1, <1>2, <1>3, <1>4 DEF StartTypeOK, Entered
<1> QED  BY <1>1, <1>2, <1>4, <1>5, NamedAfterwards DEF AllNamed, StartInv, Present, Sourced

(* What a step of read_config_servers finds, whether or not all of it works. *)
LEMMA AnswerFacts ==
  ASSUME StartInv, pc = "answer", key = "server", values \notin {NoList, <<>>}
  PROVE  /\ file \in Files
         /\ values \in Seq(Values)
         /\ Head(values) \in Seq(Fragments)
         /\ \A x, n : Understood(x, Head(values), n) => Named(file, x, n)
         /\ Tail(values) \in Seq(Values) /\ Len(values) \in Nat /\ Len(values) >= 1
         /\ Len(Tail(values)) = Len(values) - 1
         /\ \A i \in 1..Len(Tail(values)) : ComesFrom(file, Tail(values)[i], key)
         /\ Tail(values) # NoList
         /\ servers \in Seq(Entered)
         /\ servers # NoList
         /\ AllNamed(file, servers, faults)
<1>1. StartTypeOK /\ Present /\ Sourced
  BY DEF StartInv
<1>2. file \in Files /\ values \in Seq(Values) /\ servers \in Seq(Entered) /\ servers # NoList
  BY <1>1 DEF StartTypeOK, Present, Entered
<1>3. AllNamed(file, servers, faults)
  BY <1>1, <1>2 DEF Sourced
<1>4. /\ Tail(values) \in Seq(Values) /\ Len(values) \in Nat /\ Len(values) >= 1
      /\ Len(Tail(values)) = Len(values) - 1 /\ Head(values) = values[1] /\ Head(values) \in Values
      /\ \A i \in 1..Len(Tail(values)) : Tail(values)[i] = values[i + 1]
  BY <1>2, HeadTailProperties, LenProperties, EmptySeq
<1>5. \A i \in 1..Len(values) : ComesFrom(file, values[i], "server")
  BY <1>1 DEF Sourced
<1>6. \A i \in 1..Len(Tail(values)) : i + 1 \in 1..Len(values)
  BY <1>4
<1>7. \A x, n : Understood(x, Head(values), n) => Named(file, x, n)
  <2>1. 1 \in 1..Len(values)
    BY <1>4
  <2>2. ComesFrom(file, Head(values), "server")
    BY <1>4, <1>5, <2>1
  <2> QED  BY <2>2 DEF ComesFrom, Named
<1>8. \A i \in 1..Len(Tail(values)) : ComesFrom(file, Tail(values)[i], key)
  BY <1>4, <1>5, <1>6
<1>9. Tail(values) # NoList
  BY <1>4, NoListAssumption
<1> QED  BY <1>2, <1>3, <1>4, <1>7, <1>8, <1>9 DEF Values

(* The invariant after such a step, if it goes on.                         *)
LEMMA AnswerInv ==
  ASSUME StartInv, pc = "answer", key = "server", values \notin {NoList, <<>>},
         values' = Tail(values), pc' \in {"answer", "failed", "crashed"},
         faults' \in 0..MaxFaults, faults <= faults',
         file' = file, key' = key, line' = line, settings' = settings,
         \/ servers' = NoList /\ pc' # "answer"
         \/ servers' = servers
         \/ \E e \in Seq(Entered) : servers' = e \o servers /\ AllNamed(file, e, faults')
  PROVE  StartInv'
<1>1. StartTypeOK /\ Present /\ Sourced
  BY DEF StartInv
<1>2. /\ Tail(values) \in Seq(Values) /\ Tail(values) # NoList
      /\ \A i \in 1..Len(Tail(values)) : ComesFrom(file, Tail(values)[i], key)
      /\ servers \in Seq(Entered) /\ servers # NoList /\ AllNamed(file, servers, faults)
  BY AnswerFacts
<1> DEFINE n == faults'
<1>8. AllNamed(file, servers, n)
  <2>1. file \in Files /\ faults \in Nat /\ n \in Nat /\ faults <= n
    BY <1>1, FaultsAssumption DEF StartTypeOK
  <2> HIDE DEF n
  <2> QED  BY <1>2, <2>1, NamedStays
<1> HIDE DEF n
<1>3. \/ servers' = NoList /\ pc' # "answer"
      \/ /\ servers' \in Seq(Entered) /\ servers' # NoList
         /\ AllNamed(file, servers', n)
  <2>1. CASE \E e \in Seq(Entered) : servers' = e \o servers /\ AllNamed(file, e, faults')
    <3>1. PICK e \in Seq(Entered) : servers' = e \o servers /\ AllNamed(file, e, n)
      BY <2>1 DEF n
    <3>2. servers' \in Seq(Entered) /\ AllNamed(file, servers', n)
      BY <1>2, <1>8, <3>1, PushFacts
    <3>3. servers' # NoList
      BY <3>2, NoListAssumption DEF Entered
    <3> QED  BY <3>2, <3>3
  <2> QED  BY <1>2, <1>8, <2>1
<1>4. servers' \in Seq(Entered) \cup {NoList}
  BY <1>3
<1>5. StartTypeOK'
  BY <1>1, <1>2, <1>4 DEF StartTypeOK, Entered
<1>6. Present'
  BY <1>1, <1>3 DEF Present
<1>7. Sourced'
  <2>1. servers' # NoList => AllNamed(file', servers', faults')
    BY <1>2, <1>3, <1>8 DEF n
  <2>2. \A i \in 1..Len(values') : ComesFrom(file', values'[i], key')
    BY <1>2
  <2> QED  BY <2>1, <2>2 DEF Sourced
<1> QED  BY <1>5, <1>6, <1>7 DEF StartInv

(* A server is pushed for the next value, ...                              *)
LEMMA ReadServerInv == StartInv /\ ReadServer => StartInv'
<1> SUFFICES ASSUME StartInv, ReadServer PROVE StartInv'
  OBVIOUS
<1>1. pc = "answer" /\ key = "server" /\ values \notin {NoList, <<>>}
  BY DEF ReadServer
<1> DEFINE v == Head(values)
           e == Addresses(v)
<1>2. v \in Seq(Fragments) /\ \A x, n : Understood(x, v, n) => Named(file, x, n)
  BY <1>1, AnswerFacts
<1>3. /\ servers' = e \o servers /\ values' = Tail(values)
      /\ file' = file /\ pc' = pc /\ key' = key /\ line' = line /\ settings' = settings /\ faults' = faults
  BY DEF ReadServer, Push
<1>4. faults \in 0..MaxFaults /\ faults \in Nat /\ faults <= faults
  BY FaultsAssumption DEF StartInv, StartTypeOK
<1> HIDE DEF v
<1>5. e \in Seq(Entered) /\ AllNamed(file, e, faults)
  <2>1. Remainder(v, 0) = v /\ 0 \in 0..Len(v) /\ 0 <= faults
    BY <1>2, <1>4, BehindFacts
  <2>2. \A i \in 1..Len(e) : Understood(e[i], v, faults)
    BY <1>2, <1>4, <2>1, UnderstoodFacts
  <2> QED  BY <1>2, <2>2, AddressesFacts DEF AllNamed
<1> HIDE DEF e
<1>6. AllNamed(file, e, faults') /\ faults' \in 0..MaxFaults /\ faults <= faults'
  BY <1>3, <1>4, <1>5
<1> QED  BY <1>1, <1>3, <1>5, <1>6, AnswerInv

(* ... whatever fails on the way: the first so many strdups of fragments,   *)
(* and perhaps one call more.                                              *)
LEMMA ReadServerFailsInv == StartInv /\ ReadServerFails => StartInv'
<1> SUFFICES ASSUME StartInv, ReadServerFails PROVE StartInv'
  OBVIOUS
<1> DEFINE v == Head(values)
<1>1. pc = "answer" /\ key = "server" /\ values \notin {NoList, <<>>}
  BY DEF ReadServerFails
<1>2. values' = Tail(values) /\ file' = file /\ key' = key /\ line' = line /\ settings' = settings
  BY DEF ReadServerFails
<1>3. PICK k \in 0..Len(v) :
        \/ k > 0 /\ FailTimes(k) /\ servers' = Addresses(Remainder(v, k)) \o servers /\ pc' = pc
        \/ /\ FailTimes(k + 1)
           /\ \/ pc' = pc /\ servers' = servers
              \/ pc' = "failed" /\ servers' = NoList
              \/ /\ Addresses(Remainder(v, k)) # <<>> /\ pc' = pc
                 /\ servers' = <<[Addresses(Remainder(v, k))[1] EXCEPT !.url = NoUrl]>> \o servers
              \/ pc' = "crashed" /\ servers' = servers
  BY DEF ReadServerFails, Push
<1>4. v \in Seq(Fragments) /\ \A x, n : Understood(x, v, n) => Named(file, x, n)
  BY <1>1, AnswerFacts
<1> HIDE DEF v
<1>5. k \in Nat
  BY <1>4, LenProperties
<1>6. /\ faults' \in 0..MaxFaults /\ faults' \in Nat /\ faults <= faults' /\ k <= faults'
      /\ FailTimes(k + 1) => k < faults'
  <2>1. faults \in Nat /\ MaxFaults \in Nat
    BY FaultsAssumption DEF StartInv, StartTypeOK
  <2>2. CASE FailTimes(k)
    <3>1. faults' = faults + k /\ faults + k <= MaxFaults
      BY <2>2 DEF FailTimes
    <3>2. ~FailTimes(k + 1)
      BY <1>5, <2>1, <3>1 DEF FailTimes
    <3> QED  BY <1>5, <2>1, <3>1, <3>2
  <2>3. CASE FailTimes(k + 1)
    <3>1. faults' = faults + (k + 1) /\ faults + (k + 1) <= MaxFaults
      BY <2>3 DEF FailTimes
    <3> QED  BY <1>5, <2>1, <3>1
  <2> QED  BY <1>3, <2>2, <2>3
<1> DEFINE a == Addresses(Remainder(v, k))
           n == faults'
<1>7. /\ a \in Seq(Entered)
      /\ \A i \in 1..Len(a) : /\ k <= n => Understood(a[i], v, n)
                              /\ k < n => Understood([url |-> NoUrl, port |-> a[i].port], v, n)
  <2>1. a \in Seq(Entered)
    BY <1>4, BehindFacts, AddressesFacts
  <2>2. n \in Nat
    BY <1>6
  <2> HIDE DEF n
  <2> QED  BY <1>4, <2>1, <2>2, UnderstoodFacts
<1>8. CASE (pc' = pc \/ pc' = "crashed") /\ servers' = servers
  BY <1>1, <1>2, <1>6, <1>8, AnswerInv
<1>9. CASE pc' = "failed" /\ servers' = NoList
  BY <1>1, <1>2, <1>6, <1>9, AnswerInv
<1>10. CASE FailTimes(k + 1) /\ a # <<>> /\ pc' = pc /\ servers' = <<[a[1] EXCEPT !.url = NoUrl]>> \o servers
  <2> HIDE DEF a
  <2> DEFINE old == a[1]
             new == [old EXCEPT !.url = NoUrl]
             e == <<new>>
  <2>1. 1 \in 1..Len(a)
    <3>1. Len(a) \in Nat
      BY <1>7, LenProperties
    <3>2. Len(a) # 0
      BY <1>7, <1>10, EmptySeq
    <3> QED  BY <3>1, <3>2
  <2>2. old \in Entered
    BY <1>7, <2>1, LenProperties
  <2>3. Understood([url |-> NoUrl, port |-> old.port], v, n)
    BY <1>6, <1>7, <1>10, <2>1
  <2> HIDE DEF old
  <2>4. old = [url |-> old.url, port |-> old.port] /\ old.port \in Ports
    BY <2>2 DEF Entered
  <2>5. new = [url |-> NoUrl, port |-> old.port]
    BY <2>4
  <2>6. NoUrl \in Fragments
    BY DEF NoUrl, Fragments
  <2> HIDE DEF new
  <2>7. new \in Entered /\ Named(file, new, n)
    BY <1>4, <2>3, <2>4, <2>5, <2>6 DEF Entered
  <2>8. e \in Seq(Entered) /\ Len(e) = 1 /\ e[1] = new
    BY <2>7
  <2>9. servers' = e \o servers
    BY <1>10 DEF old, new
  <2> HIDE DEF e
  <2>10. AllNamed(file, e, n)
    <3>1. \A i \in 1..1 : i = 1
      OBVIOUS
    <3> QED  BY <2>7, <2>8, <3>1 DEF AllNamed
  <2> QED  BY <1>1, <1>2, <1>6, <1>10, <2>8, <2>9, <2>10, AnswerInv
<1>11. CASE servers' = a \o servers /\ pc' = pc
  <2> HIDE DEF a
  <2>1. AllNamed(file, a, n)
    <3>1. \A i \in 1..Len(a) : Understood(a[i], v, n)
      BY <1>6, <1>7
    <3> QED  BY <1>4, <3>1 DEF AllNamed
  <2> QED  BY <1>1, <1>2, <1>6, <1>7, <1>11, <2>1, AnswerInv
<1> QED  BY <1>3, <1>8, <1>9, <1>10, <1>11

(* The steps of main.                                                      *)
LEMMA MainInv == StartInv /\ (CopyName \/ ServersRead \/ CreateThread) => StartInv'
<1> SUFFICES ASSUME StartInv, CopyName \/ ServersRead \/ CreateThread PROVE StartInv'
  OBVIOUS
<1>1. StartTypeOK /\ Present /\ Sourced
  BY DEF StartInv
<1>2. CASE CopyName
  <2>1. faults' \in 0..MaxFaults
    BY <1>1, <1>2, FaultFacts DEF CopyName
  <2>2. /\ pc = "name" /\ pc' \in {"open", "failed"} /\ file' = file /\ key' = key /\ line' = line
        /\ values' = values /\ settings' = settings /\ servers' = servers
    BY <1>2 DEF CopyName
  <2>3. StartTypeOK'
    BY <1>1, <2>1, <2>2 DEF StartTypeOK
  <2>4. Works \/ Fails
    BY <1>2 DEF CopyName
  <2> QED  BY <1>1, <2>2, <2>3, <2>4, NamedAfterwards DEF StartInv, Present, Sourced
<1>3. CASE ServersRead
  BY <1>1, <1>3 DEF ServersRead, StartInv, StartTypeOK, Present, Sourced
<1>4. CASE CreateThread
  <2>1. faults' \in 0..MaxFaults
    BY <1>1, <1>4, FaultFacts DEF CreateThread
  <2>2. /\ pc \in {"threads", "avahi"} /\ pc' \in {"avahi", "running", "failed"} /\ file' = file /\ key' = key
        /\ line' = line /\ values' = values /\ settings' = settings /\ servers' = servers
    BY <1>4 DEF CreateThread
  <2>3. StartTypeOK'
    BY <1>1, <2>1, <2>2 DEF StartTypeOK
  <2>4. Works \/ Fails
    BY <1>4 DEF CreateThread
  <2> QED  BY <1>1, <2>2, <2>3, <2>4, NamedAfterwards DEF StartInv, Present, Sourced
<1> QED  BY <1>2, <1>3, <1>4

(* The invariant holds throughout the start.                               *)
LEMMA StartInvNext == StartInv /\ [StartNext]_startVars => StartInv'
<1>1. StartInv /\ UNCHANGED startVars => StartInv'
  BY DEF startVars, StartInv, StartTypeOK, Present, Sourced
<1> QED  BY <1>1, OpenInv, ReadLineInv, EndOfFileInv, ReadModeInv, ReadActionInv, MakeServersInv,
            ReadServerInv, ReadServerFailsInv, MainInv DEF StartNext

--------------------------------------------------------------------------------
(* The servers of a file's last lines, but for the first of them, are what *)
(* a list ends with that has one server or none in front of these lines'.  *)
LEMMA SuffixBehind ==
  ASSUME NEW S, NEW d \in Seq(S), NEW e \in Seq(S), NEW u \in Seq(S), Len(d) \in {0, 1}, d \o u # <<>>
  PROVE  IsSuffix(Tail(d \o u), e \o u)
<1> DEFINE w == d \o u
           s == Tail(w)
           t == e \o u
<1>1. /\ w \in Seq(S) /\ Len(w) = Len(d) + Len(u) /\ \A i \in 1..Len(u) : w[i + Len(d)] = u[i]
      /\ Len(d) \in Nat /\ Len(u) \in Nat
  BY ConcatAt
<1>2. /\ t \in Seq(S) /\ Len(t) = Len(e) + Len(u) /\ \A i \in 1..Len(u) : t[i + Len(e)] = u[i]
      /\ Len(e) \in Nat
  BY ConcatAt
<1> HIDE DEF w, t
<1>3. w # <<>>
  BY DEF w
<1>4. s \in Seq(S) /\ Len(s) = Len(w) - 1 /\ \A i \in 1..Len(s) : s[i] = w[i + 1]
  BY <1>1, <1>3, HeadTailProperties
<1> HIDE DEF s
<1>5. Len(s) \in Nat /\ Len(d) \in {0, 1}
  BY <1>4, LenProperties
<1> DEFINE a == Len(d)
           b == Len(e)
           c == Len(u)
           m == Len(s)
           n == Len(t)
<1>6. /\ a \in {0, 1} /\ b \in Nat /\ c \in Nat /\ m \in Nat /\ n \in Nat
      /\ m = (a + c) - 1 /\ n = b + c
  BY <1>1, <1>2, <1>4, <1>5
<1>7. /\ \A i \in 1..c : w[i + a] = u[i] /\ t[i + b] = u[i]
      /\ \A i \in 1..m : s[i] = w[i + 1]
  BY <1>1, <1>2, <1>4
<1> HIDE DEF a, b, c, m, n
<1>8. m <= n
  BY <1>6
<1>9. \A i \in 1..m : t[i + (n - m)] = s[i]
  <2> SUFFICES ASSUME NEW i \in 1..m PROVE t[i + (n - m)] = s[i]
    OBVIOUS
  <2> DEFINE j == (i + 1) - a
  <2>1. j \in 1..c /\ i + (n - m) = j + b /\ i + 1 = j + a
    BY <1>6
  <2> HIDE DEF j
  <2>2. t[j + b] = u[j] /\ w[j + a] = u[j] /\ s[i] = w[i + 1]
    BY <1>7, <2>1
  <2> QED  BY <2>1, <2>2
<1>10. IsSuffix(s, t)
  <2>1. Len(s) <= Len(t) /\ \A i \in 1..Len(s) : t[i + (Len(t) - Len(s))] = s[i]
    BY <1>8, <1>9 DEF m, n
  <2> QED  BY <1>2, <1>4, <2>1, SuffixAt
<1> QED  BY <1>10 DEF s, t, w

(* What a start in which nothing fails comes to.                           *)
Outcome(f, found) ==
  LET upTo == DeclaredUpTo(f.lines)
      all == Len(f.lines)
  IN /\ f.closed => found = upTo[all]
     /\ upTo[all] # <<>> => IsSuffix(Tail(upTo[all]), found)

(* On the way the servers of the first lines have been found, and the      *)
(* values of the lines behind them are left to be read.                    *)
Partway(f, read, found) ==
  \/ read = <<>> /\ Outcome(f, found)
  \/ \E k \in 0..Len(f.lines) :
       found = DeclaredUpTo(f.lines)[k] /\ AreOf(f, read, k + 1, Len(f.lines))

Exact ==
  faults = 0 =>
    /\ pc = "answer" => values # NoList
    /\ key = "server" /\ pc \in {"open", "line"} => servers = <<>>
    /\ key = "server" /\ pc = "line" => AreOf(file, values, 1, line - 1)
    /\ key = "server" /\ pc = "answer" => Partway(file, values, servers)
    /\ pc \in {"threads", "avahi", "running"} => Outcome(file, servers)

(* A line that does not count declares nothing, ...                        *)
LEMMA SkippedFacts ==
  ASSUME file \in Files, NEW n \in 1..Len(file.lines), ~Counts(file, n)
  PROVE  DeclaredIn(file.lines[n]) = <<>>
<1>1. CASE file.lines[n].key # "server"
  BY <1>1 DEF DeclaredIn
<1>2. CASE file.lines[n].value = <<>>
  <2>1. Len(file.lines[n].value) = 0
    BY <1>2
  <2>2. 0 \notin 1..2
    OBVIOUS
  <2>3. ServerOf(file.lines[n].value) = <<>>
    BY <2>1, <2>2 DEF ServerOf
  <2> QED  BY <2>3 DEF DeclaredIn
<1> QED  BY <1>1, <1>2 DEF Counts

(* ... and each of the others but an unfinished last one what is read.     *)
LEMMA ReadAsDeclared ==
  ASSUME file \in Files, NEW n \in 1..Len(file.lines), Counts(file, n),
         n # Len(file.lines) \/ file.closed
  PROVE  Addresses(ValueIn(file, n)) = DeclaredIn(file.lines[n])
<1>1. file.lines[n].value \in Seq(Fragments)
  BY FileFacts
<1>2. ValueIn(file, n) = file.lines[n].value /\ file.lines[n].key = "server"
  BY FileFacts DEF ValueIn, Counts
<1> QED  BY <1>1, <1>2, AddressesFacts DEF DeclaredIn

(* A line declares one server at most.                                     *)
LEMMA DeclaredOnce ==
  ASSUME NEW x \in Lines
  PROVE  Len(DeclaredIn(x)) \in {0, 1}
<1>1. Len(ServerOf(x.value)) \in {0, 1}
  <2>1. CASE Len(x.value) \notin 1..2
    BY <2>1 DEF ServerOf
  <2>2. CASE Len(x.value) \in 1..2
    <3>1. \E e : ServerOf(x.value) = <<e>>
      BY <2>2 DEF ServerOf
    <3>2. \A e : Len(<<e>>) = 1
      OBVIOUS
    <3> QED  BY <3>1, <3>2
  <2> QED  BY <2>1, <2>2
<1>2. Len(<<>>) = 0
  OBVIOUS
<1> QED  BY <1>1, <1>2 DEF DeclaredIn

(* When all values are read the start has come to its outcome, ...         *)
LEMMA AllRead ==
  ASSUME file \in Files, NEW found, Partway(file, <<>>, found)
  PROVE  Outcome(file, found)
<1> DEFINE U == DeclaredUpTo(file.lines)
           N == Len(file.lines)
<1>1. /\ N \in Nat /\ file.lines \in Seq(Lines) /\ U \in [0..N -> Seq(Addressed)]
  BY FileFacts, DeclaredUpToFacts
<1> SUFFICES ASSUME NEW k \in 0..N, found = U[k], AreOf(file, <<>>, k + 1, N)
             PROVE  Outcome(file, found)
  BY DEF Partway
<1>2. \A j \in (k + 1)..N : DeclaredIn(file.lines[j]) = <<>>
  <2>1. \A j \in (k + 1)..N : j \in 1..N
    BY <1>1
  <2>2. \A j \in (k + 1)..N : ~Counts(file, j)
    BY AreOfNothing
  <2> QED  BY <2>1, <2>2, SkippedFacts
<1>3. N \in k..N
  BY <1>1
<1>4. U[N] = U[k]
  BY <1>1, <1>2, <1>3, NothingDeclared
<1>5. U[N] \in Seq(Addressed)
  BY <1>1
<1> HIDE DEF U, N
<1>6. U[N] # <<>> => IsSuffix(Tail(U[N]), U[N])
  <2>1. <<>> \in Seq(Addressed) /\ Len(<<>>) = 0
    OBVIOUS
  <2>2. <<>> \o U[N] = U[N]
    BY <1>5, ConcatEmptySeq
  <2> QED  BY <1>5, <2>1, <2>2, SuffixBehind
<1> QED  BY <1>4, <1>6 DEF Outcome, U, N

(* ... and one more of them leads further on the way.                      *)
LEMMA OneMoreRead ==
  ASSUME file \in Files, NEW read \in Seq(Values), read # <<>>, NEW found,
         Partway(file, read, found)
  PROVE  Partway(file, Tail(read), Addresses(Head(read)) \o found)
<1> DEFINE U == DeclaredUpTo(file.lines)
           N == Len(file.lines)
           e == Addresses(Head(read))
<1>1. /\ N \in Nat /\ file.lines \in Seq(Lines) /\ U \in [0..N -> Seq(Addressed)]
      /\ \A n \in 1..N : U[n] = DeclaredIn(file.lines[n]) \o U[n - 1]
  BY FileFacts, DeclaredUpToFacts
<1>2. PICK k \in 0..N : found = U[k] /\ AreOf(file, read, k + 1, N)
  BY DEF Partway
<1>3. k \in Nat /\ k + 1 \in Nat
  BY <1>1
<1>4. PICK n \in (k + 1)..N : /\ Counts(file, n) /\ Head(read) = ValueIn(file, n)
                              /\ \A j \in (k + 1)..(n - 1) : ~Counts(file, j)
                              /\ AreOf(file, Tail(read), n + 1, N)
  BY <1>1, <1>2, <1>3, AreOfTail
<1>5. n \in 1..N /\ n \in 0..N /\ n - 1 \in k..N /\ n - 1 \in 0..N /\ \A j \in (k + 1)..(n - 1) : j \in 1..N
  BY <1>1
<1>6. U[n - 1] = U[k]
  <2>1. \A j \in (k + 1)..(n - 1) : DeclaredIn(file.lines[j]) = <<>>
    BY <1>4, <1>5, SkippedFacts
  <2> QED  BY <1>1, <1>5, <2>1, NothingDeclared
<1> DEFINE d == DeclaredIn(file.lines[n])
<1>7. U[n] = d \o found
  BY <1>1, <1>2, <1>5, <1>6
<1> HIDE DEF U
<1>8. CASE n # N \/ file.closed
  <2>1. e = d
    BY <1>4, <1>5, <1>8, ReadAsDeclared
  <2>2. e \o found = U[n]
    BY <1>7, <2>1
  <2> HIDE DEF e, d
  <2>3. Partway(file, Tail(read), e \o found)
    BY <1>4, <1>5, <2>2 DEF Partway, U
  <2> QED  BY <2>3 DEF e
<1>9. CASE n = N /\ ~file.closed
  <2>1. Tail(read) \in Seq(Values)
    BY HeadTailProperties
  <2>2. AreOf(file, Tail(read), N + 1, N)
    BY <1>4, <1>9
  <2>3. Tail(read) = <<>>
    BY <1>1, <2>1, <2>2, AreOfNoLines
  <2>4. file.lines[n] \in Lines
    BY <1>5, FileFacts
  <2>5. d \in Seq(Addressed) /\ Len(d) \in {0, 1}
    BY <2>4, DeclaredFacts, DeclaredOnce
  <2>6. e \in Seq(Addressed)
    <3>1. Head(read) \in Seq(Fragments)
      BY HeadTailProperties DEF Values
    <3>2. e \in Seq(Entered)
      BY <3>1, AddressesFacts
    <3>3. Entered \subseteq Addressed
      BY PortFacts DEF Entered, Addressed, Ports
    <3> HIDE DEF e
    <3> QED  BY <3>2, <3>3, LenProperties
  <2>7. found \in Seq(Addressed)
    BY <1>1, <1>2
  <2> HIDE DEF d, e
  <2>8. U[N] # <<>> => IsSuffix(Tail(U[N]), e \o found)
    <3>1. U[N] = d \o found
      BY <1>7, <1>9
    <3> QED  BY <2>5, <2>6, <2>7, <3>1, SuffixBehind
  <2>9. Outcome(file, e \o found)
    BY <1>9, <2>8 DEF Outcome, U
  <2>10. Partway(file, Tail(read), e \o found)
    BY <2>3, <2>9 DEF Partway
  <2> QED  BY <2>10 DEF e
<1> QED  BY <1>8, <1>9

--------------------------------------------------------------------------------
(* A start in which nothing has failed so far is one in which the last     *)
(* call works.                                                             *)
LEMMA NothingFails ==
  ASSUME StartInv, faults' = 0
  PROVE  ~Fails /\ (Works => faults = 0)
<1>1. faults \in Nat
  BY FaultsAssumption DEF StartInv, StartTypeOK
<1> QED  BY <1>1 DEF Fails, Works

(* Until config_get_all has read a file nothing is said of it.             *)
LEMMA ExactBefore ==
  StartInv /\ Exact /\ (CopyName \/ Open \/ ReadMode \/ ReadAction \/ MakeServers) => Exact'
<1> SUFFICES ASSUME StartInv, CopyName \/ Open \/ ReadMode \/ ReadAction \/ MakeServers, Exact, faults' = 0
             PROVE  Exact'
  BY DEF Exact
<1>1. ~Fails /\ (Works => faults = 0)
  BY NothingFails
<1>2. CASE CopyName
  <2>1. pc' = "open" /\ key' = "mode"
    BY <1>1, <1>2 DEF CopyName, StartInv, Present
  <2> QED  BY <2>1 DEF Exact
<1>3. CASE Open
  <2>1. /\ pc = "open" /\ pc' = "line" /\ values' = <<>> /\ line' = 1 /\ faults = 0
        /\ file' = file /\ key' = key /\ servers' = servers
    BY <1>1, <1>3 DEF Open
  <2>2. AreOf(file', values', 1, line' - 1)
    <3>1. line' - 1 = 0
      BY <2>1
    <3> QED  BY <2>1, <3>1, AreOfNone
  <2>3. key' = "server" => servers' = <<>>
    BY <2>1 DEF Exact
  <2> QED  BY <2>1, <2>2, <2>3 DEF Exact
<1>4. CASE ReadMode
  BY <1>4 DEF ReadMode, Exact
<1>5. CASE ReadAction
  BY <1>5 DEF ReadAction, Exact
<1>6. CASE MakeServers
  <2>1. pc' = "open" /\ servers' = <<>>
    BY <1>1, <1>6 DEF MakeServers
  <2> QED  BY <2>1 DEF Exact
<1> QED  BY <1>2, <1>3, <1>4, <1>5, <1>6

(* It reads the values of the lines that count, ...                        *)
LEMMA ExactReadLine == StartInv /\ Exact /\ ReadLine => Exact'
<1> SUFFICES ASSUME StartInv, Exact, ReadLine, faults' = 0 PROVE Exact'
  BY DEF Exact
<1>1. ~Fails /\ (Works => faults = 0)
  BY NothingFails
<1>2. /\ pc = "line" /\ line <= Len(file.lines) /\ line' = line + 1 /\ pc' = pc /\ faults = 0
      /\ file' = file /\ key' = key /\ servers' = servers
      /\ \/ Skipped(line) /\ values' = values
         \/ ~Skipped(line) /\ values' = Append(values, Value(line))
  BY <1>1 DEF ReadLine
<1>3. CASE key # "server"
  BY <1>2, <1>3 DEF Exact
<1>4. CASE key = "server"
  <2>1. servers = <<>> /\ AreOf(file, values, 1, line - 1)
    BY <1>2, <1>4 DEF Exact
  <2>2. /\ file \in Files /\ line \in 1..(Len(file.lines) + 1) /\ Len(file.lines) \in Nat
        /\ values \in Seq(Values)
    BY <1>2, FileFacts DEF StartInv, StartTypeOK, Present
  <2>3. line \in 1..Len(file.lines)
    BY <1>2, <2>2
  <2> DEFINE hi == line - 1
  <2>4. hi \in Nat /\ 1 <= hi + 1 /\ hi + 1 = line /\ line' - 1 = line
    BY <1>2, <2>2
  <2> HIDE DEF hi
  <2>5. /\ Value(line) = ValueIn(file, line) /\ ValueIn(file, line) \in Values
        /\ Skipped(line) <=> ~Counts(file, line)
    BY <1>4, <2>2, <2>3, ValueFacts DEF Values
  <2>6. AreOf(file, values, 1, hi)
    BY <2>1 DEF hi
  <2>7. CASE Skipped(line) /\ values' = values
    <3>1. ~Counts(file, hi + 1) /\ 1 \in Nat
      BY <2>4, <2>5, <2>7
    <3>2. AreOf(file, values, 1, hi + 1)
      BY <2>4, <2>6, <3>1, AreOfSkip
    <3> QED  BY <1>2, <2>1, <2>4, <2>7, <3>2 DEF Exact
  <2>8. CASE ~Skipped(line) /\ values' = Append(values, Value(line))
    <3>1. Counts(file, hi + 1) /\ ValueIn(file, hi + 1) \in Values /\ 1 \in Nat
      BY <2>4, <2>5, <2>8
    <3>2. AreOf(file, Append(values, ValueIn(file, hi + 1)), 1, hi + 1)
      BY <2>2, <2>4, <2>6, <3>1, AreOfMore
    <3>3. AreOf(file, values', 1, line)
      BY <2>4, <2>5, <2>8, <3>2
    <3> QED  BY <1>2, <2>1, <2>4, <3>3 DEF Exact
  <2> QED  BY <1>2, <2>7, <2>8
<1> QED  BY <1>3, <1>4

(* ... to the last of the file, ...                                        *)
LEMMA ExactEndOfFile == StartInv /\ Exact /\ EndOfFile => Exact'
<1> SUFFICES ASSUME StartInv, Exact, EndOfFile, faults' = 0 PROVE Exact'
  BY DEF Exact
<1>1. /\ pc = "line" /\ line > Len(file.lines) /\ pc' = "answer" /\ faults = 0
      /\ file' = file /\ key' = key /\ servers' = servers /\ values' = values
  BY DEF EndOfFile
<1>2. values # NoList
  BY <1>1 DEF StartInv, Present
<1>3. ASSUME key = "server" PROVE Partway(file, values, servers)
  <2>1. servers = <<>> /\ AreOf(file, values, 1, line - 1)
    BY <1>1, <1>3 DEF Exact
  <2>2. file \in Files /\ line \in 1..(Len(file.lines) + 1) /\ Len(file.lines) \in Nat
    BY FileFacts DEF StartInv, StartTypeOK
  <2>3. line - 1 = Len(file.lines) /\ 0 \in 0..Len(file.lines) /\ 0 + 1 = 1
    BY <1>1, <2>2
  <2>4. servers = DeclaredUpTo(file.lines)[0]
    BY <2>1, <2>2, FileFacts, DeclaredUpToFacts
  <2> QED  BY <2>1, <2>3, <2>4 DEF Partway
<1> QED  BY <1>1, <1>2, <1>3 DEF Exact

(* ... and read_config_servers makes a server of each.                     *)
LEMMA ExactReadServer == StartInv /\ Exact /\ ReadServer => Exact'
<1> SUFFICES ASSUME StartInv, Exact, ReadServer, faults' = 0 PROVE Exact'
  BY DEF Exact
<1>1. /\ pc = "answer" /\ key = "server" /\ values \notin {NoList, <<>>} /\ faults = 0
      /\ values' = Tail(values) /\ servers' = Addresses(Head(values)) \o servers
      /\ file' = file /\ key' = key /\ pc' = pc
  BY DEF ReadServer, Push
<1>2. file \in Files /\ values \in Seq(Values) /\ Tail(values) # NoList
  BY <1>1, AnswerFacts
<1>3. Partway(file, values', servers')
  <2>1. Partway(file, values, servers)
    BY <1>1 DEF Exact
  <2> QED  BY <1>1, <1>2, <2>1, OneMoreRead
<1> QED  BY <1>1, <1>2, <1>3 DEF Exact

LEMMA ExactServersRead == StartInv /\ Exact /\ ServersRead => Exact'
<1> SUFFICES ASSUME StartInv, Exact, ServersRead, faults' = 0 PROVE Exact'
  BY DEF Exact
<1>1. /\ pc = "answer" /\ key = "server" /\ values \in {NoList, <<>>} /\ faults = 0
      /\ pc' = "threads" /\ file' = file /\ servers' = servers
  BY DEF ServersRead
<1>2. values = <<>> /\ file \in Files
  BY <1>1 DEF Exact, StartInv, StartTypeOK
<1>3. Outcome(file, servers)
  <2>1. Partway(file, <<>>, servers)
    BY <1>1, <1>2 DEF Exact
  <2> QED  BY <1>2, <2>1, AllRead
<1> QED  BY <1>1, <1>3 DEF Exact

(* The threads leave the servers alone.                                    *)
LEMMA ExactCreateThread == StartInv /\ Exact /\ CreateThread => Exact'
<1> SUFFICES ASSUME StartInv, Exact, CreateThread, faults' = 0 PROVE Exact'
  BY DEF Exact
<1>1. ~Fails /\ (Works => faults = 0)
  BY NothingFails
<1>2. /\ pc \in {"threads", "avahi"} /\ pc' \in {"avahi", "running"} /\ faults = 0
      /\ file' = file /\ servers' = servers
  BY <1>1 DEF CreateThread
<1> QED  BY <1>2 DEF Exact

LEMMA ExactNext == StartInv /\ Exact /\ [StartNext]_startVars => Exact'
<1> SUFFICES ASSUME StartInv, Exact, [StartNext]_startVars PROVE Exact'
  OBVIOUS
<1>1. CASE UNCHANGED startVars
  <2>1. /\ file' = file /\ pc' = pc /\ key' = key /\ line' = line /\ values' = values
        /\ servers' = servers /\ faults' = faults
    BY <1>1 DEF startVars
  <2> QED  BY <2>1 DEF Exact
<1>2. CASE ReadServerFails
  <2>1. faults \in Nat
    BY FaultsAssumption DEF StartInv, StartTypeOK
  <2>2. PICK k \in Nat : (k > 0 /\ FailTimes(k)) \/ FailTimes(k + 1)
    BY <1>2, LenProperties DEF ReadServerFails
  <2>3. faults' # 0
    BY <2>1, <2>2 DEF FailTimes
  <2> QED  BY <2>3 DEF Exact
<1> QED  BY <1>1, <1>2, ExactBefore, ExactReadLine, ExactEndOfFile, ExactReadServer, ExactServersRead,
            ExactCreateThread DEF StartNext

LEMMA StartInvariance == StartSpec => [](StartInv /\ Exact)
<1>1. StartInit => StartInv /\ Exact
  BY StartInvInit DEF StartInit, Exact
<1>2. (StartInv /\ Exact) /\ [StartNext]_startVars => (StartInv /\ Exact)'
  BY StartInvNext, ExactNext
<1> QED  BY <1>1, <1>2, PTL DEF StartSpec

(* Whatever fails at the start of a client, its state stays of its type.   *)
THEOREM StartTypeCorrect == StartSpec => []StartTypeOK
<1>1. StartInv => StartTypeOK
  BY DEF StartInv
<1> QED  BY <1>1, StartInvariance, PTL

LEMMA ExactMeansAsWritten == StartInv /\ Exact => ServersAsWritten
<1> SUFFICES ASSUME StartInv, Exact, pc = "running"
             PROVE  /\ faults = 0 /\ file.closed => servers = Declared
                    /\ faults = 0 /\ Declared # <<>> => IsSuffix(Tail(Declared), servers)
                    /\ file.closed => \A i \in 1..Len(servers) : \E n \in 1..Len(file.lines) :
                         /\ file.lines[n].key = "server"
                         /\ Understood(servers[i], file.lines[n].value, faults)
  BY DEF ServersAsWritten
<1>1. faults = 0 => Outcome(file, servers)
  BY DEF Exact
<1>2. /\ faults = 0 /\ file.closed => servers = Declared
      /\ faults = 0 /\ Declared # <<>> => IsSuffix(Tail(Declared), servers)
  BY <1>1 DEF Outcome, Declared
<1>3. AllNamed(file, servers, faults)
  BY DEF StartInv, Present, Sourced
<1>4. file.closed => \A n : ValueIn(file, n) = file.lines[n].value
  BY DEF ValueIn
<1> QED  BY <1>2, <1>3, <1>4 DEF AllNamed, Named

(* Unless a call has failed, a client that runs calls the servers that its *)
(* configuration file comes to, on port numbers of which 16 bits are kept; *)
(* and whatever fails, each server it calls is that of a line, or what so  *)
(* many failures can make of it.                                           *)
THEOREM ServersAreRead == StartSpec => []ServersAsWritten
BY StartInvariance, ExactMeansAsWritten, PTL

================================================================================
