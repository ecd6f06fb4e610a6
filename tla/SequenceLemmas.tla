----------------------------- MODULE SequenceLemmas -----------------------------
(***************************************************************************)
(* Facts about sequences the proofs share: the set of their elements and   *)
(* the absence of duplicates when a queue grows or loses its head, and     *)
(* what stands where when an entry is put in front or taken out.           *)
(***************************************************************************)
EXTENDS Chains, Integers, SequencesExt, SequenceTheorems, FiniteSetTheorems, WellFoundedInduction, TLAPS

(* Append adds one element to the set of a sequence's elements.            *)
LEMMA ToSetAppend ==
  ASSUME NEW S, NEW s \in Seq(S), NEW e \in S
  PROVE  ToSet(Append(s, e)) = ToSet(s) \cup {e}
<1>1. /\ Len(Append(s, e)) = Len(s) + 1
      /\ \A i \in 1..Len(s) : Append(s, e)[i] = s[i]
      /\ Append(s, e)[Len(s) + 1] = e
  BY AppendProperties
<1>2. DOMAIN s = 1..Len(s) /\ DOMAIN Append(s, e) = 1..(Len(s) + 1) /\ Len(s) \in Nat
  BY <1>1, LenProperties, AppendProperties
<1>3. 1..(Len(s) + 1) = 1..Len(s) \cup {Len(s) + 1}
  BY <1>2
<1> QED  BY <1>1, <1>2, <1>3 DEF ToSet

(* A sequence without duplicates stays one when a new element is added.    *)
LEMMA InjectiveAppend ==
  ASSUME NEW S, NEW s \in Seq(S), NEW e \in S, IsInjective(s), e \notin ToSet(s)
  PROVE  IsInjective(Append(s, e))
<1>1. /\ Len(Append(s, e)) = Len(s) + 1
      /\ \A i \in 1..Len(s) : Append(s, e)[i] = s[i]
      /\ Append(s, e)[Len(s) + 1] = e
  BY AppendProperties
<1>2. DOMAIN s = 1..Len(s) /\ DOMAIN Append(s, e) = 1..(Len(s) + 1) /\ Len(s) \in Nat
  BY <1>1, LenProperties, AppendProperties
<1>3. \A i \in 1..Len(s) : s[i] # e
  BY <1>2 DEF ToSet
<1>4. \A i, j \in 1..Len(s) : s[i] = s[j] => i = j
  BY <1>2 DEF IsInjective
<1> QED  BY <1>1, <1>2, <1>3, <1>4 DEF IsInjective

(* In a sequence without duplicates the head is not in the tail, and the   *)
(* tail has the other elements, without duplicates.                        *)
LEMMA InjectiveTail ==
  ASSUME NEW S, NEW s \in Seq(S), s # <<>>, IsInjective(s)
  PROVE  /\ Head(s) \in S
         /\ Head(s) \in ToSet(s)
         /\ Tail(s) \in Seq(S)
         /\ Len(Tail(s)) = Len(s) - 1
         /\ IsInjective(Tail(s))
         /\ ToSet(Tail(s)) = ToSet(s) \ {Head(s)}
<1>1. /\ Len(s) \in Nat \ {0}
      /\ DOMAIN s = 1..Len(s)
      /\ Head(s) \in S
      /\ Head(s) = s[1]
      /\ Tail(s) \in Seq(S)
      /\ Len(Tail(s)) = Len(s) - 1
      /\ DOMAIN Tail(s) = 1..(Len(s) - 1)
      /\ \A i \in 1..(Len(s) - 1) : Tail(s)[i] = s[i + 1]
  BY HeadTailProperties, EmptySeq, LenProperties
<1>2. \A i, j \in 1..Len(s) : s[i] = s[j] => i = j
  BY <1>1 DEF IsInjective
<1>3. IsInjective(Tail(s))
  <2>1. ASSUME NEW i \in 1..(Len(s) - 1), NEW j \in 1..(Len(s) - 1), Tail(s)[i] = Tail(s)[j]
        PROVE  i = j
    <3>1. i + 1 \in 1..Len(s) /\ j + 1 \in 1..Len(s)
      BY <1>1
    <3> QED  BY <1>1, <1>2, <2>1, <3>1
  <2> QED  BY <1>1, <2>1 DEF IsInjective
<1>4. ASSUME NEW e
      PROVE  e \in ToSet(Tail(s)) <=> e \in ToSet(s) /\ e # Head(s)
  <2>1. e \in ToSet(Tail(s)) <=> \E i \in 1..(Len(s) - 1) : e = s[i + 1]
    BY <1>1 DEF ToSet
  <2>2. e \in ToSet(s) <=> \E i \in 1..Len(s) : e = s[i]
    BY <1>1 DEF ToSet
  <2>3. ASSUME NEW i \in 1..(Len(s) - 1), e = s[i + 1]
        PROVE  e \in ToSet(s) /\ e # Head(s)
    <3>1. i + 1 \in 1..Len(s) /\ 1 \in 1..Len(s) /\ i + 1 # 1
      BY <1>1
    <3> QED  BY <1>1, <1>2, <2>2, <2>3, <3>1
  <2>4. ASSUME NEW i \in 1..Len(s), e = s[i], e # Head(s)
        PROVE  e \in ToSet(Tail(s))
    <3>1. i # 1
      BY <1>1, <2>4
    <3>2. i - 1 \in 1..(Len(s) - 1) /\ (i - 1) + 1 = i
      BY <1>1, <3>1
    <3> QED  BY <2>1, <2>4, <3>2
  <2> QED  BY <2>1, <2>2, <2>3, <2>4
<1>5. Head(s) \in ToSet(s)
  BY <1>1 DEF ToSet
<1> QED  BY <1>1, <1>3, <1>4, <1>5

(* What RemoveAt leaves where.                                             *)
LEMMA RemoveAtEntries ==
  ASSUME NEW S, NEW s \in Seq(S), NEW i \in 1..Len(s)
  PROVE  /\ RemoveAt(s, i) \in Seq(S)
         /\ Len(RemoveAt(s, i)) = Len(s) - 1
         /\ \A j \in 1..(Len(s) - 1) :
              RemoveAt(s, i)[j] = IF j < i THEN s[j] ELSE s[j + 1]
PROOF
  <1>1. /\ SubSeq(s, 1, i - 1) \in Seq(S)
        /\ Len(SubSeq(s, 1, i - 1)) = i - 1
        /\ \A j \in 1..(i - 1) : SubSeq(s, 1, i - 1)[j] = s[j]
    BY SMT
  <1>2. /\ SubSeq(s, i + 1, Len(s)) \in Seq(S)
        /\ Len(SubSeq(s, i + 1, Len(s))) = Len(s) - i
        /\ \A j \in 1..(Len(s) - i) : SubSeq(s, i + 1, Len(s))[j] = s[i + j]
    BY SMT
  <1> DEFINE front == SubSeq(s, 1, i - 1)
             back == SubSeq(s, i + 1, Len(s))
             both == front \o back
  <1>3. /\ both \in Seq(S)
        /\ Len(both) = Len(front) + Len(back)
        /\ \A j \in 1..(Len(front) + Len(back)) :
             both[j] = IF j <= Len(front) THEN front[j] ELSE back[j - Len(front)]
    BY <1>1, <1>2, ConcatProperties
  <1>4. RemoveAt(s, i) = both
    BY DEF RemoveAt
  <1>5. Len(s) \in Nat /\ i \in Nat
    BY LenProperties
  <1> HIDE DEF front, back, both
  <1>6. Len(front) = i - 1 /\ Len(back) = Len(s) - i
    BY <1>1, <1>2 DEF front, back
  <1>7. ASSUME NEW j \in 1..(Len(s) - 1)
        PROVE  both[j] = IF j < i THEN s[j] ELSE s[j + 1]
    <2>1. CASE j < i
      BY <1>1, <1>3, <1>5, <1>6, <2>1 DEF front
    <2>2. CASE j >= i
      <3>1. both[j] = back[j - i + 1] /\ j - i + 1 \in 1..(Len(s) - i)
        BY <1>3, <1>5, <1>6, <2>2
      <3>2. back[j - i + 1] = s[i + (j - i + 1)]
        BY <1>2, <3>1 DEF back
      <3> QED
        BY <1>5, <2>2, <3>1, <3>2
    <2> QED
      BY <1>5, <2>1, <2>2
  <1>8. both \in Seq(S) /\ Len(both) = Len(s) - 1
    BY <1>3, <1>5, <1>6
  <1> QED
    BY <1>4, <1>7, <1>8

(* An entry put in front.                                                  *)
LEMMA FrontEntries ==
  ASSUME NEW S, NEW s \in Seq(S), NEW e \in S
  PROVE  /\ <<e>> \o s \in Seq(S)
         /\ Len(<<e>> \o s) = Len(s) + 1
         /\ (<<e>> \o s)[1] = e
         /\ \A j \in 1..Len(s) : (<<e>> \o s)[j + 1] = s[j]
PROOF
  BY SMT

(* A reversed sequence has the same entries, counted from the end.         *)
LEMMA ReverseEntries ==
  ASSUME NEW S, NEW s \in Seq(S)
  PROVE  /\ Reverse(s) \in Seq(S)
         /\ Len(Reverse(s)) = Len(s)
         /\ \A j \in 1..Len(s) : Reverse(s)[j] = s[Len(s) - j + 1]
PROOF
  <1> DEFINE r == [j \in 1..Len(s) |-> s[(Len(s) - j) + 1]]
  <1>1. \A j \in 1..Len(s) : s[(Len(s) - j) + 1] \in S
    BY SMT
  <1>2. r \in Seq(S) /\ Len(r) = Len(s)
    BY <1>1, IsASeq, LenProperties
  <1> QED
    BY <1>2 DEF Reverse

(* A function on 1..n is a sequence.                                       *)
LEMMA SequenceOf ==
  ASSUME NEW S, NEW n \in Nat, NEW f \in [1..n -> S]
  PROVE  f \in Seq(S) /\ Len(f) = n
<1>1. f \in Seq(S)
  BY SeqDef
<1>2. f \in [1..Len(f) -> S] /\ Len(f) \in Nat
  BY <1>1, LenProperties
<1> QED  BY <1>1, <1>2

(* Where the elements stand of two sequences, one after the other, ...     *)
LEMMA ConcatAt ==
  ASSUME NEW S, NEW s \in Seq(S), NEW t \in Seq(S)
  PROVE  /\ Len(s) \in Nat /\ Len(t) \in Nat
         /\ s \o t \in Seq(S)
         /\ Len(s \o t) = Len(s) + Len(t)
         /\ \A i \in 1..Len(s) : (s \o t)[i] = s[i]
         /\ \A i \in 1..Len(t) : (s \o t)[i + Len(s)] = t[i]
<1> DEFINE u == s \o t
<1>1. /\ u \in Seq(S)
      /\ Len(u) = Len(s) + Len(t)
      /\ \A i \in 1..(Len(s) + Len(t)) : u[i] = IF i <= Len(s) THEN s[i] ELSE t[i - Len(s)]
  BY ConcatProperties
<1>2. Len(s) \in Nat /\ Len(t) \in Nat
  BY LenProperties
<1> HIDE DEF u
<1>3. ASSUME NEW i \in 1..Len(s) PROVE u[i] = s[i]
  <2>1. i \in 1..(Len(s) + Len(t)) /\ i <= Len(s)
    BY <1>2
  <2> QED  BY <1>1, <2>1
<1>4. ASSUME NEW i \in 1..Len(t) PROVE u[i + Len(s)] = t[i]
  <2>1. i + Len(s) \in 1..(Len(s) + Len(t)) /\ ~(i + Len(s) <= Len(s)) /\ (i + Len(s)) - Len(s) = i
    BY <1>2
  <2> QED  BY <1>1, <2>1
<1> QED  BY <1>1, <1>2, <1>3, <1>4 DEF u

(* ... and that they are distinct if the sequences have none in common.    *)
LEMMA InjectiveConcat ==
  ASSUME NEW S, NEW s \in Seq(S), NEW t \in Seq(S)
  PROVE  /\ s \o t \in Seq(S)
         /\ ToSet(s \o t) = ToSet(s) \cup ToSet(t)
         /\ IsInjective(s) /\ IsInjective(t) /\ ToSet(s) \cap ToSet(t) = {} => IsInjective(s \o t)
<1> DEFINE u == s \o t
<1>1. /\ u \in Seq(S)
      /\ Len(u) = Len(s) + Len(t)
      /\ \A i \in 1..(Len(s) + Len(t)) : u[i] = IF i <= Len(s) THEN s[i] ELSE t[i - Len(s)]
  BY ConcatProperties
<1>2. /\ Len(s) \in Nat /\ Len(t) \in Nat
      /\ DOMAIN s = 1..Len(s) /\ DOMAIN t = 1..Len(t) /\ DOMAIN u = 1..Len(u)
  BY <1>1, LenProperties
<1> HIDE DEF u
<1>3. \A i \in 1..Len(s) : i \in 1..Len(u) /\ u[i] = s[i]
  BY <1>1, <1>2
<1>4. \A i \in 1..Len(t) : i + Len(s) \in 1..Len(u) /\ u[i + Len(s)] = t[i]
  <2> TAKE i \in 1..Len(t)
  <2>1. i + Len(s) \in 1..Len(u) /\ ~(i + Len(s) <= Len(s)) /\ (i + Len(s)) - Len(s) = i
    BY <1>1, <1>2
  <2> QED  BY <1>1, <2>1
<1>5. \A i \in 1..Len(u) : \/ i \in 1..Len(s) /\ u[i] = s[i]
                           \/ i - Len(s) \in 1..Len(t) /\ u[i] = t[i - Len(s)]
  BY <1>1, <1>2
<1>6. ToSet(u) = ToSet(s) \cup ToSet(t)
  <2>1. \A e : /\ e \in ToSet(u) <=> \E i \in 1..Len(u) : u[i] = e
               /\ e \in ToSet(s) <=> \E i \in 1..Len(s) : s[i] = e
               /\ e \in ToSet(t) <=> \E i \in 1..Len(t) : t[i] = e
    BY <1>2 DEF ToSet
  <2>2. ASSUME NEW e \in ToSet(u) PROVE e \in ToSet(s) \cup ToSet(t)
    BY <1>5, <2>1
  <2>3. ASSUME NEW e \in ToSet(s) \cup ToSet(t) PROVE e \in ToSet(u)
    BY <1>3, <1>4, <2>1
  <2> QED  BY <2>2, <2>3
<1>7. ASSUME IsInjective(s), IsInjective(t), ToSet(s) \cap ToSet(t) = {}
      PROVE  IsInjective(u)
  <2>1. /\ \A i, j \in 1..Len(s) : s[i] = s[j] => i = j
        /\ \A i, j \in 1..Len(t) : t[i] = t[j] => i = j
        /\ \A i \in 1..Len(s), j \in 1..Len(t) : s[i] # t[j]
    BY <1>2, <1>7 DEF IsInjective, ToSet
  <2>2. ASSUME NEW i \in 1..Len(u), NEW j \in 1..Len(u), u[i] = u[j]
        PROVE  i = j
    <3>1. CASE i \in 1..Len(s) /\ u[i] = s[i]
      BY <1>5, <2>1, <2>2, <3>1
    <3>2. CASE i - Len(s) \in 1..Len(t) /\ u[i] = t[i - Len(s)]
      <4>1. j - Len(s) \in 1..Len(t) /\ u[j] = t[j - Len(s)]
        BY <1>5, <2>1, <2>2, <3>2
      <4>2. i - Len(s) = j - Len(s)
        BY <2>1, <2>2, <3>2, <4>1
      <4> QED  BY <1>2, <4>2
    <3> QED  BY <1>5, <3>1, <3>2
  <2> QED  BY <1>2, <2>2 DEF IsInjective
<1> QED  BY <1>1, <1>6, <1>7 DEF u

(* The elements of a beginning of a sequence, and of all of it.            *)
LEMMA PrefixElements ==
  ASSUME NEW S, NEW s \in Seq(S), NEW n \in 0..Len(s)
  PROVE  /\ ToSet(SubSeq(s, 1, n)) = {s[i] : i \in 1..n}
         /\ ToSet(s) = {s[i] : i \in 1..Len(s)}
<1>1. Len(s) \in Nat /\ DOMAIN s = 1..Len(s) /\ n \in Nat
  BY LenProperties
<1> DEFINE t == SubSeq(s, 1, n)
<1>2. t \in Seq(S) /\ Len(t) = n /\ \A i \in 1..n : t[i] = s[i]
  BY <1>1
<1>3. DOMAIN t = 1..n
  BY <1>2, LenProperties
<1> HIDE DEF t
<1>4. ToSet(t) = {s[i] : i \in 1..n}
  BY <1>2, <1>3 DEF ToSet
<1>5. ToSet(s) = {s[i] : i \in 1..Len(s)}
  BY <1>1 DEF ToSet
<1> QED  BY <1>4, <1>5 DEF t

--------------------------------------------------------------------------------
(* A set of numbers has a least one, ...                                   *)
LEMMA LeastNumber ==
  ASSUME NEW T \in SUBSET Nat, T # {}
  PROVE  \E x \in T : \A y \in T : x <= y
<1> DEFINE R == OpToRel(<, Nat)
<1>1. \A x, y \in Nat : x < y => <<x, y>> \in R
  BY DEF OpToRel
<1>2. IsWellFoundedOn(R, Nat)
  BY NatLessThanWellFounded
<1> HIDE DEF R
<1>3. PICK x \in T : \A y \in T : ~ (<<y, x>> \in R)
  BY <1>2, WFMin
<1>4. \A y \in T : ~(y < x)
  BY <1>1, <1>3
<1> QED BY <1>4

(* ... so that a set that has 0 and with each number the next has them all.  *)
LEMMA SetInduction ==
  ASSUME NEW S, 0 \in S, \A n \in Nat : n \in S => n + 1 \in S
  PROVE  Nat \subseteq S
<1> SUFFICES ASSUME Nat \ S # {} PROVE FALSE
  OBVIOUS
<1>1. Nat \ S \in SUBSET Nat
  OBVIOUS
<1>2. PICK x \in Nat \ S : \A y \in Nat \ S : x <= y
  BY <1>1, LeastNumber
<1>3. x - 1 \in Nat /\ x - 1 \in S /\ (x - 1) + 1 = x
  BY <1>2
<1> QED BY <1>2, <1>3

(* What a loop of N steps computes.                                        *)
Computes(f, S, base, N, step) ==
  /\ f \in [0..N -> S]
  /\ f[0] = base
  /\ \A n \in 1..N : f[n] = step[<<n, f[n - 1]>>]

(* There is such a function, if each step stays within a set.              *)
LEMMA Recursion ==
  ASSUME NEW S, NEW base \in S, NEW N \in Nat, NEW step \in [(1..N) \X S -> S]
  PROVE  \E f : Computes(f, S, base, N, step)
<1> DEFINE Upto(f, k) == f = [n \in 0..k |-> IF n = 0 THEN base ELSE step[<<n, f[n - 1]>>]]
           K == {k \in Nat : k <= N => \E f \in [0..k -> S] : Upto(f, k)}
<1>1. 0 \in K
  <2> DEFINE f == [n \in 0..0 |-> base]
  <2>1. f \in [0..0 -> S] /\ Upto(f, 0)
    OBVIOUS
  <2> HIDE DEF f, Upto
  <2> QED  BY <2>1
<1>2. ASSUME NEW k \in Nat, k \in K
      PROVE  k + 1 \in K
  <2> SUFFICES ASSUME k + 1 <= N
               PROVE  \E f \in [0..(k + 1) -> S] : Upto(f, k + 1)
    OBVIOUS
  <2>1. PICK f \in [0..k -> S] : Upto(f, k)
    BY <1>2
  <2>2. \A n \in 0..k : f[n] = IF n = 0 THEN base ELSE step[<<n, f[n - 1]>>]
    BY <2>1
  <2> DEFINE g == [n \in 0..(k + 1) |-> IF n = 0 THEN base ELSE step[<<n, f[n - 1]>>]]
  <2>3. \A n \in 0..k : n \in 0..(k + 1) /\ g[n] = f[n]
    BY <2>2
  <2>4. \A n \in 0..(k + 1) : n # 0 => n \in 1..N /\ n - 1 \in 0..k /\ f[n - 1] \in S /\ g[n - 1] = f[n - 1]
    <3> SUFFICES ASSUME NEW n \in 0..(k + 1), n # 0
                 PROVE  n \in 1..N /\ n - 1 \in 0..k /\ f[n - 1] \in S /\ g[n - 1] = f[n - 1]
      OBVIOUS
    <3>1. n \in 1..N /\ n - 1 \in 0..k
      OBVIOUS
    <3> HIDE DEF g
    <3> QED  BY <2>1, <2>3, <3>1
  <2>5. Upto(g, k + 1)
    BY <2>4
  <2>6. g \in [0..(k + 1) -> S]
    BY <2>4
  <2> HIDE DEF g, Upto
  <2> QED  BY <2>5, <2>6
<1>3. N \in K
  <2> HIDE DEF K
  <2>1. Nat \subseteq K
    BY <1>1, <1>2, SetInduction
  <2> QED  BY <2>1
<1>4. PICK f \in [0..N -> S] : Upto(f, N)
  BY <1>3
<1>5. Computes(f, S, base, N, step)
  BY <1>4 DEF Computes
<1> QED  BY <1>5

--------------------------------------------------------------------------------
(* The cells s are those from c on along these pointers, to the null.      *)
LinkedIn(cells, null, next, s, c) ==
  /\ s \in Seq(cells) /\ Len(s) >= 1 /\ s[1] = c
  /\ \A i, j \in 1..Len(s) : s[i] = s[j] => i = j
  /\ \A i \in 1..(Len(s) - 1) : next[s[i]] = s[i + 1]
  /\ next[s[Len(s)]] = null

(* The recursion of Chain.                                                 *)
Longer(cells, next) ==
  [s \in Seq(cells) |-> IF next[s[Len(s)]] \in cells THEN Append(s, next[s[Len(s)]]) ELSE s]
Follows(cells, upTo, next, c, k) ==
  upTo = [n \in 0..k |-> IF n = 0 THEN <<c>> ELSE Longer(cells, next)[upTo[n - 1]]]

(* One more cell, if there is one, and the cells are still a sequence.      *)
LEMMA LongerFacts ==
  ASSUME NEW cells, NEW next, NEW s \in Seq(cells)
  PROVE  /\ Longer(cells, next)[s] \in Seq(cells)
         /\ Longer(cells, next)[s] =
              IF next[s[Len(s)]] \in cells THEN Append(s, next[s[Len(s)]]) ELSE s
<1>1. next[s[Len(s)]] \in cells => Append(s, next[s[Len(s)]]) \in Seq(cells)
  BY AppendProperties
<1> QED  BY <1>1 DEF Longer

(* There is such a function, ...                                           *)
LEMMA FollowsExists ==
  ASSUME NEW cells, NEW next, NEW c \in cells, NEW k \in Nat
  PROVE  \E upTo : Follows(cells, upTo, next, c, k)
<1> DEFINE S == Seq(cells)
           step == [p \in (1..k) \X S |-> Longer(cells, next)[p[2]]]
<1>1. <<c>> \in S /\ step \in [(1..k) \X S -> S]
  BY LongerFacts
<1>2. \A n \in 1..k, x \in S : step[<<n, x>>] = Longer(cells, next)[x]
  OBVIOUS
<1> HIDE DEF S, step
<1>3. PICK f : Computes(f, S, <<c>>, k, step)
  BY <1>1, Recursion
<1>4. f \in [0..k -> S] /\ f[0] = <<c>> /\ \A n \in 1..k : f[n] = step[<<n, f[n - 1]>>]
  BY <1>3 DEF Computes
<1>5. \A n \in 0..k : n # 0 => n \in 1..k /\ f[n - 1] \in S
  <2>1. \A n \in 0..k : n # 0 => n \in 1..k /\ n - 1 \in 0..k
    OBVIOUS
  <2> QED  BY <1>4, <2>1
<1>6. \A n \in 0..k : f[n] = IF n = 0 THEN <<c>> ELSE Longer(cells, next)[f[n - 1]]
  BY <1>2, <1>4, <1>5
<1>7. Follows(cells, f, next, c, k)
  BY <1>4, <1>6 DEF Follows
<1> QED  BY <1>7

(* ... and so the operator finds the cells of a list.                      *)
LEMMA ChainOf ==
  ASSUME NEW cells, NEW null, null \notin cells, IsFiniteSet(cells),
         NEW next, NEW c, NEW s, LinkedIn(cells, null, next, s, c)
  PROVE  Chain(cells, next, c) = s
<1> DEFINE l == Len(s)
           k == Cardinality(cells)
           upTo == CHOOSE f : Follows(cells, f, next, c, k)
<1>0. IsFiniteSet(cells) /\ k = Cardinality(cells)
  OBVIOUS
<1>1. k \in Nat
  BY FS_CardinalityType
<1>2. /\ s \in Seq(cells) /\ l \in Nat /\ l >= 1 /\ s[1] = c
      /\ s \in [1..l -> cells]
      /\ \A i, j \in 1..l : s[i] = s[j] => i = j
      /\ \A i \in 1..(l - 1) : next[s[i]] = s[i + 1]
      /\ next[s[l]] = null
  BY LenProperties DEF LinkedIn
<1>3. c \in cells
  BY <1>2
<1>4. Follows(cells, upTo, next, c, k)
  BY <1>1, <1>3, FollowsExists
<1>5. Chain(cells, next, c) = upTo[k]
  BY <1>3 DEF Chain, Follows, Longer
<1> HIDE DEF upTo, l, k
<1>6. l <= k
  <2>1. s \in Injection(1..l, cells)
    BY <1>2 DEF Injection, IsInjective
  <2>2. IsFiniteSet(1..l) /\ Cardinality(1..l) = l
    BY <1>2, FS_Interval
  <2>3. Cardinality(1..l) <= Cardinality(cells)
    BY <1>0, <2>1, FS_Injection
  <2> QED  BY <1>0, <2>2, <2>3
<1>7. /\ upTo[0] = <<c>>
      /\ \A n \in 0..(k - 1) : upTo[n + 1] = Longer(cells, next)[upTo[n]]
  <2>1. \A n \in 0..k : upTo[n] = IF n = 0 THEN <<c>> ELSE Longer(cells, next)[upTo[n - 1]]
    BY <1>4 DEF Follows
  <2>2. \A n \in 0..(k - 1) : n + 1 \in 0..k /\ n + 1 # 0 /\ (n + 1) - 1 = n
    BY <1>1
  <2> QED  BY <1>1, <2>1, <2>2
<1> DEFINE Prefix(t, n) == /\ t \in Seq(cells)
                           /\ Len(t) = IF n < l THEN n + 1 ELSE l
                           /\ \A i \in 1..Len(t) : t[i] = s[i]
           K == {n \in Nat : n <= k => Prefix(upTo[n], n)}
<1>8. 0 \in K
  <2>1. <<c>> \in Seq(cells) /\ Len(<<c>>) = 1 /\ <<c>>[1] = c
    BY <1>3
  <2>2. Len(<<c>>) = IF 0 < l THEN 0 + 1 ELSE l
    BY <1>2, <2>1
  <2>3. \A i \in 1..Len(<<c>>) : <<c>>[i] = s[i]
    BY <1>2, <2>1
  <2> QED  BY <1>7, <2>1, <2>2, <2>3
<1>9. ASSUME NEW n \in Nat, n \in K
      PROVE  n + 1 \in K
  <2> SUFFICES ASSUME n + 1 <= k PROVE Prefix(upTo[n + 1], n + 1)
    OBVIOUS
  <2> DEFINE t == upTo[n]
  <2>1. n \in 0..(k - 1) /\ Prefix(t, n)
    BY <1>1, <1>9
  <2>2. upTo[n + 1] = IF next[t[Len(t)]] \in cells THEN Append(t, next[t[Len(t)]]) ELSE t
    BY <1>7, <2>1, LongerFacts
  <2> HIDE DEF t
  <2>3. Len(t) \in 1..l /\ t[Len(t)] = s[Len(t)]
    BY <1>2, <2>1
  <2>4. CASE n + 1 < l
    <3>1. Len(t) = n + 1 /\ n + 1 \in 1..(l - 1) /\ (n + 1) + 1 \in 1..l
      BY <1>2, <2>1, <2>4
    <3>2. next[t[Len(t)]] = s[(n + 1) + 1] /\ s[(n + 1) + 1] \in cells
      BY <1>2, <2>3, <3>1
    <3>3. upTo[n + 1] = Append(t, s[(n + 1) + 1])
      BY <2>2, <3>2
    <3>4. /\ Append(t, s[(n + 1) + 1]) \in Seq(cells)
          /\ Len(Append(t, s[(n + 1) + 1])) = (n + 1) + 1
          /\ \A i \in 1..(n + 1) : Append(t, s[(n + 1) + 1])[i] = t[i]
          /\ Append(t, s[(n + 1) + 1])[(n + 1) + 1] = s[(n + 1) + 1]
      BY <2>1, <3>1, <3>2, AppendProperties
    <3>5. \A i \in 1..((n + 1) + 1) : i \in 1..(n + 1) \/ i = (n + 1) + 1
      OBVIOUS
    <3> QED  BY <2>1, <2>4, <3>1, <3>3, <3>4, <3>5
  <2>5. CASE ~(n + 1 < l)
    <3>1. Len(t) = l
      BY <1>2, <2>1, <2>5
    <3>2. upTo[n + 1] = t
      BY <1>2, <2>2, <2>3, <3>1
    <3> QED  BY <2>1, <2>5, <3>1, <3>2
  <2> QED  BY <2>4, <2>5
<1>10. Prefix(upTo[k], k)
  <2> HIDE DEF K
  <2>1. Nat \subseteq K
    BY <1>8, <1>9, SetInduction
  <2> QED  BY <1>1, <2>1 DEF K
<1>11. Len(upTo[k]) = Len(s) /\ \A i \in 1..Len(s) : upTo[k][i] = s[i]
  <2>1. ~(k < l)
    BY <1>1, <1>2, <1>6
  <2>2. Len(upTo[k]) = l
    BY <1>10, <2>1
  <2> QED  BY <1>10, <2>2 DEF l
<1>12. upTo[k] = s
  BY <1>2, <1>10, <1>11, SeqEqual
<1> QED  BY <1>5, <1>12

(* What that says of the cells of a list.                                  *)
LEMMA LinkedInFacts ==
  ASSUME NEW cells, NEW null, null \notin cells,
         NEW next, NEW c, NEW s, LinkedIn(cells, null, next, s, c)
  PROVE  /\ Len(s) \in Nat /\ Len(s) >= 1
         /\ s \in Seq(cells) /\ s \in [1..Len(s) -> cells] /\ DOMAIN s = 1..Len(s)
         /\ s[1] = c /\ c \in cells /\ c \in ToSet(s)
         /\ \A x : x \in ToSet(s) <=> \E i \in 1..Len(s) : x = s[i]
         /\ ToSet(s) \subseteq cells
         /\ IsInjective(s)
         /\ \A i, j \in 1..Len(s) : s[i] = s[j] => i = j
         /\ \A i \in 1..(Len(s) - 1) : next[s[i]] = s[i + 1]
         /\ next[s[Len(s)]] = null
         /\ \A i \in 1..Len(s) : s[i] # null
         /\ next[c] = null <=> Len(s) = 1
         /\ Len(s) >= 2 => next[c] = s[2]
<1>1. Len(s) \in Nat /\ s \in [1..Len(s) -> cells] /\ DOMAIN s = 1..Len(s)
  BY LenProperties DEF LinkedIn
<1>2. /\ Len(s) >= 1 /\ s[1] = c /\ s \in Seq(cells)
      /\ \A i, j \in 1..Len(s) : s[i] = s[j] => i = j
      /\ \A i \in 1..(Len(s) - 1) : next[s[i]] = s[i + 1]
      /\ next[s[Len(s)]] = null
  BY DEF LinkedIn
<1>3. \A x : x \in ToSet(s) <=> \E i \in 1..Len(s) : x = s[i]
  BY <1>1 DEF ToSet
<1>4. c \in cells /\ c \in ToSet(s) /\ ToSet(s) \subseteq cells
  BY <1>1, <1>2, <1>3
<1>5. IsInjective(s)
  BY <1>1, <1>2 DEF IsInjective
<1>6. \A i \in 1..Len(s) : s[i] # null
  BY <1>1
<1>7. Len(s) >= 2 => next[c] = s[2] /\ next[c] # null
  <2> SUFFICES ASSUME Len(s) >= 2 PROVE next[c] = s[2] /\ next[c] # null
    OBVIOUS
  <2>1. 1 \in 1..(Len(s) - 1) /\ 2 \in 1..Len(s)
    BY <1>1
  <2>2. next[s[1]] = s[1 + 1]
    BY <1>2, <2>1
  <2> QED  BY <1>2, <1>6, <2>1, <2>2
<1>8. Len(s) = 1 => next[c] = null
  BY <1>2
<1> QED  BY <1>1, <1>2, <1>3, <1>4, <1>5, <1>6, <1>7, <1>8

(* cells that are not in the list may be written.                          *)
LEMMA LinkedInElsewhere ==
  ASSUME NEW cells, NEW null, null \notin cells,
         NEW next \in [cells -> cells \cup {null}], NEW c, NEW s, LinkedIn(cells, null, next, s, c),
         NEW n \in cells, n \notin ToSet(s), NEW x
  PROVE  LinkedIn(cells, null, [next EXCEPT ![n] = x], s, c)
<1>1. \A i \in 1..Len(s) : s[i] # n /\ s[i] \in cells
  BY LinkedInFacts
<1>2. \A i \in 1..Len(s) : [next EXCEPT ![n] = x][s[i]] = next[s[i]]
  BY <1>1
<1>3. Len(s) \in Nat /\ Len(s) >= 1
  BY LinkedInFacts
<1>4. \A i \in 1..(Len(s) - 1) : i \in 1..Len(s)
  BY <1>3
<1>5. Len(s) \in 1..Len(s)
  BY <1>3
<1> QED  BY <1>2, <1>4, <1>5 DEF LinkedIn

(* Another first cell that points where the first cell does.               *)
LEMMA LinkedInSwap ==
  ASSUME NEW cells, NEW null, null \notin cells,
         NEW next \in [cells -> cells \cup {null}], NEW c, NEW s, LinkedIn(cells, null, next, s, c),
         NEW n \in cells, n \notin ToSet(s), next[n] = next[c]
  PROVE  /\ LinkedIn(cells, null, next, [s EXCEPT ![1] = n], n)
         /\ Len([s EXCEPT ![1] = n]) = Len(s)
<1> DEFINE t == [s EXCEPT ![1] = n]
           l == Len(s)
<1>1. /\ l \in Nat /\ l >= 1 /\ s \in [1..l -> cells] /\ s[1] = c
      /\ \A i, j \in 1..l : s[i] = s[j] => i = j
      /\ \A i \in 1..(l - 1) : next[s[i]] = s[i + 1]
      /\ next[s[l]] = null
      /\ \A i \in 1..l : s[i] # n
  BY LinkedInFacts
<1> HIDE DEF l
<1>2. t \in [1..l -> cells] /\ t[1] = n /\ \A i \in 2..l : t[i] = s[i]
  BY <1>1
<1>3. t \in Seq(cells) /\ Len(t) = l
  BY <1>1, <1>2, SequenceOf
<1> HIDE DEF t
<1>4. \A i, j \in 1..l : t[i] = t[j] => i = j
  BY <1>1, <1>2
<1>5. \A i \in 1..(l - 1) : next[t[i]] = t[i + 1]
  <2> SUFFICES ASSUME NEW i \in 1..(l - 1) PROVE next[t[i]] = t[i + 1]
    OBVIOUS
  <2>1. i + 1 \in 2..l /\ next[s[i]] = s[i + 1]
    BY <1>1
  <2>2. next[t[i]] = next[s[i]]
    BY <1>1, <1>2
  <2> QED  BY <1>2, <2>1, <2>2
<1>6. next[t[l]] = null
  BY <1>1, <1>2
<1> QED  BY <1>1, <1>2, <1>3, <1>4, <1>5, <1>6 DEF LinkedIn, t, l

Behind(s) == [i \in 1..(Len(s) - 1) |-> s[i + 1]]

(* What is behind the first cell is a list of its own.                     *)
LEMMA LinkedInBehind ==
  ASSUME NEW cells, NEW null, null \notin cells,
         NEW next, NEW c, NEW s, LinkedIn(cells, null, next, s, c), Len(s) >= 2
  PROVE  LinkedIn(cells, null, next, Behind(s), s[2]) /\ Len(Behind(s)) = Len(s) - 1
<1> DEFINE t == Behind(s)
           l == Len(s)
<1>1. /\ l \in Nat /\ l >= 2 /\ s \in [1..l -> cells]
      /\ \A i, j \in 1..l : s[i] = s[j] => i = j
      /\ \A i \in 1..(l - 1) : next[s[i]] = s[i + 1]
      /\ next[s[l]] = null
  BY LinkedInFacts
<1>2. \A i \in 1..(l - 1) : t[i] = s[i + 1]
  BY DEF Behind
<1>3. t \in [1..(l - 1) -> cells]
  BY <1>1 DEF Behind
<1> HIDE DEF l, t
<1>4. t \in Seq(cells) /\ Len(t) = l - 1
  BY <1>1, <1>3, SequenceOf
<1>5. \A i, j \in 1..(l - 1) : t[i] = t[j] => i = j
  <2> SUFFICES ASSUME NEW i \in 1..(l - 1), NEW j \in 1..(l - 1), t[i] = t[j] PROVE i = j
    OBVIOUS
  <2>1. i + 1 \in 1..l /\ j + 1 \in 1..l /\ s[i + 1] = s[j + 1]
    BY <1>1, <1>2
  <2>2. i + 1 = j + 1
    BY <1>1, <2>1
  <2> QED  BY <2>2
<1>6. \A i \in 1..((l - 1) - 1) : next[t[i]] = t[i + 1]
  <2> SUFFICES ASSUME NEW i \in 1..((l - 1) - 1) PROVE next[t[i]] = t[i + 1]
    OBVIOUS
  <2>1. i \in 1..(l - 1) /\ i + 1 \in 1..(l - 1)
    BY <1>1
  <2> QED  BY <1>1, <1>2, <2>1
<1>7. t[1] = s[2] /\ next[t[l - 1]] = null
  <2>1. 1 \in 1..(l - 1) /\ l - 1 \in 1..(l - 1) /\ (l - 1) + 1 = l /\ 1 + 1 = 2
    BY <1>1
  <2> QED  BY <1>1, <1>2, <2>1
<1>8. l - 1 >= 1
  BY <1>1
<1> QED  BY <1>4, <1>5, <1>6, <1>7, <1>8 DEF LinkedIn, t, l

Inserted(s, n) == [i \in 1..(Len(s) + 1) |-> IF i = 1 THEN s[1] ELSE IF i = 2 THEN n ELSE s[i - 1]]

(* A cell is linked in behind the first.                                   *)
LEMMA LinkedInInserted ==
  ASSUME NEW cells, NEW null, null \notin cells,
         NEW next \in [cells -> cells \cup {null}], NEW c, NEW s, LinkedIn(cells, null, next, s, c),
         NEW n \in cells, n \notin ToSet(s), next[n] = next[c],
         NEW new, new[c] = n, \A d \in cells \ {c} : new[d] = next[d]
  PROVE  /\ LinkedIn(cells, null, new, Inserted(s, n), c)
         /\ Len(Inserted(s, n)) = Len(s) + 1
         /\ ToSet(Inserted(s, n)) = ToSet(s) \cup {n}
<1> DEFINE t == Inserted(s, n)
           l == Len(s)
<1>1. /\ l \in Nat /\ l >= 1 /\ s \in [1..l -> cells] /\ s[1] = c /\ c \in cells
      /\ \A i, j \in 1..l : s[i] = s[j] => i = j
      /\ \A i \in 1..(l - 1) : next[s[i]] = s[i + 1]
      /\ next[s[l]] = null
      /\ \A i \in 1..l : s[i] # n
      /\ \A x : x \in ToSet(s) <=> \E i \in 1..l : x = s[i]
  BY LinkedInFacts
<1>2. t[1] = c /\ t[2] = n /\ \A i \in 3..(l + 1) : t[i] = s[i - 1]
  BY <1>1 DEF Inserted
<1>3. t \in [1..(l + 1) -> cells]
  BY <1>1 DEF Inserted
<1> HIDE DEF l, t
<1>4. t \in Seq(cells) /\ Len(t) = l + 1
  BY <1>1, <1>3, SequenceOf
<1>5. new[c] = n /\ \A d \in cells : d # c => new[d] = next[d]
  OBVIOUS
<1>6. \A i \in 3..(l + 1) : i - 1 \in 2..l /\ t[i] = s[i - 1] /\ t[i] # c /\ t[i] # n
  <2> SUFFICES ASSUME NEW i \in 3..(l + 1) PROVE i - 1 \in 2..l /\ t[i] = s[i - 1] /\ t[i] # c /\ t[i] # n
    OBVIOUS
  <2>1. i - 1 \in 2..l /\ i - 1 \in 1..l /\ 1 \in 1..l /\ i - 1 # 1
    BY <1>1
  <2>2. s[i - 1] # s[1]
    BY <1>1, <2>1
  <2> QED  BY <1>1, <1>2, <2>1, <2>2
<1>7. c # n
  BY <1>1
<1>8. \A i, j \in 1..(l + 1) : t[i] = t[j] => i = j
  <2>1. \A i, j \in 3..(l + 1) : t[i] = t[j] => i = j
    <3> SUFFICES ASSUME NEW i \in 3..(l + 1), NEW j \in 3..(l + 1), t[i] = t[j] PROVE i = j
      OBVIOUS
    <3>1. i - 1 \in 1..l /\ j - 1 \in 1..l /\ s[i - 1] = s[j - 1]
      BY <1>1, <1>6
    <3>2. i - 1 = j - 1
      BY <1>1, <3>1
    <3> QED  BY <3>2
  <2>2. \A i \in 1..(l + 1) : i = 1 \/ i = 2 \/ i \in 3..(l + 1)
    BY <1>1
  <2> QED  BY <1>2, <1>6, <1>7, <2>1, <2>2
<1>9. \A i \in 1..l : new[t[i]] = t[i + 1]
  <2> SUFFICES ASSUME NEW i \in 1..l PROVE new[t[i]] = t[i + 1]
    OBVIOUS
  <2>1. CASE i = 1
    BY <1>2, <1>5, <2>1
  <2>2. CASE i = 2
    <3>1. next[s[1]] = s[1 + 1] /\ 3 \in 3..(l + 1)
      BY <1>1, <2>2
    <3>2. t[3] = s[2]
      BY <1>2, <3>1
    <3>3. new[n] = next[n]
      BY <1>5, <1>7
    <3> QED  BY <1>1, <1>2, <2>2, <3>1, <3>2, <3>3
  <2>3. CASE i \in 3..l
    <3>1. i \in 3..(l + 1) /\ i + 1 \in 3..(l + 1) /\ i - 1 \in 1..(l - 1) /\ (i - 1) + 1 = i /\ (i + 1) - 1 = i
      BY <1>1, <2>3
    <3>2. t[i] \in cells /\ t[i] = s[i - 1] /\ t[i] # c
      BY <1>3, <1>6, <3>1
    <3>3. new[t[i]] = next[s[i - 1]]
      BY <1>5, <3>2
    <3>4. t[i + 1] = s[i] /\ next[s[i - 1]] = s[i]
      BY <1>1, <1>6, <3>1
    <3> QED  BY <3>3, <3>4
  <2> QED  BY <1>1, <2>1, <2>2, <2>3
<1>10. new[t[l + 1]] = null
  <2>1. CASE l = 1
    BY <1>1, <1>2, <1>5, <1>7, <2>1
  <2>2. CASE l >= 2
    <3>1. l + 1 \in 3..(l + 1) /\ (l + 1) - 1 = l
      BY <1>1, <2>2
    <3>2. t[l + 1] = s[l] /\ t[l + 1] # c /\ s[l] \in cells
      BY <1>1, <1>6, <3>1
    <3> QED  BY <1>1, <1>5, <3>2
  <2> QED  BY <1>1, <2>1, <2>2
<1>11. ToSet(t) = ToSet(s) \cup {n}
  <2>1. ToSet(t) = {t[i] : i \in 1..(l + 1)}
    BY <1>3 DEF ToSet
  <2>2. \A i \in 1..(l + 1) : t[i] \in ToSet(s) \cup {n}
    <3>1. \A i \in 1..(l + 1) : i = 1 \/ i = 2 \/ i \in 3..(l + 1)
      BY <1>1
    <3>2. \A i \in 2..l : i \in 1..l
      OBVIOUS
    <3>3. 1 \in 1..l
      BY <1>1
    <3> QED  BY <1>1, <1>2, <1>6, <3>1, <3>2, <3>3
  <2>3. \A j \in 1..l : \E i \in 1..(l + 1) : s[j] = t[i]
    <3> SUFFICES ASSUME NEW j \in 1..l PROVE \E i \in 1..(l + 1) : s[j] = t[i]
      OBVIOUS
    <3>1. CASE j = 1
      <4>1. 1 \in 1..(l + 1) /\ s[1] = t[1]
        BY <1>1, <1>2
      <4> QED  BY <3>1, <4>1
    <3>2. CASE j # 1
      <4>1. j + 1 \in 3..(l + 1) /\ j + 1 \in 1..(l + 1) /\ (j + 1) - 1 = j
        BY <1>1, <3>2
      <4>2. t[j + 1] = s[j]
        BY <1>2, <4>1
      <4> QED  BY <4>1, <4>2
    <3> QED  BY <3>1, <3>2
  <2>4. 2 \in 1..(l + 1)
    BY <1>1
  <2> QED  BY <1>1, <1>2, <2>1, <2>2, <2>3, <2>4
<1>12. (l + 1) - 1 = l /\ l + 1 >= 1
  BY <1>1
<1> QED  BY <1>2, <1>4, <1>8, <1>9, <1>10, <1>11, <1>12 DEF LinkedIn, t, l

Without(s, k) == [i \in 1..(Len(s) - 1) |-> IF i < k THEN s[i] ELSE s[i + 1]]

(* The pointers of a list lead past this cell of it.                       *)
Skips(cells, new, next, s, k) ==
  /\ k \in 2..Len(s)
  /\ new[s[k - 1]] = next[s[k]]
  /\ \A d \in cells \ {s[k - 1]} : new[d] = next[d]

(* A cell behind the first is linked over.                                 *)
LEMMA LinkedInWithout ==
  ASSUME NEW cells, NEW null, null \notin cells,
         NEW next \in [cells -> cells \cup {null}], NEW c, NEW s, LinkedIn(cells, null, next, s, c),
         NEW k, NEW new, Skips(cells, new, next, s, k)
  PROVE  /\ LinkedIn(cells, null, new, Without(s, k), c)
         /\ Len(Without(s, k)) = Len(s) - 1
         /\ ToSet(Without(s, k)) = ToSet(s) \ {s[k]}
<1> DEFINE t == Without(s, k)
           l == Len(s)
<1>1. /\ l \in Nat /\ s \in [1..l -> cells] /\ s[1] = c
      /\ \A i, j \in 1..l : s[i] = s[j] => i = j
      /\ \A i \in 1..(l - 1) : next[s[i]] = s[i + 1]
      /\ next[s[l]] = null
      /\ \A x : x \in ToSet(s) <=> \E i \in 1..l : x = s[i]
  <2>1. LinkedIn(cells, null, next, s, c) /\ null \notin cells
    OBVIOUS
  <2> HIDE DEF l
  <2>2. /\ Len(s) \in Nat /\ s \in [1..Len(s) -> cells] /\ s[1] = c
        /\ next[s[Len(s)]] = null
    BY ONLY <2>1, LinkedInFacts
  <2>3. /\ \A i, j \in 1..Len(s) : s[i] = s[j] => i = j
        /\ \A i \in 1..(Len(s) - 1) : next[s[i]] = s[i + 1]
        /\ \A x : x \in ToSet(s) <=> \E i \in 1..Len(s) : x = s[i]
    BY ONLY <2>1, LinkedInFacts
  <2> QED  BY <2>2, <2>3 DEF l
<1>2. k \in Nat /\ k >= 2 /\ k <= l
  BY <1>1 DEF Skips
<1>3. \A i \in 1..(l - 1) : t[i] = IF i < k THEN s[i] ELSE s[i + 1]
  BY DEF Without
<1>4. t \in [1..(l - 1) -> cells]
  BY <1>1, <1>2 DEF Without
<1> HIDE DEF l, t
<1>5. t \in Seq(cells) /\ Len(t) = l - 1
  <2>1. l - 1 \in Nat
    BY <1>1, <1>2
  <2> QED  BY <1>4, <2>1, SequenceOf
<1>6. s[k - 1] \in cells
  BY <1>1, <1>2
<1>7. new[s[k - 1]] = next[s[k]] /\ \A d \in cells : d # s[k - 1] => new[d] = next[d]
  BY DEF Skips
<1>8. \A i, j \in 1..(l - 1) : t[i] = t[j] => i = j
  <2> SUFFICES ASSUME NEW i \in 1..(l - 1), NEW j \in 1..(l - 1), t[i] = t[j] PROVE i = j
    OBVIOUS
  <2> DEFINE p == IF i < k THEN i ELSE i + 1
             q == IF j < k THEN j ELSE j + 1
  <2>1. p \in 1..l /\ q \in 1..l
    BY <1>1, <1>2
  <2>2. s[p] = s[q]
    BY <1>3
  <2>3. p = q
    BY <1>1, <2>1, <2>2
  <2> QED  BY <1>2, <2>3
<1>9. \A i \in 1..((l - 1) - 1) : new[t[i]] = t[i + 1]
  <2> SUFFICES ASSUME NEW i \in 1..((l - 1) - 1) PROVE new[t[i]] = t[i + 1]
    OBVIOUS
  <2>0. i \in 1..(l - 1) /\ i + 1 \in 1..(l - 1) /\ i + 1 \in 1..l /\ i \in 1..l /\ k \in 1..l /\ k - 1 \in 1..l
    BY <1>1, <1>2
  <2>1. CASE i + 1 < k
    <3>1. t[i] = s[i] /\ t[i + 1] = s[i + 1]
      BY <1>2, <1>3, <2>0, <2>1
    <3>2. s[i] # s[k - 1]
      BY <1>1, <1>2, <2>0, <2>1
    <3> QED  BY <1>1, <1>7, <2>0, <3>1, <3>2
  <2>2. CASE i + 1 = k
    <3>1. t[i] = s[k - 1] /\ t[i + 1] = s[k + 1] /\ k \in 1..(l - 1)
      BY <1>2, <1>3, <2>0, <2>2
    <3> QED  BY <1>1, <1>7, <3>1
  <2>3. CASE i >= k
    <3>1. t[i] = s[i + 1] /\ t[i + 1] = s[(i + 1) + 1] /\ i + 1 # k - 1
      BY <1>2, <1>3, <2>0, <2>3
    <3>2. s[i + 1] # s[k - 1]
      BY <1>1, <2>0, <3>1
    <3>3. next[s[i + 1]] = s[(i + 1) + 1]
      BY <1>1, <2>0
    <3> QED  BY <1>1, <1>7, <2>0, <3>1, <3>2, <3>3
  <2> QED  BY <1>2, <2>0, <2>1, <2>2, <2>3
<1>10. new[t[l - 1]] = null
  <2>1. l - 1 \in 1..(l - 1) /\ l \in 1..l /\ k - 1 \in 1..l /\ (l - 1) + 1 = l
    BY <1>1, <1>2
  <2>2. CASE k = l
    <3>1. t[l - 1] = s[k - 1]
      BY <1>2, <1>3, <2>1, <2>2
    <3> QED  BY <1>1, <1>7, <2>2, <3>1
  <2>3. CASE k < l
    <3>1. t[l - 1] = s[l]
      BY <1>1, <1>2, <1>3, <2>1, <2>3
    <3>2. l # k - 1
      BY <1>1, <1>2, <2>3
    <3>3. s[l] # s[k - 1]
      BY <1>1, <2>1, <3>2
    <3> QED  BY <1>1, <1>7, <2>1, <3>1, <3>3
  <2> QED  BY <1>1, <1>2, <2>2, <2>3
<1>11. t[1] = c
  BY <1>1, <1>2, <1>3
<1>12. ToSet(t) = ToSet(s) \ {s[k]}
  <2>1. ToSet(t) = {t[i] : i \in 1..(l - 1)}
    BY <1>4 DEF ToSet
  <2>2. ASSUME NEW i \in 1..(l - 1)
        PROVE  t[i] \in ToSet(s) \ {s[k]}
    <3> DEFINE p == IF i < k THEN i ELSE i + 1
    <3>1. p \in 1..l /\ p # k /\ k \in 1..l
      BY <1>1, <1>2
    <3>2. t[i] = s[p]
      BY <1>3
    <3> HIDE DEF p
    <3> QED  BY <1>1, <3>1, <3>2
  <2>3. ASSUME NEW j \in 1..l, s[j] # s[k]
        PROVE  \E i \in 1..(l - 1) : s[j] = t[i]
    <3>1. j # k
      BY <2>3
    <3>2. CASE j < k
      <4>1. j \in 1..(l - 1) /\ t[j] = s[j]
        BY <1>1, <1>2, <1>3, <3>2
      <4> QED  BY <4>1
    <3>3. CASE j > k
      <4>1. j - 1 \in 1..(l - 1) /\ (j - 1) + 1 = j /\ ~(j - 1 < k)
        BY <1>1, <1>2, <3>3
      <4>2. t[j - 1] = s[j]
        BY <1>3, <4>1
      <4> QED  BY <4>1, <4>2
    <3> QED  BY <1>2, <3>1, <3>2, <3>3
  <2>4. \A x \in ToSet(s) \ {s[k]} : \E j \in 1..l : x = s[j] /\ s[j] # s[k]
    BY <1>1
  <2>5. ToSet(t) \subseteq ToSet(s) \ {s[k]}
    BY <2>1, <2>2
  <2>6. ToSet(s) \ {s[k]} \subseteq ToSet(t)
    BY <2>1, <2>3, <2>4
  <2> QED  BY <2>5, <2>6
<1>13. l - 1 >= 1
  BY <1>1, <1>2
<1> QED  BY <1>5, <1>8, <1>9, <1>10, <1>11, <1>12, <1>13 DEF LinkedIn, t, l

(* What becomes of pointers outside a list does not matter to it.          *)
LEMMA LinkedInFrame ==
  ASSUME NEW cells, NEW null, null \notin cells,
         NEW next, NEW c, NEW s, LinkedIn(cells, null, next, s, c),
         NEW new, \A x \in ToSet(s) : new[x] = next[x]
  PROVE  LinkedIn(cells, null, new, s, c)
<1>1. Len(s) \in Nat /\ Len(s) >= 1
  BY LinkedInFacts
<1>2. \A i \in 1..Len(s) : s[i] \in ToSet(s)
  BY LinkedInFacts
<1>3. \A i \in 1..Len(s) : new[s[i]] = next[s[i]]
  BY <1>2
<1>4. Len(s) \in 1..Len(s) /\ \A i \in 1..(Len(s) - 1) : i \in 1..Len(s)
  BY <1>1
<1> QED  BY <1>3, <1>4 DEF LinkedIn

(* An entry put in front is one more element.                              *)
LEMMA FrontElements ==
  ASSUME NEW S, NEW s \in Seq(S), NEW e \in S
  PROVE  /\ ToSet(<<e>> \o s) = ToSet(s) \cup {e}
         /\ IsInjective(s) /\ e \notin ToSet(s) => IsInjective(<<e>> \o s)
<1> DEFINE t == <<e>> \o s
<1>1. /\ t \in Seq(S) /\ Len(t) = Len(s) + 1 /\ t[1] = e
      /\ \A j \in 1..Len(s) : t[j + 1] = s[j]
  BY FrontEntries
<1> HIDE DEF t
<1>2. Len(s) \in Nat /\ DOMAIN s = 1..Len(s) /\ DOMAIN t = 1..(Len(s) + 1)
  BY <1>1, LenProperties
<1>3. \A i \in 1..(Len(s) + 1) : i = 1 \/ (i - 1 \in 1..Len(s) /\ t[i] = s[i - 1])
  <2> SUFFICES ASSUME NEW i \in 1..(Len(s) + 1), i # 1
               PROVE  i - 1 \in 1..Len(s) /\ t[i] = s[i - 1]
    OBVIOUS
  <2>1. i - 1 \in 1..Len(s) /\ (i - 1) + 1 = i
    BY <1>2
  <2> QED  BY <1>1, <2>1
<1>4. \A j \in 1..Len(s) : j + 1 \in 1..(Len(s) + 1)
  BY <1>2
<1>5. 1 \in 1..(Len(s) + 1)
  BY <1>2
<1>6. \A x : /\ x \in ToSet(t) <=> \E i \in 1..(Len(s) + 1) : t[i] = x
             /\ x \in ToSet(s) <=> \E i \in 1..Len(s) : s[i] = x
  BY <1>2 DEF ToSet
<1>7. ToSet(t) = ToSet(s) \cup {e}
  <2>1. ASSUME NEW x \in ToSet(t) PROVE x \in ToSet(s) \cup {e}
    BY <1>1, <1>3, <1>6
  <2>2. ASSUME NEW x \in ToSet(s) \cup {e} PROVE x \in ToSet(t)
    BY <1>1, <1>4, <1>5, <1>6
  <2> QED  BY <2>1, <2>2
<1>8. ASSUME IsInjective(s), e \notin ToSet(s) PROVE IsInjective(t)
  <2>1. \A i, j \in 1..Len(s) : s[i] = s[j] => i = j
    BY <1>2, <1>8 DEF IsInjective
  <2>2. \A i \in 1..Len(s) : s[i] # e
    BY <1>6, <1>8
  <2>3. ASSUME NEW i \in 1..(Len(s) + 1), NEW j \in 1..(Len(s) + 1), t[i] = t[j] PROVE i = j
    <3>1. CASE i = 1
      BY <1>1, <1>3, <2>2, <2>3, <3>1
    <3>2. CASE i # 1
      <4>1. i - 1 \in 1..Len(s) /\ t[i] = s[i - 1]
        BY <1>3, <3>2
      <4>2. j # 1
        BY <1>1, <2>2, <2>3, <4>1
      <4>3. j - 1 \in 1..Len(s) /\ t[j] = s[j - 1]
        BY <1>3, <4>2
      <4>4. i - 1 = j - 1
        BY <2>1, <2>3, <4>1, <4>3
      <4> QED  BY <4>4
    <3> QED  BY <3>1, <3>2
  <2> QED  BY <1>2, <2>3 DEF IsInjective
<1> QED  BY <1>7, <1>8 DEF t

(* A cell that points to the first is a new first one.                     *)
LEMMA LinkedInFront ==
  ASSUME NEW cells, NEW null, null \notin cells,
         NEW next, NEW c, NEW s, LinkedIn(cells, null, next, s, c),
         NEW n \in cells, n \notin ToSet(s),
         NEW new, new[n] = c, \A x \in ToSet(s) : new[x] = next[x]
  PROVE  LinkedIn(cells, null, new, <<n>> \o s, n)
<1> DEFINE t == <<n>> \o s
           l == Len(s)
<1>1. /\ l \in Nat /\ l >= 1 /\ s \in Seq(cells) /\ s[1] = c
      /\ IsInjective(s)
      /\ \A i \in 1..(l - 1) : next[s[i]] = s[i + 1]
      /\ next[s[l]] = null
  BY LinkedInFacts
<1>2. \A i \in 1..l : s[i] \in ToSet(s)
  BY LinkedInFacts
<1>3. \A i \in 1..l : new[s[i]] = next[s[i]]
  BY <1>2
<1> HIDE DEF l
<1>4. /\ t \in Seq(cells) /\ Len(t) = l + 1 /\ t[1] = n
      /\ \A j \in 1..l : t[j + 1] = s[j]
  BY <1>1, FrontEntries DEF l
<1>5. IsInjective(t)
  BY <1>1, FrontElements
<1> HIDE DEF t
<1>6. \A i, j \in 1..(l + 1) : t[i] = t[j] => i = j
  <2>1. DOMAIN t = 1..(l + 1)
    BY <1>4, LenProperties
  <2> QED  BY <1>5, <2>1 DEF IsInjective
<1>7. \A i \in 1..((l + 1) - 1) : new[t[i]] = t[i + 1]
  <2> SUFFICES ASSUME NEW i \in 1..l PROVE new[t[i]] = t[i + 1]
    BY <1>1
  <2>1. CASE i = 1
    <3>1. t[1 + 1] = s[1]
      BY <1>1, <1>4
    <3> QED  BY <1>1, <1>4, <2>1, <3>1
  <2>2. CASE i # 1
    <3>1. i - 1 \in 1..l /\ i - 1 \in 1..(l - 1) /\ (i - 1) + 1 = i
      BY <1>1, <2>2
    <3>2. t[i] = s[i - 1] /\ t[i + 1] = s[i] /\ next[s[i - 1]] = s[i]
      BY <1>1, <1>4, <3>1
    <3> QED  BY <1>3, <3>1, <3>2
  <2> QED  BY <2>1, <2>2
<1>8. new[t[l + 1]] = null
  <2>1. l \in 1..l
    BY <1>1
  <2> QED  BY <1>1, <1>3, <1>4, <2>1
<1>9. l + 1 >= 1
  BY <1>1
<1> QED  BY <1>4, <1>6, <1>7, <1>8, <1>9 DEF LinkedIn, t

(* A cell that the last one points to, and that points nowhere, is a new   *)
(* last one.                                                               *)
LEMMA LinkedInEnd ==
  ASSUME NEW cells, NEW null, null \notin cells,
         NEW next, NEW c, NEW s, LinkedIn(cells, null, next, s, c),
         NEW n \in cells, n \notin ToSet(s),
         NEW new, new[n] = null, new[s[Len(s)]] = n,
         \A x \in ToSet(s) \ {s[Len(s)]} : new[x] = next[x]
  PROVE  LinkedIn(cells, null, new, Append(s, n), c)
<1> DEFINE t == Append(s, n)
           l == Len(s)
<1>1. /\ l \in Nat /\ l >= 1 /\ s \in Seq(cells) /\ s[1] = c
      /\ IsInjective(s)
      /\ \A i \in 1..(l - 1) : next[s[i]] = s[i + 1]
  BY LinkedInFacts
<1>2. \A i, j \in 1..l : s[i] = s[j] => i = j
  BY LinkedInFacts
<1>3. \A i \in 1..l : s[i] \in ToSet(s)
  BY LinkedInFacts
<1>4. new[s[l]] = n
  OBVIOUS
<1>5. \A i \in 1..(l - 1) : new[s[i]] = s[i + 1]
  <2> SUFFICES ASSUME NEW i \in 1..(l - 1) PROVE new[s[i]] = s[i + 1]
    OBVIOUS
  <2>1. i \in 1..l /\ l \in 1..l /\ i # l
    BY <1>1
  <2>2. s[i] \in ToSet(s) \ {s[l]}
    BY <1>2, <1>3, <2>1
  <2> QED  BY <1>1, <2>2
<1> HIDE DEF l
<1>6. /\ t \in Seq(cells) /\ Len(t) = l + 1 /\ t[l + 1] = n
      /\ \A i \in 1..l : t[i] = s[i]
  BY <1>1, AppendProperties DEF l
<1>7. IsInjective(t)
  BY <1>1, InjectiveAppend
<1> HIDE DEF t
<1>8. \A i, j \in 1..(l + 1) : t[i] = t[j] => i = j
  <2>1. DOMAIN t = 1..(l + 1)
    BY <1>6, LenProperties
  <2> QED  BY <1>7, <2>1 DEF IsInjective
<1>9. \A i \in 1..((l + 1) - 1) : new[t[i]] = t[i + 1]
  <2> SUFFICES ASSUME NEW i \in 1..l PROVE new[t[i]] = t[i + 1]
    BY <1>1
  <2>1. CASE i = l
    BY <1>1, <1>4, <1>6, <2>1
  <2>2. CASE i # l
    <3>1. i \in 1..(l - 1) /\ i + 1 \in 1..l
      BY <1>1, <2>2
    <3> QED  BY <1>5, <1>6, <3>1
  <2> QED  BY <2>1, <2>2
<1>10. l + 1 >= 1 /\ 1 \in 1..l
  BY <1>1
<1> QED  BY <1>1, <1>6, <1>8, <1>9, <1>10 DEF LinkedIn, t

(* If every pointer is turned round the list is reversed.                  *)
LEMMA LinkedInReversed ==
  ASSUME NEW cells, NEW null, null \notin cells,
         NEW next, NEW c, NEW s, LinkedIn(cells, null, next, s, c),
         NEW new, new[c] = null, \A i \in 2..Len(s) : new[s[i]] = s[i - 1]
  PROVE  LinkedIn(cells, null, new, Reverse(s), s[Len(s)])
<1> DEFINE t == Reverse(s)
           l == Len(s)
<1>1. /\ l \in Nat /\ l >= 1 /\ s \in Seq(cells) /\ s[1] = c
      /\ \A i, j \in 1..l : s[i] = s[j] => i = j
  BY LinkedInFacts
<1>2. new[s[1]] = null /\ \A i \in 2..l : new[s[i]] = s[i - 1]
  BY <1>1
<1>3. /\ t \in Seq(cells) /\ Len(t) = l
      /\ \A j \in 1..l : t[j] = s[l - j + 1]
  BY <1>1, ReverseEntries
<1> HIDE DEF l, t
<1>4. ASSUME NEW i \in 1..l, NEW j \in 1..l, t[i] = t[j] PROVE i = j
  <2>1. l - i + 1 \in 1..l /\ l - j + 1 \in 1..l
    BY <1>1
  <2>2. l - i + 1 = l - j + 1
    BY <1>1, <1>3, <1>4, <2>1
  <2> QED  BY <1>1, <2>2
<1>5. ASSUME NEW i \in 1..(l - 1) PROVE new[t[i]] = t[i + 1]
  <2>1. i \in 1..l /\ i + 1 \in 1..l /\ l - i + 1 \in 2..l /\ (l - i + 1) - 1 = l - (i + 1) + 1
    BY <1>1
  <2>2. t[i] = s[l - i + 1] /\ t[i + 1] = s[l - (i + 1) + 1]
    BY <1>3, <2>1
  <2> QED  BY <1>2, <2>1, <2>2
<1>6. t[1] = s[l] /\ t[l] = s[1]
  <2>1. 1 \in 1..l /\ l \in 1..l /\ l - 1 + 1 = l /\ l - l + 1 = 1
    BY <1>1
  <2> QED  BY <1>3, <2>1
<1>7. new[t[l]] = null
  BY <1>2, <1>6
<1>8. LinkedIn(cells, null, new, t, s[l])
  BY <1>1, <1>3, <1>4, <1>5, <1>6, <1>7 DEF LinkedIn
<1> QED  BY <1>8 DEF t, l

(* A reversed sequence has the same elements; ...                          *)
LEMMA ReverseElements ==
  ASSUME NEW S, NEW s \in Seq(S)
  PROVE  ToSet(Reverse(s)) = ToSet(s)
<1>1. /\ Reverse(s) \in Seq(S) /\ Len(Reverse(s)) = Len(s)
      /\ \A j \in 1..Len(s) : Reverse(s)[j] = s[Len(s) - j + 1]
  BY ReverseEntries
<1> DEFINE t == Reverse(s)
<1> HIDE DEF t
<1>2. Len(s) \in Nat /\ DOMAIN s = 1..Len(s) /\ DOMAIN t = 1..Len(s)
  BY <1>1, LenProperties DEF t
<1>3. \A j \in 1..Len(s) : Len(s) - j + 1 \in 1..Len(s) /\ Len(s) - (Len(s) - j + 1) + 1 = j
  BY <1>2
<1>4. \A x : /\ x \in ToSet(t) <=> \E i \in 1..Len(s) : t[i] = x
             /\ x \in ToSet(s) <=> \E i \in 1..Len(s) : s[i] = x
  BY <1>2 DEF ToSet
<1>5. \A j \in 1..Len(s) : t[j] = s[Len(s) - j + 1]
  BY <1>1 DEF t
<1>6. \A j \in 1..Len(s) : t[Len(s) - j + 1] = s[j]
  BY <1>3, <1>5
<1>7. \A x : x \in ToSet(t) => x \in ToSet(s)
  BY <1>3, <1>4, <1>5
<1>8. \A x : x \in ToSet(s) => x \in ToSet(t)
  BY <1>3, <1>4, <1>6
<1> QED  BY <1>7, <1>8 DEF t

(* ... what was last is first.                                             *)
LEMMA ReverseAppend ==
  ASSUME NEW S, NEW s \in Seq(S), NEW e \in S
  PROVE  Reverse(Append(s, e)) = <<e>> \o Reverse(s)
<1> DEFINE a == Append(s, e)
           r == Reverse(s)
           f == <<e>> \o r
           b == Reverse(a)
<1>1. /\ a \in Seq(S) /\ Len(a) = Len(s) + 1 /\ a[Len(s) + 1] = e
      /\ \A i \in 1..Len(s) : a[i] = s[i]
  BY AppendProperties
<1>2. /\ r \in Seq(S) /\ Len(r) = Len(s)
      /\ \A j \in 1..Len(s) : r[j] = s[Len(s) - j + 1]
  BY ReverseEntries
<1>3. Len(s) \in Nat
  BY LenProperties
<1> HIDE DEF a, r
<1>4. /\ f \in Seq(S) /\ Len(f) = Len(s) + 1 /\ f[1] = e
      /\ \A j \in 1..Len(r) : f[j + 1] = r[j]
  BY <1>2, FrontEntries
<1>5. /\ b \in Seq(S) /\ Len(b) = Len(s) + 1
      /\ \A j \in 1..Len(a) : b[j] = a[Len(a) - j + 1]
  BY <1>1, ReverseEntries
<1> HIDE DEF f, b
<1>6. ASSUME NEW j \in 1..Len(b) PROVE b[j] = f[j]
  <2>1. CASE j = 1
    <3>1. b[1] = a[Len(a) - 1 + 1] /\ Len(a) - 1 + 1 = Len(s) + 1
      BY <1>1, <1>3, <1>5
    <3> QED  BY <1>1, <1>4, <2>1, <3>1
  <2>2. CASE j # 1
    <3>1. j - 1 \in 1..Len(s) /\ (j - 1) + 1 = j /\ Len(a) - j + 1 = Len(s) - (j - 1) + 1
          /\ Len(s) - (j - 1) + 1 \in 1..Len(s) /\ j \in 1..Len(a)
      BY <1>1, <1>3, <1>5, <2>2
    <3>2. f[j] = r[j - 1]
      BY <1>2, <1>4, <3>1
    <3>3. b[j] = a[Len(s) - (j - 1) + 1]
      BY <1>5, <3>1
    <3>4. a[Len(s) - (j - 1) + 1] = s[Len(s) - (j - 1) + 1]
      BY <1>1, <3>1
    <3> QED  BY <1>2, <3>1, <3>2, <3>3, <3>4
  <2> QED  BY <2>1, <2>2
<1>7. b = f
  BY <1>4, <1>5, <1>6, SeqEqual
<1> QED  BY <1>7 DEF b, f, a, r

================================================================================
