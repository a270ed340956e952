------------------------------ MODULE Cache_proofs ------------------------------
(***************************************************************************)
(* What holds of a cache of any size, with any keys, values, weights and   *)
(* settings: the rings, the table and the counters agree, the bounds are   *)
(* kept, and an iteration that ends without an error was complete.  A      *)
(* cache that evicts what was used or written least recently implements    *)
(* the bounded map.                                                        *)
(***************************************************************************)
EXTENDS Cache, FiniteSetTheorems, WellFoundedInduction, TLAPS

-------------------------------------------------------------------------------
(* Numbers.  A set of them that is not empty has a smallest one, hence what   *)
(* holds of 0 and is passed on holds of all; one with a bound has a largest.  *)
LEMMA Smallest ==
  ASSUME NEW S \in SUBSET Nat, S # {}
  PROVE  \E x \in S : \A y \in S : x <= y
<1>1. PICK x \in S : \A y \in S : ~(<<y, x>> \in OpToRel(<, Nat))
  BY NatLessThanWellFounded, WFMin
<1>2. \A y \in S : ~(y < x)
  BY <1>1, Zenon DEF OpToRel
<1> QED BY <1>2

LEMMA Induction ==
  ASSUME NEW S, 0 \in S, \A k \in Nat : k \in S => k + 1 \in S
  PROVE  Nat \subseteq S
<1> SUFFICES ASSUME Nat \ S # {} PROVE FALSE
  OBVIOUS
<1>1. PICK x \in Nat \ S : \A y \in Nat \ S : x <= y
  BY Smallest
<1>2. x # 0 /\ x - 1 \in Nat
  BY <1>1
<1>3. x - 1 \in S
  BY <1>1, <1>2
<1> QED BY <1>1, <1>2, <1>3

LEMMA MinIs ==
  ASSUME NEW S \in SUBSET Nat, S # {}
  PROVE  Min(S) \in S /\ \A y \in S : Min(S) <= y
BY Smallest DEF Min

LEMMA MaxIs ==
  ASSUME NEW S \in SUBSET Nat, S # {}, NEW b \in Nat, \A x \in S : x <= b
  PROVE  Max(S) \in S /\ \A y \in S : Max(S) >= y
<1> DEFINE T == {b - x : x \in S}
<1>1. T \in SUBSET Nat /\ T # {}
  <2>1. \A x \in S : b - x \in Nat
    OBVIOUS
  <2> QED BY <2>1
<1>2. PICK t \in T : \A u \in T : t <= u
  <2> HIDE DEF T
  <2> QED BY <1>1, Smallest
<1>3. PICK x \in S : t = b - x
  OBVIOUS
<1>4. \A y \in S : x >= y
  BY <1>2, <1>3
<1> QED BY <1>4 DEF Max

-------------------------------------------------------------------------------
(* Sequences without repetitions *)

LEMMA InSequence ==
  ASSUME NEW S, NEW s \in Seq(S)
  PROVE  /\ ToSet(s) = {s[i] : i \in 1..Len(s)}
         /\ ToSet(s) \subseteq S
         /\ IsInjective(s) <=> \A i, j \in 1..Len(s) : s[i] = s[j] => i = j
BY DEF ToSet, IsInjective

LEMMA Elements ==
  ASSUME NEW S, NEW s \in Seq(S)
  PROVE  ToSet(s) = {s[i] : i \in 1..Len(s)}
BY DEF ToSet

LEMMA Concatenated ==
  ASSUME NEW S, NEW s \in Seq(S), NEW t \in Seq(S), IsInjective(s), IsInjective(t),
         ToSet(s) \cap ToSet(t) = {}
  PROVE  /\ s \o t \in Seq(S) /\ IsInjective(s \o t)
         /\ ToSet(s \o t) = ToSet(s) \cup ToSet(t)
<1> DEFINE r == s \o t
<1>1. r \in Seq(S) /\ Len(r) = Len(s) + Len(t)
  OBVIOUS
<1>2. /\ \A i \in 1..Len(s) : r[i] = s[i]
      /\ \A i \in Len(s)+1..Len(r) : i - Len(s) \in 1..Len(t) /\ r[i] = t[i - Len(s)]
      /\ \A i \in 1..Len(t) : r[i + Len(s)] = t[i]
  OBVIOUS
<1>3. \A i \in 1..Len(r) : i \in 1..Len(s) \/ i \in Len(s)+1..Len(r)
  BY <1>1
<1> HIDE DEF r
<1>4. /\ \A i \in 1..Len(s) : s[i] \in ToSet(s)
      /\ \A i \in 1..Len(t) : t[i] \in ToSet(t)
  BY InSequence
<1>5. \A i, j \in 1..Len(r) : r[i] = r[j] => i = j
  <2> SUFFICES ASSUME NEW i \in 1..Len(r), NEW j \in 1..Len(r), r[i] = r[j] PROVE i = j
    OBVIOUS
  <2>1. \A a, b \in 1..Len(s) : s[a] = s[b] => a = b
    BY InSequence
  <2>2. \A a, b \in 1..Len(t) : t[a] = t[b] => a = b
    BY InSequence
  <2>3. CASE i \in 1..Len(s) /\ j \in 1..Len(s)
    BY <1>2, <2>1, <2>3
  <2>4. CASE i \in Len(s)+1..Len(r) /\ j \in Len(s)+1..Len(r)
    <3> DEFINE a == i - Len(s)
               b == j - Len(s)
    <3>1. a \in 1..Len(t) /\ b \in 1..Len(t) /\ r[i] = t[a] /\ r[j] = t[b] /\ (a = b => i = j)
      BY <1>2, <2>4
    <3> HIDE DEF a, b
    <3>2. t[a] = t[b]
      BY <3>1
    <3> QED BY <2>2, <3>1, <3>2
  <2>5. CASE i \in 1..Len(s) /\ j \in Len(s)+1..Len(r)
    BY <1>2, <1>4, <2>5
  <2>6. CASE j \in 1..Len(s) /\ i \in Len(s)+1..Len(r)
    BY <1>2, <1>4, <2>6
  <2> QED BY <1>3, <2>3, <2>4, <2>5, <2>6
<1>6. ToSet(r) = ToSet(s) \cup ToSet(t)
  <2>1. ToSet(r) \subseteq ToSet(s) \cup ToSet(t)
    <3>1. \A i \in 1..Len(r) : r[i] \in ToSet(s) \cup ToSet(t)
      BY <1>2, <1>3, <1>4
    <3>2. r \in Seq(S)
      BY <1>1
    <3>3. ToSet(r) = {r[i] : i \in 1..Len(r)}
      BY <3>2, Elements
    <3> QED BY <3>1, <3>3
  <2>2. \A i \in 1..Len(s) : i \in 1..Len(r)
    BY <1>1
  <2>3. \A i \in 1..Len(t) : i + Len(s) \in 1..Len(r)
    BY <1>1
  <2>4. /\ ToSet(r) = {r[i] : i \in 1..Len(r)} /\ ToSet(s) = {s[i] : i \in 1..Len(s)}
        /\ ToSet(t) = {t[i] : i \in 1..Len(t)}
    <3>1. r \in Seq(S)
      BY <1>1
    <3> QED BY <3>1, Elements
  <2>5. ToSet(s) \subseteq ToSet(r)
    BY <1>2, <2>2, <2>4
  <2>6. ToSet(t) \subseteq ToSet(r)
    BY <1>2, <2>3, <2>4
  <2> QED BY <2>1, <2>5, <2>6
<1> QED BY <1>1, <1>5, <1>6, InSequence DEF r

LEMMA One ==
  ASSUME NEW S, NEW e \in S
  PROVE  <<e>> \in Seq(S) /\ IsInjective(<<e>>) /\ ToSet(<<e>>) = {e}
BY DEF IsInjective, ToSet

LEMMA Appended ==
  ASSUME NEW S, NEW s \in Seq(S), IsInjective(s), NEW e \in S, e \notin ToSet(s)
  PROVE  /\ Append(s, e) \in Seq(S) /\ IsInjective(Append(s, e))
         /\ ToSet(Append(s, e)) = ToSet(s) \cup {e}
<1>1. Append(s, e) = s \o <<e>>
  OBVIOUS
<1>2. <<e>> \in Seq(S) /\ IsInjective(<<e>>) /\ ToSet(<<e>>) = {e}
  BY One
<1> DEFINE t == <<e>>
<1>3. /\ s \o t \in Seq(S) /\ IsInjective(s \o t)
      /\ ToSet(s \o t) = ToSet(s) \cup ToSet(t)
  <2> HIDE DEF t
  <2>1. t \in Seq(S) /\ IsInjective(t) /\ ToSet(s) \cap ToSet(t) = {}
    BY <1>2 DEF t
  <2> QED BY <2>1, Concatenated
<1> QED BY <1>1, <1>2, <1>3

(* A part of a sequence, and the parts before and after a place.              *)
LEMMA Parts ==
  ASSUME NEW S, NEW s \in Seq(S), IsInjective(s), NEW n \in 0..Len(s)
  PROVE  LET front == SubSeq(s, 1, n)
             back == SubSeq(s, n + 1, Len(s))
         IN  /\ front \in Seq(S) /\ IsInjective(front) /\ back \in Seq(S) /\ IsInjective(back)
             /\ ToSet(front) \cap ToSet(back) = {} /\ ToSet(front) \cup ToSet(back) = ToSet(s)
             /\ \A i \in 1..n : s[i] \in ToSet(front)
<1> DEFINE front == SubSeq(s, 1, n)
           back == SubSeq(s, n + 1, Len(s))
<1>1. /\ front \in Seq(S) /\ Len(front) = n /\ \A i \in 1..n : front[i] = s[i]
      /\ back \in Seq(S) /\ Len(back) = Len(s) - n
      /\ \A i \in 1..Len(s) - n : back[i] = s[i + n]
  OBVIOUS
<1> HIDE DEF front, back
<1>2. \A i, j \in 1..Len(s) : s[i] = s[j] => i = j
  BY InSequence
<1>3. /\ ToSet(front) = {front[i] : i \in 1..n} /\ ToSet(s) = {s[i] : i \in 1..Len(s)}
      /\ ToSet(back) = {back[i] : i \in 1..Len(s) - n}
  <2>1. ToSet(front) = {front[i] : i \in 1..Len(front)}
    BY <1>1, InSequence
  <2>2. ToSet(back) = {back[i] : i \in 1..Len(back)}
    BY <1>1, InSequence
  <2>3. ToSet(s) = {s[i] : i \in 1..Len(s)}
    BY InSequence
  <2> QED BY <1>1, <2>1, <2>2, <2>3
<1>4. /\ \A i \in 1..n : i \in 1..Len(s)
      /\ \A i \in 1..Len(s) - n : i + n \in 1..Len(s) /\ i + n > n
      /\ \A i \in 1..Len(s) : i \in 1..n \/ (i - n \in 1..Len(s) - n /\ (i - n) + n = i)
  OBVIOUS
<1>5. IsInjective(front)
  BY <1>1, <1>2, <1>4, InSequence
<1>6. IsInjective(back)
  <2>1. \A i, j \in 1..Len(s) - n : back[i] = back[j] => i + n = j + n
    BY <1>1, <1>2, <1>4
  <2>2. \A i, j \in 1..Len(s) - n : i + n = j + n => i = j
    OBVIOUS
  <2> QED BY <1>1, <2>1, <2>2, InSequence
<1>7. ToSet(front) \cap ToSet(back) = {}
  <2> SUFFICES ASSUME NEW i \in 1..n, NEW j \in 1..Len(s) - n, front[i] = back[j] PROVE FALSE
    BY <1>3
  <2>1. s[i] = s[j + n]
    BY <1>1
  <2>2. i = j + n
    BY <1>2, <1>4, <2>1
  <2> QED BY <2>2
<1>8. ToSet(front) \cup ToSet(back) = ToSet(s)
  <2>1. \A i \in 1..n : front[i] \in ToSet(s)
    BY <1>1, <1>3, <1>4
  <2>2. \A i \in 1..Len(s) - n : back[i] \in ToSet(s)
    BY <1>1, <1>3, <1>4
  <2>3. ASSUME NEW i \in 1..Len(s)
        PROVE  s[i] \in ToSet(front) \cup ToSet(back)
    <3>1. CASE i \in 1..n
      BY <1>1, <1>3, <3>1
    <3>2. CASE i - n \in 1..Len(s) - n /\ (i - n) + n = i
      <4>1. back[i - n] = s[i]
        BY <1>1, <3>2
      <4> QED BY <1>3, <3>2, <4>1
    <3> QED BY <1>4, <3>1, <3>2
  <2> QED BY <1>3, <2>1, <2>2, <2>3
<1>9. \A i \in 1..n : s[i] \in ToSet(front)
  BY <1>1, <1>3
<1> QED BY <1>1, <1>5, <1>6, <1>7, <1>8, <1>9 DEF front, back

(* The place of an element of a ring.                                         *)
LEMMA PlaceOf ==
  ASSUME NEW S, NEW s \in Seq(S), IsInjective(s), NEW e \in ToSet(s)
  PROVE  LET at == SelectInSeq(s, LAMBDA x : x = e)
         IN  at \in 1..Len(s) /\ s[at] = e /\ \A i \in 1..Len(s) : s[i] = e => i = at
<1> DEFINE I == {i \in 1..Len(s) : s[i] = e}
           at == SelectInSeq(s, LAMBDA x : x = e)
<1>1. I \in SUBSET Nat /\ I # {}
  BY InSequence
<1>2. at = Min(I)
  BY <1>1 DEF SelectInSeq
<1>3. at \in I
  <2> HIDE DEF I
  <2> QED BY <1>1, <1>2, MinIs
<1> HIDE DEF at
<1>4. at \in 1..Len(s) /\ s[at] = e
  BY <1>3
<1>5. \A i \in 1..Len(s) : s[i] = e => i = at
  BY <1>4, InSequence
<1> QED BY <1>4, <1>5 DEF at

(* Taking one element out of a ring (_unlink) leaves the others in order.     *)
LEMMA Removed ==
  ASSUME NEW S, NEW s \in Seq(S), IsInjective(s), NEW e
  PROVE  LET r == RemoveFirst(s, e)
         IN  /\ r \in Seq(S) /\ IsInjective(r) /\ ToSet(r) = ToSet(s) \ {e}
             /\ \A i, j \in DOMAIN r : i < j =>
                  \E a, b \in DOMAIN s : a < b /\ r[i] = s[a] /\ r[j] = s[b]
<1> DEFINE r == RemoveFirst(s, e)
<1>1. CASE e \notin ToSet(s)
  <2>1. r = s
    BY <1>1, InSequence DEF RemoveFirst
  <2> HIDE DEF r
  <2> QED BY <1>1, <2>1 DEF r
<1>2. CASE e \in ToSet(s)
  <2> DEFINE at == SelectInSeq(s, LAMBDA x : x = e)
             front == SubSeq(s, 1, at - 1)
             back == SubSeq(s, at + 1, Len(s))
  <2>1. at \in 1..Len(s) /\ s[at] = e /\ \A i \in 1..Len(s) : s[i] = e => i = at
    BY <1>2, PlaceOf
  <2>2. r = front \o back
    <3>1. \E i \in 1..Len(s) : s[i] = e
      BY <2>1
    <3>2. r = RemoveAt(s, SelectInSeq(s, LAMBDA v : v = e))
      BY <3>1 DEF RemoveFirst
    <3> QED BY <3>2 DEF RemoveAt
  <2> HIDE DEF at
  <2>3. /\ front \in Seq(S) /\ Len(front) = at - 1 /\ \A i \in 1..at-1 : front[i] = s[i]
        /\ back \in Seq(S) /\ Len(back) = Len(s) - at
        /\ \A i \in 1..Len(s) - at : back[i] = s[i + at]
    BY <2>1
  <2> HIDE DEF r, front, back
  <2>4. /\ r \in Seq(S) /\ Len(r) = Len(s) - 1
        /\ \A i \in 1..at-1 : r[i] = s[i]
        /\ \A i \in at..Len(s)-1 : r[i] = s[i + 1]
    <3>1. Len(front \o back) = Len(s) - 1 /\ front \o back \in Seq(S)
      BY <2>1, <2>3
    <3>2. \A i \in 1..at-1 : (front \o back)[i] = s[i]
      BY <2>1, <2>3
    <3>3. ASSUME NEW i \in at..Len(s)-1
          PROVE  (front \o back)[i] = s[i + 1]
      <4>1. i - Len(front) \in 1..Len(back) /\ (i - Len(front)) + at = i + 1
        BY <2>1, <2>3
      <4>2. (front \o back)[i] = back[i - Len(front)]
        BY <2>1, <2>3, <4>1
      <4> QED BY <2>3, <4>1, <4>2
    <3> QED BY <2>2, <3>1, <3>2, <3>3
  <2> DEFINE from(i) == IF i < at THEN i ELSE i + 1
  <2>5. /\ DOMAIN r = 1..Len(s) - 1 /\ DOMAIN s = 1..Len(s)
        /\ \A i \in 1..Len(s)-1 : from(i) \in 1..Len(s) /\ from(i) # at /\ r[i] = s[from(i)]
        /\ \A i, j \in 1..Len(s)-1 : i < j => from(i) < from(j)
    BY <2>1, <2>4
  <2>6. \A i \in 1..Len(s) : i # at => \E j \in 1..Len(s)-1 : from(j) = i
    <3> SUFFICES ASSUME NEW i \in 1..Len(s), i # at PROVE \E j \in 1..Len(s)-1 : from(j) = i
      OBVIOUS
    <3>1. CASE i < at
      BY <2>1, <3>1
    <3>2. CASE i > at
      <4>1. i - 1 \in 1..Len(s)-1 /\ from(i - 1) = i
        BY <2>1, <3>2
      <4> QED BY <4>1
    <3> QED BY <2>1, <3>1, <3>2
  <2> HIDE DEF from
  <2>7. \A i, j \in 1..Len(s) : s[i] = s[j] => i = j
    BY InSequence
  <2>8. IsInjective(r)
    <3> SUFFICES ASSUME NEW i \in 1..Len(s)-1, NEW j \in 1..Len(s)-1, r[i] = r[j] PROVE i = j
      BY <2>5 DEF IsInjective
    <3>1. from(i) = from(j)
      BY <2>5, <2>7
    <3>2. ~(i < j) /\ ~(j < i)
      BY <2>5, <3>1
    <3> QED BY <3>2
  <2>9. ToSet(r) = ToSet(s) \ {e}
    <3>1. ToSet(r) = {r[i] : i \in 1..Len(s)-1} /\ ToSet(s) = {s[i] : i \in 1..Len(s)}
      BY <2>5 DEF ToSet
    <3>2. ASSUME NEW i \in 1..Len(s)-1
          PROVE  r[i] \in ToSet(s) /\ r[i] # e
      BY <2>1, <2>5, <3>1
    <3>3. ASSUME NEW i \in 1..Len(s), s[i] # e
          PROVE  s[i] \in ToSet(r)
      <4>1. PICK j \in 1..Len(s)-1 : from(j) = i
        BY <2>1, <2>6, <3>3
      <4> QED BY <2>5, <3>1, <4>1
    <3> QED BY <3>1, <3>2, <3>3
  <2>10. \A i, j \in DOMAIN r : i < j =>
           \E a, b \in DOMAIN s : a < b /\ r[i] = s[a] /\ r[j] = s[b]
    BY <2>5
  <2> QED BY <2>4, <2>8, <2>9, <2>10 DEF r
<1> QED BY <1>1, <1>2

Subsequence(r, s) == \A x, y : InOrder(r, x, y) => InOrder(s, x, y)

LEMMA RemovedInOrder ==
  ASSUME NEW S, NEW s \in Seq(S), IsInjective(s), NEW e
  PROVE  LET r == RemoveFirst(s, e)
         IN  r \in Seq(S) /\ IsInjective(r) /\ ToSet(r) = ToSet(s) \ {e} /\ Subsequence(r, s)
<1> DEFINE r == RemoveFirst(s, e)
<1>1. /\ r \in Seq(S) /\ IsInjective(r) /\ ToSet(r) = ToSet(s) \ {e}
      /\ \A i, j \in DOMAIN r : i < j =>
           \E a, b \in DOMAIN s : a < b /\ r[i] = s[a] /\ r[j] = s[b]
  BY Removed
<1> HIDE DEF r
<1>2. Subsequence(r, s)
  BY <1>1 DEF Subsequence, InOrder
<1> QED BY <1>1, <1>2 DEF r

-------------------------------------------------------------------------------
(* What the links weigh *)

Term(link, i) == IF i \in DOMAIN link THEN Weigh[link[i].value] ELSE 0

Totals(link, total) ==
  total = [i \in 0..MaxSeq |-> IF i = 0 THEN 0 ELSE total[i-1] + Term(link, i)]

LEMMA TotalsExist ==
  ASSUME NEW link
  PROVE  \E total : Totals(link, total) /\ WeightOf(link) = total[MaxSeq]
<1> DEFINE Upto(k, g) == g = [i \in 0..k |-> IF i = 0 THEN 0 ELSE g[i-1] + Term(link, i)]
           S == {k \in Nat : \E g : Upto(k, g)}
<1>1. 0 \in S
  <2>1. Upto(0, [i \in 0..0 |-> 0])
    OBVIOUS
  <2> QED BY <2>1
<1>2. ASSUME NEW k \in Nat, k \in S
      PROVE  k + 1 \in S
  <2>1. PICK g : Upto(k, g)
    BY <1>2
  <2> DEFINE h == [i \in 0..k+1 |-> IF i = 0 THEN 0 ELSE g[i-1] + Term(link, i)]
  <2>2. \A i \in 0..k : g[i] = h[i]
    BY <2>1
  <2>3. \A i \in 0..k+1 : i # 0 => i - 1 \in 0..k
    OBVIOUS
  <2>4. \A i \in 0..k+1 : h[i] = IF i = 0 THEN 0 ELSE h[i-1] + Term(link, i)
    BY <2>2, <2>3
  <2>5. h = [i \in 0..k+1 |-> h[i]]
    OBVIOUS
  <2> HIDE DEF h
  <2>6. Upto(k + 1, h)
    BY <2>4, <2>5
  <2> QED BY <2>6
<1>3. Nat \subseteq S
  <2> HIDE DEF S
  <2> QED BY <1>1, <1>2, Induction
<1>4. \E total : Totals(link, total)
  BY <1>3, CacheConstants DEF Totals
<1>5. WeightOf(link) = (CHOOSE total : Totals(link, total))[MaxSeq]
  BY DEF WeightOf, Totals, Term
<1> QED BY <1>4, <1>5

LinkMaps == UNION {[D -> Entries] : D \in SUBSET Links}

LEMMA LinkMapIs ==
  ASSUME NEW f
  PROVE  f \in LinkMaps <=> /\ f = [x \in DOMAIN f |-> f[x]] /\ DOMAIN f \subseteq Links
                            /\ \A x \in DOMAIN f : f[x] \in Entries
BY DEF LinkMaps

LEMMA TermTyped ==
  ASSUME NEW link \in LinkMaps, NEW i
  PROVE  Term(link, i) \in Nat /\ (i \in DOMAIN link => Term(link, i) > 0)
<1>1. i \in DOMAIN link => link[i] \in Entries
  BY LinkMapIs
<1>2. i \in DOMAIN link => link[i].value \in Values
  BY <1>1 DEF Entries
<1> QED BY <1>2, CacheConstants DEF Term

LEMMA WeightTyped ==
  ASSUME NEW link \in LinkMaps
  PROVE  WeightOf(link) \in Nat /\ (DOMAIN link = {} => WeightOf(link) = 0)
<1>1. PICK total : Totals(link, total) /\ WeightOf(link) = total[MaxSeq]
  BY TotalsExist
<1> DEFINE S == {k \in Nat : k <= MaxSeq =>
                   total[k] \in Nat /\ (DOMAIN link = {} => total[k] = 0)}
<1>2. MaxSeq \in Nat
  BY CacheConstants
<1>3. 0 \in S
  BY <1>1, <1>2 DEF Totals
<1>4. ASSUME NEW k \in Nat, k \in S
      PROVE  k + 1 \in S
  <2> SUFFICES ASSUME k + 1 <= MaxSeq
               PROVE  total[k+1] \in Nat /\ (DOMAIN link = {} => total[k+1] = 0)
    OBVIOUS
  <2>1. total[k+1] = total[k] + Term(link, k + 1)
    BY <1>1, <1>2 DEF Totals
  <2>2. total[k] \in Nat /\ (DOMAIN link = {} => total[k] = 0)
    BY <1>2, <1>4
  <2>3. Term(link, k + 1) \in Nat /\ (DOMAIN link = {} => Term(link, k + 1) = 0)
    BY TermTyped DEF Term
  <2> QED BY <2>1, <2>2, <2>3
<1>5. Nat \subseteq S
  <2> HIDE DEF S
  <2> QED BY <1>3, <1>4, Induction
<1> QED BY <1>1, <1>2, <1>5

(* Two sets of links that differ in one.                                      *)
LEMMA WeightDiffers ==
  ASSUME NEW f \in LinkMaps, NEW g \in LinkMaps, NEW l \in Links,
         \A i \in Links : i # l => Term(f, i) = Term(g, i)
  PROVE  WeightOf(f) = WeightOf(g) + Term(f, l) - Term(g, l)
<1>1. PICK F : Totals(f, F) /\ WeightOf(f) = F[MaxSeq]
  BY TotalsExist
<1>2. PICK G : Totals(g, G) /\ WeightOf(g) = G[MaxSeq]
  BY TotalsExist
<1>3. MaxSeq \in Nat /\ l \in 1..MaxSeq
  BY CacheConstants DEF Links
<1>4. Term(f, l) \in Nat /\ Term(g, l) \in Nat
  BY TermTyped
<1> DEFINE S == {k \in Nat : k <= MaxSeq =>
                   /\ F[k] \in Int /\ G[k] \in Int
                   /\ F[k] = G[k] + IF k < l THEN 0 ELSE Term(f, l) - Term(g, l)}
<1>5. 0 \in S
  BY <1>1, <1>2, <1>3 DEF Totals
<1>6. ASSUME NEW k \in Nat, k \in S
      PROVE  k + 1 \in S
  <2> SUFFICES ASSUME k + 1 <= MaxSeq
               PROVE  /\ F[k+1] \in Int /\ G[k+1] \in Int
                      /\ F[k+1] = G[k+1] + IF k + 1 < l THEN 0 ELSE Term(f, l) - Term(g, l)
    OBVIOUS
  <2>1. F[k+1] = F[k] + Term(f, k + 1) /\ G[k+1] = G[k] + Term(g, k + 1)
    BY <1>1, <1>2, <1>3 DEF Totals
  <2>2. /\ F[k] \in Int /\ G[k] \in Int
        /\ F[k] = G[k] + IF k < l THEN 0 ELSE Term(f, l) - Term(g, l)
    BY <1>3, <1>6
  <2>3. Term(f, k + 1) \in Nat /\ Term(g, k + 1) \in Nat
    BY TermTyped
  <2>4. k + 1 # l => Term(f, k + 1) = Term(g, k + 1)
    BY <1>3 DEF Links
  <2>5. CASE k + 1 = l
    BY <1>4, <2>1, <2>2, <2>5
  <2>6. CASE k + 1 # l
    <3>1. k < l <=> k + 1 < l
      BY <1>3, <2>6
    <3> QED BY <1>4, <2>1, <2>2, <2>3, <2>4, <2>6, <3>1
  <2> QED BY <2>5, <2>6
<1>7. Nat \subseteq S
  <2> HIDE DEF S
  <2> QED BY <1>5, <1>6, Induction
<1>8. /\ F[MaxSeq] \in Int /\ G[MaxSeq] \in Int
      /\ F[MaxSeq] = G[MaxSeq] + IF MaxSeq < l THEN 0 ELSE Term(f, l) - Term(g, l)
  BY <1>3, <1>7
<1> QED BY <1>1, <1>2, <1>3, <1>4, <1>8

-------------------------------------------------------------------------------
(* The invariant *)

Tables == UNION {[D -> Links] : D \in SUBSET Keys}
Caches ==
  [table: Tables, link: LinkMaps, ins: Seq(Links), lru: Seq(Links), lfu: Seq(Links),
   dead: Seq(Links), seq: 0..MaxSeq, size: Nat, weight: Nat]

(* A ring holds each link in use once, ...                                    *)
Ring(c, order) == IsInjective(order) /\ ToSet(order) = DOMAIN c.link
Ascending(order) == \A i, j \in DOMAIN order : i < j => order[i] < order[j]

(* ... and so do all that are kept; the counters count the links in use.      *)
Chained(c) ==
  /\ c \in Caches
  /\ Ring(c, c.ins) /\ Ascending(c.ins) /\ Ring(c, c.lru)
  /\ IF conf.eviction = "LFU" THEN Ring(c, c.lfu) ELSE c.lfu = <<>>
  /\ \A l \in DOMAIN c.link : l <= c.seq
  /\ c.size = Cardinality(DOMAIN c.link)
  /\ c.weight = WeightOf(c.link)

(* The table is as it should be, but for the entry of a key in X.             *)
MatchesBut(c, X) ==
  /\ \A k \in DOMAIN c.table \ X : /\ c.table[k] \in DOMAIN c.link
                                   /\ c.link[c.table[k]].key = k
  /\ \A l \in DOMAIN c.link : /\ c.link[l].key \in DOMAIN c.table \ X
                              /\ c.table[c.link[l].key] = l

(* What a step makes of a cache when it takes links away.                     *)
Fewer(c, d) ==
  /\ DOMAIN d.link \subseteq DOMAIN c.link
  /\ \A l \in DOMAIN d.link : d.link[l] = c.link[l]
  /\ Subsequence(d.lru, c.lru)
  /\ d.seq = c.seq /\ d.size <= c.size /\ d.weight <= c.weight

LEMMA TableIs ==
  ASSUME NEW f
  PROVE  f \in Tables <=> /\ f = [x \in DOMAIN f |-> f[x]] /\ DOMAIN f \subseteq Keys
                          /\ \A x \in DOMAIN f : f[x] \in Links
BY DEF Tables

LEMMA LinksFinite ==
  ASSUME NEW link \in LinkMaps
  PROVE  IsFiniteSet(DOMAIN link) /\ Cardinality(DOMAIN link) \in Nat
<1>1. IsFiniteSet(Links)
  BY FS_Interval, CacheConstants DEF Links
<1>2. DOMAIN link \subseteq Links
  BY LinkMapIs
<1> QED BY <1>1, <1>2, FS_Subset, FS_CardinalityType

LEMMA WithoutTyped ==
  ASSUME NEW link \in LinkMaps, NEW l
  PROVE  /\ Without(link, l) \in LinkMaps
         /\ DOMAIN Without(link, l) = DOMAIN link \ {l}
         /\ \A x \in DOMAIN link \ {l} : Without(link, l)[x] = link[x]
         /\ l \notin DOMAIN link => Without(link, l) = link
         /\ l \in DOMAIN link => WeightOf(Without(link, l)) = WeightOf(link) - Weigh[link[l].value]
<1> DEFINE g == Without(link, l)
<1>1. /\ DOMAIN g = DOMAIN link \ {l} /\ \A x \in DOMAIN link \ {l} : g[x] = link[x]
      /\ g = [x \in DOMAIN g |-> g[x]]
  BY DEF Without
<1> HIDE DEF g
<1>2. g \in LinkMaps
  BY <1>1, LinkMapIs
<1>3. l \notin DOMAIN link => g = link
  BY <1>1, LinkMapIs
<1>4. ASSUME l \in DOMAIN link
      PROVE  WeightOf(g) = WeightOf(link) - Weigh[link[l].value]
  <2>1. \A i \in Links : i # l => Term(link, i) = Term(g, i)
    BY <1>1 DEF Term
  <2>2. Term(g, l) = 0 /\ Term(link, l) = Weigh[link[l].value] /\ l \in Links
    BY <1>1, <1>4, LinkMapIs DEF Term
  <2>3. WeightOf(link) = WeightOf(g) + Term(link, l) - Term(g, l)
    BY <1>2, <2>1, <2>2, WeightDiffers
  <2>4. WeightOf(link) \in Nat /\ WeightOf(g) \in Nat /\ Term(link, l) \in Nat
    BY <1>2, WeightTyped, TermTyped
  <2> QED BY <2>2, <2>3, <2>4
<1> QED BY <1>1, <1>2, <1>3, <1>4 DEF g

LEMMA UnlinkKeeps ==
  ASSUME NEW c, Chained(c), NEW l
  PROVE  LET d == Unlink(c, l)
         IN  /\ Chained(d) /\ Fewer(c, d)
             /\ d.link = Without(c.link, l) /\ d.table = c.table /\ d.dead = c.dead
<1> DEFINE d == Unlink(c, l)
<1>1. c \in Caches /\ c.link \in LinkMaps
  BY DEF Chained, Caches
<1>2. CASE Unlinked(c, l)
  <2>1. d = c /\ Without(c.link, l) = c.link
    BY <1>1, <1>2, WithoutTyped DEF Unlink, Unlinked
  <2>2. c.size <= c.size /\ c.weight <= c.weight
    BY <1>1 DEF Caches
  <2> HIDE DEF d
  <2> QED BY <2>1, <2>2 DEF Fewer, Subsequence, d
<1>3. CASE ~Unlinked(c, l)
  <2>1. l \in DOMAIN c.link /\ l \in Links /\ c.link[l] \in Entries
    BY <1>1, <1>3, LinkMapIs DEF Unlinked
  <2>2. /\ d.ins = RemoveFirst(c.ins, l) /\ d.lru = RemoveFirst(c.lru, l)
        /\ d.lfu = RemoveFirst(c.lfu, l) /\ d.link = Without(c.link, l)
        /\ d.size = c.size - 1 /\ d.weight = c.weight - Weigh[c.link[l].value]
        /\ d.table = c.table /\ d.dead = c.dead /\ d.seq = c.seq
        /\ d = [table |-> d.table, link |-> d.link, ins |-> d.ins, lru |-> d.lru, lfu |-> d.lfu,
                dead |-> d.dead, seq |-> d.seq, size |-> d.size, weight |-> d.weight]
    BY <1>1, <1>3 DEF Unlink, Caches
  <2> HIDE DEF d
  <2>3. /\ d.link \in LinkMaps /\ DOMAIN d.link = DOMAIN c.link \ {l}
        /\ \A x \in DOMAIN d.link : d.link[x] = c.link[x]
        /\ WeightOf(d.link) = WeightOf(c.link) - Weigh[c.link[l].value]
    <3> DEFINE w == Without(c.link, l)
    <3>1. /\ w \in LinkMaps /\ DOMAIN w = DOMAIN c.link \ {l}
          /\ \A x \in DOMAIN c.link \ {l} : w[x] = c.link[x]
          /\ WeightOf(w) = WeightOf(c.link) - Weigh[c.link[l].value]
      BY <1>1, <2>1, WithoutTyped
    <3>2. d.link = w
      BY <2>2
    <3> HIDE DEF w
    <3> QED BY <3>1, <3>2
  <2>4. /\ c.ins \in Seq(Links) /\ c.lru \in Seq(Links) /\ c.lfu \in Seq(Links)
        /\ Ring(c, c.ins) /\ Ascending(c.ins) /\ Ring(c, c.lru)
    BY <1>1 DEF Chained, Caches
  <2>5. /\ d.ins \in Seq(Links) /\ IsInjective(d.ins) /\ ToSet(d.ins) = ToSet(c.ins) \ {l}
        /\ \A i, j \in DOMAIN d.ins : i < j =>
             \E a, b \in DOMAIN c.ins : a < b /\ d.ins[i] = c.ins[a] /\ d.ins[j] = c.ins[b]
    <3> DEFINE r == RemoveFirst(c.ins, l)
    <3>1. IsInjective(c.ins)
      BY <2>4 DEF Ring
    <3>2. /\ r \in Seq(Links) /\ IsInjective(r) /\ ToSet(r) = ToSet(c.ins) \ {l}
          /\ \A i, j \in DOMAIN r : i < j =>
               \E a, b \in DOMAIN c.ins : a < b /\ r[i] = c.ins[a] /\ r[j] = c.ins[b]
      BY <2>4, <3>1, Removed
    <3>3. d.ins = r
      BY <2>2
    <3> HIDE DEF r
    <3> QED BY <3>2, <3>3
  <2>6. /\ d.lru \in Seq(Links) /\ IsInjective(d.lru) /\ ToSet(d.lru) = ToSet(c.lru) \ {l}
        /\ Subsequence(d.lru, c.lru)
    <3> DEFINE s == c.lru
    <3>1. s \in Seq(Links) /\ IsInjective(s) /\ d.lru = RemoveFirst(s, l)
      BY <2>2, <2>4 DEF Ring
    <3> HIDE DEF s
    <3>2. d.lru \in Seq(Links) /\ IsInjective(d.lru) /\ ToSet(d.lru) = ToSet(s) \ {l} /\ Subsequence(d.lru, s)
      BY <3>1, RemovedInOrder
    <3> QED BY <3>2 DEF s
  <2>7. d.lfu \in Seq(Links) /\ IF conf.eviction = "LFU" THEN Ring(d, d.lfu) ELSE d.lfu = <<>>
    <3>1. CASE conf.eviction = "LFU"
      <4>1. Ring(c, c.lfu)
        BY <3>1 DEF Chained
      <4>2. d.lfu \in Seq(Links) /\ IsInjective(d.lfu) /\ ToSet(d.lfu) = ToSet(c.lfu) \ {l}
        BY <2>2, <2>4, <4>1, Removed DEF Ring
      <4> QED BY <2>3, <3>1, <4>1, <4>2 DEF Ring
    <3>2. CASE conf.eviction # "LFU"
      <4>1. c.lfu = <<>>
        BY <3>2 DEF Chained
      <4>2. d.lfu = <<>>
        BY <2>2, <4>1 DEF RemoveFirst
      <4> QED BY <3>2, <4>2
    <3> QED BY <3>1, <3>2
  <2>8. /\ d.size \in Nat /\ d.size <= c.size /\ d.size = Cardinality(DOMAIN d.link)
    <3>1. c.size = Cardinality(DOMAIN c.link)
      BY DEF Chained
    <3>2. IsFiniteSet(DOMAIN c.link) /\ Cardinality(DOMAIN c.link) \in Nat
      BY <1>1, LinksFinite
    <3>3. Cardinality(DOMAIN d.link) = Cardinality(DOMAIN c.link) - 1 /\ Cardinality(DOMAIN d.link) \in Nat
      BY <2>1, <2>3, <3>2, LinksFinite, FS_RemoveElement
    <3> QED BY <2>2, <3>1, <3>2, <3>3
  <2>9. /\ d.weight \in Nat /\ d.weight <= c.weight /\ d.weight = WeightOf(d.link)
    <3>1. c.weight = WeightOf(c.link)
      BY DEF Chained
    <3>2. WeightOf(c.link) \in Nat /\ WeightOf(d.link) \in Nat
      BY <1>1, <2>3, WeightTyped
    <3>3. Weigh[c.link[l].value] \in Nat
      BY <2>1, CacheConstants DEF Entries
    <3> QED BY <2>2, <2>3, <3>1, <3>2, <3>3
  <2>10. d \in Caches
    BY <1>1, <2>2, <2>3, <2>5, <2>6, <2>7, <2>8, <2>9 DEF Caches
  <2>11. Ascending(d.ins)
    BY <2>4, <2>5 DEF Ascending
  <2>12. Ring(d, d.ins) /\ Ring(d, d.lru)
    BY <2>3, <2>4, <2>5, <2>6 DEF Ring
  <2>13. \A x \in DOMAIN d.link : x <= d.seq
    BY <2>2, <2>3 DEF Chained
  <2>14. Chained(d)
    BY <2>7, <2>8, <2>9, <2>10, <2>11, <2>12, <2>13 DEF Chained
  <2> QED BY <2>2, <2>3, <2>6, <2>8, <2>9, <2>14 DEF Fewer, d
<1> QED BY <1>2, <1>3

LEMMA FewerStill ==
  ASSUME NEW c \in Caches, NEW d \in Caches, NEW e \in Caches
  PROVE  Fewer(c, c) /\ (Fewer(c, d) /\ Fewer(d, e) => Fewer(c, e))
<1>1. /\ c.size \in Nat /\ c.weight \in Nat /\ d.size \in Nat /\ d.weight \in Nat
      /\ e.size \in Nat /\ e.weight \in Nat
  BY DEF Caches
<1>2. /\ Subsequence(c.lru, c.lru)
      /\ Subsequence(d.lru, c.lru) /\ Subsequence(e.lru, d.lru) => Subsequence(e.lru, c.lru)
  BY DEF Subsequence
<1> QED BY <1>1, <1>2 DEF Fewer

LEMMA TableChanged ==
  ASSUME NEW c, Chained(c), NEW t \in Tables
  PROVE  LET d == [c EXCEPT !.table = t]
         IN  /\ Chained(d) /\ Fewer(c, d) /\ d.table = t
             /\ d.link = c.link /\ d.dead = c.dead /\ d.ins = c.ins
<1> DEFINE d == [c EXCEPT !.table = t]
<1>1. c \in Caches
  BY DEF Chained
<1>2. /\ d \in Caches /\ d.table = t /\ d.link = c.link /\ d.ins = c.ins /\ d.lru = c.lru
      /\ d.lfu = c.lfu /\ d.dead = c.dead /\ d.seq = c.seq /\ d.size = c.size
      /\ d.weight = c.weight
  BY <1>1 DEF Caches
<1> HIDE DEF d
<1>3. Chained(d)
  BY <1>2 DEF Chained, Ring
<1>4. Fewer(c, d)
  BY <1>1, <1>2 DEF Fewer, Subsequence, Caches
<1> QED BY <1>2, <1>3, <1>4 DEF d

LEMMA TableWithout ==
  ASSUME NEW t \in Tables, NEW k
  PROVE  /\ Without(t, k) \in Tables /\ DOMAIN Without(t, k) = DOMAIN t \ {k}
         /\ \A x \in DOMAIN t \ {k} : Without(t, k)[x] = t[x]
<1> DEFINE g == Without(t, k)
<1>1. /\ DOMAIN g = DOMAIN t \ {k} /\ \A x \in DOMAIN t \ {k} : g[x] = t[x]
      /\ g = [x \in DOMAIN g |-> g[x]]
  BY DEF Without
<1> HIDE DEF g
<1>2. g \in Tables
  BY <1>1, TableIs
<1> QED BY <1>1, <1>2 DEF g

-------------------------------------------------------------------------------
(* Taking one link away, with its entry *)

(* What a step that takes links away leaves as it was.                        *)
Kept(c, d, X) == Chained(d) /\ MatchesBut(d, X) /\ Fewer(c, d)

(* Both orders of the two halves of a removal come to the same.               *)
LEMMA RemovalKeeps ==
  ASSUME NEW c, Chained(c), NEW X, MatchesBut(c, X), NEW l \in DOMAIN c.link
  PROVE  LET k == c.link[l].key
             d == Unlink([c EXCEPT !.table = Without(@, k)], l)
         IN  /\ Kept(c, d, X) /\ d.link = Without(c.link, l) /\ d.dead = c.dead
             /\ d.table = Without(c.table, k)
             /\ d = [Unlink(c, l) EXCEPT !.table = Without(@, k)]
             /\ d = Kill(c, l)
<1> DEFINE k == c.link[l].key
           t == Without(c.table, k)
           f == [c EXCEPT !.table = t]
           d == Unlink(f, l)
<1>1. c \in Caches /\ c.table \in Tables /\ c.link \in LinkMaps
  BY DEF Chained, Caches
<1>2. t \in Tables /\ DOMAIN t = DOMAIN c.table \ {k} /\ \A x \in DOMAIN c.table \ {k} : t[x] = c.table[x]
  BY <1>1, TableWithout
<1>3. k \in DOMAIN c.table \ X /\ c.table[k] = l
  BY DEF MatchesBut
<1>4. f = Forget(c, l)
  BY <1>3 DEF Forget, Unlinked
<1>5. d = Kill(c, l)
  BY <1>4 DEF Kill
<1>6. d = [Unlink(c, l) EXCEPT !.table = Without(@, k)]
  <2>1. Unlink(c, l) = [c EXCEPT !.ins = RemoveFirst(@, l), !.lru = RemoveFirst(@, l),
                          !.lfu = RemoveFirst(@, l), !.link = Without(@, l), !.size = @ - 1,
                          !.weight = @ - Weigh[c.link[l].value]]
    BY DEF Unlink, Unlinked
  <2>2. /\ f.table = t /\ f.link = c.link /\ f.ins = c.ins /\ f.lru = c.lru /\ f.lfu = c.lfu
        /\ f.size = c.size /\ f.weight = c.weight
    BY <1>1 DEF Caches
  <2>3. d = [f EXCEPT !.ins = RemoveFirst(@, l), !.lru = RemoveFirst(@, l),
               !.lfu = RemoveFirst(@, l), !.link = Without(@, l), !.size = @ - 1,
               !.weight = @ - Weigh[f.link[l].value]]
    BY <2>2 DEF Unlink, Unlinked
  <2> DEFINE After(table) ==
               [table |-> table, link |-> Without(c.link, l), ins |-> RemoveFirst(c.ins, l),
                lru |-> RemoveFirst(c.lru, l), lfu |-> RemoveFirst(c.lfu, l), dead |-> c.dead,
                seq |-> c.seq, size |-> c.size - 1, weight |-> c.weight - Weigh[c.link[l].value]]
  <2>4. Unlink(c, l) = After(c.table)
    BY <1>1, <2>1 DEF Caches
  <2>5. f = [table |-> t, link |-> c.link, ins |-> c.ins, lru |-> c.lru, lfu |-> c.lfu,
             dead |-> c.dead, seq |-> c.seq, size |-> c.size, weight |-> c.weight]
    <3> HIDE DEF t
    <3>1. c = [table |-> c.table, link |-> c.link, ins |-> c.ins, lru |-> c.lru, lfu |-> c.lfu,
               dead |-> c.dead, seq |-> c.seq, size |-> c.size, weight |-> c.weight]
      BY <1>1 DEF Caches
    <3> QED BY <3>1
  <2>6. d = After(t)
    <3> HIDE DEF f, t, d
    <3> QED BY <2>3, <2>5
  <2>7. [After(c.table) EXCEPT !.table = Without(@, k)] = After(t)
    OBVIOUS
  <2> QED BY <2>4, <2>6, <2>7
<1> HIDE DEF t
<1>7. Chained(f) /\ Fewer(c, f) /\ f.table = t /\ f.link = c.link /\ f.dead = c.dead
  BY <1>2, TableChanged
<1> HIDE DEF f
<1>8. Chained(d) /\ Fewer(f, d) /\ d.link = Without(f.link, l) /\ d.table = f.table /\ d.dead = f.dead
  BY <1>7, UnlinkKeeps
<1> HIDE DEF d
<1>9. /\ d.link = Without(c.link, l) /\ d.table = t /\ d.dead = c.dead
      /\ c \in Caches /\ f \in Caches /\ d \in Caches
  BY <1>7, <1>8 DEF Chained
<1>10. Fewer(c, d)
  BY <1>7, <1>8, <1>9, FewerStill
<1>11. /\ DOMAIN d.link = DOMAIN c.link \ {l}
       /\ \A x \in DOMAIN d.link : d.link[x] = c.link[x]
  <2> DEFINE w == Without(c.link, l)
  <2>1. DOMAIN w = DOMAIN c.link \ {l} /\ \A x \in DOMAIN c.link \ {l} : w[x] = c.link[x]
    BY <1>1, WithoutTyped
  <2> HIDE DEF w
  <2>2. d.link = w
    BY <1>9 DEF w
  <2> QED BY <2>1, <2>2
<1>12. MatchesBut(d, X)
  <2>1. ASSUME NEW x \in DOMAIN d.table \ X
        PROVE  d.table[x] \in DOMAIN d.link /\ d.link[d.table[x]].key = x
    <3>1. x \in DOMAIN c.table \ X /\ x # k /\ d.table[x] = c.table[x]
      BY <1>2, <1>9
    <3>2. c.table[x] \in DOMAIN c.link /\ c.link[c.table[x]].key = x
      BY <3>1 DEF MatchesBut
    <3> QED BY <1>11, <3>1, <3>2
  <2>2. ASSUME NEW x \in DOMAIN d.link
        PROVE  d.link[x].key \in DOMAIN d.table \ X /\ d.table[d.link[x].key] = x
    <3>1. x \in DOMAIN c.link /\ x # l /\ d.link[x] = c.link[x]
      BY <1>11
    <3>2. c.link[x].key \in DOMAIN c.table \ X /\ c.table[c.link[x].key] = x
      BY <3>1 DEF MatchesBut
    <3> QED BY <1>2, <1>3, <1>9, <3>1, <3>2
  <2> QED BY <2>1, <2>2 DEF MatchesBut
<1>13. /\ Kept(c, d, X) /\ d.link = Without(c.link, l) /\ d.dead = c.dead
       /\ d.table = Without(c.table, k)
       /\ d = [Unlink(c, l) EXCEPT !.table = Without(@, k)] /\ d = Kill(c, l)
  BY <1>5, <1>6, <1>8, <1>9, <1>10, <1>12 DEF Kept, t
<1> QED BY <1>13 DEF d, f, t

LEMMA KillKeeps ==
  ASSUME NEW c, Chained(c), NEW X, MatchesBut(c, X), NEW l
  PROVE  LET d == Kill(c, l)
         IN  Kept(c, d, X) /\ d.dead = c.dead /\ DOMAIN d.link = DOMAIN c.link \ {l}
<1> DEFINE d == Kill(c, l)
<1>0. c \in Caches /\ c.link \in LinkMaps
  BY DEF Chained, Caches
<1>1. CASE l \in DOMAIN c.link
  <2> DEFINE e == Unlink([c EXCEPT !.table = Without(@, c.link[l].key)], l)
  <2>0. Kept(c, e, X) /\ e.link = Without(c.link, l) /\ e.dead = c.dead /\ e = Kill(c, l)
    BY <1>1, RemovalKeeps
  <2> HIDE DEF d, e
  <2>1. Kept(c, d, X) /\ d.link = Without(c.link, l) /\ d.dead = c.dead
    BY <2>0 DEF d
  <2>2. DOMAIN Without(c.link, l) = DOMAIN c.link \ {l}
    BY DEF Without
  <2> QED BY <2>1, <2>2 DEF d
<1>2. CASE l \notin DOMAIN c.link
  <2>1. d = c
    BY <1>2 DEF Kill, Forget, Unlink, Unlinked
  <2>2. Fewer(c, c)
    BY <1>0, FewerStill
  <2> HIDE DEF d
  <2> QED BY <1>2, <2>1, <2>2 DEF Kept, d
<1> QED BY <1>1, <1>2

-------------------------------------------------------------------------------
(* Taking many links away, one after the other *)

Killings(c, links, killed) ==
  killed = [i \in 0..Len(links) |-> IF i = 0 THEN c ELSE Kill(killed[i-1], links[i])]

LEMMA KillingsExist ==
  ASSUME NEW c, NEW links, Len(links) \in Nat
  PROVE  \E killed : Killings(c, links, killed) /\ KillAll(c, links) = killed[Len(links)]
<1> DEFINE Upto(k, g) == g = [i \in 0..k |-> IF i = 0 THEN c ELSE Kill(g[i-1], links[i])]
           S == {k \in Nat : \E g : Upto(k, g)}
<1>1. 0 \in S
  <2>1. Upto(0, [i \in 0..0 |-> c])
    OBVIOUS
  <2> QED BY <2>1
<1>2. ASSUME NEW k \in Nat, k \in S
      PROVE  k + 1 \in S
  <2>1. PICK g : Upto(k, g)
    BY <1>2
  <2> DEFINE h == [i \in 0..k+1 |-> IF i = 0 THEN c ELSE Kill(g[i-1], links[i])]
  <2>2. \A i \in 0..k : g[i] = h[i]
    BY <2>1
  <2>3. \A i \in 0..k+1 : i # 0 => i - 1 \in 0..k
    OBVIOUS
  <2>4. \A i \in 0..k+1 : h[i] = IF i = 0 THEN c ELSE Kill(h[i-1], links[i])
    BY <2>2, <2>3
  <2>5. h = [i \in 0..k+1 |-> h[i]]
    OBVIOUS
  <2> HIDE DEF h
  <2>6. Upto(k + 1, h)
    BY <2>4, <2>5
  <2> QED BY <2>6
<1>3. Nat \subseteq S
  <2> HIDE DEF S
  <2> QED BY <1>1, <1>2, Induction
<1>4. \E killed : Killings(c, links, killed)
  BY <1>3 DEF Killings
<1>5. KillAll(c, links) = (CHOOSE killed : Killings(c, links, killed))[Len(links)]
  BY DEF KillAll, Killings
<1> QED BY <1>4, <1>5

Unlinkings(c, links, left) ==
  left = [i \in 0..Len(links) |-> IF i = 0 THEN c ELSE Unlink(left[i-1], links[i])]

LEMMA UnlinkingsExist ==
  ASSUME NEW c, NEW links, Len(links) \in Nat
  PROVE  \E left : Unlinkings(c, links, left) /\ UnlinkAll(c, links) = left[Len(links)]
<1> DEFINE Upto(k, g) == g = [i \in 0..k |-> IF i = 0 THEN c ELSE Unlink(g[i-1], links[i])]
           S == {k \in Nat : \E g : Upto(k, g)}
<1>1. 0 \in S
  <2>1. Upto(0, [i \in 0..0 |-> c])
    OBVIOUS
  <2> QED BY <2>1
<1>2. ASSUME NEW k \in Nat, k \in S
      PROVE  k + 1 \in S
  <2>1. PICK g : Upto(k, g)
    BY <1>2
  <2> DEFINE h == [i \in 0..k+1 |-> IF i = 0 THEN c ELSE Unlink(g[i-1], links[i])]
  <2>2. \A i \in 0..k : g[i] = h[i]
    BY <2>1
  <2>3. \A i \in 0..k+1 : i # 0 => i - 1 \in 0..k
    OBVIOUS
  <2>4. \A i \in 0..k+1 : h[i] = IF i = 0 THEN c ELSE Unlink(h[i-1], links[i])
    BY <2>2, <2>3
  <2>5. h = [i \in 0..k+1 |-> h[i]]
    OBVIOUS
  <2> HIDE DEF h
  <2>6. Upto(k + 1, h)
    BY <2>4, <2>5
  <2> QED BY <2>6
<1>3. Nat \subseteq S
  <2> HIDE DEF S
  <2> QED BY <1>1, <1>2, Induction
<1>4. \E left : Unlinkings(c, links, left)
  BY <1>3 DEF Unlinkings
<1>5. UnlinkAll(c, links) = (CHOOSE left : Unlinkings(c, links, left))[Len(links)]
  BY DEF UnlinkAll, Unlinkings
<1> QED BY <1>4, <1>5

Evictions(c, left) ==
  left = [i \in 0..Len(Victims(c)) |-> IF i = 0 THEN c ELSE Evict(left[i-1], Victims(c)[i])]

LEMMA EvictionsExist ==
  ASSUME NEW c, Len(Victims(c)) \in Nat
  PROVE  \E left : Evictions(c, left) /\ MakeRoom(c) = left[Len(Victims(c))]
<1> DEFINE Upto(k, g) == g = [i \in 0..k |-> IF i = 0 THEN c ELSE Evict(g[i-1], Victims(c)[i])]
           S == {k \in Nat : \E g : Upto(k, g)}
<1>1. 0 \in S
  <2>1. Upto(0, [i \in 0..0 |-> c])
    OBVIOUS
  <2> QED BY <2>1
<1>2. ASSUME NEW k \in Nat, k \in S
      PROVE  k + 1 \in S
  <2>1. PICK g : Upto(k, g)
    BY <1>2
  <2> DEFINE h == [i \in 0..k+1 |-> IF i = 0 THEN c ELSE Evict(g[i-1], Victims(c)[i])]
  <2>2. \A i \in 0..k : g[i] = h[i]
    BY <2>1
  <2>3. \A i \in 0..k+1 : i # 0 => i - 1 \in 0..k
    OBVIOUS
  <2>4. \A i \in 0..k+1 : h[i] = IF i = 0 THEN c ELSE Evict(h[i-1], Victims(c)[i])
    BY <2>2, <2>3
  <2>5. h = [i \in 0..k+1 |-> h[i]]
    OBVIOUS
  <2> HIDE DEF h
  <2>6. Upto(k + 1, h)
    BY <2>4, <2>5
  <2> QED BY <2>6
<1>3. Nat \subseteq S
  <2> HIDE DEF S
  <2> QED BY <1>1, <1>2, Induction
<1>4. \E left : Evictions(c, left)
  BY <1>3 DEF Evictions
<1>5. MakeRoom(c) = (CHOOSE left : Evictions(c, left))[Len(Victims(c))]
  BY DEF MakeRoom, Evictions
<1> QED BY <1>4, <1>5

LEMMA KeptStill ==
  ASSUME NEW c, Chained(c), NEW X, NEW d, Kept(c, d, X), NEW e, Kept(d, e, X)
  PROVE  Kept(c, e, X)
<1>1. c \in Caches /\ d \in Caches /\ e \in Caches
  BY DEF Kept, Chained
<1> QED BY <1>1, FewerStill DEF Kept

LEMMA KeptAlready ==
  ASSUME NEW c, Chained(c), NEW X, MatchesBut(c, X)
  PROVE  Kept(c, c, X)
<1>1. c \in Caches
  BY DEF Chained
<1> QED BY <1>1, FewerStill DEF Kept

LEMMA KilledSoFar ==
  ASSUME NEW c, Chained(c), NEW X, MatchesBut(c, X), NEW links \in Seq(Links),
         NEW killed, Killings(c, links, killed), NEW n \in 0..Len(links)
  PROVE  /\ Kept(c, killed[n], X) /\ killed[n].dead = c.dead
         /\ DOMAIN killed[n].link = DOMAIN c.link \ {links[i] : i \in 1..n}
<1>1. Len(links) \in Nat
  OBVIOUS
<1> DEFINE Good(d, k) ==
             /\ Kept(c, d, X) /\ d.dead = c.dead
             /\ DOMAIN d.link = DOMAIN c.link \ {links[i] : i \in 1..k}
           S == {k \in Nat : k <= Len(links) => Good(killed[k], k)}
<1>3. 0 \in S
  <2>1. killed[0] = c
    BY <1>1 DEF Killings
  <2>2. Good(c, 0)
    BY KeptAlready
  <2> HIDE DEF Good
  <2> QED BY <2>1, <2>2
<1>4. ASSUME NEW k \in Nat, k \in S
      PROVE  k + 1 \in S
  <2> SUFFICES ASSUME k + 1 <= Len(links) PROVE Good(killed[k+1], k + 1)
    OBVIOUS
  <2>1. k + 1 \in 0..Len(links) /\ k + 1 # 0 /\ (k + 1) - 1 = k /\ k <= Len(links)
    BY <1>1
  <2> DEFINE l == links[k+1]
             d == killed[k]
             e == Kill(d, l)
  <2>2. killed[k+1] = e
    BY <2>1 DEF Killings
  <2>3. Good(d, k)
    BY <1>4, <2>1
  <2> HIDE DEF d, l
  <2>4. Kept(d, e, X) /\ e.dead = d.dead /\ DOMAIN e.link = DOMAIN d.link \ {l}
    <3>1. Chained(d) /\ MatchesBut(d, X)
      BY <2>3 DEF Kept
    <3> QED BY <3>1, KillKeeps
  <2> HIDE DEF e
  <2>5. Kept(c, e, X)
    BY <2>3, <2>4, KeptStill
  <2>6. {links[i] : i \in 1..k+1} = {links[i] : i \in 1..k} \cup {l}
    <3>1. \A i \in 1..k+1 : i \in 1..k \/ i = k + 1
      OBVIOUS
    <3>2. k + 1 \in 1..k+1 /\ \A i \in 1..k : i \in 1..k+1
      OBVIOUS
    <3> QED BY <3>1, <3>2 DEF l
  <2>7. Good(e, k + 1)
    BY <2>3, <2>4, <2>5, <2>6
  <2> HIDE DEF Good
  <2> QED BY <2>2, <2>7
<1>5. Nat \subseteq S
  <2> HIDE DEF S
  <2> QED BY <1>3, <1>4, Induction
<1>6. Good(killed[n], n)
  <2>1. n \in Nat /\ n <= Len(links)
    BY <1>1
  <2> HIDE DEF Good
  <2> QED BY <1>5, <2>1
<1> QED BY <1>6

LEMMA KillAllKeeps ==
  ASSUME NEW c, Chained(c), NEW X, MatchesBut(c, X), NEW links \in Seq(Links)
  PROVE  LET d == KillAll(c, links)
         IN  Kept(c, d, X) /\ d.dead = c.dead /\ DOMAIN d.link = DOMAIN c.link \ ToSet(links)
<1>1. Len(links) \in Nat
  OBVIOUS
<1>2. PICK killed : Killings(c, links, killed) /\ KillAll(c, links) = killed[Len(links)]
  BY <1>1, KillingsExist
<1> DEFINE d == killed[Len(links)]
<1>3. Len(links) \in 0..Len(links)
  BY <1>1
<1>4. /\ Kept(c, d, X) /\ d.dead = c.dead
      /\ DOMAIN d.link = DOMAIN c.link \ {links[i] : i \in 1..Len(links)}
  BY <1>2, <1>3, KilledSoFar
<1> HIDE DEF d
<1>5. ToSet(links) = {links[i] : i \in 1..Len(links)}
  BY InSequence
<1> QED BY <1>2, <1>4, <1>5 DEF d

(* _unlink for every link, as clear() does.                                   *)
LEMMA UnlinkAllKeeps ==
  ASSUME NEW c, Chained(c), NEW links \in Seq(Links)
  PROVE  LET d == UnlinkAll(c, links)
         IN  /\ Chained(d) /\ Fewer(c, d) /\ d.table = c.table /\ d.dead = c.dead
             /\ DOMAIN d.link = DOMAIN c.link \ ToSet(links)
<1>1. Len(links) \in Nat
  OBVIOUS
<1>2. PICK left : Unlinkings(c, links, left) /\ UnlinkAll(c, links) = left[Len(links)]
  BY <1>1, UnlinkingsExist
<1> DEFINE Good(d, k) ==
             /\ Chained(d) /\ Fewer(c, d) /\ d.table = c.table /\ d.dead = c.dead
             /\ DOMAIN d.link = DOMAIN c.link \ {links[i] : i \in 1..k}
           S == {k \in Nat : k <= Len(links) => Good(left[k], k)}
<1>3. 0 \in S
  <2>1. left[0] = c
    BY <1>1, <1>2 DEF Unlinkings
  <2>2. c \in Caches /\ Fewer(c, c)
    BY FewerStill DEF Chained
  <2>3. Good(c, 0)
    BY <2>2
  <2> HIDE DEF Good
  <2> QED BY <2>1, <2>3
<1>4. ASSUME NEW k \in Nat, k \in S
      PROVE  k + 1 \in S
  <2> SUFFICES ASSUME k + 1 <= Len(links) PROVE Good(left[k+1], k + 1)
    OBVIOUS
  <2>1. k + 1 \in 0..Len(links) /\ k + 1 # 0 /\ (k + 1) - 1 = k /\ k <= Len(links)
    BY <1>1
  <2> DEFINE l == links[k+1]
             d == left[k]
             e == Unlink(d, l)
  <2>2. left[k+1] = e
    BY <1>2, <2>1 DEF Unlinkings
  <2>3. Good(d, k)
    BY <1>4, <2>1
  <2> HIDE DEF d, l
  <2>4. Chained(e) /\ Fewer(d, e) /\ e.link = Without(d.link, l) /\ e.table = d.table /\ e.dead = d.dead
    BY <2>3, UnlinkKeeps
  <2> HIDE DEF e
  <2>5. c \in Caches /\ d \in Caches /\ e \in Caches
    BY <2>3, <2>4 DEF Chained
  <2>6. Fewer(c, e)
    BY <2>3, <2>4, <2>5, FewerStill
  <2>7. DOMAIN e.link = DOMAIN d.link \ {l}
    BY <2>4 DEF Without
  <2>8. {links[i] : i \in 1..k+1} = {links[i] : i \in 1..k} \cup {l}
    <3>1. \A i \in 1..k+1 : i \in 1..k \/ i = k + 1
      OBVIOUS
    <3>2. k + 1 \in 1..k+1 /\ \A i \in 1..k : i \in 1..k+1
      OBVIOUS
    <3> QED BY <3>1, <3>2 DEF l
  <2>9. Good(e, k + 1)
    BY <2>3, <2>4, <2>6, <2>7, <2>8
  <2> HIDE DEF Good
  <2> QED BY <2>2, <2>9
<1>5. Nat \subseteq S
  <2> HIDE DEF S
  <2> QED BY <1>3, <1>4, Induction
<1>6. Good(left[Len(links)], Len(links))
  <2> HIDE DEF Good
  <2> QED BY <1>1, <1>5
<1>7. ToSet(links) = {links[i] : i \in 1..Len(links)}
  BY InSequence
<1> QED BY <1>2, <1>6, <1>7

LEMMA Reversed ==
  ASSUME NEW S, NEW s \in Seq(S)
  PROVE  Reverse(s) \in Seq(S) /\ ToSet(Reverse(s)) = ToSet(s)
<1> DEFINE r == Reverse(s)
<1>1. r \in Seq(S) /\ Len(r) = Len(s) /\ \A i \in 1..Len(s) : r[i] = s[Len(s) - i + 1]
  BY DEF Reverse
<1> HIDE DEF r
<1>2. \A i \in 1..Len(s) : /\ Len(s) - i + 1 \in 1..Len(s)
                           /\ Len(s) - (Len(s) - i + 1) + 1 = i
  OBVIOUS
<1>3. ToSet(r) = {r[i] : i \in 1..Len(s)} /\ ToSet(s) = {s[i] : i \in 1..Len(s)}
  BY <1>1, InSequence
<1>4. ToSet(r) \subseteq ToSet(s)
  BY <1>1, <1>2, <1>3
<1>5. ASSUME NEW i \in 1..Len(s)
      PROVE  s[i] \in ToSet(r)
  <2>1. r[Len(s) - i + 1] = s[i]
    BY <1>1, <1>2
  <2> QED BY <1>2, <1>3, <2>1
<1> QED BY <1>1, <1>3, <1>4, <1>5 DEF r

LEMMA VictimsAre ==
  ASSUME conf \in Settings, NEW c, Chained(c)
  PROVE  Victims(c) \in Seq(Links) /\ ToSet(Victims(c)) = DOMAIN c.link
<1>1. conf.eviction \in {"LRU", "LRI", "LFU"}
  BY DEF Settings
<1>2. c.ins \in Seq(Links) /\ c.lru \in Seq(Links) /\ c.lfu \in Seq(Links)
  BY DEF Chained, Caches
<1>3. CASE conf.eviction = "LRU"
  BY <1>2, <1>3 DEF Victims, Chained, Ring
<1>4. CASE conf.eviction = "LRI"
  BY <1>2, <1>4 DEF Victims, Chained, Ring
<1>5. CASE conf.eviction = "LFU"
  <2>1. Reverse(c.lfu) \in Seq(Links) /\ ToSet(Reverse(c.lfu)) = ToSet(c.lfu)
    BY <1>2, Reversed
  <2>2. ToSet(c.lfu) = DOMAIN c.link
    BY <1>5 DEF Chained, Ring
  <2>3. Victims(c) = Reverse(c.lfu)
    BY <1>5 DEF Victims
  <2> QED BY <2>1, <2>2, <2>3
<1> QED BY <1>1, <1>3, <1>4, <1>5

LEMMA NothingLeft ==
  ASSUME conf \in Settings, NEW c, Chained(c), DOMAIN c.link = {}
  PROVE  ~Full(c)
<1>1. c.size = 0
  BY FS_EmptySet DEF Chained
<1>2. c.weight = 0
  BY WeightTyped DEF Chained, Caches
<1>3. conf.max_size \in Nat \ {0} /\ conf.max_weight \in Nat
  BY DEF Settings
<1> QED BY <1>1, <1>2, <1>3 DEF Full

(* The loops of __setitem__ that evict end with room for one more.            *)
LEMMA MakeRoomKeeps ==
  ASSUME conf \in Settings, NEW c, Chained(c), NEW X, MatchesBut(c, X)
  PROVE  LET d == MakeRoom(c)
         IN  Kept(c, d, X) /\ d.dead = c.dead /\ ~Full(d)
<1> DEFINE links == Victims(c)
<1>0. links \in Seq(Links) /\ Len(links) \in Nat /\ ToSet(links) = DOMAIN c.link
  BY VictimsAre
<1>1. PICK left : Evictions(c, left) /\ MakeRoom(c) = left[Len(links)]
  BY <1>0, EvictionsExist
<1>2. left = [i \in 0..Len(links) |-> IF i = 0 THEN c ELSE Evict(left[i-1], links[i])]
  BY <1>1 DEF Evictions
<1> HIDE DEF links
<1> DEFINE Good(d, k) ==
             /\ Kept(c, d, X) /\ d.dead = c.dead
             /\ Full(d) => DOMAIN d.link \subseteq DOMAIN c.link \ {links[i] : i \in 1..k}
           S == {k \in Nat : k <= Len(links) => Good(left[k], k)}
<1>3. 0 \in S
  <2>1. left[0] = c
    BY <1>0, <1>2
  <2>2. Good(c, 0)
    BY KeptAlready
  <2> HIDE DEF Good
  <2> QED BY <2>1, <2>2
<1>4. ASSUME NEW k \in Nat, k \in S
      PROVE  k + 1 \in S
  <2> SUFFICES ASSUME k + 1 <= Len(links) PROVE Good(left[k+1], k + 1)
    OBVIOUS
  <2>1. k + 1 \in 0..Len(links) /\ k + 1 # 0 /\ (k + 1) - 1 = k /\ k <= Len(links)
    BY <1>0
  <2> DEFINE l == links[k+1]
             d == left[k]
             e == Evict(d, l)
  <2>2. left[k+1] = e
    BY <1>2, <2>1
  <2>3. Good(d, k)
    BY <1>4, <2>1
  <2>4. {links[i] : i \in 1..k+1} = {links[i] : i \in 1..k} \cup {l}
    <3>1. \A i \in 1..k+1 : i \in 1..k \/ i = k + 1
      OBVIOUS
    <3>2. k + 1 \in 1..k+1 /\ \A i \in 1..k : i \in 1..k+1
      OBVIOUS
    <3> QED BY <3>1, <3>2
  <2> HIDE DEF d, l
  <2>5. CASE Full(d)
    <3>1. e = Kill(d, l)
      BY <2>5 DEF Evict
    <3>2. Chained(d) /\ MatchesBut(d, X)
      BY <2>3 DEF Kept
    <3> HIDE DEF e
    <3>3. Kept(d, e, X) /\ e.dead = d.dead /\ DOMAIN e.link = DOMAIN d.link \ {l}
      BY <3>1, <3>2, KillKeeps
    <3>4. Kept(c, e, X)
      BY <2>3, <3>3, KeptStill
    <3>5. Good(e, k + 1)
      BY <2>3, <2>4, <2>5, <3>3, <3>4
    <3> HIDE DEF Good
    <3> QED BY <2>2, <3>5
  <2>6. CASE ~Full(d)
    <3>1. e = d
      BY <2>6 DEF Evict
    <3>2. Good(d, k + 1)
      BY <2>3, <2>6
    <3> HIDE DEF Good, e
    <3> QED BY <2>2, <3>1, <3>2
  <2> HIDE DEF Good
  <2> QED BY <2>5, <2>6
<1>5. Nat \subseteq S
  <2> HIDE DEF S
  <2> QED BY <1>3, <1>4, Induction
<1> DEFINE d == left[Len(links)]
<1>6. Good(d, Len(links))
  <2> HIDE DEF Good
  <2> QED BY <1>0, <1>5
<1>7. {links[i] : i \in 1..Len(links)} = DOMAIN c.link
  BY <1>0, InSequence
<1> HIDE DEF d
<1>8. ~Full(d)
  <2> SUFFICES ASSUME Full(d) PROVE FALSE
    OBVIOUS
  <2>1. DOMAIN d.link = {} /\ Chained(d)
    BY <1>6, <1>7 DEF Kept
  <2> QED BY <2>1, NothingLeft
<1> QED BY <1>1, <1>6, <1>8 DEF d, links

-------------------------------------------------------------------------------
(* The reap: what died, then what was written or used too long ago *)

LEMMA PrefixTyped ==
  ASSUME NEW s \in Seq(Links), NEW I \in SUBSET (0..Len(s)), 0 \in I
  PROVE  Max(I) \in 0..Len(s) /\ SubSeq(s, 1, Max(I)) \in Seq(Links)
<1>1. I \in SUBSET Nat /\ I # {} /\ Len(s) \in Nat /\ \A x \in I : x <= Len(s)
  OBVIOUS
<1>2. Max(I) \in I
  BY <1>1, MaxIs
<1> DEFINE n == Max(I)
<1> HIDE DEF n
<1>3. n \in 0..Len(s)
  BY <1>2 DEF n
<1>4. SubSeq(s, 1, n) \in Seq(Links)
  BY <1>3
<1> QED BY <1>3, <1>4 DEF n

LEMMA DeadForgotten ==
  ASSUME NEW c, Chained(c), NEW X, MatchesBut(c, X), NEW q \in Seq(Links)
  PROVE  LET d == [c EXCEPT !.dead = q]
         IN  Kept(c, d, X) /\ d.table = c.table /\ d.link = c.link /\ d.ins = c.ins
<1> DEFINE d == [c EXCEPT !.dead = q]
<1>1. c \in Caches
  BY DEF Chained
<1>2. /\ d \in Caches /\ d.table = c.table /\ d.link = c.link /\ d.ins = c.ins /\ d.lru = c.lru
      /\ d.lfu = c.lfu /\ d.seq = c.seq /\ d.size = c.size /\ d.weight = c.weight
  BY <1>1 DEF Caches
<1> HIDE DEF d
<1>3. Chained(d)
  BY <1>2 DEF Chained, Ring
<1>4. MatchesBut(d, X)
  BY <1>2 DEF MatchesBut
<1>5. Fewer(c, d)
  BY <1>1, <1>2 DEF Fewer, Subsequence, Caches
<1> QED BY <1>2, <1>3, <1>4, <1>5 DEF Kept, d

LEMMA ReapKeeps ==
  ASSUME NEW c, Chained(c), NEW X, MatchesBut(c, X)
  PROVE  Kept(c, Reap(c), X)
<1>1. ASSUME NEW e, Chained(e), MatchesBut(e, X)
      PROVE  Kept(e, ReapDead(e), X)
  <2> DEFINE d == KillAll(e, e.dead)
             f == [d EXCEPT !.dead = <<>>]
  <2>1. e.dead \in Seq(Links) /\ <<>> \in Seq(Links)
    BY <1>1 DEF Chained, Caches
  <2>2. Kept(e, d, X)
    BY <1>1, <2>1, KillAllKeeps
  <2> HIDE DEF d
  <2>3. Kept(d, f, X)
    BY <2>1, <2>2, DeadForgotten DEF Kept
  <2> HIDE DEF f
  <2>4. Kept(e, f, X)
    BY <1>1, <2>2, <2>3, KeptStill
  <2> QED BY <2>4 DEF f, d, ReapDead
<1>2. ASSUME NEW e, Chained(e), MatchesBut(e, X)
      PROVE  Kept(e, ReapWritten(e), X)
  <2>0. e.ins \in Seq(Links)
    BY <1>2 DEF Chained, Caches
  <2> DEFINE I == {i \in 0..Len(e.ins) : \A j \in 1..i :
                      e.link[e.ins[j]].written <= now - conf.expire_after_write}
             links == SubSeq(e.ins, 1, Max(I))
  <2>1. I \in SUBSET (0..Len(e.ins)) /\ 0 \in I
    BY <2>0
  <2>2. ReapWritten(e) = IF conf.expire_after_write = 0 THEN e ELSE KillAll(e, links)
    BY DEF ReapWritten, Leading
  <2> HIDE DEF I
  <2>3. links \in Seq(Links)
    BY <2>0, <2>1, PrefixTyped
  <2> HIDE DEF links
  <2>4. Kept(e, KillAll(e, links), X)
    BY <1>2, <2>3, KillAllKeeps
  <2> QED BY <1>2, <2>2, <2>4, KeptAlready
<1>3. ASSUME NEW e, Chained(e), MatchesBut(e, X)
      PROVE  Kept(e, ReapAccessed(e), X)
  <2>0. e.lru \in Seq(Links)
    BY <1>3 DEF Chained, Caches
  <2> DEFINE I == {i \in 0..Len(e.lru) : \A j \in 1..i :
                      e.link[e.lru[j]].accessed <= now - conf.expire_after_access}
             links == SubSeq(e.lru, 1, Max(I))
  <2>1. I \in SUBSET (0..Len(e.lru)) /\ 0 \in I
    BY <2>0
  <2>2. ReapAccessed(e) = IF conf.expire_after_access = 0 THEN e ELSE KillAll(e, links)
    BY DEF ReapAccessed, Leading
  <2> HIDE DEF I
  <2>3. links \in Seq(Links)
    BY <2>0, <2>1, PrefixTyped
  <2> HIDE DEF links
  <2>4. Kept(e, KillAll(e, links), X)
    BY <1>3, <2>3, KillAllKeeps
  <2> QED BY <1>3, <2>2, <2>4, KeptAlready
<1> DEFINE d == ReapDead(c)
           e == ReapWritten(d)
           f == ReapAccessed(e)
<1>4. Kept(c, d, X)
  BY <1>1
<1> HIDE DEF d
<1>5. Kept(d, e, X)
  BY <1>2, <1>4 DEF Kept
<1> HIDE DEF e
<1>6. Kept(e, f, X)
  BY <1>3, <1>5 DEF Kept
<1> HIDE DEF f
<1>7. Kept(c, f, X)
  BY <1>4, <1>5, <1>6, KeptStill
<1> QED BY <1>7 DEF f, e, d, Reap

LEMMA SetToSeqTyped ==
  ASSUME NEW S \in SUBSET Links
  PROVE  SetToSeq(S) \in Seq(Links)
<1>0. IsFiniteSet(Links)
  BY FS_Interval, CacheConstants DEF Links
<1>1. IsFiniteSet(S)
  BY <1>0, FS_Subset
<1>2. Cardinality(S) \in Nat /\ Bijection(1..Cardinality(S), S) # {}
  BY <1>1, FS_CardinalityType DEF ExistsBijection
<1>3. \E f \in [1..Cardinality(S) -> S] : IsInjective(f)
  BY <1>2 DEF Bijection, Injection
<1>4. SetToSeq(S) \in [1..Cardinality(S) -> S]
  BY <1>3 DEF SetToSeq
<1> QED BY <1>2, <1>4

LEMMA DieKeeps ==
  ASSUME NEW c, Chained(c), NEW X, MatchesBut(c, X), NEW gone
  PROVE  LET d == Die(c, gone)
         IN  Kept(c, d, X) /\ d.table = c.table /\ d.link = c.link /\ d.ins = c.ins
<1> DEFINE S == {l \in DOMAIN c.link : c.link[l].value \in gone}
           q == c.dead \o SetToSeq(S)
<1>1. c.link \in LinkMaps /\ c.dead \in Seq(Links)
  BY DEF Chained, Caches
<1>2. S \in SUBSET Links
  BY <1>1, LinkMapIs
<1>3. q \in Seq(Links)
  <2>1. SetToSeq(S) \in Seq(Links)
    BY <1>2, SetToSeqTyped
  <2> QED BY <1>1, <2>1
<1>4. Die(c, gone) = [c EXCEPT !.dead = q]
  BY DEF Die
<1> HIDE DEF q
<1> DEFINE d == [c EXCEPT !.dead = q]
<1>5. Kept(c, d, X) /\ d.table = c.table /\ d.link = c.link /\ d.ins = c.ins
  BY <1>3, DeadForgotten
<1> HIDE DEF d
<1> QED BY <1>4, <1>5 DEF d

-------------------------------------------------------------------------------
(* Looking a key up, and what the four operations do with what they find *)

LEMMA DroppedKeeps ==
  ASSUME NEW c, Chained(c), MatchesBut(c, {}), NEW k, NEW living
  PROVE  LET d == Dropped(c, k, living)
         IN  /\ Kept(c, d, {})
             /\ ~Found(c, k, living) => k \notin DOMAIN d.table
<1> DEFINE l == c.table[k]
<1>1. CASE k \in DOMAIN c.table /\ ~Found(c, k, living)
  <2>1. l \in DOMAIN c.link /\ c.link[l].key = k
    BY <1>1 DEF MatchesBut
  <2> DEFINE e == Unlink([c EXCEPT !.table = Without(@, c.link[l].key)], l)
  <2> HIDE DEF l
  <2>2. /\ Kept(c, e, {}) /\ e.table = Without(c.table, c.link[l].key)
        /\ e = [Unlink(c, l) EXCEPT !.table = Without(@, c.link[l].key)]
    BY <2>1, RemovalKeeps
  <2> HIDE DEF e
  <2>3. Dropped(c, k, living) = e
    BY <1>1, <2>1, <2>2 DEF Dropped, l
  <2>4. k \notin DOMAIN e.table
    BY <2>1, <2>2 DEF Without
  <2> QED BY <2>2, <2>3, <2>4
<1>2. CASE ~(k \in DOMAIN c.table /\ ~Found(c, k, living))
  <2>1. Dropped(c, k, living) = c
    BY <1>2 DEF Dropped
  <2>2. Kept(c, c, {})
    BY KeptAlready
  <2> QED BY <1>2, <2>1, <2>2
<1> QED BY <1>1, <1>2

(* __setitem__ over an existing key: the entry is left, its link is not.      *)
LEMMA ReplacedKeeps ==
  ASSUME NEW c, Chained(c), MatchesBut(c, {}), NEW k, NEW living
  PROVE  LET d == IF Found(c, k, living) THEN Unlink(c, c.table[k]) ELSE Dropped(c, k, living)
         IN  Kept(c, d, {k})
<1>1. c \in Caches /\ c.link \in LinkMaps
  BY DEF Chained, Caches
<1>2. CASE Found(c, k, living)
  <2> DEFINE l == c.table[k]
             d == Unlink(c, l)
  <2>1. k \in DOMAIN c.table /\ l \in DOMAIN c.link /\ c.link[l].key = k
    BY <1>2 DEF MatchesBut, Found
  <2> HIDE DEF l
  <2>2. Chained(d) /\ Fewer(c, d) /\ d.link = Without(c.link, l) /\ d.table = c.table
    BY UnlinkKeeps
  <2> HIDE DEF d
  <2>3. DOMAIN d.link = DOMAIN c.link \ {l} /\ \A x \in DOMAIN d.link : d.link[x] = c.link[x]
    BY <2>2 DEF Without
  <2>4. MatchesBut(d, {k})
    <3>1. ASSUME NEW x \in DOMAIN d.table \ {k}
          PROVE  d.table[x] \in DOMAIN d.link /\ d.link[d.table[x]].key = x
      <4>1. d.table[x] = c.table[x] /\ c.table[x] \in DOMAIN c.link /\ c.link[c.table[x]].key = x
        BY <2>2 DEF MatchesBut
      <4> QED BY <2>1, <2>3, <4>1
    <3>2. ASSUME NEW x \in DOMAIN d.link
          PROVE  d.link[x].key \in DOMAIN d.table \ {k} /\ d.table[d.link[x].key] = x
      <4>1. x \in DOMAIN c.link /\ x # l /\ d.link[x] = c.link[x]
        BY <2>3
      <4>2. c.link[x].key \in DOMAIN c.table /\ c.table[c.link[x].key] = x
        BY <4>1 DEF MatchesBut
      <4> QED BY <2>2, <4>1, <4>2 DEF l
    <3> QED BY <3>1, <3>2 DEF MatchesBut
  <2> QED BY <1>2, <2>2, <2>4 DEF Kept, d, l
<1>3. CASE ~Found(c, k, living)
  <2> DEFINE d == Dropped(c, k, living)
  <2>1. Kept(c, d, {}) /\ k \notin DOMAIN d.table
    BY <1>3, DroppedKeeps
  <2> HIDE DEF d
  <2>2. MatchesBut(d, {k})
    BY <2>1 DEF MatchesBut, Kept
  <2> QED BY <1>3, <2>1, <2>2 DEF Kept, d
<1> QED BY <1>2, <1>3

LEMMA DeleteKeeps ==
  ASSUME NEW c, Chained(c), MatchesBut(c, {}), NEW k \in DOMAIN c.table
  PROVE  Kept(c, Unlink([c EXCEPT !.table = Without(@, k)], c.table[k]), {})
<1> DEFINE l == c.table[k]
<1>1. l \in DOMAIN c.link /\ c.link[l].key = k
  BY DEF MatchesBut
<1> DEFINE e == Unlink([c EXCEPT !.table = Without(@, c.link[l].key)], l)
<1> HIDE DEF l
<1>2. Kept(c, e, {})
  BY <1>1, RemovalKeeps
<1>3. e = Unlink([c EXCEPT !.table = Without(@, k)], l)
  BY <1>1
<1> HIDE DEF e
<1> QED BY <1>2, <1>3 DEF l

(* A later cache has no other link of those that there were.                  *)
Later(c, d) ==
  /\ c.seq <= d.seq
  /\ \A l \in DOMAIN d.link : l <= c.seq =>
        l \in DOMAIN c.link /\ d.link[l].key = c.link[l].key

LEMMA FewerIsLater ==
  ASSUME NEW c \in Caches, NEW d, Fewer(c, d)
  PROVE  Later(c, d)
BY DEF Fewer, Later, Caches

LEMMA LaterStill ==
  ASSUME NEW c \in Caches, NEW d \in Caches, NEW e \in Caches, Later(c, d), Later(d, e)
  PROVE  Later(c, e)
<1>1. c.seq \in Nat /\ d.seq \in Nat /\ e.seq \in Nat
  BY CacheConstants DEF Caches
<1>2. \A l \in DOMAIN e.link : l \in Nat
  <2>1. e.link \in LinkMaps
    BY DEF Caches
  <2>2. DOMAIN e.link \subseteq Links
    BY <2>1, LinkMapIs
  <2>3. Links \subseteq Nat
    BY CacheConstants DEF Links
  <2> QED BY <2>2, <2>3
<1> QED BY <1>1, <1>2 DEF Later

(* A link that is replaced by one of the same key and value.                  *)
LEMMA SameWeight ==
  ASSUME NEW f \in LinkMaps, NEW l \in DOMAIN f, NEW r \in Entries, r.value = f[l].value
  PROVE  LET g == [f EXCEPT ![l] = r]
         IN  /\ g \in LinkMaps /\ DOMAIN g = DOMAIN f /\ g[l] = r
             /\ \A x \in DOMAIN f \ {l} : g[x] = f[x]
             /\ WeightOf(g) = WeightOf(f)
<1> DEFINE g == [f EXCEPT ![l] = r]
<1>1. /\ f = [x \in DOMAIN f |-> f[x]] /\ DOMAIN f \subseteq Links
      /\ \A x \in DOMAIN f : f[x] \in Entries
  BY LinkMapIs
<1>2. /\ DOMAIN g = DOMAIN f /\ g[l] = r /\ \A x \in DOMAIN f \ {l} : g[x] = f[x]
      /\ g = [x \in DOMAIN g |-> g[x]]
  OBVIOUS
<1> HIDE DEF g
<1>3. g \in LinkMaps
  BY <1>1, <1>2, LinkMapIs
<1>4. \A i \in Links : Term(f, i) = Term(g, i)
  BY <1>2 DEF Term
<1>5. WeightOf(f) = WeightOf(g) + Term(f, l) - Term(g, l)
  BY <1>1, <1>3, <1>4, WeightDiffers
<1>6. Term(f, l) = Term(g, l) /\ Term(g, l) \in Nat /\ WeightOf(g) \in Nat
  BY <1>1, <1>3, <1>4, TermTyped, WeightTyped
<1> QED BY <1>2, <1>3, <1>5, <1>6 DEF g

LEMMA TouchKeeps ==
  ASSUME now \in 0..MaxClock, NEW c, Chained(c), NEW X, MatchesBut(c, X), NEW l \in DOMAIN c.link
  PROVE  LET d == Touch(c, l)
         IN  Chained(d) /\ MatchesBut(d, X) /\ Later(c, d) /\ d.size = c.size /\ d.weight = c.weight
<1> DEFINE d == Touch(c, l)
           r == [c.link[l] EXCEPT !.accessed = now, !.hits = IF @ < MaxHits THEN @ + 1 ELSE @]
           g == [c.link EXCEPT ![l] = r]
<1>1. c \in Caches /\ c.link \in LinkMaps /\ c.link[l] \in Entries /\ MaxHits \in Nat
  BY LinkMapIs, CacheConstants DEF Chained, Caches
<1>2. r \in Entries /\ r.value = c.link[l].value /\ r.key = c.link[l].key
  <2> DEFINE e == c.link[l]
             h == IF e.hits < MaxHits THEN e.hits + 1 ELSE e.hits
  <2>1. e \in Entries /\ r = [e EXCEPT !.accessed = now, !.hits = h]
    BY <1>1 DEF Entries
  <2>2. h \in 0..MaxHits
    BY <1>1, <2>1 DEF Entries
  <2> HIDE DEF r, h, e
  <2>3. r \in Entries /\ r.value = e.value /\ r.key = e.key
    BY <2>1, <2>2 DEF Entries
  <2> QED BY <2>3 DEF e
<1> HIDE DEF r
<1>3. /\ g \in LinkMaps /\ DOMAIN g = DOMAIN c.link /\ g[l] = r
      /\ \A x \in DOMAIN c.link \ {l} : g[x] = c.link[x]
      /\ WeightOf(g) = WeightOf(c.link)
  BY <1>1, <1>2, SameWeight
<1>4. d = [c EXCEPT !.link = g]
  BY <1>1 DEF Touch, r, Caches
<1> HIDE DEF g
<1>5. /\ d \in Caches /\ d.table = c.table /\ d.link = g /\ d.ins = c.ins /\ d.lru = c.lru
      /\ d.lfu = c.lfu /\ d.dead = c.dead /\ d.seq = c.seq /\ d.size = c.size
      /\ d.weight = c.weight
  BY <1>1, <1>3, <1>4 DEF Caches
<1> HIDE DEF d
<1>6. Chained(d)
  BY <1>3, <1>5 DEF Chained, Ring
<1>7. \A x \in DOMAIN d.link : d.link[x].key = c.link[x].key
  BY <1>2, <1>3, <1>5
<1>8. MatchesBut(d, X)
  BY <1>3, <1>5, <1>7 DEF MatchesBut
<1>9. Later(c, d)
  BY <1>1, <1>3, <1>5, <1>7 DEF Later, Caches
<1> QED BY <1>5, <1>6, <1>8, <1>9 DEF d

(* What does not touch the links and the table.                               *)
SameLinks(c, d) ==
  d.link = c.link /\ d.table = c.table /\ d.seq = c.seq /\ d.size = c.size /\ d.weight = c.weight

LEMMA MoveLruKeeps ==
  ASSUME NEW c, Chained(c), NEW l \in DOMAIN c.link
  PROVE  Chained(MoveLru(c, l)) /\ SameLinks(c, MoveLru(c, l))
<1> DEFINE d == MoveLru(c, l)
           r == RemoveFirst(c.lru, l)
           s == Append(r, l)
<1>1. c \in Caches /\ c.lru \in Seq(Links) /\ IsInjective(c.lru) /\ ToSet(c.lru) = DOMAIN c.link
  BY DEF Chained, Caches, Ring
<1>2. l \in Links
  BY <1>1, LinkMapIs DEF Caches
<1>3. r \in Seq(Links) /\ IsInjective(r) /\ ToSet(r) = ToSet(c.lru) \ {l}
  BY <1>1, Removed
<1>4. d = [c EXCEPT !.lru = s]
  BY DEF MoveLru
<1> HIDE DEF r
<1>5. s \in Seq(Links) /\ IsInjective(s) /\ ToSet(s) = ToSet(r) \cup {l}
  BY <1>2, <1>3, Appended
<1> HIDE DEF s
<1>6. IsInjective(s) /\ ToSet(s) = DOMAIN c.link
  BY <1>1, <1>3, <1>5
<1>7. /\ d \in Caches /\ d.table = c.table /\ d.link = c.link /\ d.ins = c.ins /\ d.lru = s
      /\ d.lfu = c.lfu /\ d.dead = c.dead /\ d.seq = c.seq /\ d.size = c.size
      /\ d.weight = c.weight
  BY <1>1, <1>4, <1>5 DEF Caches
<1> HIDE DEF d
<1>8. Chained(d)
  BY <1>6, <1>7 DEF Chained, Ring
<1> QED BY <1>7, <1>8 DEF SameLinks, d

(* The link moves over a part of the ring to the place behind it.             *)
LEMMA MoveLfuKeeps ==
  ASSUME NEW c, Chained(c), NEW l \in DOMAIN c.link
  PROVE  Chained(MoveLfu(c, l)) /\ SameLinks(c, MoveLfu(c, l))
<1>1. CASE conf.eviction # "LFU"
  BY <1>1 DEF MoveLfu, SameLinks
<1>2. CASE conf.eviction = "LFU"
  <2>1. c \in Caches /\ c.lfu \in Seq(Links) /\ IsInjective(c.lfu) /\ ToSet(c.lfu) = DOMAIN c.link
    BY <1>2 DEF Chained, Caches, Ring
  <2>2. l \in Links
    BY <2>1, LinkMapIs DEF Caches
  <2> DEFINE at == SelectInSeq(c.lfu, LAMBDA x : x = l)
             after == SubSeq(c.lfu, at + 1, Len(c.lfu))
             I == {i \in 0..Len(after) : \A j \in 1..i : c.link[after[j]].hits >= c.link[l].hits}
             b == LfuBehind(c, l)
  <2>3. at \in 1..Len(c.lfu) /\ c.lfu[at] = l
    <3>1. l \in ToSet(c.lfu)
      BY <2>1
    <3>2. at \in 1..Len(c.lfu) /\ c.lfu[at] = l /\ \A i \in 1..Len(c.lfu) : c.lfu[i] = l => i = at
      BY <2>1, <3>1, PlaceOf
    <3> QED BY <3>2
  <2>4. b = at + Len(SubSeq(after, 1, Max(I)))
    BY DEF LfuBehind, Leading
  <2> HIDE DEF at
  <2>5. after \in Seq(Links) /\ Len(after) = Len(c.lfu) - at
    BY <2>1, <2>3
  <2>6. Max(I) \in 0..Len(after)
    <3>1. I \in SUBSET (0..Len(after)) /\ 0 \in I
      BY <2>5
    <3> HIDE DEF I, after
    <3> QED BY <2>5, <3>1, PrefixTyped
  <2> DEFINE n == Max(I)
  <2> HIDE DEF n, after
  <2>7. b = at + n /\ n \in 0..Len(after)
    <3>1. n \in 0..Len(after) /\ Len(after) \in Nat
      BY <2>5, <2>6 DEF n
    <3>2. Len(SubSeq(after, 1, n)) = n
      BY <2>5, <3>1
    <3> QED BY <2>4, <3>1, <3>2 DEF n
  <2> HIDE DEF b
  <2>8. b \in 0..Len(c.lfu) /\ at \in 1..b
    BY <2>1, <2>3, <2>5, <2>7
  <2> DEFINE front == SubSeq(c.lfu, 1, b)
             back == SubSeq(c.lfu, b + 1, Len(c.lfu))
             r == RemoveFirst(front, l)
             one == <<l>>
             s == (r \o one) \o back
  <2>9. /\ front \in Seq(Links) /\ IsInjective(front) /\ back \in Seq(Links) /\ IsInjective(back)
        /\ ToSet(front) \cap ToSet(back) = {} /\ ToSet(front) \cup ToSet(back) = ToSet(c.lfu)
        /\ l \in ToSet(front)
    <3>1. /\ front \in Seq(Links) /\ IsInjective(front) /\ back \in Seq(Links) /\ IsInjective(back)
          /\ ToSet(front) \cap ToSet(back) = {} /\ ToSet(front) \cup ToSet(back) = ToSet(c.lfu)
          /\ \A i \in 1..b : c.lfu[i] \in ToSet(front)
      BY <2>1, <2>8, Parts
    <3> QED BY <2>3, <2>8, <3>1
  <2>10. MoveLfu(c, l) = [c EXCEPT !.lfu = s]
    BY <1>2 DEF MoveLfu, b
  <2> HIDE DEF front, back
  <2>11. r \in Seq(Links) /\ IsInjective(r) /\ ToSet(r) = ToSet(front) \ {l}
    BY <2>9, Removed
  <2>12. one \in Seq(Links) /\ IsInjective(one) /\ ToSet(one) = {l}
    BY <2>2, One
  <2> HIDE DEF r, one
  <2> DEFINE m == r \o one
  <2>13. m \in Seq(Links) /\ IsInjective(m) /\ ToSet(m) = ToSet(r) \cup ToSet(one)
    BY <2>11, <2>12, Concatenated
  <2> HIDE DEF m
  <2>14. m \o back \in Seq(Links) /\ IsInjective(m \o back) /\ ToSet(m \o back) = ToSet(m) \cup ToSet(back)
    <3>1. ToSet(m) \cap ToSet(back) = {}
      BY <2>9, <2>11, <2>12, <2>13
    <3> QED BY <2>9, <2>13, <3>1, Concatenated
  <2>15. s \in Seq(Links) /\ IsInjective(s) /\ ToSet(s) = DOMAIN c.link
    BY <2>1, <2>9, <2>11, <2>12, <2>13, <2>14 DEF m
  <2> HIDE DEF s
  <2> DEFINE d == MoveLfu(c, l)
  <2>16. /\ d \in Caches /\ d.table = c.table /\ d.link = c.link /\ d.ins = c.ins /\ d.lru = c.lru
         /\ d.lfu = s /\ d.dead = c.dead /\ d.seq = c.seq /\ d.size = c.size
         /\ d.weight = c.weight
    BY <2>1, <2>10, <2>15 DEF Caches
  <2> HIDE DEF d
  <2>17. Chained(d)
    BY <1>2, <2>15, <2>16 DEF Chained, Ring
  <2> QED BY <2>16, <2>17 DEF SameLinks, d
<1> QED BY <1>1, <1>2

LEMMA InsertKeeps ==
  ASSUME now \in 0..MaxClock, NEW k \in Keys, NEW v \in Values,
         NEW c, Chained(c), MatchesBut(c, {k}), c.seq < MaxSeq
  PROVE  LET d == Insert(c, k, v)
         IN  /\ Chained(d) /\ MatchesBut(d, {}) /\ Later(c, d)
             /\ d.size = c.size + 1 /\ d.weight = c.weight + Weigh[v]
<1> DEFINE l == c.seq + 1
           r == [key |-> k, value |-> v, written |-> now, accessed |-> now, hits |-> 0]
           f == With(c.link, l, r)
           t == With(c.table, k, l)
           d == Insert(c, k, v)
<1>1. /\ c \in Caches /\ c.link \in LinkMaps /\ c.table \in Tables
      /\ c.ins \in Seq(Links) /\ c.lru \in Seq(Links) /\ c.lfu \in Seq(Links)
      /\ c.seq \in Nat /\ MaxSeq \in Nat /\ MaxHits \in Nat
  BY CacheConstants DEF Chained, Caches
<1>2. l \in Links /\ l \in 0..MaxSeq /\ c.seq < l
  BY <1>1 DEF Links
<1>3. r \in Entries
  BY <1>1 DEF Entries
<1>4. \A x \in DOMAIN c.link : x \in Nat /\ x <= c.seq /\ x # l
  <2>1. DOMAIN c.link \subseteq Links
    BY <1>1, LinkMapIs
  <2>2. \A x \in Links : x \in Nat
    BY <1>1 DEF Links
  <2> QED BY <1>1, <2>1, <2>2 DEF Chained
<1>5. /\ d = [c EXCEPT !.seq = l, !.link = f, !.ins = Append(@, l), !.lru = Append(@, l),
                !.lfu = IF conf.eviction = "LFU" THEN Append(@, l) ELSE @,
                !.size = @ + 1, !.weight = @ + Weigh[v], !.table = t]
  BY DEF Insert
<1>6. /\ DOMAIN f = DOMAIN c.link \cup {l} /\ f[l] = r
      /\ \A x \in DOMAIN c.link : f[x] = c.link[x]
      /\ f = [x \in DOMAIN f |-> f[x]]
  BY <1>4 DEF With
<1>7. /\ DOMAIN t = DOMAIN c.table \cup {k} /\ t[k] = l
      /\ \A x \in DOMAIN c.table \ {k} : t[x] = c.table[x]
      /\ t = [x \in DOMAIN t |-> t[x]]
  BY DEF With
<1> HIDE DEF f, t, l
<1> HIDE DEF r
<1>8. f \in LinkMaps
  <2>1. DOMAIN c.link \subseteq Links /\ \A x \in DOMAIN c.link : c.link[x] \in Entries
    BY <1>1, LinkMapIs
  <2>2. DOMAIN f \subseteq Links /\ \A x \in DOMAIN f : f[x] \in Entries
    BY <1>2, <1>3, <1>6, <2>1
  <2> QED BY <1>6, <2>2, LinkMapIs
<1>9. t \in Tables
  <2>1. DOMAIN c.table \subseteq Keys /\ \A x \in DOMAIN c.table : c.table[x] \in Links
    BY <1>1, TableIs
  <2>2. DOMAIN t \subseteq Keys /\ \A x \in DOMAIN t : t[x] \in Links
    BY <1>2, <1>7, <2>1
  <2> QED BY <1>7, <2>2, TableIs
<1>10. WeightOf(f) = WeightOf(c.link) + Weigh[v] /\ Weigh[v] \in Nat
  <2>1. \A i \in Links : i # l => Term(f, i) = Term(c.link, i)
    BY <1>6 DEF Term
  <2>2. Term(f, l) = Weigh[v] /\ Term(c.link, l) = 0
    BY <1>4, <1>6 DEF Term, r
  <2>3. WeightOf(f) = WeightOf(c.link) + Term(f, l) - Term(c.link, l)
    BY <1>1, <1>2, <1>8, <2>1, WeightDiffers
  <2>4. WeightOf(c.link) \in Nat /\ Weigh[v] \in Nat
    BY <1>1, WeightTyped, CacheConstants
  <2> QED BY <2>2, <2>3, <2>4
<1>11. /\ d.seq = l /\ d.link = f /\ d.ins = Append(c.ins, l) /\ d.lru = Append(c.lru, l)
       /\ d.lfu = (IF conf.eviction = "LFU" THEN Append(c.lfu, l) ELSE c.lfu)
       /\ d.size = c.size + 1 /\ d.weight = c.weight + Weigh[v] /\ d.table = t
       /\ d.dead = c.dead
       /\ d = [table |-> d.table, link |-> d.link, ins |-> d.ins, lru |-> d.lru, lfu |-> d.lfu,
               dead |-> d.dead, seq |-> d.seq, size |-> d.size, weight |-> d.weight]
  BY <1>1, <1>5 DEF Caches
<1> HIDE DEF d
<1>12. ASSUME NEW s \in Seq(Links), Ring(c, s)
       PROVE  Append(s, l) \in Seq(Links) /\ IsInjective(Append(s, l)) /\ ToSet(Append(s, l)) = DOMAIN f
  <2>1. IsInjective(s) /\ l \notin ToSet(s)
    BY <1>4, <1>12 DEF Ring
  <2>2. /\ Append(s, l) \in Seq(Links) /\ IsInjective(Append(s, l))
        /\ ToSet(Append(s, l)) = ToSet(s) \cup {l}
    BY <1>2, <2>1, Appended
  <2> QED BY <1>6, <1>12, <2>2 DEF Ring
<1>13. Ring(c, c.ins) /\ Ring(c, c.lru) /\ Ascending(c.ins)
  BY DEF Chained
<1>14. d.ins \in Seq(Links) /\ Ring(d, d.ins) /\ d.lru \in Seq(Links) /\ Ring(d, d.lru)
  BY <1>1, <1>11, <1>12, <1>13 DEF Ring
<1>15. d.lfu \in Seq(Links) /\ IF conf.eviction = "LFU" THEN Ring(d, d.lfu) ELSE d.lfu = <<>>
  <2>1. CASE conf.eviction = "LFU"
    <3>1. Ring(c, c.lfu) /\ d.lfu = Append(c.lfu, l)
      BY <1>11, <2>1 DEF Chained
    <3> QED BY <1>1, <1>11, <1>12, <2>1, <3>1 DEF Ring
  <2>2. CASE conf.eviction # "LFU"
    BY <1>1, <1>11, <2>2 DEF Chained
  <2> QED BY <2>1, <2>2
<1>16. Ascending(d.ins)
  <2>1. \A i \in 1..Len(c.ins) : c.ins[i] \in DOMAIN c.link
    BY <1>1, <1>13, InSequence DEF Ring
  <2>2. /\ DOMAIN d.ins = 1..Len(c.ins) + 1 /\ d.ins[Len(c.ins) + 1] = l
        /\ \A i \in 1..Len(c.ins) : d.ins[i] = c.ins[i]
        /\ DOMAIN c.ins = 1..Len(c.ins)
    BY <1>1, <1>2, <1>11
  <2>3. \A i \in 1..Len(c.ins) : c.ins[i] < l
    <3>1. l \in Nat /\ c.seq \in Nat /\ c.seq < l
      BY <1>1, <1>2
    <3>2. \A x \in DOMAIN c.link : x < l
      BY <1>4, <3>1
    <3> QED BY <2>1, <3>2
  <2> SUFFICES ASSUME NEW i \in DOMAIN d.ins, NEW j \in DOMAIN d.ins, i < j
               PROVE  d.ins[i] < d.ins[j]
    BY DEF Ascending
  <2>4. CASE j \in 1..Len(c.ins)
    <3>1. i \in 1..Len(c.ins)
      BY <2>2, <2>4
    <3> QED BY <1>13, <2>2, <2>4, <3>1 DEF Ascending
  <2>5. CASE j = Len(c.ins) + 1
    <3>1. i \in 1..Len(c.ins)
      BY <2>2, <2>5
    <3> QED BY <2>2, <2>3, <2>5, <3>1
  <2> QED BY <2>2, <2>4, <2>5
<1>17. d.size \in Nat /\ d.size = Cardinality(DOMAIN d.link)
  <2>1. IsFiniteSet(DOMAIN c.link) /\ Cardinality(DOMAIN c.link) \in Nat
    BY <1>1, LinksFinite
  <2>2. Cardinality(DOMAIN c.link \cup {l}) = Cardinality(DOMAIN c.link) + 1
    BY <1>4, <2>1, FS_AddElement
  <2>3. c.size = Cardinality(DOMAIN c.link)
    BY DEF Chained
  <2> QED BY <1>6, <1>11, <2>1, <2>2, <2>3
<1>18. d.weight \in Nat /\ d.weight = WeightOf(d.link)
  <2>1. c.weight = WeightOf(c.link) /\ c.weight \in Nat
    BY DEF Chained, Caches
  <2> QED BY <1>10, <1>11, <2>1
<1>19. d \in Caches
  BY <1>1, <1>2, <1>8, <1>9, <1>11, <1>14, <1>15, <1>17, <1>18 DEF Caches
<1>20. \A x \in DOMAIN d.link : x <= d.seq
  BY <1>1, <1>2, <1>4, <1>6, <1>11 DEF Links
<1>21. Chained(d)
  BY <1>14, <1>15, <1>16, <1>17, <1>18, <1>19, <1>20 DEF Chained
<1>22. MatchesBut(d, {})
  <2>1. ASSUME NEW x \in DOMAIN d.table
        PROVE  d.table[x] \in DOMAIN d.link /\ d.link[d.table[x]].key = x
    <3>1. CASE x = k
      BY <1>6, <1>7, <1>11, <3>1 DEF r
    <3>2. CASE x # k
      <4>1. x \in DOMAIN c.table \ {k} /\ d.table[x] = c.table[x]
        BY <1>7, <1>11, <3>2
      <4>2. c.table[x] \in DOMAIN c.link /\ c.link[c.table[x]].key = x
        BY <4>1 DEF MatchesBut
      <4> QED BY <1>6, <1>11, <4>1, <4>2
    <3> QED BY <3>1, <3>2
  <2>2. ASSUME NEW x \in DOMAIN d.link
        PROVE  d.link[x].key \in DOMAIN d.table /\ d.table[d.link[x].key] = x
    <3>1. CASE x = l
      BY <1>6, <1>7, <1>11, <3>1 DEF r
    <3>2. CASE x # l
      <4>1. x \in DOMAIN c.link /\ d.link[x] = c.link[x]
        BY <1>6, <1>11, <3>2
      <4>2. c.link[x].key \in DOMAIN c.table \ {k} /\ c.table[c.link[x].key] = x
        BY <4>1 DEF MatchesBut
      <4> QED BY <1>7, <1>11, <4>1, <4>2
    <3> QED BY <3>1, <3>2
  <2> QED BY <2>1, <2>2 DEF MatchesBut
<1>23. Later(c, d)
  <2>1. c.seq <= d.seq
    BY <1>1, <1>2, <1>11 DEF Links
  <2>2. ASSUME NEW x \in DOMAIN d.link, x <= c.seq
        PROVE  x \in DOMAIN c.link /\ d.link[x].key = c.link[x].key
    <3>1. x # l
      BY <1>1, <1>2, <2>2 DEF Links
    <3> QED BY <1>6, <1>11, <3>1
  <2> QED BY <2>1, <2>2 DEF Later
<1> QED BY <1>11, <1>21, <1>22, <1>23 DEF d

-------------------------------------------------------------------------------
(* The bounds *)

Heaviest == Max({0} \cup {Weigh[v] : v \in {w \in Values : ~Overweight(w)}})
Bounded(c) ==
  /\ c.size <= conf.max_size
  /\ conf.max_weight # 0 => c.weight < conf.max_weight + Heaviest

LEMMA HeaviestIs ==
  ASSUME conf \in Settings, conf.max_weight # 0
  PROVE  Heaviest \in Nat /\ \A v \in Values : ~Overweight(v) => Weigh[v] <= Heaviest
<1> DEFINE S == {0} \cup {Weigh[v] : v \in {w \in Values : ~Overweight(w)}}
           b == conf.max_weight
<1>1. b \in Nat /\ \A v \in Values : Weigh[v] \in Nat /\ (~Overweight(v) => Weigh[v] <= b)
  BY CacheConstants DEF Settings, Overweight
<1>2. S \in SUBSET Nat /\ S # {} /\ \A x \in S : x <= b
  BY <1>1
<1>3. \A v \in Values : ~Overweight(v) => Weigh[v] \in S
  OBVIOUS
<1> HIDE DEF S, b
<1>4. Max(S) \in S /\ \A y \in S : Max(S) >= y
  BY <1>1, <1>2, MaxIs
<1> DEFINE h == Max(S)
<1>5. h = Heaviest
  BY DEF Heaviest, S
<1> HIDE DEF h
<1>6. h \in S /\ \A y \in S : h >= y
  BY <1>4 DEF h
<1>7. h \in Nat /\ \A v \in Values : ~Overweight(v) => Weigh[v] <= h
  BY <1>1, <1>2, <1>3, <1>6
<1> QED BY <1>5, <1>7

LEMMA BoundedStill ==
  ASSUME conf \in Settings, NEW c \in Caches, NEW d \in Caches, Bounded(c),
         d.size <= c.size, d.weight <= c.weight
  PROVE  Bounded(d)
<1>1. c.size \in Nat /\ d.size \in Nat /\ c.weight \in Nat /\ d.weight \in Nat
  BY DEF Caches
<1>2. conf.max_size \in Nat /\ conf.max_weight \in Nat
  BY DEF Settings
<1>3. d.size <= conf.max_size
  BY <1>1, <1>2 DEF Bounded
<1>4. ASSUME conf.max_weight # 0
      PROVE  d.weight < conf.max_weight + Heaviest
  BY <1>1, <1>2, <1>4, HeaviestIs DEF Bounded
<1> QED BY <1>3, <1>4 DEF Bounded

LEMMA BoundedAfterInsert ==
  ASSUME conf \in Settings, NEW c \in Caches, NEW d \in Caches, NEW v \in Values,
         ~Full(c), ~Overweight(v), d.size = c.size + 1, d.weight = c.weight + Weigh[v]
  PROVE  Bounded(d)
<1>1. c.size \in Nat /\ c.weight \in Nat /\ Weigh[v] \in Nat
  BY CacheConstants DEF Caches
<1>2. conf.max_size \in Nat /\ conf.max_weight \in Nat
  BY DEF Settings
<1>3. d.size <= conf.max_size
  BY <1>1, <1>2 DEF Full
<1>4. ASSUME conf.max_weight # 0
      PROVE  d.weight < conf.max_weight + Heaviest
  <2>1. c.weight < conf.max_weight
    BY <1>1, <1>2, <1>4 DEF Full
  <2>2. Heaviest \in Nat /\ Weigh[v] <= Heaviest
    BY <1>4, HeaviestIs
  <2> QED BY <1>1, <1>2, <2>1, <2>2
<1> QED BY <1>3, <1>4 DEF Bounded

-------------------------------------------------------------------------------
(* What every operation makes of a sound cache *)

Sound(c, d) == Chained(d) /\ MatchesBut(d, {}) /\ Bounded(d) /\ Later(c, d)

LEMMA KeptIsSound ==
  ASSUME conf \in Settings, NEW c, Chained(c), Bounded(c), NEW d, Kept(c, d, {})
  PROVE  Sound(c, d)
<1>1. c \in Caches /\ d \in Caches
  BY DEF Chained, Kept
<1>2. Fewer(c, d)
  BY DEF Kept
<1>3. d.size <= c.size /\ d.weight <= c.weight
  BY <1>2 DEF Fewer
<1> QED BY <1>1, <1>2, <1>3, BoundedStill, FewerIsLater DEF Sound, Kept

LEMMA SoundStill ==
  ASSUME NEW c, Chained(c), NEW d, Sound(c, d), NEW e, Sound(d, e)
  PROVE  Sound(c, e)
<1>1. c \in Caches /\ d \in Caches /\ e \in Caches
  BY DEF Chained, Sound
<1> QED BY <1>1, LaterStill DEF Sound

LEMMA HitKeeps ==
  ASSUME conf \in Settings, now \in 0..MaxClock,
         NEW c, Chained(c), MatchesBut(c, {}), Bounded(c), NEW l \in DOMAIN c.link
  PROVE  Sound(c, Touch(MoveLfu(MoveLru(c, l), l), l))
<1> DEFINE d == MoveLru(c, l)
           e == MoveLfu(d, l)
           f == Touch(e, l)
<1>1. Chained(d) /\ SameLinks(c, d)
  BY MoveLruKeeps
<1> HIDE DEF d
<1>2. Chained(e) /\ SameLinks(d, e)
  <2>1. l \in DOMAIN d.link
    BY <1>1 DEF SameLinks
  <2> QED BY <1>1, <2>1, MoveLfuKeeps
<1> HIDE DEF e
<1>3. SameLinks(c, e)
  BY <1>1, <1>2 DEF SameLinks
<1>4. MatchesBut(e, {}) /\ l \in DOMAIN e.link
  BY <1>3 DEF SameLinks, MatchesBut
<1>5. Chained(f) /\ MatchesBut(f, {}) /\ Later(e, f) /\ f.size = e.size /\ f.weight = e.weight
  BY <1>2, <1>4, TouchKeeps
<1> HIDE DEF f
<1>6. Later(c, f)
  BY <1>3, <1>5 DEF Later, SameLinks
<1>7. f \in Caches /\ c \in Caches
  BY <1>5 DEF Chained
<1>8. f.size <= c.size /\ f.weight <= c.weight
  BY <1>3, <1>5, <1>7 DEF SameLinks, Caches
<1>9. Bounded(f)
  BY <1>7, <1>8, BoundedStill
<1> QED BY <1>5, <1>6, <1>9 DEF Sound, f, e, d

LEMMA AfterReapKeeps ==
  ASSUME Chained(cache), MatchesBut(cache, {}), NEW gone
  PROVE  Kept(cache, AfterReap(gone), {})
<1> DEFINE c == Reap(cache)
           d == Die(c, gone)
<1>1. Kept(cache, c, {})
  BY ReapKeeps
<1> HIDE DEF c
<1>2. Kept(c, d, {})
  BY <1>1, DieKeeps DEF Kept
<1> HIDE DEF d
<1>3. Kept(cache, d, {})
  BY <1>1, <1>2, KeptStill
<1> QED BY <1>3 DEF AfterReap, d, c

LEMMA StoreKeeps ==
  ASSUME conf \in Settings, now \in 0..MaxClock, NEW k \in Keys, NEW v \in Values, ~Overweight(v),
         NEW c, Chained(c), MatchesBut(c, {}), c.seq < MaxSeq, NEW living
  PROVE  LET existing == Dropped(c, k, living)
             room     == MakeRoom(IF Found(c, k, living) THEN Unlink(c, c.table[k]) ELSE existing)
         IN  Sound(c, Insert(room, k, v))
<1> DEFINE d == IF Found(c, k, living) THEN Unlink(c, c.table[k]) ELSE Dropped(c, k, living)
           e == MakeRoom(d)
           f == Insert(e, k, v)
<1>1. Kept(c, d, {k})
  BY ReplacedKeeps
<1> HIDE DEF d
<1>2. Kept(d, e, {k}) /\ ~Full(e)
  BY <1>1, MakeRoomKeeps DEF Kept
<1> HIDE DEF e
<1>3. /\ c \in Caches /\ d \in Caches /\ e \in Caches /\ Chained(e) /\ MatchesBut(e, {k})
      /\ Fewer(c, d) /\ Fewer(d, e)
  BY <1>1, <1>2 DEF Kept, Chained
<1>4. Fewer(c, e)
  BY <1>3, FewerStill
<1>5. e.seq < MaxSeq /\ Later(c, e)
  BY <1>3, <1>4, FewerIsLater DEF Fewer
<1>6. /\ Chained(f) /\ MatchesBut(f, {}) /\ Later(e, f)
      /\ f.size = e.size + 1 /\ f.weight = e.weight + Weigh[v]
  BY <1>3, <1>5, InsertKeeps
<1> HIDE DEF f
<1>7. f \in Caches
  BY <1>6 DEF Chained
<1>8. Bounded(f)
  BY <1>2, <1>3, <1>6, <1>7, BoundedAfterInsert
<1>9. Later(c, f)
  BY <1>3, <1>5, <1>6, <1>7, LaterStill
<1> QED BY <1>6, <1>8, <1>9 DEF Sound, f, e, d

LEMMA EmptyMaps ==
  /\ <<>> \in Tables /\ <<>> \in LinkMaps /\ DOMAIN <<>> = {}
  /\ \A S : <<>> \in Seq(S)
  /\ IsInjective(<<>>) /\ ToSet(<<>>) = {} /\ Ascending(<<>>)
<1>1. DOMAIN <<>> = {} /\ <<>> = [x \in DOMAIN <<>> |-> <<>>[x]]
  OBVIOUS
<1>2. <<>> \in Tables
  BY <1>1, TableIs
<1>3. <<>> \in LinkMaps
  BY <1>1, LinkMapIs
<1>4. \A S : <<>> \in Seq(S)
  OBVIOUS
<1> QED BY <1>1, <1>2, <1>3, <1>4 DEF IsInjective, ToSet, Ascending

LEMMA ClearKeeps ==
  ASSUME conf \in Settings, Chained(cache), Bounded(cache)
  PROVE  LET emptied == [cache EXCEPT !.table = <<>>]
         IN  Sound(cache, UnlinkAll(emptied, Reverse(cache.ins)))
<1> DEFINE c == [cache EXCEPT !.table = <<>>]
           links == Reverse(cache.ins)
           d == UnlinkAll(c, links)
<1>1. /\ Chained(c) /\ Fewer(cache, c) /\ c.table = <<>>
      /\ c.link = cache.link /\ c.ins = cache.ins
  BY EmptyMaps, TableChanged
<1> HIDE DEF c
<1>2. cache.ins \in Seq(Links) /\ ToSet(cache.ins) = DOMAIN cache.link
  BY DEF Chained, Caches, Ring
<1>3. links \in Seq(Links) /\ ToSet(links) = DOMAIN cache.link
  BY <1>2, Reversed
<1> HIDE DEF links
<1>4. Chained(d) /\ Fewer(c, d) /\ d.table = c.table /\ DOMAIN d.link = DOMAIN c.link \ ToSet(links)
  BY <1>1, <1>3, UnlinkAllKeeps
<1> HIDE DEF d
<1>5. DOMAIN d.link = {} /\ DOMAIN d.table = {}
  BY <1>1, <1>3, <1>4, EmptyMaps
<1>6. MatchesBut(d, {})
  BY <1>5 DEF MatchesBut
<1>7. cache \in Caches /\ c \in Caches /\ d \in Caches
  BY <1>1, <1>4 DEF Chained
<1>8. Fewer(cache, d)
  BY <1>1, <1>4, <1>7, FewerStill
<1>9. Sound(cache, d)
  BY <1>4, <1>6, <1>8, KeptIsSound DEF Kept
<1> QED BY <1>9 DEF d, links, c

-------------------------------------------------------------------------------
(* The iterator: of the links there were when it began and still are, it has  *)
(* been at those from where it stands on and at none of those before.         *)
Trail(c, cur) ==
  cur.at # None =>
    /\ cur.at \in 1..cur.from /\ cur.from <= c.seq
    /\ IsInjective(cur.seen)
    /\ \A l \in DOMAIN c.link : l <= cur.from =>
         (c.link[l].key \in ToSet(cur.seen) <=> l >= cur.at)

Report(c, res) ==
  res.op = "exhausted" =>
    /\ IsInjective(res.seen) /\ res.from \in 0..c.seq
    /\ \A l \in DOMAIN c.link :
         l <= res.from => c.link[l].key \in ToSet(res.seen)

Cursors == [at: Links \cup {None}, seen: Seq(Keys), from: 0..MaxSeq]

LEMMA LinksNumbered ==
  ASSUME NEW c, Chained(c)
  PROVE  /\ c.seq \in Nat
         /\ \A l \in DOMAIN c.link : l \in Nat /\ l >= 1 /\ l <= c.seq /\ l \in Links
                                     /\ c.link[l] \in Entries /\ c.link[l].key \in Keys
<1>1. c.link \in LinkMaps /\ c.seq \in 0..MaxSeq /\ MaxSeq \in Nat
  BY CacheConstants DEF Chained, Caches
<1>2. DOMAIN c.link \subseteq Links /\ \A l \in DOMAIN c.link : c.link[l] \in Entries
  BY <1>1, LinkMapIs
<1>3. \A l \in Links : l \in Nat /\ l >= 1
  BY <1>1 DEF Links
<1> QED BY <1>1, <1>2, <1>3 DEF Entries, Chained

LEMMA TrailStill ==
  ASSUME NEW c, Chained(c), NEW d, Chained(d), Later(c, d), NEW cur \in Cursors, Trail(c, cur)
  PROVE  Trail(d, cur)
<1> SUFFICES ASSUME cur.at # None
             PROVE  /\ cur.at \in 1..cur.from /\ cur.from <= d.seq
                    /\ IsInjective(cur.seen)
                    /\ \A l \in DOMAIN d.link : l <= cur.from =>
                         (d.link[l].key \in ToSet(cur.seen) <=> l >= cur.at)
  BY DEF Trail
<1>1. c.seq \in Nat /\ d.seq \in Nat /\ cur.from \in Nat /\ \A l \in DOMAIN d.link : l \in Nat
  BY LinksNumbered, CacheConstants DEF Cursors
<1>2. c.seq <= d.seq /\ cur.from <= c.seq
  BY DEF Later, Trail
<1>3. ASSUME NEW l \in DOMAIN d.link, l <= cur.from
      PROVE  d.link[l].key \in ToSet(cur.seen) <=> l >= cur.at
  <2>1. l <= c.seq
    BY <1>1, <1>2, <1>3
  <2>2. l \in DOMAIN c.link /\ d.link[l].key = c.link[l].key
    BY <2>1 DEF Later
  <2> QED BY <1>3, <2>2 DEF Trail
<1> QED BY <1>1, <1>2, <1>3 DEF Trail

LEMMA ReportStill ==
  ASSUME NEW c, Chained(c), NEW d, Chained(d), Later(c, d), NEW res, Report(c, res)
  PROVE  Report(d, res)
<1> SUFFICES ASSUME res.op = "exhausted"
             PROVE  /\ IsInjective(res.seen) /\ res.from \in 0..d.seq
                    /\ \A l \in DOMAIN d.link : l <= res.from => d.link[l].key \in ToSet(res.seen)
  BY DEF Report
<1>1. c.seq \in Nat /\ d.seq \in Nat /\ \A l \in DOMAIN d.link : l \in Nat
  BY LinksNumbered
<1>2. c.seq <= d.seq /\ res.from \in 0..c.seq
  BY DEF Later, Report
<1>3. ASSUME NEW l \in DOMAIN d.link, l <= res.from
      PROVE  d.link[l].key \in ToSet(res.seen)
  <2>1. l <= c.seq
    BY <1>1, <1>2, <1>3
  <2>2. l \in DOMAIN c.link /\ d.link[l].key = c.link[l].key
    BY <2>1 DEF Later
  <2> QED BY <1>3, <2>2 DEF Report
<1> QED BY <1>1, <1>2, <1>3 DEF Report

(* No two links have one key.                                                 *)
LEMMA KeysDiffer ==
  ASSUME NEW c, MatchesBut(c, {}), NEW l \in DOMAIN c.link, NEW m \in DOMAIN c.link,
         c.link[l].key = c.link[m].key
  PROVE  l = m
BY DEF MatchesBut

(* The last link of the order of writing is the newest, ...                   *)
LEMMA TrailBegins ==
  ASSUME NEW c, Chained(c), MatchesBut(c, {}), c.ins # <<>>
  PROVE  LET cur == [at |-> Last(c.ins), seen |-> <<c.link[Last(c.ins)].key>>, from |-> c.seq]
         IN  cur \in Cursors /\ Trail(c, cur)
<1> DEFINE last == Last(c.ins)
           cur == [at |-> last, seen |-> <<c.link[last].key>>, from |-> c.seq]
<1>1. /\ c.ins \in Seq(Links) /\ IsInjective(c.ins) /\ ToSet(c.ins) = DOMAIN c.link
      /\ Ascending(c.ins) /\ c.seq \in 0..MaxSeq
  BY DEF Chained, Caches, Ring
<1>2. Len(c.ins) \in 1..Len(c.ins) /\ last = c.ins[Len(c.ins)]
  BY <1>1 DEF Last
<1>3. DOMAIN c.link = {c.ins[i] : i \in 1..Len(c.ins)}
  BY <1>1, InSequence
<1>4. last \in DOMAIN c.link
  BY <1>2, <1>3
<1>5. \A l \in DOMAIN c.link : l <= last
  <2>1. \A i \in 1..Len(c.ins) : c.ins[i] \in Nat
    BY <1>3, LinksNumbered
  <2>2. \A i \in 1..Len(c.ins) : i = Len(c.ins) \/ c.ins[i] < c.ins[Len(c.ins)]
    BY <1>1, <1>2 DEF Ascending
  <2> QED BY <1>2, <1>3, <2>1, <2>2
<1>6. /\ last \in Links /\ last \in Nat /\ last >= 1 /\ last <= c.seq /\ c.link[last].key \in Keys
      /\ c.seq \in Nat /\ \A l \in DOMAIN c.link : l \in Nat
  BY <1>4, LinksNumbered
<1> HIDE DEF last
<1>7. /\ <<c.link[last].key>> \in Seq(Keys) /\ IsInjective(<<c.link[last].key>>)
      /\ ToSet(<<c.link[last].key>>) = {c.link[last].key}
  BY <1>6, One
<1>8. cur \in Cursors
  BY <1>1, <1>6, <1>7 DEF Cursors
<1>9. ASSUME NEW l \in DOMAIN c.link
      PROVE  c.link[l].key \in ToSet(cur.seen) <=> l >= cur.at
  <2>1. c.link[l].key \in ToSet(cur.seen) <=> c.link[l].key = c.link[last].key
    BY <1>7
  <2>2. c.link[l].key = c.link[last].key <=> l = last
    BY <1>4, KeysDiffer
  <2>3. l >= last <=> l = last
    BY <1>5, <1>6
  <2> QED BY <2>1, <2>2, <2>3
<1>10. Trail(c, cur)
  BY <1>6, <1>7, <1>9 DEF Trail
<1> QED BY <1>8, <1>10 DEF last

(* ... and the link before another in it is the next older one.               *)
LEMMA BeforeIs ==
  ASSUME NEW c, Chained(c), NEW l \in DOMAIN c.link
  PROVE  /\ Before(c, l) = None => \A m \in DOMAIN c.link : m >= l
         /\ Before(c, l) # None => /\ Before(c, l) \in DOMAIN c.link /\ Before(c, l) < l
                                   /\ \A m \in DOMAIN c.link : m < l => m <= Before(c, l)
<1> DEFINE at == SelectInSeq(c.ins, LAMBDA x : x = l)
<1>1. /\ c.ins \in Seq(Links) /\ IsInjective(c.ins) /\ ToSet(c.ins) = DOMAIN c.link
      /\ Ascending(c.ins)
  BY DEF Chained, Caches, Ring
<1>2. at \in 1..Len(c.ins) /\ c.ins[at] = l
  <2>1. l \in ToSet(c.ins)
    BY <1>1
  <2>2. at \in 1..Len(c.ins) /\ c.ins[at] = l /\ \A i \in 1..Len(c.ins) : c.ins[i] = l => i = at
    BY <1>1, <2>1, PlaceOf
  <2> QED BY <2>2
<1>3. Before(c, l) = IF at > 1 THEN c.ins[at - 1] ELSE None
  BY DEF Before
<1> HIDE DEF at
<1>4. DOMAIN c.link = {c.ins[i] : i \in 1..Len(c.ins)}
  BY <1>1, InSequence
<1>5. \A i \in 1..Len(c.ins) : c.ins[i] \in Nat /\ c.ins[i] >= 1
  BY <1>4, LinksNumbered
<1>6. \A i, j \in 1..Len(c.ins) : i < j => c.ins[i] < c.ins[j]
  BY <1>1 DEF Ascending
<1>7. CASE at = 1
  <2>1. Before(c, l) = None
    BY <1>3, <1>7
  <2>2. \A i \in 1..Len(c.ins) : i = at \/ at < i
    BY <1>7
  <2>3. \A i \in 1..Len(c.ins) : c.ins[i] >= l
    BY <1>2, <1>5, <1>6, <2>2
  <2> QED BY <1>4, <2>1, <2>3
<1>8. CASE at > 1
  <2>1. at - 1 \in 1..Len(c.ins) /\ at - 1 < at
    BY <1>2, <1>8
  <2>2. Before(c, l) = c.ins[at - 1]
    BY <1>3, <1>8
  <2>3. c.ins[at - 1] # None /\ c.ins[at - 1] \in DOMAIN c.link /\ c.ins[at - 1] < l
    <3> DEFINE b == at - 1
    <3>1. b \in 1..Len(c.ins) /\ b < at
      BY <2>1
    <3> HIDE DEF b
    <3>2. c.ins[b] < c.ins[at] /\ c.ins[b] >= 1 /\ c.ins[b] \in Nat
      BY <1>2, <1>5, <1>6, <3>1
    <3>3. c.ins[b] \in DOMAIN c.link
      BY <1>4, <3>1
    <3> QED BY <1>2, <3>2, <3>3 DEF None, b
  <2>4. \A i \in 1..Len(c.ins) : i < at - 1 \/ i = at - 1 \/ i = at \/ at < i
    BY <1>2
  <2>5. \A i \in 1..Len(c.ins) : c.ins[i] < l => c.ins[i] <= c.ins[at - 1]
    <3> SUFFICES ASSUME NEW i \in 1..Len(c.ins), c.ins[i] < l PROVE c.ins[i] <= c.ins[at - 1]
      OBVIOUS
    <3>1. ~(i = at) /\ ~(at < i)
      <4>1. at < i => l < c.ins[i]
        BY <1>2, <1>6
      <4>2. l \in Nat /\ c.ins[i] \in Nat
        BY <1>2, <1>5
      <4> QED BY <1>2, <4>1, <4>2
    <3>2. CASE i < at - 1
      <4>1. c.ins[i] < c.ins[at - 1]
        BY <1>6, <2>1, <3>2
      <4> QED BY <1>5, <2>1, <4>1
    <3>3. CASE i = at - 1
      BY <1>5, <2>1, <3>3
    <3> QED BY <2>4, <3>1, <3>2, <3>3
  <2> QED BY <1>4, <2>2, <2>3, <2>5
<1> QED BY <1>2, <1>7, <1>8

LEMMA TrailGoesOn ==
  ASSUME NEW c, Chained(c), MatchesBut(c, {}), NEW cur \in Cursors, Trail(c, cur),
         cur.at # None, cur.at \in DOMAIN c.link, Before(c, cur.at) # None
  PROVE  LET next == Before(c, cur.at)
             new == [cur EXCEPT !.at = next, !.seen = Append(@, c.link[next].key)]
         IN  new \in Cursors /\ Trail(c, new)
<1> DEFINE at == cur.at
           next == Before(c, at)
           key == c.link[next].key
           new == [cur EXCEPT !.at = next, !.seen = Append(@, key)]
<1>1. next \in DOMAIN c.link /\ next < at /\ \A m \in DOMAIN c.link : m < at => m <= next
  BY BeforeIs
<1> HIDE DEF next
<1>2. /\ at \in Nat /\ next \in Nat /\ next >= 1 /\ next \in Links /\ key \in Keys
      /\ \A m \in DOMAIN c.link : m \in Nat
  BY <1>1, LinksNumbered
<1>3. cur.seen \in Seq(Keys) /\ cur.from \in 0..MaxSeq /\ cur.from \in Nat
  BY CacheConstants DEF Cursors
<1>4. /\ at \in 1..cur.from /\ cur.from <= c.seq /\ IsInjective(cur.seen)
      /\ \A l \in DOMAIN c.link : l <= cur.from => (c.link[l].key \in ToSet(cur.seen) <=> l >= at)
  BY DEF Trail
<1>5. next <= cur.from
  BY <1>1, <1>2, <1>3, <1>4
<1>6. key \notin ToSet(cur.seen)
  BY <1>1, <1>2, <1>4, <1>5
<1> DEFINE seen == Append(cur.seen, key)
<1>7. seen \in Seq(Keys) /\ IsInjective(seen) /\ ToSet(seen) = ToSet(cur.seen) \cup {key}
  BY <1>2, <1>3, <1>4, <1>6, Appended
<1>8. new.at = next /\ new.seen = seen /\ new.from = cur.from /\ new \in Cursors
  BY <1>2, <1>7 DEF Cursors
<1> HIDE DEF seen, new
<1>9. ASSUME NEW l \in DOMAIN c.link, l <= cur.from
      PROVE  c.link[l].key \in ToSet(new.seen) <=> l >= next
  <2>1. c.link[l].key \in ToSet(new.seen) <=> c.link[l].key \in ToSet(cur.seen) \/ c.link[l].key = key
    BY <1>7, <1>8
  <2>2. c.link[l].key = key <=> l = next
    BY <1>1, KeysDiffer
  <2>3. c.link[l].key \in ToSet(cur.seen) <=> l >= at
    BY <1>4, <1>9
  <2>4. l >= next <=> (l >= at \/ l = next)
    BY <1>1, <1>2
  <2> QED BY <2>1, <2>2, <2>3, <2>4
<1>10. next \in 1..cur.from
  BY <1>2, <1>3, <1>5
<1>11. Trail(c, new)
  BY <1>4, <1>7, <1>8, <1>9, <1>10 DEF Trail
<1> QED BY <1>8, <1>11 DEF new, next

-------------------------------------------------------------------------------
(* The invariant of the specification *)

Typed ==
  /\ conf \in Settings /\ now \in 0..MaxClock /\ alive \in SUBSET Values /\ cursor \in Cursors
IInv ==
  /\ Typed
  /\ Chained(cache) /\ MatchesBut(cache, {}) /\ Bounded(cache)
  /\ Trail(cache, cursor) /\ Report(cache, result)

LEMMA InitHolds == Init => IInv
<1> SUFFICES ASSUME Init PROVE IInv
  OBVIOUS
<1>1. conf \in Settings /\ cache = Fresh /\ now = 0 /\ alive = Values
      /\ cursor = NoIterator /\ result = [op |-> "none"]
  BY CacheConstants DEF Init
<1>2. /\ cache.table = <<>> /\ cache.link = <<>> /\ cache.ins = <<>> /\ cache.lru = <<>>
      /\ cache.lfu = <<>> /\ cache.dead = <<>> /\ cache.seq = 0 /\ cache.size = 0
      /\ cache.weight = 0
      /\ cache = [table |-> cache.table, link |-> cache.link, ins |-> cache.ins,
                  lru |-> cache.lru, lfu |-> cache.lfu, dead |-> cache.dead,
                  seq |-> cache.seq, size |-> cache.size, weight |-> cache.weight]
  BY <1>1 DEF Fresh
<1>3. MaxSeq \in Nat /\ MaxClock \in Nat
  BY CacheConstants
<1>4. cache \in Caches
  <2>1. 0 \in 0..MaxSeq
    BY <1>3
  <2>2. <<>> \in Seq(Links)
    BY EmptyMaps
  <2>3. /\ cache.table \in Tables /\ cache.link \in LinkMaps
        /\ cache.ins \in Seq(Links) /\ cache.lru \in Seq(Links) /\ cache.lfu \in Seq(Links)
        /\ cache.dead \in Seq(Links) /\ cache.seq \in 0..MaxSeq
        /\ cache.size \in Nat /\ cache.weight \in Nat
    BY <1>2, <2>1, <2>2, EmptyMaps
  <2> QED BY <1>2, <2>3 DEF Caches
<1>5. DOMAIN cache.link = {} /\ DOMAIN cache.table = {}
  BY <1>2, EmptyMaps
<1>6. Chained(cache)
  <2>1. Cardinality(DOMAIN cache.link) = 0
    BY <1>5, FS_EmptySet
  <2>2. WeightOf(cache.link) = 0
    BY <1>2, <1>5, EmptyMaps, WeightTyped
  <2> QED BY <1>2, <1>4, <1>5, <2>1, <2>2, EmptyMaps DEF Chained, Ring
<1>7. MatchesBut(cache, {})
  BY <1>5 DEF MatchesBut
<1>8. Bounded(cache)
  <2>1. conf.max_size \in Nat /\ conf.max_weight \in Nat
    BY <1>1 DEF Settings
  <2>2. conf.max_weight # 0 => 0 < conf.max_weight + Heaviest
    BY <1>1, <2>1, HeaviestIs
  <2> QED BY <1>2, <2>1, <2>2 DEF Bounded
<1>9. cursor \in Cursors /\ Trail(cache, cursor)
  BY <1>1, <1>3 DEF NoIterator, Cursors, Trail
<1>10. Report(cache, result)
  BY <1>1 DEF Report
<1> QED BY <1>1, <1>3, <1>6, <1>7, <1>8, <1>9, <1>10 DEF IInv, Typed

(* A step that makes a sound cache and keeps the settings.                    *)
LEMMA SoundAfter ==
  ASSUME Typed, conf' = conf, now' \in 0..MaxClock, alive' \in SUBSET Values, cursor' \in Cursors,
         Chained(cache'), MatchesBut(cache', {}), Bounded(cache'),
         Trail(cache', cursor'), Report(cache', result')
  PROVE  IInv'
<1>1. Typed'
  BY DEF Typed
<1>2. (Chained(cache))'
  BY DEF Chained, Ring
<1>3. (MatchesBut(cache, {}))'
  BY DEF MatchesBut
<1>4. (Bounded(cache))'
  BY DEF Bounded, Heaviest, Overweight
<1>5. (Trail(cache, cursor))' /\ (Report(cache, result))'
  BY DEF Trail, Report
<1> QED BY <1>1, <1>2, <1>3, <1>4, <1>5 DEF IInv

LEMMA OperationKeeps ==
  ASSUME IInv, UNCHANGED <<conf, now, cursor>>, alive' \in SUBSET Values,
         Sound(cache, cache'), result' = result \/ result'.op # "exhausted"
  PROVE  IInv'
<1>1. /\ Chained(cache) /\ Chained(cache') /\ Later(cache, cache') /\ MatchesBut(cache', {})
      /\ Bounded(cache') /\ Trail(cache, cursor) /\ Report(cache, result) /\ Typed
  BY DEF IInv, Sound
<1>2. Trail(cache', cursor')
  BY <1>1, TrailStill DEF Typed
<1>3. Report(cache', result')
  <2>1. Report(cache', result)
    BY <1>1, ReportStill
  <2>2. result'.op # "exhausted" => Report(cache', result')
    BY DEF Report
  <2> QED BY <2>1, <2>2
<1>4. now' \in 0..MaxClock /\ cursor' \in Cursors /\ conf' = conf
  BY <1>1 DEF Typed
<1> QED BY <1>1, <1>2, <1>3, <1>4, SoundAfter

(* The reap and what dies after it come first in every method.                *)
LEMMA ReapedKeeps ==
  ASSUME IInv, NEW gone
  PROVE  LET c == AfterReap(gone)
         IN  /\ Sound(cache, c) /\ Kept(cache, c, {}) /\ Chained(c) /\ MatchesBut(c, {})
             /\ Bounded(c) /\ c.seq = cache.seq
<1> DEFINE c == AfterReap(gone)
<1>1. Kept(cache, c, {})
  BY AfterReapKeeps DEF IInv
<1> HIDE DEF c
<1>2. Sound(cache, c)
  BY <1>1, KeptIsSound DEF IInv, Typed
<1> QED BY <1>1, <1>2 DEF Kept, Sound, Fewer, c

LEMMA GetKeeps ==
  ASSUME IInv, NEW k \in Keys, Get(k)
  PROVE  IInv'
<1>1. PICK gone \in Collected :
        LET c == AfterReap(gone)
            d == Dropped(c, k, alive \ gone)
        IN /\ Collect(gone)
           /\ IF Found(c, k, alive \ gone)
              THEN /\ cache' = Touch(MoveLfu(MoveLru(c, c.table[k]), c.table[k]), c.table[k])
                   /\ result' = [op |-> "hit", key |-> k, value |-> c.link[c.table[k]].value]
              ELSE cache' = d /\ result' = [op |-> "miss", key |-> k]
           /\ UNCHANGED <<conf, now, cursor>>
  BY DEF Get
<1> DEFINE c == AfterReap(gone)
<1>2. /\ Sound(cache, c) /\ Kept(cache, c, {}) /\ Chained(c) /\ MatchesBut(c, {})
      /\ Bounded(c) /\ c.seq = cache.seq
  BY ReapedKeeps
<1>3. conf \in Settings /\ now \in 0..MaxClock /\ alive \in SUBSET Values /\ Chained(cache)
  BY DEF IInv, Typed
<1>4. alive' \in SUBSET Values /\ UNCHANGED <<conf, now, cursor>>
  BY <1>1, <1>3 DEF Collect
<1> HIDE DEF c
<1>5. CASE Found(c, k, alive \ gone)
  <2> DEFINE l == c.table[k]
  <2>1. l \in DOMAIN c.link
    BY <1>2, <1>5 DEF Found, MatchesBut
  <2>2. cache' = Touch(MoveLfu(MoveLru(c, l), l), l) /\ result'.op # "exhausted"
    BY <1>1, <1>5 DEF c
  <2> HIDE DEF l
  <2>3. Sound(c, cache')
    BY <1>2, <1>3, <2>1, <2>2, HitKeeps
  <2>4. Sound(cache, cache')
    BY <1>2, <1>3, <2>3, SoundStill
  <2> QED BY <1>4, <2>2, <2>4, OperationKeeps
<1>6. CASE ~Found(c, k, alive \ gone)
  <2>1. cache' = Dropped(c, k, alive \ gone) /\ result'.op # "exhausted"
    BY <1>1, <1>6 DEF c
  <2>2. Kept(c, cache', {})
    BY <1>2, <2>1, DroppedKeeps
  <2>3. Sound(c, cache')
    BY <1>2, <1>3, <2>2, KeptIsSound
  <2>4. Sound(cache, cache')
    BY <1>2, <1>3, <2>3, SoundStill
  <2> QED BY <1>4, <2>1, <2>4, OperationKeeps
<1> QED BY <1>5, <1>6

LEMMA SetKeeps ==
  ASSUME IInv, NEW k \in Keys, NEW v \in Values, Set(k, v)
  PROVE  IInv'
<1>1. PICK gone \in Collected :
        LET c        == AfterReap(gone)
            existing == Dropped(c, k, alive \ gone)
            room     == MakeRoom(IF Found(c, k, alive \ gone)
                                 THEN Unlink(c, c.table[k]) ELSE existing)
        IN /\ v \in alive
           /\ cache.seq < MaxSeq
           /\ Collect(gone)
           /\ IF Overweight(v)
              THEN cache' = c /\ result' = [op |-> "refused", key |-> k, value |-> v]
              ELSE /\ cache' = Insert(room, k, v)
                   /\ result' = [op |-> "stored", key |-> k, value |-> v]
           /\ UNCHANGED <<conf, now, cursor>>
  BY DEF Set
<1> DEFINE c == AfterReap(gone)
           living == alive \ gone
           room == MakeRoom(IF Found(c, k, living) THEN Unlink(c, c.table[k]) ELSE Dropped(c, k, living))
<1>2. /\ Sound(cache, c) /\ Kept(cache, c, {}) /\ Chained(c) /\ MatchesBut(c, {})
      /\ Bounded(c) /\ c.seq = cache.seq
  BY ReapedKeeps
<1>3. conf \in Settings /\ now \in 0..MaxClock /\ alive \in SUBSET Values /\ Chained(cache)
  BY DEF IInv, Typed
<1>4. alive' \in SUBSET Values /\ UNCHANGED <<conf, now, cursor>> /\ cache.seq < MaxSeq
  BY <1>1, <1>3 DEF Collect
<1>5. /\ Overweight(v) => cache' = c
      /\ ~Overweight(v) => cache' = Insert(room, k, v)
      /\ result'.op # "exhausted"
  BY <1>1
<1> HIDE DEF c, living
<1>6. CASE Overweight(v)
  BY <1>2, <1>4, <1>5, <1>6, OperationKeeps
<1>7. CASE ~Overweight(v)
  <2>1. c.seq < MaxSeq
    BY <1>2, <1>4
  <2>2. Sound(c, Insert(room, k, v))
    BY <1>2, <1>3, <1>7, <2>1, StoreKeeps
  <2> HIDE DEF room
  <2>3. Sound(c, cache')
    BY <1>5, <1>7, <2>2
  <2>4. Sound(cache, cache')
    BY <1>2, <1>3, <2>3, SoundStill
  <2> QED BY <1>4, <1>5, <2>4, OperationKeeps
<1> QED BY <1>6, <1>7

LEMMA DeletesKeep ==
  ASSUME IInv, NEW k \in Keys, Delete(k)
  PROVE  IInv'
<1>1. PICK gone \in Collected :
        LET c == AfterReap(gone)
        IN /\ Collect(gone)
           /\ IF Found(c, k, alive \ gone)
              THEN /\ cache' = Unlink([c EXCEPT !.table = Without(@, k)], c.table[k])
                   /\ result' = [op |-> "deleted", key |-> k]
              ELSE cache' = Dropped(c, k, alive \ gone) /\ result' = [op |-> "missing", key |-> k]
           /\ UNCHANGED <<conf, now, cursor>>
  BY DEF Delete
<1> DEFINE c == AfterReap(gone)
<1>2. /\ Sound(cache, c) /\ Kept(cache, c, {}) /\ Chained(c) /\ MatchesBut(c, {})
      /\ Bounded(c) /\ c.seq = cache.seq
  BY ReapedKeeps
<1>3. conf \in Settings /\ alive \in SUBSET Values /\ Chained(cache)
  BY DEF IInv, Typed
<1>4. /\ alive' \in SUBSET Values /\ UNCHANGED <<conf, now, cursor>>
      /\ result'.op # "exhausted"
      /\ Found(c, k, alive \ gone) => cache' = Unlink([c EXCEPT !.table = Without(@, k)], c.table[k])
      /\ ~Found(c, k, alive \ gone) => cache' = Dropped(c, k, alive \ gone)
  BY <1>1, <1>3 DEF Collect
<1> HIDE DEF c
<1>5. Kept(c, cache', {})
  <2>1. CASE Found(c, k, alive \ gone)
    <3>1. k \in DOMAIN c.table
      BY <2>1 DEF Found
    <3> QED BY <1>2, <1>4, <2>1, <3>1, DeleteKeeps
  <2>2. CASE ~Found(c, k, alive \ gone)
    BY <1>2, <1>4, <2>2, DroppedKeeps
  <2> QED BY <2>1, <2>2
<1>6. Sound(c, cache')
  BY <1>2, <1>3, <1>5, KeptIsSound
<1>7. Sound(cache, cache')
  BY <1>2, <1>3, <1>6, SoundStill
<1> QED BY <1>4, <1>7, OperationKeeps

LEMMA ContainsKeeps ==
  ASSUME IInv, NEW k \in Keys, ContainsKey(k)
  PROVE  IInv'
<1>1. PICK gone \in Collected :
        LET c == AfterReap(gone)
        IN /\ Collect(gone)
           /\ cache' = Dropped(c, k, alive \ gone)
           /\ result' = [op |-> "in", key |-> k, answer |-> Found(c, k, alive \ gone)]
           /\ UNCHANGED <<conf, now, cursor>>
  BY DEF ContainsKey
<1> DEFINE c == AfterReap(gone)
<1>2. /\ Sound(cache, c) /\ Kept(cache, c, {}) /\ Chained(c) /\ MatchesBut(c, {})
      /\ Bounded(c) /\ c.seq = cache.seq
  BY ReapedKeeps
<1>3. conf \in Settings /\ alive \in SUBSET Values /\ Chained(cache)
  BY DEF IInv, Typed
<1>4. /\ alive' \in SUBSET Values /\ UNCHANGED <<conf, now, cursor>>
      /\ result'.op # "exhausted" /\ cache' = Dropped(c, k, alive \ gone)
  BY <1>1, <1>3 DEF Collect
<1> HIDE DEF c
<1>5. Kept(c, cache', {})
  BY <1>2, <1>4, DroppedKeeps
<1>6. Sound(c, cache')
  BY <1>2, <1>3, <1>5, KeptIsSound
<1>7. Sound(cache, cache')
  BY <1>2, <1>3, <1>6, SoundStill
<1> QED BY <1>4, <1>7, OperationKeeps

LEMMA LenKeeps ==
  ASSUME IInv, LenOf
  PROVE  IInv'
<1>1. Kept(cache, cache', {})
  BY ReapKeeps DEF IInv, LenOf
<1>2. Sound(cache, cache')
  BY <1>1, KeptIsSound DEF IInv, Typed
<1>3. /\ UNCHANGED <<conf, now, cursor>> /\ alive' \in SUBSET Values
      /\ result'.op # "exhausted"
  BY DEF LenOf, IInv, Typed
<1> QED BY <1>2, <1>3, OperationKeeps

LEMMA ClearingKeeps ==
  ASSUME IInv, Clear
  PROVE  IInv'
<1>1. Sound(cache, cache')
  BY ClearKeeps DEF IInv, Typed, Clear
<1>2. /\ UNCHANGED <<conf, now, cursor>> /\ alive' \in SUBSET Values
      /\ result'.op # "exhausted"
  BY DEF Clear, IInv, Typed
<1> QED BY <1>1, <1>2, OperationKeeps

LEMMA IterBeginKeeps ==
  ASSUME IInv, IterBegin
  PROVE  IInv'
<1> DEFINE c == Reap(cache)
<1>1. /\ cache' = c /\ c.ins # <<>>
      /\ cursor' = [at |-> Last(c.ins), seen |-> <<c.link[Last(c.ins)].key>>, from |-> c.seq]
      /\ result'.op # "exhausted"
      /\ UNCHANGED <<conf, now, alive>>
  BY DEF IterBegin
<1>2. Typed /\ Chained(cache) /\ MatchesBut(cache, {}) /\ Bounded(cache)
  BY DEF IInv
<1>3. Kept(cache, c, {})
  BY <1>2, ReapKeeps
<1> HIDE DEF c
<1>4. Sound(cache, c)
  BY <1>2, <1>3, KeptIsSound DEF Typed
<1>5. Chained(c) /\ MatchesBut(c, {}) /\ Bounded(c)
  BY <1>4 DEF Sound
<1>6. cursor' \in Cursors /\ Trail(c, cursor')
  BY <1>1, <1>5, TrailBegins
<1>7. Report(c, result')
  BY <1>1 DEF Report
<1>8. conf' = conf /\ now' \in 0..MaxClock /\ alive' \in SUBSET Values
  BY <1>1, <1>2 DEF Typed
<1> QED BY <1>1, <1>2, <1>5, <1>6, <1>7, <1>8, SoundAfter

LEMMA IterNextKeeps ==
  ASSUME IInv, IterNext
  PROVE  IInv'
<1> DEFINE next == Before(cache, cursor.at)
<1>0. /\ cursor.at # None /\ UNCHANGED <<conf, cache, now, alive>>
  BY DEF IterNext
<1>1. /\ Typed /\ Chained(cache) /\ MatchesBut(cache, {}) /\ Bounded(cache) /\ cursor \in Cursors
      /\ Trail(cache, cursor)
  BY DEF IInv, Typed
<1>2. conf' = conf /\ now' \in 0..MaxClock /\ alive' \in SUBSET Values /\ cache' = cache
  BY <1>0, <1>1 DEF Typed
<1>3. NoIterator \in Cursors /\ Trail(cache, NoIterator)
  BY CacheConstants DEF NoIterator, Cursors, Trail
<1>4. CASE Unlinked(cache, cursor.at)
  <2>1. cursor' = NoIterator /\ result' = [op |-> "changed"]
    BY <1>4 DEF IterNext
  <2>2. Report(cache, result')
    BY <2>1 DEF Report
  <2> QED BY <1>1, <1>2, <1>3, <2>1, <2>2, SoundAfter
<1>5. CASE ~Unlinked(cache, cursor.at) /\ next = None
  <2>1. /\ cursor' = NoIterator
        /\ result' = [op |-> "exhausted", seen |-> cursor.seen, from |-> cursor.from]
    BY <1>5 DEF IterNext
  <2>2. \A m \in DOMAIN cache.link : m >= cursor.at
    BY <1>1, <1>5, BeforeIs DEF Unlinked
  <2>3. /\ IsInjective(cursor.seen) /\ cursor.from <= cache.seq
        /\ \A l \in DOMAIN cache.link : l <= cursor.from => cache.link[l].key \in ToSet(cursor.seen)
    BY <1>0, <1>1, <2>2 DEF Trail
  <2>4. cursor.from \in 0..cache.seq
    BY <1>1, <2>3, LinksNumbered, CacheConstants DEF Cursors
  <2>5. Report(cache, result')
    BY <2>1, <2>3, <2>4 DEF Report
  <2> QED BY <1>1, <1>2, <1>3, <2>1, <2>5, SoundAfter
<1>6. CASE ~Unlinked(cache, cursor.at) /\ next # None
  <2>1. /\ cursor' = [cursor EXCEPT !.at = next, !.seen = Append(@, cache.link[next].key)]
        /\ result' = [op |-> "yield", key |-> cache.link[next].key]
    BY <1>6 DEF IterNext
  <2>2. cursor' \in Cursors /\ Trail(cache, cursor')
    BY <1>0, <1>1, <1>6, <2>1, TrailGoesOn DEF Unlinked
  <2>3. Report(cache, result')
    BY <2>1 DEF Report
  <2> QED BY <1>1, <1>2, <2>2, <2>3, SoundAfter
<1> QED BY <1>4, <1>5, <1>6

LEMMA TickKeeps ==
  ASSUME IInv, Tick
  PROVE  IInv'
<1>1. /\ Typed /\ Chained(cache) /\ MatchesBut(cache, {}) /\ Bounded(cache)
      /\ Trail(cache, cursor) /\ Report(cache, result)
  BY DEF IInv
<1>2. UNCHANGED <<conf, cache, alive, cursor, result>> /\ now' \in 0..MaxClock
  BY <1>1, CacheConstants DEF Tick, Typed
<1> QED BY <1>1, <1>2, SoundAfter DEF Typed

LEMMA ValueDiesKeeps ==
  ASSUME IInv, ValueDies
  PROVE  IInv'
<1>1. PICK v \in alive : alive' = alive \ {v} /\ cache' = Die(cache, {v})
                         /\ UNCHANGED <<conf, now, cursor, result>>
  BY DEF ValueDies
<1>2. Kept(cache, cache', {})
  BY <1>1, DieKeeps DEF IInv
<1>3. Sound(cache, cache')
  BY <1>2, KeptIsSound DEF IInv, Typed
<1>4. alive' \in SUBSET Values
  BY <1>1 DEF IInv, Typed
<1> QED BY <1>1, <1>3, <1>4, OperationKeeps

LEMMA StutterKeeps ==
  ASSUME IInv, UNCHANGED vars
  PROVE  IInv'
<1>1. /\ Typed /\ Chained(cache) /\ MatchesBut(cache, {}) /\ Bounded(cache)
      /\ Trail(cache, cursor) /\ Report(cache, result)
  BY DEF IInv
<1>2. UNCHANGED <<conf, cache, now, alive, cursor, result>>
  BY DEF vars
<1> QED BY <1>1, <1>2, SoundAfter DEF Typed

LEMMA NextKeeps == IInv /\ [Next]_vars => IInv'
<1> SUFFICES ASSUME IInv, [Next]_vars PROVE IInv'
  OBVIOUS
<1>1. CASE \E k \in Keys : Get(k) \/ Delete(k) \/ ContainsKey(k) \/ \E v \in Values : Set(k, v)
  BY <1>1, GetKeeps, DeletesKeep, ContainsKeeps, SetKeeps
<1>2. CASE LenOf
  BY <1>2, LenKeeps
<1>3. CASE Clear
  BY <1>3, ClearingKeeps
<1>4. CASE IterBegin
  BY <1>4, IterBeginKeeps
<1>5. CASE IterNext
  BY <1>5, IterNextKeeps
<1>6. CASE Tick
  BY <1>6, TickKeeps
<1>7. CASE ValueDies
  BY <1>7, ValueDiesKeeps
<1>8. CASE UNCHANGED vars
  BY <1>8, StutterKeeps
<1> QED BY <1>1, <1>2, <1>3, <1>4, <1>5, <1>6, <1>7, <1>8 DEF Next

LEMMA InvariantHolds == Spec => []IInv
BY InitHolds, NextKeeps, PTL DEF Spec

-------------------------------------------------------------------------------
(* What it gives *)

(* A sequence without repetitions is as long as the set of its elements.      *)
LEMMA LengthIs ==
  ASSUME NEW S, NEW s \in Seq(S), IsInjective(s)
  PROVE  Cardinality(ToSet(s)) = Len(s)
<1>1. ToSet(s) = {s[i] : i \in 1..Len(s)} /\ \A i, j \in 1..Len(s) : s[i] = s[j] => i = j
  BY InSequence
<1>2. Len(s) \in Nat /\ DOMAIN s = 1..Len(s) /\ s = [i \in 1..Len(s) |-> s[i]]
  OBVIOUS
<1> DEFINE T == ToSet(s)
           n == Len(s)
<1>3. s \in [1..n -> T]
  BY <1>1, <1>2
<1>4. s \in Bijection(1..n, T)
  <2>1. \A t \in T : \E i \in 1..n : s[i] = t
    BY <1>1
  <2> HIDE DEF T
  <2> QED BY <1>2, <1>3, <2>1 DEF Bijection, Injection, Surjection
<1>5. ExistsBijection(1..n, T)
  BY <1>4 DEF ExistsBijection
<1> HIDE DEF T, n
<1>6. Cardinality(T) = n
  BY <1>2, <1>5, FS_CountingElements DEF n
<1> QED BY <1>6 DEF T, n

LEMMA RingIsOrder ==
  ASSUME conf \in Settings, Chained(cache), Bounded(cache), NEW s \in Seq(Links),
         Ring(cache, s) \/ s = <<>>
  PROVE  s \in Orders
<1>1. conf.max_size \in Nat
  BY DEF Settings
<1>2. IsInjective(s) /\ Len(s) \in 0..conf.max_size
  <2>1. CASE Ring(cache, s)
    <3>1. IsInjective(s) /\ Len(s) = cache.size
      BY <2>1, LengthIs DEF Ring, Chained
    <3> QED BY <1>1, <3>1 DEF Bounded
  <2>2. CASE s = <<>>
    BY <1>1, <2>2, EmptyMaps
  <2> QED BY <2>1, <2>2
<1>3. s \in [1..Len(s) -> Links]
  OBVIOUS
<1>4. s \in BoundedSeq(Links, conf.max_size)
  BY <1>2, <1>3 DEF BoundedSeq, SeqOf
<1> QED BY <1>2, <1>4 DEF Orders

LEMMA TypeHolds == IInv => TypeOK
<1> SUFFICES ASSUME IInv PROVE TypeOK
  OBVIOUS
<1>1. Typed /\ Chained(cache) /\ Bounded(cache) /\ cache \in Caches
  BY DEF IInv, Chained
<1>2. /\ cache.link \in LinkMaps /\ cache.table \in Tables /\ cache.ins \in Seq(Links)
      /\ cache.lru \in Seq(Links) /\ cache.lfu \in Seq(Links) /\ cache.dead \in Seq(Links)
      /\ cache.seq \in 0..MaxSeq /\ cache.size \in Nat /\ cache.weight \in Nat
  BY <1>1 DEF Caches
<1>3. DOMAIN cache.link \subseteq Links /\ \A l \in DOMAIN cache.link : cache.link[l] \in Entries
  BY <1>2, LinkMapIs
<1>4. DOMAIN cache.table \subseteq Keys
  BY <1>2, TableIs
<1>5. {cache.ins, cache.lru, cache.lfu} \subseteq Orders
  <2>1. Ring(cache, cache.ins) /\ Ring(cache, cache.lru) /\ (Ring(cache, cache.lfu) \/ cache.lfu = <<>>)
    BY <1>1 DEF Chained
  <2> QED BY <1>1, <1>2, <2>1, RingIsOrder DEF Typed
<1>6. cache.size \in 0..conf.max_size
  BY <1>1, <1>2 DEF Typed, Settings, Bounded
<1> QED BY <1>1, <1>2, <1>3, <1>4, <1>5, <1>6 DEF TypeOK, Typed, Cursors

(* The three rings always hold the same links, each once, and the size and    *)
(* the weight that decide when to evict are always those of the links in use, *)
(* whatever expires, is collected, replaced or evicted in one call.           *)
THEOREM AccountedAlways == Spec => []Accounted
<1>1. IInv => Accounted
  <2> SUFFICES ASSUME IInv PROVE Accounted
    OBVIOUS
  <2>1. TypeOK
    BY TypeHolds
  <2>2. Chained(cache)
    BY DEF IInv
  <2> QED BY <2>1, <2>2 DEF Accounted, Chained, Ring
<1> QED BY <1>1, InvariantHolds, PTL

(* Between two calls the table always leads to a link in use under its own    *)
(* key, and every link in use is the one its key leads to.                    *)
THEOREM TableMatchesLinksAlways == Spec => []TableMatchesLinks
<1>1. IInv => TableMatchesLinks
  BY DEF IInv, MatchesBut, TableMatchesLinks, Unlinked
<1> QED BY <1>1, InvariantHolds, PTL

(* The weight never passes max_weight by as much as the heaviest value that   *)
(* __setitem__ lets in.                                                       *)
THEOREM WeightBoundAlways == Spec => []WeightBound
<1>1. IInv => WeightBound
  BY DEF IInv, Bounded, Heaviest, WeightBound
<1> QED BY <1>1, InvariantHolds, PTL

(* An iteration that ends without an error has yielded no key twice and every *)
(* entry that was there when it began and has stayed, whatever other calls    *)
(* came between its steps.                                                    *)
THEOREM IterationCompleteAlways == Spec => []IterationComplete
<1>1. IInv => IterationComplete
  BY DEF IInv, Report, IterationComplete
<1> QED BY <1>1, InvariantHolds, PTL

-------------------------------------------------------------------------------
(* What a cache stands for *)

Data(r) == [value |-> r.value, written |-> r.written, accessed |-> r.accessed]

(* The map m has the entries of the links in use, in their order.             *)
StandsFor(c, m) ==
  /\ DOMAIN m.entry = {c.link[l].key : l \in DOMAIN c.link}
  /\ m.entry = [k \in DOMAIN m.entry |-> m.entry[k]]
  /\ \A l \in DOMAIN c.link : m.entry[c.link[l].key] = Data(c.link[l])
  /\ m.order \subseteq (DOMAIN m.entry) \X (DOMAIN m.entry)
  /\ \A l, n \in DOMAIN c.link : <<c.link[l].key, c.link[n].key>> \in m.order <=> GoesBefore(c, l, n)

Distinct(c) == \A l, n \in DOMAIN c.link : c.link[l].key = c.link[n].key => l = n

LEMMA KeysAreDistinct ==
  ASSUME NEW c, NEW X, MatchesBut(c, X)
  PROVE  Distinct(c)
BY DEF MatchesBut, Distinct

LEMMA StandsForOne ==
  ASSUME NEW c, NEW m, NEW n, StandsFor(c, m), StandsFor(c, n)
  PROVE  m.entry = n.entry /\ m.order = n.order
<1>1. DOMAIN m.entry = DOMAIN n.entry
  BY DEF StandsFor
<1>2. \A k \in DOMAIN m.entry : \E l \in DOMAIN c.link : k = c.link[l].key
  BY DEF StandsFor
<1>3. \A k \in DOMAIN m.entry : m.entry[k] = n.entry[k]
  BY <1>2 DEF StandsFor
<1>4. m.entry = n.entry
  BY <1>1, <1>3 DEF StandsFor
<1>5. ASSUME NEW p \in (DOMAIN m.entry) \X (DOMAIN m.entry)
      PROVE  p \in m.order <=> p \in n.order
  <2>1. PICK k \in DOMAIN m.entry, h \in DOMAIN m.entry : p = <<k, h>>
    BY <1>5
  <2>2. PICK l \in DOMAIN c.link : k = c.link[l].key
    BY <1>2
  <2>3. PICK i \in DOMAIN c.link : h = c.link[i].key
    BY <1>2
  <2> QED BY <2>1, <2>2, <2>3 DEF StandsFor
<1>6. /\ m.order \subseteq (DOMAIN m.entry) \X (DOMAIN m.entry)
      /\ n.order \subseteq (DOMAIN m.entry) \X (DOMAIN m.entry)
  BY <1>1 DEF StandsFor
<1> QED BY <1>4, <1>5, <1>6

LEMMA CacheStands ==
  ASSUME NEW c, Chained(c), MatchesBut(c, {})
  PROVE  StandsFor(c, [entry |-> EntriesOf(c), order |-> OrderOf(c)])
<1> DEFINE e == EntriesOf(c)
           o == OrderOf(c)
<1>1. \A k \in DOMAIN c.table : c.table[k] \in DOMAIN c.link /\ c.link[c.table[k]].key = k
  BY DEF MatchesBut
<1>2. \A l \in DOMAIN c.link : c.link[l].key \in DOMAIN c.table /\ c.table[c.link[l].key] = l
  BY DEF MatchesBut
<1>3. DOMAIN e = DOMAIN c.table /\ e = [k \in DOMAIN e |-> e[k]]
  BY DEF EntriesOf
<1>4. \A k \in DOMAIN c.table : e[k] = Data(c.link[c.table[k]])
  BY DEF EntriesOf, Data
<1> HIDE DEF e
<1>5. DOMAIN e = {c.link[l].key : l \in DOMAIN c.link}
  BY <1>1, <1>2, <1>3
<1>6. \A l \in DOMAIN c.link : e[c.link[l].key] = Data(c.link[l])
  BY <1>2, <1>4
<1>7. o \subseteq (DOMAIN e) \X (DOMAIN e)
  BY <1>5 DEF OrderOf
<1>8. \A l, n \in DOMAIN c.link : GoesBefore(c, l, n) => <<c.link[l].key, c.link[n].key>> \in o
  <2> SUFFICES ASSUME NEW l \in DOMAIN c.link, NEW n \in DOMAIN c.link, GoesBefore(c, l, n)
               PROVE  <<c.link[l].key, c.link[n].key>> \in o
    OBVIOUS
  <2> DEFINE p == <<l, n>>
  <2>1. p \in (DOMAIN c.link) \X (DOMAIN c.link) /\ p[1] = l /\ p[2] = n
    OBVIOUS
  <2> HIDE DEF p
  <2> QED BY <2>1 DEF OrderOf
<1>9. ASSUME NEW l \in DOMAIN c.link, NEW n \in DOMAIN c.link,
             <<c.link[l].key, c.link[n].key>> \in o
      PROVE  GoesBefore(c, l, n)
  <2>1. PICK p \in (DOMAIN c.link) \X (DOMAIN c.link) :
           GoesBefore(c, p[1], p[2]) /\ <<c.link[l].key, c.link[n].key>> = <<c.link[p[1]].key, c.link[p[2]].key>>
    BY <1>9 DEF OrderOf
  <2>2. p[1] \in DOMAIN c.link /\ p[2] \in DOMAIN c.link
    OBVIOUS
  <2>3. c.link[l].key = c.link[p[1]].key /\ c.link[n].key = c.link[p[2]].key
    BY <2>1
  <2>4. l = p[1] /\ n = p[2]
    BY <1>2, <2>2, <2>3
  <2> QED BY <2>1, <2>4
<1> HIDE DEF o
<1> DEFINE m == [entry |-> e, order |-> o]
<1>10. m.entry = e /\ m.order = o
  OBVIOUS
<1> HIDE DEF m
<1>11. StandsFor(c, m)
  BY <1>3, <1>5, <1>6, <1>7, <1>8, <1>9, <1>10 DEF StandsFor
<1> QED BY <1>11 DEF m, e, o

-------------------------------------------------------------------------------
(* The order of the links *)

(* In a ring one of two links comes first.                                    *)
LEMMA RingOrders ==
  ASSUME NEW S, NEW s \in Seq(S), IsInjective(s), NEW x, NEW y
  PROVE  /\ InOrder(s, x, y) => x \in ToSet(s) /\ y \in ToSet(s) /\ x # y /\ ~InOrder(s, y, x)
         /\ x \in ToSet(s) /\ y \in ToSet(s) /\ x # y => InOrder(s, x, y) \/ InOrder(s, y, x)
<1>1. /\ ToSet(s) = {s[i] : i \in 1..Len(s)} /\ DOMAIN s = 1..Len(s) /\ Len(s) \in Nat
      /\ \A i, j \in 1..Len(s) : s[i] = s[j] => i = j
  BY InSequence
<1>2. ASSUME InOrder(s, x, y)
      PROVE  x \in ToSet(s) /\ y \in ToSet(s) /\ x # y /\ ~InOrder(s, y, x)
  <2>1. PICK i \in 1..Len(s), j \in 1..Len(s) : i < j /\ s[i] = x /\ s[j] = y
    BY <1>1, <1>2 DEF InOrder
  <2>2. x # y
    BY <1>1, <2>1
  <2>3. ASSUME InOrder(s, y, x) PROVE FALSE
    <3>1. PICK a \in 1..Len(s), b \in 1..Len(s) : a < b /\ s[a] = y /\ s[b] = x
      BY <1>1, <2>3 DEF InOrder
    <3>2. a = j /\ b = i
      BY <1>1, <2>1, <3>1
    <3> QED BY <2>1, <3>1, <3>2
  <2> QED BY <1>1, <2>1, <2>2, <2>3
<1>3. ASSUME x \in ToSet(s), y \in ToSet(s), x # y
      PROVE  InOrder(s, x, y) \/ InOrder(s, y, x)
  <2>1. PICK i \in 1..Len(s) : s[i] = x
    BY <1>1, <1>3
  <2>2. PICK j \in 1..Len(s) : s[j] = y
    BY <1>1, <1>3
  <2>3. i < j \/ j < i
    BY <1>3, <2>1, <2>2
  <2> QED BY <1>1, <2>1, <2>2, <2>3 DEF InOrder
<1> QED BY <1>2, <1>3

LEMMA InsIsByNumber ==
  ASSUME NEW c, Chained(c), NEW l \in DOMAIN c.link, NEW n \in DOMAIN c.link
  PROVE  InOrder(c.ins, l, n) <=> l < n
<1>1. /\ c.ins \in Seq(Links) /\ IsInjective(c.ins) /\ ToSet(c.ins) = DOMAIN c.link /\ Ascending(c.ins)
      /\ c.link \in LinkMaps
  BY DEF Chained, Caches, Ring
<1>2. l \in Nat /\ n \in Nat
  BY <1>1, LinkMapIs, CacheConstants DEF Links
<1>3. \A x, y : InOrder(c.ins, x, y) => x < y
  BY <1>1 DEF InOrder, Ascending
<1>4. l # n => InOrder(c.ins, l, n) \/ InOrder(c.ins, n, l)
  BY <1>1, RingOrders
<1> QED BY <1>2, <1>3, <1>4

(* Taking links away leaves the others in order.                              *)
LEMMA OrderStays ==
  ASSUME NEW c, Chained(c), NEW d, Chained(d), Fewer(c, d),
         NEW l \in DOMAIN d.link, NEW n \in DOMAIN d.link
  PROVE  GoesBefore(d, l, n) <=> GoesBefore(c, l, n)
<1>1. l \in DOMAIN c.link /\ n \in DOMAIN c.link /\ Subsequence(d.lru, c.lru)
  BY DEF Fewer
<1>2. /\ c.lru \in Seq(Links) /\ IsInjective(c.lru) /\ ToSet(c.lru) = DOMAIN c.link
      /\ d.lru \in Seq(Links) /\ IsInjective(d.lru) /\ ToSet(d.lru) = DOMAIN d.link
  BY DEF Chained, Caches, Ring
<1>3. InOrder(d.ins, l, n) <=> InOrder(c.ins, l, n)
  BY <1>1, InsIsByNumber
<1>4. InOrder(d.lru, l, n) => InOrder(c.lru, l, n)
  BY <1>1 DEF Subsequence
<1>5. ASSUME InOrder(c.lru, l, n) PROVE InOrder(d.lru, l, n)
  <2>1. l # n /\ ~InOrder(c.lru, n, l)
    BY <1>2, <1>5, RingOrders
  <2>2. ~InOrder(d.lru, n, l)
    BY <1>1, <2>1 DEF Subsequence
  <2> QED BY <1>2, <2>1, <2>2, RingOrders
<1> QED BY <1>3, <1>4, <1>5 DEF GoesBefore

(* What is left of a cache stands for what is left of the map.                *)
LEMMA LessStands ==
  ASSUME NEW c, Chained(c), Distinct(c), NEW m, StandsFor(c, m),
         NEW d, Chained(d), Fewer(c, d),
         NEW H \in SUBSET DOMAIN m.entry,
         \A l \in DOMAIN c.link : l \in DOMAIN d.link <=> c.link[l].key \in H
  PROVE  StandsFor(d, Map!Only(m, H))
<1> DEFINE e == [k \in H |-> m.entry[k]]
           o == m.order \cap (H \X H)
           r == [entry |-> e, order |-> o]
<1>0. Map!Only(m, H) = r
  BY DEF Map!Only
<1>1. r.entry = e /\ r.order = o
  OBVIOUS
<1>2. DOMAIN e = H /\ e = [k \in DOMAIN e |-> e[k]] /\ \A k \in H : e[k] = m.entry[k]
  OBVIOUS
<1>3. /\ DOMAIN d.link \subseteq DOMAIN c.link
      /\ \A l \in DOMAIN d.link : d.link[l] = c.link[l]
  BY DEF Fewer
<1>4. DOMAIN m.entry = {c.link[l].key : l \in DOMAIN c.link}
  BY DEF StandsFor
<1>5. \A l \in DOMAIN d.link : d.link[l].key \in H /\ d.link[l].key = c.link[l].key
  BY <1>3, <1>4
<1>6. H = {d.link[l].key : l \in DOMAIN d.link}
  BY <1>3, <1>4, <1>5
<1>7. \A l \in DOMAIN d.link : e[d.link[l].key] = Data(d.link[l])
  BY <1>2, <1>3, <1>5 DEF StandsFor
<1>8. o \subseteq H \X H
  OBVIOUS
<1>9. ASSUME NEW l \in DOMAIN d.link, NEW n \in DOMAIN d.link
      PROVE  <<d.link[l].key, d.link[n].key>> \in o <=> GoesBefore(d, l, n)
  <2>1. <<d.link[l].key, d.link[n].key>> \in o <=> <<c.link[l].key, c.link[n].key>> \in m.order
    BY <1>5
  <2>2. <<c.link[l].key, c.link[n].key>> \in m.order <=> GoesBefore(c, l, n)
    BY <1>3 DEF StandsFor
  <2>3. GoesBefore(d, l, n) <=> GoesBefore(c, l, n)
    BY OrderStays
  <2> QED BY <2>1, <2>2, <2>3
<1> HIDE DEF e, o, r
<1>10. StandsFor(d, r)
  BY <1>1, <1>2, <1>6, <1>7, <1>8, <1>9 DEF StandsFor
<1> QED BY <1>0, <1>10

-------------------------------------------------------------------------------
(* The reap *)

(* The rings are sorted by time, and no time is yet to come.                  *)
Sorted(c) ==
  /\ \A l \in DOMAIN c.link : c.link[l].written <= now /\ c.link[l].accessed <= now
  /\ \A l, n \in DOMAIN c.link : l < n => c.link[l].written <= c.link[n].written
  /\ \A l, n \in DOMAIN c.link : InOrder(c.lru, l, n) => c.link[l].accessed <= c.link[n].accessed

(* The queue names the links whose value is gone.                             *)
Queued(c, living) ==
  /\ \A l \in ToSet(c.dead) : l <= c.seq
  /\ \A l \in DOMAIN c.link : c.link[l].value \notin living <=> l \in ToSet(c.dead)

LEMMA SortedStill ==
  ASSUME NEW c, Sorted(c), NEW d, Chained(d), Fewer(c, d)
  PROVE  Sorted(d)
BY DEF Sorted, Fewer, Subsequence

LEMMA QueuedStill ==
  ASSUME NEW c, NEW living, Queued(c, living), NEW d, Fewer(c, d), d.dead = c.dead
  PROVE  Queued(d, living)
BY DEF Queued, Fewer

LEMMA FrontIs ==
  ASSUME NEW S, NEW s \in Seq(S), NEW n \in 0..Len(s)
  PROVE  LET r == SubSeq(s, 1, n)
         IN  r \in Seq(S) /\ Len(r) = n /\ \A i \in 1..n : r[i] = s[i]
OBVIOUS

(* The front of a ring that has expired is all of it that has, when the ring  *)
(* is sorted by the time that counts.                                         *)
LEMMA LeadingIsAll ==
  ASSUME NEW s \in Seq(Links), NEW E, \A i, j \in 1..Len(s) : i < j /\ s[j] \in E => s[i] \in E,
         NEW n, n = Max({i \in 0..Len(s) : \A j \in 1..i : s[j] \in E})
  PROVE  n \in 0..Len(s) /\ ToSet(SubSeq(s, 1, n)) = ToSet(s) \cap E
<1> DEFINE I == {i \in 0..Len(s) : \A j \in 1..i : s[j] \in E}
<1>0. Len(s) \in Nat
  OBVIOUS
<1>1. I \in SUBSET Nat /\ 0 \in I /\ \A x \in I : x <= Len(s)
  BY <1>0
<1>2. n \in I /\ \A y \in I : n >= y
  <2> HIDE DEF I
  <2>1. I # {}
    BY <1>1
  <2>2. Max(I) \in I /\ \A y \in I : Max(I) >= y
    BY <1>0, <1>1, <2>1, MaxIs
  <2> QED BY <2>2 DEF I
<1>3. n \in 0..Len(s) /\ \A j \in 1..n : s[j] \in E
  BY <1>2
<1>4. ASSUME NEW i \in 1..Len(s), s[i] \in E
      PROVE  i \in 1..n
  <2> SUFFICES ASSUME i > n PROVE FALSE
    BY <1>3
  <2>1. i \in 0..Len(s) /\ \A j \in 1..i : s[j] \in E
    <3> SUFFICES ASSUME NEW j \in 1..i PROVE s[j] \in E
      BY <1>0
    <3>1. j \in 1..Len(s) /\ (j < i \/ j = i)
      BY <1>0
    <3> QED BY <1>4, <3>1
  <2>2. i \in I
    BY <2>1
  <2> QED BY <1>2, <1>3, <2>2
<1> DEFINE r == SubSeq(s, 1, n)
<1>5. r \in Seq(Links) /\ Len(r) = n /\ \A i \in 1..n : r[i] = s[i]
  BY <1>3, FrontIs
<1> HIDE DEF r
<1>6. ToSet(r) = {r[i] : i \in 1..n} /\ ToSet(s) = {s[i] : i \in 1..Len(s)}
  BY <1>5, InSequence
<1>7. \A i \in 1..n : i \in 1..Len(s)
  BY <1>3
<1>8. ToSet(r) = ToSet(s) \cap E
  <2>1. \A i \in 1..n : r[i] \in ToSet(s) /\ r[i] \in E
    BY <1>3, <1>5, <1>6, <1>7
  <2>2. \A i \in 1..Len(s) : s[i] \in E => s[i] \in ToSet(r)
    BY <1>4, <1>5, <1>6
  <2> QED BY <1>6, <2>1, <2>2
<1> QED BY <1>3, <1>8 DEF r

Recent(r) ==
  /\ conf.expire_after_write # 0 => r.written > now - conf.expire_after_write
  /\ conf.expire_after_access # 0 => r.accessed > now - conf.expire_after_access

LEMMA TimesTyped ==
  ASSUME NEW c, Chained(c), NEW l \in DOMAIN c.link
  PROVE  c.link[l].written \in Nat /\ c.link[l].accessed \in Nat /\ l \in Nat
<1>1. c.link \in LinkMaps
  BY DEF Chained, Caches
<1>2. c.link[l] \in Entries /\ l \in Links
  BY <1>1, LinkMapIs
<1> QED BY <1>2, CacheConstants DEF Entries, Links

LEMMA ReapWrittenLeaves ==
  ASSUME conf \in Settings, now \in 0..MaxClock, NEW c, Chained(c), NEW X, MatchesBut(c, X), Sorted(c)
  PROVE  LET d == ReapWritten(c)
         IN  /\ Kept(c, d, X) /\ d.dead = c.dead
             /\ DOMAIN d.link = {l \in DOMAIN c.link :
                  conf.expire_after_write # 0 => c.link[l].written > now - conf.expire_after_write}
<1>1. CASE conf.expire_after_write = 0
  <2>1. ReapWritten(c) = c
    BY <1>1 DEF ReapWritten
  <2>2. Kept(c, c, X)
    BY KeptAlready
  <2> QED BY <1>1, <2>1, <2>2
<1>2. CASE conf.expire_after_write # 0
  <2> DEFINE s == c.ins
             x == now - conf.expire_after_write
             E == {l \in DOMAIN c.link : c.link[l].written <= x}
             n == Max({i \in 0..Len(s) : \A j \in 1..i : s[j] \in E})
             links == SubSeq(s, 1, n)
  <2>0. x \in Int
    BY CacheConstants DEF Settings
  <2>1. s \in Seq(Links) /\ ToSet(s) = DOMAIN c.link /\ Ascending(s)
    BY DEF Chained, Caches, Ring
  <2>2. \A i \in 1..Len(s) : s[i] \in DOMAIN c.link
    BY <2>1, InSequence
  <2>3. \A i, j \in 1..Len(s) : i < j /\ s[j] \in E => s[i] \in E
    <3> SUFFICES ASSUME NEW i \in 1..Len(s), NEW j \in 1..Len(s), i < j, s[j] \in E PROVE s[i] \in E
      OBVIOUS
    <3>1. s[i] < s[j] /\ s[i] \in DOMAIN c.link /\ s[j] \in DOMAIN c.link
      BY <2>1, <2>2 DEF Ascending
    <3>2. c.link[s[i]].written <= c.link[s[j]].written
      BY <3>1 DEF Sorted
    <3>3. c.link[s[i]].written \in Nat /\ c.link[s[j]].written \in Nat
      BY <3>1, TimesTyped
    <3> QED BY <2>0, <3>1, <3>2, <3>3
  <2>4. {i \in 0..Len(s) : \A j \in 1..i : s[j] \in E} =
        {i \in 0..Len(s) : \A j \in 1..i : c.link[s[j]].written <= x}
    <3>1. \A i \in 0..Len(s) : \A j \in 1..i : j \in 1..Len(s)
      BY <2>1
    <3> QED BY <2>2, <3>1
  <2>5. ReapWritten(c) = KillAll(c, links)
    BY <1>2, <2>4 DEF ReapWritten, Leading
  <2> HIDE DEF s, x, E, n
  <2>6. n \in 0..Len(s) /\ ToSet(links) = ToSet(s) \cap E
    BY <2>1, <2>3, LeadingIsAll DEF n
  <2>7. links \in Seq(Links)
    BY <2>1, <2>6
  <2> HIDE DEF links
  <2> DEFINE d == KillAll(c, links)
  <2>8. Kept(c, d, X) /\ d.dead = c.dead /\ DOMAIN d.link = DOMAIN c.link \ ToSet(links)
    BY <2>7, KillAllKeeps
  <2> HIDE DEF d
  <2>9. \A l \in DOMAIN c.link : ~(c.link[l].written <= x) <=> c.link[l].written > x
    BY <2>0, TimesTyped
  <2>10. DOMAIN d.link = {l \in DOMAIN c.link : c.link[l].written > x}
    BY <2>1, <2>6, <2>8, <2>9 DEF E
  <2> QED BY <1>2, <2>5, <2>8, <2>10 DEF d, x
<1> QED BY <1>1, <1>2

LEMMA ReapAccessedLeaves ==
  ASSUME conf \in Settings, now \in 0..MaxClock, NEW c, Chained(c), NEW X, MatchesBut(c, X), Sorted(c)
  PROVE  LET d == ReapAccessed(c)
         IN  /\ Kept(c, d, X) /\ d.dead = c.dead
             /\ DOMAIN d.link = {l \in DOMAIN c.link :
                  conf.expire_after_access # 0 => c.link[l].accessed > now - conf.expire_after_access}
<1>1. CASE conf.expire_after_access = 0
  <2>1. ReapAccessed(c) = c
    BY <1>1 DEF ReapAccessed
  <2>2. Kept(c, c, X)
    BY KeptAlready
  <2> QED BY <1>1, <2>1, <2>2
<1>2. CASE conf.expire_after_access # 0
  <2> DEFINE s == c.lru
             x == now - conf.expire_after_access
             E == {l \in DOMAIN c.link : c.link[l].accessed <= x}
             n == Max({i \in 0..Len(s) : \A j \in 1..i : s[j] \in E})
             links == SubSeq(s, 1, n)
  <2>0. x \in Int
    BY CacheConstants DEF Settings
  <2>1. s \in Seq(Links) /\ ToSet(s) = DOMAIN c.link
    BY DEF Chained, Caches, Ring
  <2>2. \A i \in 1..Len(s) : s[i] \in DOMAIN c.link
    BY <2>1, InSequence
  <2>3. \A i, j \in 1..Len(s) : i < j /\ s[j] \in E => s[i] \in E
    <3> SUFFICES ASSUME NEW i \in 1..Len(s), NEW j \in 1..Len(s), i < j, s[j] \in E PROVE s[i] \in E
      OBVIOUS
    <3>1. InOrder(s, s[i], s[j]) /\ s[i] \in DOMAIN c.link /\ s[j] \in DOMAIN c.link
      BY <2>1, <2>2 DEF InOrder
    <3>2. c.link[s[i]].accessed <= c.link[s[j]].accessed
      BY <3>1 DEF Sorted
    <3>3. c.link[s[i]].accessed \in Nat /\ c.link[s[j]].accessed \in Nat
      BY <3>1, TimesTyped
    <3> QED BY <2>0, <3>1, <3>2, <3>3
  <2>4. {i \in 0..Len(s) : \A j \in 1..i : s[j] \in E} =
        {i \in 0..Len(s) : \A j \in 1..i : c.link[s[j]].accessed <= x}
    <3>1. \A i \in 0..Len(s) : \A j \in 1..i : j \in 1..Len(s)
      BY <2>1
    <3> QED BY <2>2, <3>1
  <2>5. ReapAccessed(c) = KillAll(c, links)
    BY <1>2, <2>4 DEF ReapAccessed, Leading
  <2> HIDE DEF s, x, E, n
  <2>6. n \in 0..Len(s) /\ ToSet(links) = ToSet(s) \cap E
    BY <2>1, <2>3, LeadingIsAll DEF n
  <2>7. links \in Seq(Links)
    BY <2>1, <2>6
  <2> HIDE DEF links
  <2> DEFINE d == KillAll(c, links)
  <2>8. Kept(c, d, X) /\ d.dead = c.dead /\ DOMAIN d.link = DOMAIN c.link \ ToSet(links)
    BY <2>7, KillAllKeeps
  <2> HIDE DEF d
  <2>9. \A l \in DOMAIN c.link : ~(c.link[l].accessed <= x) <=> c.link[l].accessed > x
    BY <2>0, TimesTyped
  <2>10. DOMAIN d.link = {l \in DOMAIN c.link : c.link[l].accessed > x}
    BY <2>1, <2>6, <2>8, <2>9 DEF E
  <2> QED BY <1>2, <2>5, <2>8, <2>10 DEF d, x
<1> QED BY <1>1, <1>2

(* After a reap what is left is what is alive and has not expired.            *)
LEMMA ReapLeaves ==
  ASSUME conf \in Settings, now \in 0..MaxClock, NEW c, Chained(c), NEW X, MatchesBut(c, X),
         Sorted(c), NEW living, Queued(c, living)
  PROVE  LET d == Reap(c)
         IN  /\ Kept(c, d, X) /\ d.dead = <<>>
             /\ DOMAIN d.link = {l \in DOMAIN c.link : c.link[l].value \in living /\ Recent(c.link[l])}
<1> DEFINE d0 == KillAll(c, c.dead)
           d1 == [d0 EXCEPT !.dead = <<>>]
           d2 == ReapWritten(d1)
           d3 == ReapAccessed(d2)
<1>0. c.dead \in Seq(Links) /\ <<>> \in Seq(Links)
  BY DEF Chained, Caches
<1>1. Kept(c, d0, X) /\ DOMAIN d0.link = DOMAIN c.link \ ToSet(c.dead)
  BY <1>0, KillAllKeeps
<1>2. d1 = ReapDead(c)
  BY DEF ReapDead
<1> HIDE DEF d0
<1>3. Kept(d0, d1, X) /\ d1.link = d0.link /\ d1.dead = <<>>
  <2>1. d0 \in Caches /\ Chained(d0) /\ MatchesBut(d0, X)
    BY <1>1 DEF Kept, Chained
  <2>2. Kept(d0, d1, X) /\ d1.link = d0.link
    BY <1>0, <2>1, DeadForgotten
  <2>3. d1.dead = <<>>
    BY <2>1 DEF Caches
  <2> QED BY <2>2, <2>3
<1> HIDE DEF d1
<1>4. Kept(c, d1, X) /\ Chained(d1) /\ MatchesBut(d1, X) /\ Sorted(d1)
  <2>1. Kept(c, d1, X)
    BY <1>1, <1>3, KeptStill
  <2> QED BY <2>1, SortedStill DEF Kept
<1>5. /\ Kept(d1, d2, X) /\ d2.dead = d1.dead
      /\ DOMAIN d2.link = {l \in DOMAIN d1.link :
            conf.expire_after_write # 0 => d1.link[l].written > now - conf.expire_after_write}
  BY <1>4, ReapWrittenLeaves
<1> HIDE DEF d2
<1>6. Kept(c, d2, X) /\ Chained(d2) /\ MatchesBut(d2, X) /\ Sorted(d2)
  <2>1. Kept(c, d2, X)
    BY <1>4, <1>5, KeptStill
  <2> QED BY <2>1, SortedStill DEF Kept
<1>7. /\ Kept(d2, d3, X) /\ d3.dead = d2.dead
      /\ DOMAIN d3.link = {l \in DOMAIN d2.link :
            conf.expire_after_access # 0 => d2.link[l].accessed > now - conf.expire_after_access}
  BY <1>6, ReapAccessedLeaves
<1>8. d3 = Reap(c)
  BY <1>2 DEF Reap, d2
<1> HIDE DEF d3
<1>9. Kept(c, d3, X)
  BY <1>6, <1>7, KeptStill
<1>10. /\ \A l \in DOMAIN d1.link : l \in DOMAIN c.link /\ d1.link[l] = c.link[l]
       /\ \A l \in DOMAIN d2.link : l \in DOMAIN c.link /\ d2.link[l] = c.link[l]
  BY <1>4, <1>6 DEF Kept, Fewer
<1>11. DOMAIN d1.link = {l \in DOMAIN c.link : c.link[l].value \in living}
  BY <1>1, <1>3 DEF Queued
<1>12. DOMAIN d2.link = {l \in DOMAIN c.link : c.link[l].value \in living /\
         (conf.expire_after_write # 0 => c.link[l].written > now - conf.expire_after_write)}
  BY <1>5, <1>10, <1>11
<1>13. DOMAIN d3.link = {l \in DOMAIN c.link : c.link[l].value \in living /\ Recent(c.link[l])}
  BY <1>7, <1>10, <1>12 DEF Recent
<1> QED BY <1>3, <1>5, <1>7, <1>8, <1>9, <1>13

(* What the reap leaves stands for what is current.                           *)
LEMMA ReapStands ==
  ASSUME conf \in Settings, now \in 0..MaxClock, Chained(cache), MatchesBut(cache, {}),
         Sorted(cache), Queued(cache, alive)
  PROVE  StandsFor(Reap(cache), Map!Current)
<1> DEFINE d == Reap(cache)
           m == Map!Now
           H == Map!Valid(m) \cap Map!Living(m, alive)
<1>1. /\ Kept(cache, d, {})
      /\ DOMAIN d.link = {l \in DOMAIN cache.link : cache.link[l].value \in alive /\ Recent(cache.link[l])}
  BY ReapLeaves
<1>2. StandsFor(cache, m)
  BY CacheStands DEF Map!Now
<1>3. Map!Current = Map!Only(m, H)
  BY DEF Map!Current
<1> HIDE DEF d
<1>4. H \in SUBSET DOMAIN m.entry
  BY DEF Map!Valid, Map!Living, Map!Present
<1>5. \A l \in DOMAIN cache.link : l \in DOMAIN d.link <=> cache.link[l].key \in H
  <2> SUFFICES ASSUME NEW l \in DOMAIN cache.link
               PROVE  l \in DOMAIN d.link <=> cache.link[l].key \in H
    OBVIOUS
  <2> DEFINE k == cache.link[l].key
             r == cache.link[l]
  <2>1. k \in DOMAIN m.entry /\ m.entry[k] = Data(r)
    BY <1>2 DEF StandsFor
  <2>2. m.entry[k].value = r.value /\ m.entry[k].written = r.written /\ m.entry[k].accessed = r.accessed
    BY <2>1 DEF Data
  <2> HIDE DEF m, k, r
  <2>3. k \in H <=> r.value \in alive /\ Recent(r)
    BY <2>1, <2>2 DEF Map!Valid, Map!Living, Map!Present, Recent
  <2> QED BY <1>1, <2>3 DEF k, r
<1> HIDE DEF m, H
<1>6. Chained(d) /\ Fewer(cache, d) /\ Distinct(cache)
  BY <1>1, KeysAreDistinct DEF Kept
<1> QED BY <1>2, <1>3, <1>4, <1>5, <1>6, LessStands DEF d

-------------------------------------------------------------------------------
(* Size and weight *)

Sums(f, sum) ==
  sum = [S \in SUBSET DOMAIN f |->
           IF S = {} THEN 0 ELSE LET x == CHOOSE x \in S : TRUE IN f[x] + sum[S \ {x}]]

(* What adds up element by element is the total.                              *)
LEMMA TotalIs ==
  ASSUME NEW f, IsFiniteSet(DOMAIN f), NEW g \in [SUBSET DOMAIN f -> Nat], g[{}] = 0,
         \A S \in SUBSET DOMAIN f : \A x \in S : g[S] = f[x] + g[S \ {x}]
  PROVE  Map!Total(f) = g[DOMAIN f]
<1> DEFINE D == DOMAIN f
           sum == CHOOSE sum : Sums(f, sum)
<1>1. \A S \in SUBSET D : S # {} => (CHOOSE x \in S : TRUE) \in S
  OBVIOUS
<1>2. Sums(f, g)
  <2>1. \A S \in SUBSET D :
          g[S] = IF S = {} THEN 0 ELSE LET x == CHOOSE x \in S : TRUE IN f[x] + g[S \ {x}]
    BY <1>1
  <2>2. g = [S \in SUBSET D |-> g[S]]
    OBVIOUS
  <2> QED BY <2>1, <2>2 DEF Sums
<1>3. Sums(f, sum)
  BY <1>2
<1>4. Map!Total(f) = sum[D]
  BY DEF Map!Total, Sums
<1> HIDE DEF sum
<1>5. \A S \in SUBSET D :
        sum[S] = IF S = {} THEN 0 ELSE LET x == CHOOSE x \in S : TRUE IN f[x] + sum[S \ {x}]
  <2>1. sum = [S \in SUBSET D |->
                 IF S = {} THEN 0 ELSE LET x == CHOOSE x \in S : TRUE IN f[x] + sum[S \ {x}]]
    BY <1>3 DEF Sums
  <2> QED BY <2>1
<1> DEFINE T == {n \in Nat : \A S \in SUBSET D : Cardinality(S) = n => sum[S] = g[S]}
<1>6. 0 \in T
  <2>1. ASSUME NEW S \in SUBSET D, Cardinality(S) = 0 PROVE sum[S] = g[S]
    <3>1. IsFiniteSet(S)
      BY FS_Subset
    <3>2. S = {}
      BY <2>1, <3>1, FS_EmptySet
    <3> QED BY <1>5, <3>2
  <2> QED BY <2>1
<1>7. ASSUME NEW n \in Nat, n \in T PROVE n + 1 \in T
  <2> SUFFICES ASSUME NEW S \in SUBSET D, Cardinality(S) = n + 1 PROVE sum[S] = g[S]
    OBVIOUS
  <2>1. IsFiniteSet(S)
    BY FS_Subset
  <2>2. S # {}
    <3>1. Cardinality({}) = 0
      BY FS_EmptySet
    <3>2. Cardinality(S) # 0
      OBVIOUS
    <3> QED BY <3>1, <3>2, Zenon
  <2> DEFINE x == CHOOSE x \in S : TRUE
  <2>3. x \in S
    BY <2>2
  <2>4. sum[S] = f[x] + sum[S \ {x}]
    BY <1>5, <2>2
  <2> HIDE DEF x
  <2>5. Cardinality(S \ {x}) = n /\ S \ {x} \in SUBSET D
    <3>1. Cardinality(S \ {x}) = Cardinality(S) - 1
      BY <2>1, <2>3, FS_RemoveElement
    <3> QED BY <3>1
  <2>6. sum[S \ {x}] = g[S \ {x}]
    BY <1>7, <2>5
  <2>7. g[S] = f[x] + g[S \ {x}]
    BY <2>3
  <2> QED BY <2>4, <2>6, <2>7
<1>8. Nat \subseteq T
  <2> HIDE DEF T
  <2> QED BY <1>6, <1>7, Induction
<1>9. Cardinality(D) \in Nat
  BY FS_CardinalityType
<1>10. sum[D] = g[D]
  BY <1>8, <1>9
<1> QED BY <1>4, <1>10

LEMMA KeysCount ==
  ASSUME NEW c, Chained(c), Distinct(c), NEW m, StandsFor(c, m)
  PROVE  IsFiniteSet(DOMAIN m.entry) /\ Cardinality(DOMAIN m.entry) = c.size
<1> DEFINE D == DOMAIN c.link
           K == DOMAIN m.entry
           b == [l \in D |-> c.link[l].key]
<1>1. c.link \in LinkMaps /\ c.size = Cardinality(D)
  BY DEF Chained, Caches
<1>2. IsFiniteSet(D) /\ Cardinality(D) \in Nat
  BY <1>1, LinksFinite
<1>3. K = {c.link[l].key : l \in D}
  BY DEF StandsFor
<1>4. b \in Surjection(D, K)
  BY <1>3 DEF Surjection
<1>5. b \in Injection(D, K)
  BY <1>3 DEF Injection, IsInjective, Distinct
<1>6. b \in Bijection(D, K)
  BY <1>4, <1>5 DEF Bijection
<1>7. ExistsBijection(D, K)
  BY <1>6 DEF ExistsBijection
<1> HIDE DEF D, K, b
<1>8. IsFiniteSet(K) /\ Cardinality(K) = Cardinality(D)
  BY <1>2, <1>7, FS_Bijection
<1> QED BY <1>1, <1>8 DEF K

LEMMA SizeIs ==
  ASSUME NEW c, Chained(c), Distinct(c), NEW m, StandsFor(c, m)
  PROVE  Map!Size(m) = c.size
<1> DEFINE K == DOMAIN m.entry
           f == [k \in K |-> 1]
           g == [S \in SUBSET K |-> Cardinality(S)]
<1>1. IsFiniteSet(K) /\ Cardinality(K) = c.size
  BY KeysCount
<1>2. \A S \in SUBSET K : IsFiniteSet(S) /\ Cardinality(S) \in Nat
  BY <1>1, FS_Subset, FS_CardinalityType
<1>3. g \in [SUBSET K -> Nat]
  BY <1>2
<1>4. g[{}] = 0
  BY FS_EmptySet
<1>5. ASSUME NEW S \in SUBSET K, NEW x \in S
      PROVE  g[S] = f[x] + g[S \ {x}]
  <2>1. Cardinality(S \ {x}) = Cardinality(S) - 1
    BY <1>2, FS_RemoveElement
  <2>2. Cardinality(S) \in Nat /\ S \ {x} \in SUBSET K
    BY <1>2
  <2> QED BY <2>1, <2>2
<1>6. Map!Size(m) = Map!Total(f)
  BY DEF Map!Size, Map!Present
<1>7. DOMAIN f = K /\ g[K] = Cardinality(K)
  OBVIOUS
<1> HIDE DEF f, g
<1>8. Map!Total(f) = g[K]
  <2>1. IsFiniteSet(DOMAIN f) /\ g \in [SUBSET DOMAIN f -> Nat]
        /\ \A S \in SUBSET DOMAIN f : \A x \in S : g[S] = f[x] + g[S \ {x}]
    BY <1>1, <1>3, <1>5, <1>7
  <2>2. Map!Total(f) = g[DOMAIN f]
    BY <1>4, <2>1, TotalIs
  <2> QED BY <1>7, <2>2
<1> QED BY <1>1, <1>6, <1>7, <1>8

LEMMA WeightIs ==
  ASSUME NEW c, Chained(c), Distinct(c), NEW m, StandsFor(c, m)
  PROVE  Map!Weight(m) = c.weight
<1> DEFINE K == DOMAIN m.entry
           D == DOMAIN c.link
           f == [k \in K |-> Weigh[m.entry[k].value]]
           L(S) == {l \in D : c.link[l].key \in S}
           g == [S \in SUBSET K |-> WeightOf(Restrict(c.link, L(S)))]
<1>1. IsFiniteSet(K)
  BY KeysCount
<1>2. c.link \in LinkMaps /\ c.weight = WeightOf(c.link)
  BY DEF Chained, Caches
<1>3. /\ c.link = [l \in D |-> c.link[l]] /\ D \subseteq Links
      /\ \A l \in D : c.link[l] \in Entries
  BY <1>2, LinkMapIs
<1>4. ASSUME NEW S
      PROVE  Restrict(c.link, L(S)) \in LinkMaps
  <2> DEFINE r == Restrict(c.link, L(S))
  <2>1. DOMAIN r = L(S) /\ r = [l \in DOMAIN r |-> r[l]] /\ \A l \in L(S) : r[l] = c.link[l]
    BY DEF Restrict
  <2> HIDE DEF r
  <2>2. DOMAIN r \subseteq Links /\ \A l \in DOMAIN r : r[l] \in Entries
    BY <1>3, <2>1
  <2>3. r \in LinkMaps
    BY <2>1, <2>2, LinkMapIs
  <2> QED BY <2>3 DEF r
<1>5. g \in [SUBSET K -> Nat]
  BY <1>4, WeightTyped
<1>6. g[{}] = 0
  <2>1. DOMAIN Restrict(c.link, L({})) = {}
    BY DEF Restrict
  <2> QED BY <1>4, <2>1, WeightTyped
<1>7. ASSUME NEW S \in SUBSET K, NEW x \in S
      PROVE  g[S] = f[x] + g[S \ {x}]
  <2> DEFINE r == Restrict(c.link, L(S))
             q == Restrict(c.link, L(S \ {x}))
  <2>1. PICK l \in D : x = c.link[l].key
    BY DEF StandsFor
  <2>2. l \in DOMAIN r /\ r[l] = c.link[l] /\ r \in LinkMaps
    BY <1>4, <2>1 DEF Restrict
  <2>3. q = Without(r, l)
    <3>1. L(S \ {x}) = L(S) \ {l}
      BY <2>1 DEF Distinct
    <3>2. DOMAIN r = L(S) /\ \A y \in L(S) : r[y] = c.link[y]
      BY DEF Restrict
    <3>3. q = [y \in L(S) \ {l} |-> c.link[y]]
      BY <3>1 DEF Restrict
    <3> HIDE DEF r, q
    <3> QED BY <3>2, <3>3 DEF Without
  <2>4. WeightOf(q) = WeightOf(r) - Weigh[r[l].value]
    <3> HIDE DEF r, q
    <3> QED BY <2>2, <2>3, WithoutTyped
  <2>5. f[x] = Weigh[r[l].value]
    <3>1. m.entry[x] = Data(r[l]) /\ x \in K
      BY <2>1, <2>2 DEF StandsFor
    <3>2. Data(r[l]).value = r[l].value
      BY DEF Data
    <3>3. m.entry[x].value = r[l].value
      BY <3>1, <3>2
    <3>4. f[x] = Weigh[m.entry[x].value]
      BY <3>1
    <3> HIDE DEF r, f, g, q
    <3> QED BY <3>3, <3>4
  <2>6. g[S] = WeightOf(r) /\ g[S \ {x}] = WeightOf(q)
    OBVIOUS
  <2>7. WeightOf(r) \in Nat /\ Weigh[r[l].value] \in Nat
    <3>1. r[l].value \in Values
      BY <1>3, <2>1, <2>2 DEF Entries
    <3> QED BY <2>2, <3>1, WeightTyped, CacheConstants
  <2> HIDE DEF f, g, r, q
  <2> QED BY <2>4, <2>5, <2>6, <2>7
<1>8. Map!Weight(m) = Map!Total(f)
  BY DEF Map!Weight, Map!Present
<1>9. DOMAIN f = K
  OBVIOUS
<1>10. g[K] = c.weight
  <2>1. L(K) = D
    BY DEF StandsFor
  <2>2. Restrict(c.link, D) = c.link
    BY <1>3 DEF Restrict
  <2> QED BY <1>2, <2>1, <2>2
<1> HIDE DEF f, g
<1>11. Map!Total(f) = g[K]
  <2>1. IsFiniteSet(DOMAIN f) /\ g \in [SUBSET DOMAIN f -> Nat]
        /\ \A S \in SUBSET DOMAIN f : \A x \in S : g[S] = f[x] + g[S \ {x}]
    BY <1>1, <1>5, <1>7, <1>9
  <2>2. Map!Total(f) = g[DOMAIN f]
    BY <1>6, <2>1, TotalIs
  <2> QED BY <1>9, <2>2
<1> QED BY <1>8, <1>10, <1>11

LEMMA FitsIs ==
  ASSUME conf \in Settings, NEW c, Chained(c), Distinct(c), NEW m, StandsFor(c, m)
  PROVE  Map!Fits(m) <=> ~Full(c)
<1>1. Map!Size(m) = c.size /\ Map!Weight(m) = c.weight
  BY SizeIs, WeightIs
<1>2. c.size \in Nat /\ c.weight \in Nat
  BY DEF Chained, Caches
<1>3. conf.max_size \in Nat /\ conf.max_weight \in Nat
  BY DEF Settings
<1> QED BY <1>1, <1>2, <1>3 DEF Map!Fits, Full

-------------------------------------------------------------------------------
(* Making room *)

LEMMA VictimsInOrder ==
  ASSUME conf \in Settings, conf.eviction # "LFU", NEW c, Chained(c)
  PROVE  /\ Victims(c) \in Seq(Links) /\ IsInjective(Victims(c)) /\ ToSet(Victims(c)) = DOMAIN c.link
         /\ \A l, n : GoesBefore(c, l, n) <=> InOrder(Victims(c), l, n)
<1>1. conf.eviction \in {"LRU", "LRI"}
  BY DEF Settings
<1>2. Victims(c) = IF conf.eviction = "LRU" THEN c.lru ELSE c.ins
  BY <1>1 DEF Victims
<1>3. /\ c.ins \in Seq(Links) /\ IsInjective(c.ins) /\ ToSet(c.ins) = DOMAIN c.link
      /\ c.lru \in Seq(Links) /\ IsInjective(c.lru) /\ ToSet(c.lru) = DOMAIN c.link
  BY DEF Chained, Caches, Ring
<1> QED BY <1>2, <1>3 DEF GoesBefore

(* Once there is room, killing more does not take it away.                    *)
LEMMA RoomStays ==
  ASSUME conf \in Settings, NEW c, Chained(c), NEW X, MatchesBut(c, X), NEW links \in Seq(Links),
         NEW killed, Killings(c, links, killed),
         NEW j \in 0..Len(links), ~Full(killed[j]), NEW i \in j..Len(links)
  PROVE  ~Full(killed[i])
<1> DEFINE S == {k \in Nat : j <= k /\ k <= Len(links) => ~Full(killed[k])}
<1>0. Len(links) \in Nat /\ j \in Nat
  OBVIOUS
<1>1. 0 \in S
  BY <1>0
<1>2. ASSUME NEW k \in Nat, k \in S PROVE k + 1 \in S
  <2> SUFFICES ASSUME j <= k + 1, k + 1 <= Len(links) PROVE ~Full(killed[k+1])
    OBVIOUS
  <2>1. CASE j = k + 1
    BY <2>1
  <2>2. CASE j # k + 1
    <3>1. j <= k /\ k \in 0..Len(links) /\ k + 1 \in 0..Len(links) /\ k + 1 # 0 /\ (k + 1) - 1 = k
      BY <1>0, <2>2
    <3>2. ~Full(killed[k])
      BY <1>2, <3>1
    <3> DEFINE d == killed[k]
               e == killed[k+1]
    <3>3. e = Kill(d, links[k+1])
      BY <3>1 DEF Killings
    <3>4. Kept(c, d, X)
      BY <3>1, KilledSoFar
    <3> HIDE DEF d, e
    <3>5. Kept(d, Kill(d, links[k+1]), X)
      BY <3>4, KillKeeps DEF Kept
    <3>6. Kept(d, e, X)
      BY <3>3, <3>5
    <3>7. e.size <= d.size /\ e.weight <= d.weight /\ d \in Caches /\ e \in Caches
      BY <3>4, <3>6 DEF Kept, Fewer, Chained
    <3>8. /\ e.size \in Nat /\ d.size \in Nat /\ e.weight \in Nat /\ d.weight \in Nat
          /\ conf.max_size \in Nat /\ conf.max_weight \in Nat
      BY <3>7 DEF Caches, Settings
    <3>9. ~Full(d)
      BY <3>2 DEF d
    <3>10. ~Full(e)
      BY <3>7, <3>8, <3>9 DEF Full
    <3> QED BY <3>10 DEF e
  <2> QED BY <2>1, <2>2
<1>3. Nat \subseteq S
  <2> HIDE DEF S
  <2> QED BY <1>1, <1>2, Induction
<1>4. i \in Nat /\ j <= i /\ i <= Len(links)
  BY <1>0
<1> QED BY <1>3, <1>4

(* The loop kills the front up to where there is room.                        *)
LEMMA EvictionStops ==
  ASSUME NEW c, NEW links, links = Victims(c), Len(links) \in Nat,
         NEW left, Evictions(c, left), NEW killed, Killings(c, links, killed), NEW n \in 0..Len(links)
  PROVE  \E j \in 0..n : /\ left[n] = killed[j] /\ (j < n => ~Full(killed[j]))
                         /\ \A h \in Nat : h < j => Full(killed[h])
<1> DEFINE Good(k) ==
             \E j \in 0..k : /\ left[k] = killed[j] /\ (j < k => ~Full(killed[j]))
                             /\ \A h \in Nat : h < j => Full(killed[h])
           S == {k \in Nat : k <= Len(links) => Good(k)}
<1>1. 0 \in S
  <2>1. left[0] = c /\ killed[0] = c
    BY DEF Evictions, Killings
  <2>2. Good(0)
    BY <2>1
  <2> QED BY <2>2
<1>2. ASSUME NEW k \in Nat, k \in S PROVE k + 1 \in S
  <2> SUFFICES ASSUME k + 1 <= Len(links) PROVE Good(k + 1)
    OBVIOUS
  <2>1. k <= Len(links) /\ k + 1 \in 0..Len(links) /\ k + 1 # 0 /\ (k + 1) - 1 = k
    OBVIOUS
  <2>2. left[k+1] = Evict(left[k], links[k+1])
    BY <2>1 DEF Evictions
  <2>3. killed[k+1] = Kill(killed[k], links[k+1])
    BY <2>1 DEF Killings
  <2>4. PICK j \in 0..k : /\ left[k] = killed[j] /\ (j < k => ~Full(killed[j]))
                          /\ \A h \in Nat : h < j => Full(killed[h])
    BY <1>2, <2>1
  <2>5. CASE Full(killed[j])
    <3>1. j = k
      BY <2>4, <2>5
    <3>2. left[k+1] = killed[k+1]
      BY <2>2, <2>3, <2>4, <2>5, <3>1 DEF Evict
    <3>3. \A h \in Nat : h < k + 1 => h < k \/ h = k
      OBVIOUS
    <3>4. \A h \in Nat : h < k + 1 => Full(killed[h])
      BY <2>4, <2>5, <3>1, <3>3
    <3>5. k + 1 \in 0..k+1 /\ ~(k + 1 < k + 1)
      OBVIOUS
    <3> QED BY <3>2, <3>4, <3>5
  <2>6. CASE ~Full(killed[j])
    <3>1. left[k+1] = killed[j]
      BY <2>2, <2>4, <2>6 DEF Evict
    <3>2. j \in 0..k+1
      OBVIOUS
    <3> QED BY <2>4, <2>6, <3>1, <3>2
  <2> QED BY <2>5, <2>6
<1>3. Nat \subseteq S
  <2> HIDE DEF S
  <2> QED BY <1>1, <1>2, Induction
<1>4. n \in Nat /\ n <= Len(links)
  OBVIOUS
<1> QED BY <1>3, <1>4

(* When all before a link are killed, what is left is the link and all that   *)
(* go after it.                                                               *)
LEMMA BackStands ==
  ASSUME NEW c, Chained(c), NEW X, MatchesBut(c, X), NEW m, StandsFor(c, m),
         NEW v \in Seq(Links), IsInjective(v), ToSet(v) = DOMAIN c.link,
         \A l, n : GoesBefore(c, l, n) <=> InOrder(v, l, n),
         NEW i \in 1..Len(v),
         NEW d, Kept(c, d, X), DOMAIN d.link = DOMAIN c.link \ {v[h] : h \in 1..i-1}
  PROVE  StandsFor(d, Map!From(m, c.link[v[i]].key))
<1> DEFINE k == c.link[v[i]].key
           H == {k} \cup {x \in DOMAIN m.entry : <<k, x>> \in m.order}
<1>1. ToSet(v) = {v[a] : a \in 1..Len(v)} /\ DOMAIN v = 1..Len(v)
      /\ \A a, b \in 1..Len(v) : v[a] = v[b] => a = b
  BY InSequence
<1>2. v[i] \in DOMAIN c.link
  BY <1>1
<1>3. DOMAIN m.entry = {c.link[l].key : l \in DOMAIN c.link}
  BY DEF StandsFor
<1>4. k \in DOMAIN m.entry /\ H \in SUBSET DOMAIN m.entry
  BY <1>2, <1>3
<1>5. Map!From(m, k) = Map!Only(m, H)
  BY DEF Map!From, Map!Present
<1>6. Distinct(c) /\ Chained(d) /\ Fewer(c, d)
  BY KeysAreDistinct DEF Kept
<1>7. ASSUME NEW l \in DOMAIN c.link
      PROVE  l \in DOMAIN d.link <=> c.link[l].key \in H
  <2>1. PICK a \in 1..Len(v) : v[a] = l
    BY <1>1
  <2>2. l \in DOMAIN d.link <=> i <= a
    <3>1. l \in DOMAIN d.link <=> \A h \in 1..i-1 : v[h] # v[a]
      BY <2>1
    <3>2. \A h \in 1..i-1 : h \in 1..Len(v) /\ h < i
      OBVIOUS
    <3>3. a < i => a \in 1..i-1
      OBVIOUS
    <3>4. i <= a => \A h \in 1..i-1 : v[h] # v[a]
      BY <1>1, <3>2
    <3> QED BY <3>1, <3>3, <3>4
  <2>3. <<k, c.link[l].key>> \in m.order <=> GoesBefore(c, v[i], l)
    BY <1>2 DEF StandsFor
  <2>4. GoesBefore(c, v[i], l) <=> i < a
    <3>1. GoesBefore(c, v[i], l) <=> \E x, y \in 1..Len(v) : x < y /\ v[x] = v[i] /\ v[y] = v[a]
      BY <1>1, <2>1 DEF InOrder
    <3>2. \A x, y \in 1..Len(v) : v[x] = v[i] /\ v[y] = v[a] => x = i /\ y = a
      BY <1>1
    <3> QED BY <3>1, <3>2
  <2>5. c.link[l].key = k <=> a = i
    BY <1>1, <1>2, <1>6, <2>1 DEF Distinct
  <2>6. c.link[l].key \in DOMAIN m.entry
    BY <1>3
  <2>7. c.link[l].key \in H <=> a = i \/ i < a
    BY <2>3, <2>4, <2>5, <2>6
  <2>8. i <= a <=> a = i \/ i < a
    OBVIOUS
  <2> QED BY <2>2, <2>7, <2>8
<1> HIDE DEF k, H
<1>8. StandsFor(d, Map!Only(m, H))
  BY <1>4, <1>6, <1>7, LessStands
<1> QED BY <1>5, <1>8 DEF k

(* The eviction of __setitem__ takes what the policy names, and no more than  *)
(* it has to.                                                                 *)
LEMMA RoomStands ==
  ASSUME conf \in Settings, conf.eviction # "LFU", NEW c, Chained(c), NEW X, MatchesBut(c, X),
         NEW m, StandsFor(c, m)
  PROVE  LET d == MakeRoom(c)
         IN  Kept(c, d, X) /\ d.dead = c.dead /\ ~Full(d) /\ StandsFor(d, Map!MadeRoom(m))
<1> DEFINE v == Victims(c)
           d == MakeRoom(c)
<1>1. /\ v \in Seq(Links) /\ IsInjective(v) /\ ToSet(v) = DOMAIN c.link /\ Len(v) \in Nat
      /\ \A l, n : GoesBefore(c, l, n) <=> InOrder(v, l, n)
  BY VictimsInOrder
<1>2. PICK left : Evictions(c, left) /\ d = left[Len(v)]
  BY <1>1, EvictionsExist
<1>3. PICK killed : Killings(c, v, killed) /\ KillAll(c, v) = killed[Len(v)]
  BY <1>1, KillingsExist
<1>4. Kept(c, d, X) /\ d.dead = c.dead /\ ~Full(d)
  BY MakeRoomKeeps
<1>5. v = Victims(c) /\ Len(v) \in 0..Len(v)
  BY <1>1
<1> HIDE DEF v, d
<1>6. PICK j \in 0..Len(v) : /\ left[Len(v)] = killed[j] /\ (j < Len(v) => ~Full(killed[j]))
                             /\ \A h \in Nat : h < j => Full(killed[h])
  BY <1>1, <1>2, <1>3, <1>5, EvictionStops
<1>7. /\ \A i \in 0..Len(v) : /\ Kept(c, killed[i], X)
                              /\ DOMAIN killed[i].link = DOMAIN c.link \ {v[h] : h \in 1..i}
  BY <1>1, <1>3, KilledSoFar
<1>8. d = killed[j] /\ ~Full(killed[j])
  BY <1>2, <1>4, <1>6
<1> DEFINE H == {k \in DOMAIN m.entry : Map!Fits(Map!From(m, k))}
<1>9. Map!MadeRoom(m) = Map!Only(m, H)
  BY DEF Map!MadeRoom, Map!Present
<1>10. H \in SUBSET DOMAIN m.entry
  OBVIOUS
<1>11. Distinct(c) /\ Chained(d) /\ Fewer(c, d)
  BY <1>4, KeysAreDistinct DEF Kept
<1>12. ASSUME NEW l \in DOMAIN c.link
       PROVE  l \in DOMAIN d.link <=> c.link[l].key \in H
  <2>0. ToSet(v) = {v[a] : a \in 1..Len(v)} /\ \A a, b \in 1..Len(v) : v[a] = v[b] => a = b
    BY <1>1, InSequence
  <2>1. PICK a \in 1..Len(v) : v[a] = l
    BY <1>1, <2>0
  <2> DEFINE e == killed[a-1]
             k == c.link[l].key
  <2>2. a - 1 \in 0..Len(v) /\ a - 1 \in Nat
    BY <1>1
  <2>3. Kept(c, e, X) /\ DOMAIN e.link = DOMAIN c.link \ {v[h] : h \in 1..a-1}
    BY <1>7, <2>2
  <2> HIDE DEF e
  <2>4. StandsFor(e, Map!From(m, c.link[v[a]].key))
    BY <1>1, <2>3, BackStands
  <2>5. StandsFor(e, Map!From(m, k)) /\ Chained(e) /\ Distinct(e)
    BY <2>1, <2>3, <2>4, KeysAreDistinct DEF Kept
  <2> DEFINE f == Map!From(m, k)
  <2> HIDE DEF f
  <2>6. Map!Fits(f) <=> ~Full(e)
    <3>1. StandsFor(e, f)
      BY <2>5 DEF f
    <3> QED BY <2>5, <3>1, FitsIs
  <2>7. ~Full(e) <=> j <= a - 1
    <3>1. CASE j <= a - 1
      <4>1. a - 1 \in j..Len(v)
        BY <1>1, <2>2, <3>1
      <4>2. ~Full(killed[a-1])
        BY <1>1, <1>3, <1>8, <4>1, RoomStays
      <4> QED BY <3>1, <4>2 DEF e
    <3>2. CASE ~(j <= a - 1)
      <4>1. a - 1 < j
        BY <1>1, <2>2, <3>2
      <4>2. Full(killed[a-1])
        BY <1>6, <2>2, <4>1
      <4> QED BY <3>2, <4>2 DEF e
    <3> QED BY <3>1, <3>2
  <2>8. l \in DOMAIN d.link <=> j <= a - 1
    <3>1. DOMAIN d.link = DOMAIN c.link \ {v[h] : h \in 1..j}
      BY <1>7, <1>8
    <3>2. a \in Nat /\ j \in Nat /\ (a \in 1..j <=> ~(j <= a - 1))
      BY <1>1
    <3>3. \A h \in 1..j : h \in 1..Len(v)
      BY <1>1
    <3>4. l \in {v[h] : h \in 1..j} <=> a \in 1..j
      BY <2>0, <2>1, <3>3
    <3> QED BY <3>1, <3>2, <3>4
  <2>9. k \in DOMAIN m.entry
    BY DEF StandsFor
  <2>10. k \in H <=> Map!Fits(f)
    BY <2>9 DEF f
  <2> QED BY <2>6, <2>7, <2>8, <2>10
<1> HIDE DEF H
<1>13. StandsFor(d, Map!Only(m, H))
  BY <1>10, <1>11, <1>12, LessStands
<1> QED BY <1>4, <1>9, <1>13 DEF d

-------------------------------------------------------------------------------
(* What the operations make of the map *)

(* The cache c is sound but for the keys in X, and stands for the map m.      *)
Mirrors(c, X, m, living) ==
  Chained(c) /\ MatchesBut(c, X) /\ Sorted(c) /\ Queued(c, living) /\ StandsFor(c, m)

LEMMA Joined ==
  ASSUME NEW S, NEW s \in Seq(S), NEW t \in Seq(S)
  PROVE  s \o t \in Seq(S) /\ ToSet(s \o t) = ToSet(s) \cup ToSet(t)
<1> DEFINE r == s \o t
<1>2. /\ r \in Seq(S) /\ Len(r) = Len(s) + Len(t) /\ Len(s) \in Nat /\ Len(t) \in Nat
      /\ \A i \in 1..Len(s) : r[i] = s[i]
      /\ \A i \in 1..Len(t) : r[i + Len(s)] = t[i]
      /\ \A i \in Len(s)+1..Len(r) : i - Len(s) \in 1..Len(t) /\ r[i] = t[i - Len(s)]
  OBVIOUS
<1> HIDE DEF r
<1>3. ToSet(r) = {r[i] : i \in 1..Len(r)} /\ ToSet(s) = {s[i] : i \in 1..Len(s)} /\ ToSet(t) = {t[i] : i \in 1..Len(t)}
  BY <1>2, Elements
<1>4. \A i \in 1..Len(r) : i \in 1..Len(s) \/ i \in Len(s)+1..Len(r)
  BY <1>2
<1>5. \A i \in 1..Len(r) : r[i] \in ToSet(s) \cup ToSet(t)
  BY <1>2, <1>3, <1>4
<1>6. \A i \in 1..Len(s) : i \in 1..Len(r)
  BY <1>2
<1>7. \A i \in 1..Len(t) : i + Len(s) \in 1..Len(r)
  BY <1>2
<1>8. ToSet(r) = ToSet(s) \cup ToSet(t)
  <2>1. ToSet(r) \subseteq ToSet(s) \cup ToSet(t)
    BY <1>3, <1>5
  <2>2. ToSet(s) \subseteq ToSet(r)
    BY <1>2, <1>3, <1>6
  <2>3. ToSet(t) \subseteq ToSet(r)
    BY <1>2, <1>3, <1>7
  <2> QED BY <2>1, <2>2, <2>3
<1> QED BY <1>2, <1>8 DEF r

LEMMA SetToSeqIs ==
  ASSUME NEW S \in SUBSET Links
  PROVE  SetToSeq(S) \in Seq(Links) /\ ToSet(SetToSeq(S)) = S
<1>0. IsFiniteSet(Links)
  BY FS_Interval, CacheConstants DEF Links
<1>1. IsFiniteSet(S)
  BY <1>0, FS_Subset
<1>2. Cardinality(S) \in Nat /\ Bijection(1..Cardinality(S), S) # {}
  BY <1>1, FS_CardinalityType DEF ExistsBijection
<1>3. \E f \in [1..Cardinality(S) -> S] : IsInjective(f)
  BY <1>2 DEF Bijection, Injection
<1> DEFINE s == SetToSeq(S)
<1>4. s \in [1..Cardinality(S) -> S] /\ IsInjective(s)
  BY <1>3 DEF SetToSeq
<1> HIDE DEF s
<1>5. s \in Seq(S) /\ Len(s) = Cardinality(S)
  BY <1>2, <1>4
<1>6. ToSet(s) \in SUBSET S
  BY <1>5, InSequence
<1>7. Cardinality(ToSet(s)) = Cardinality(S)
  BY <1>4, <1>5, LengthIs
<1>8. ToSet(s) = S
  BY <1>1, <1>6, <1>7, FS_Subset
<1>9. s \in Seq(Links)
  BY <1>5
<1> QED BY <1>8, <1>9 DEF s

(* What dies is queued, and changes nothing else.                             *)
LEMMA DieMirrors ==
  ASSUME NEW c, NEW X, NEW m, NEW living, Mirrors(c, X, m, living), NEW gone
  PROVE  Mirrors(Die(c, gone), X, m, living \ gone)
<1> DEFINE S == {l \in DOMAIN c.link : c.link[l].value \in gone}
           t == SetToSeq(S)
           q == c.dead \o t
           d == Die(c, gone)
<1>0. Chained(c) /\ MatchesBut(c, X) /\ Sorted(c) /\ Queued(c, living) /\ StandsFor(c, m) /\ c \in Caches
  BY DEF Mirrors, Chained
<1>1. Kept(c, d, X) /\ d.table = c.table /\ d.link = c.link /\ d.ins = c.ins
  BY <1>0, DieKeeps
<1>2. d.dead = q /\ c.dead \in Seq(Links) /\ c.link \in LinkMaps /\ c.seq = d.seq
  BY <1>0 DEF Die, Caches
<1>3. S \in SUBSET Links
  BY <1>2, LinkMapIs
<1>4. t \in Seq(Links) /\ ToSet(t) = S
  BY <1>3, SetToSeqIs
<1> HIDE DEF t, d
<1>5. ToSet(q) = ToSet(c.dead) \cup S
  BY <1>2, <1>4, Joined
<1> HIDE DEF q
<1>6. Queued(d, living \ gone)
  <2>1. \A l \in S : l <= c.seq
    BY <1>0 DEF Chained
  <2>2. \A l \in ToSet(d.dead) : l <= d.seq
    BY <1>0, <1>2, <1>5, <2>1 DEF Queued
  <2>3. ASSUME NEW l \in DOMAIN c.link
        PROVE  c.link[l].value \notin living \ gone <=> l \in ToSet(d.dead)
    BY <1>0, <1>2, <1>5 DEF Queued
  <2> QED BY <1>1, <2>2, <2>3 DEF Queued
<1>7. Chained(d) /\ Fewer(c, d) /\ MatchesBut(d, X)
  BY <1>1 DEF Kept
<1>8. Sorted(d)
  BY <1>0, <1>7, SortedStill
<1>9. \A l, n \in DOMAIN d.link : GoesBefore(d, l, n) <=> GoesBefore(c, l, n)
  BY <1>0, <1>7, OrderStays
<1>10. StandsFor(d, m)
  BY <1>0, <1>1, <1>9 DEF StandsFor
<1> QED BY <1>6, <1>7, <1>8, <1>10 DEF Mirrors, d

(* Every call starts from what is current.                                    *)
LEMMA ReapMirrors ==
  ASSUME conf \in Settings, now \in 0..MaxClock, Chained(cache), MatchesBut(cache, {}),
         Sorted(cache), Queued(cache, alive)
  PROVE  Mirrors(Reap(cache), {}, Map!Current, alive)
<1> DEFINE d == Reap(cache)
           m == Map!Current
<1>1. StandsFor(d, m)
  BY ReapStands
<1>2. /\ Kept(cache, d, {}) /\ d.dead = <<>>
      /\ DOMAIN d.link = {l \in DOMAIN cache.link : cache.link[l].value \in alive /\ Recent(cache.link[l])}
  BY ReapLeaves
<1> HIDE DEF d, m
<1>3. Chained(d) /\ MatchesBut(d, {}) /\ Fewer(cache, d)
  BY <1>2 DEF Kept
<1>4. Sorted(d)
  BY <1>3, SortedStill
<1>5. Queued(d, alive)
  <2>1. ToSet(d.dead) = {}
    BY <1>2, EmptyMaps
  <2> QED BY <1>2, <1>3, <2>1 DEF Queued, Fewer
<1> QED BY <1>1, <1>3, <1>4, <1>5 DEF Mirrors, d, m

LEMMA AfterReapMirrors ==
  ASSUME conf \in Settings, now \in 0..MaxClock, Chained(cache), MatchesBut(cache, {}),
         Sorted(cache), Queued(cache, alive), NEW gone
  PROVE  Mirrors(AfterReap(gone), {}, Map!Current, alive \ gone)
<1> DEFINE c == Reap(cache)
           m == Map!Current
<1>1. Mirrors(c, {}, m, alive)
  BY ReapMirrors
<1> HIDE DEF c, m
<1>2. Mirrors(Die(c, gone), {}, m, alive \ gone)
  BY <1>1, DieMirrors
<1> QED BY <1>2 DEF AfterReap, c, m

(* Without the link of a key the map is without the key.                      *)
LEMMA OthersStand ==
  ASSUME NEW c, NEW X, NEW m, NEW living, Mirrors(c, X, m, living), NEW k,
         NEW d, NEW Y, Kept(c, d, Y), d.dead = c.dead,
         DOMAIN d.link = {l \in DOMAIN c.link : c.link[l].key # k}
  PROVE  Mirrors(d, Y, Map!Others(m, k), living)
<1>0. Chained(c) /\ MatchesBut(c, X) /\ Sorted(c) /\ Queued(c, living) /\ StandsFor(c, m) /\ Distinct(c)
  BY KeysAreDistinct DEF Mirrors
<1>1. Chained(d) /\ MatchesBut(d, Y) /\ Fewer(c, d)
  BY DEF Kept
<1> DEFINE H == DOMAIN m.entry \ {k}
<1>2. Map!Others(m, k) = Map!Only(m, H)
  BY DEF Map!Others, Map!Present
<1>3. H \in SUBSET DOMAIN m.entry
  OBVIOUS
<1>4. \A l \in DOMAIN c.link : c.link[l].key \in DOMAIN m.entry
  BY <1>0 DEF StandsFor
<1>5. \A l \in DOMAIN c.link : l \in DOMAIN d.link <=> c.link[l].key \in H
  BY <1>4
<1> HIDE DEF H
<1>6. StandsFor(d, Map!Only(m, H))
  BY <1>0, <1>1, <1>3, <1>5, LessStands
<1>7. Sorted(d) /\ Queued(d, living)
  BY <1>0, <1>1, SortedStill, QueuedStill
<1> QED BY <1>1, <1>2, <1>6, <1>7 DEF Mirrors

(* _get_link finds what lives in the map.                                     *)
LEMMA FoundIsLiving ==
  ASSUME NEW c, NEW m, NEW living, Mirrors(c, {}, m, living), NEW k
  PROVE  /\ k \in DOMAIN c.table <=> k \in Map!Present(m)
         /\ Found(c, k, living) <=> k \in Map!Living(m, living)
         /\ k \in DOMAIN c.table => /\ c.table[k] \in DOMAIN c.link /\ c.link[c.table[k]].key = k
                                    /\ m.entry[k] = Data(c.link[c.table[k]])
                                    /\ \A l \in DOMAIN c.link : c.link[l].key = k <=> l = c.table[k]
<1>1. MatchesBut(c, {}) /\ StandsFor(c, m)
  BY DEF Mirrors
<1>2. /\ \A x \in DOMAIN c.table : c.table[x] \in DOMAIN c.link /\ c.link[c.table[x]].key = x
      /\ \A l \in DOMAIN c.link : c.link[l].key \in DOMAIN c.table /\ c.table[c.link[l].key] = l
  BY <1>1 DEF MatchesBut
<1>3. k \in DOMAIN c.table <=> k \in DOMAIN m.entry
  BY <1>1, <1>2 DEF StandsFor
<1>4. ASSUME k \in DOMAIN c.table
      PROVE  /\ c.table[k] \in DOMAIN c.link /\ c.link[c.table[k]].key = k
             /\ m.entry[k] = Data(c.link[c.table[k]])
             /\ \A l \in DOMAIN c.link : c.link[l].key = k <=> l = c.table[k]
  BY <1>1, <1>2, <1>4 DEF StandsFor
<1>5. k \in DOMAIN c.table => m.entry[k].value = c.link[c.table[k]].value
  BY <1>4 DEF Data
<1>6. Found(c, k, living) <=> k \in Map!Living(m, living)
  BY <1>3, <1>5 DEF Found, Map!Living, Map!Present
<1> QED BY <1>3, <1>4, <1>6 DEF Map!Present

(* Without the one link of k.                                                 *)
LEMMA RemovalMirrors ==
  ASSUME NEW c, NEW m, NEW living, Mirrors(c, {}, m, living), NEW k \in DOMAIN c.table
  PROVE  LET d == Unlink([c EXCEPT !.table = Without(@, k)], c.table[k])
         IN  /\ Mirrors(d, {}, Map!Others(m, k), living)
             /\ d = [Unlink(c, c.table[k]) EXCEPT !.table = Without(@, k)]
<1> DEFINE l == c.table[k]
           e == Unlink([c EXCEPT !.table = Without(@, c.link[l].key)], l)
<1>1. Chained(c) /\ MatchesBut(c, {})
  BY DEF Mirrors
<1>2. l \in DOMAIN c.link /\ c.link[l].key = k /\ \A x \in DOMAIN c.link : c.link[x].key = k <=> x = l
  BY FoundIsLiving
<1> HIDE DEF l
<1>3. /\ Kept(c, e, {}) /\ e.link = Without(c.link, l) /\ e.dead = c.dead
      /\ e = [Unlink(c, l) EXCEPT !.table = Without(@, c.link[l].key)]
  BY <1>1, <1>2, RemovalKeeps
<1>4. e = Unlink([c EXCEPT !.table = Without(@, k)], l)
  BY <1>2
<1>5. e = [Unlink(c, l) EXCEPT !.table = Without(@, k)]
  BY <1>2, <1>3
<1> HIDE DEF e
<1>6. DOMAIN e.link = {x \in DOMAIN c.link : c.link[x].key # k}
  BY <1>2, <1>3 DEF Without
<1>7. Mirrors(e, {}, Map!Others(m, k), living)
  BY <1>3, <1>6, OthersStand
<1> QED BY <1>4, <1>5, <1>7 DEF l

LEMMA DroppedMirrors ==
  ASSUME NEW c, NEW m, NEW living, Mirrors(c, {}, m, living), NEW k
  PROVE  Mirrors(Dropped(c, k, living), {}, Map!Looked(m, k, living), living)
<1>1. /\ k \in DOMAIN c.table <=> k \in Map!Present(m)
      /\ Found(c, k, living) <=> k \in Map!Living(m, living)
  BY FoundIsLiving
<1>2. CASE k \in DOMAIN c.table /\ ~Found(c, k, living)
  <2> DEFINE d == Unlink([c EXCEPT !.table = Without(@, k)], c.table[k])
  <2>1. /\ Mirrors(d, {}, Map!Others(m, k), living)
        /\ d = [Unlink(c, c.table[k]) EXCEPT !.table = Without(@, k)]
    BY <1>2, RemovalMirrors
  <2>2. Dropped(c, k, living) = d
    BY <1>2, <2>1 DEF Dropped
  <2> HIDE DEF d
  <2>3. Map!Looked(m, k, living) = Map!Others(m, k)
    BY <1>1, <1>2 DEF Map!Looked
  <2> QED BY <2>1, <2>2, <2>3
<1>3. CASE ~(k \in DOMAIN c.table /\ ~Found(c, k, living))
  <2>1. Dropped(c, k, living) = c
    BY <1>3 DEF Dropped
  <2>2. Map!Looked(m, k, living) = m
    BY <1>1, <1>3 DEF Map!Looked
  <2> QED BY <2>1, <2>2
<1> QED BY <1>2, <1>3

(* __setitem__ takes out the link of an entry that it replaces.               *)
LEMMA ReplacedMirrors ==
  ASSUME NEW c, NEW m, NEW living, Mirrors(c, {}, m, living), NEW k
  PROVE  LET d == IF Found(c, k, living) THEN Unlink(c, c.table[k]) ELSE Dropped(c, k, living)
         IN  Mirrors(d, {k}, Map!Others(m, k), living) /\ Kept(c, d, {k})
<1> DEFINE d == IF Found(c, k, living) THEN Unlink(c, c.table[k]) ELSE Dropped(c, k, living)
           l == c.table[k]
<1>1. Chained(c) /\ MatchesBut(c, {})
  BY DEF Mirrors
<1>2. Kept(c, d, {k})
  BY <1>1, ReplacedKeeps
<1>3. k \in DOMAIN c.table =>
        l \in DOMAIN c.link /\ c.link[l].key = k /\ \A x \in DOMAIN c.link : c.link[x].key = k <=> x = l
  BY FoundIsLiving
<1> DEFINE Left(e) == e.dead = c.dead /\ DOMAIN e.link = {x \in DOMAIN c.link : c.link[x].key # k}
<1>4. Left(d)
  <2>1. CASE Found(c, k, living)
    <3>1. d = Unlink(c, l) /\ k \in DOMAIN c.table
      BY <2>1 DEF Found
    <3> HIDE DEF l
    <3> DEFINE e == Unlink(c, l)
    <3>2. e.link = Without(c.link, l) /\ e.dead = c.dead
      BY <1>1, UnlinkKeeps
    <3> HIDE DEF e
    <3>3. Left(e)
      BY <1>3, <3>1, <3>2 DEF Without
    <3> QED BY <3>1, <3>3 DEF e
  <2>2. CASE k \in DOMAIN c.table /\ ~Found(c, k, living)
    <3> DEFINE e == Unlink([c EXCEPT !.table = Without(@, c.link[l].key)], l)
    <3> HIDE DEF l
    <3>1. /\ e.link = Without(c.link, l) /\ e.dead = c.dead
          /\ e = [Unlink(c, l) EXCEPT !.table = Without(@, c.link[l].key)]
      BY <1>1, <1>3, <2>2, RemovalKeeps
    <3>2. d = e
      BY <1>3, <2>2, <3>1 DEF Dropped, l
    <3> HIDE DEF e, d
    <3>3. Left(e)
      BY <1>3, <2>2, <3>1 DEF Without
    <3> QED BY <3>2, <3>3
  <2>3. CASE k \notin DOMAIN c.table
    <3>1. d = c
      BY <2>3 DEF Dropped, Found
    <3>2. \A x \in DOMAIN c.link : c.link[x].key # k
      BY <1>1, <2>3 DEF MatchesBut
    <3> HIDE DEF d
    <3> QED BY <3>1, <3>2
  <2>4. (k \in DOMAIN c.table /\ ~Found(c, k, living)) \/ Found(c, k, living) \/ k \notin DOMAIN c.table
    OBVIOUS
  <2> QED BY <2>1, <2>2, <2>3, <2>4
<1> HIDE DEF d
<1>5. Mirrors(d, {k}, Map!Others(m, k), living)
  BY <1>2, <1>4, OthersStand
<1> QED BY <1>2, <1>5 DEF d

(* The order in a ring when one element goes to its end.                      *)
LEMMA GoesLast ==
  ASSUME NEW S, NEW s \in Seq(S), IsInjective(s), NEW e \in S, e \notin ToSet(s), NEW x, NEW y
  PROVE  InOrder(Append(s, e), x, y) <=> InOrder(s, x, y) \/ (x \in ToSet(s) /\ y = e)
<1> DEFINE r == Append(s, e)
<1>1. /\ ToSet(s) = {s[i] : i \in 1..Len(s)} /\ DOMAIN s = 1..Len(s) /\ Len(s) \in Nat
  BY InSequence
<1>2. /\ DOMAIN r = 1..Len(s)+1 /\ r[Len(s)+1] = e /\ \A i \in 1..Len(s) : r[i] = s[i]
  BY <1>1
<1> HIDE DEF r
<1>3. \A i \in 1..Len(s)+1 : i \in 1..Len(s) \/ i = Len(s)+1
  BY <1>1
<1>4. \A i \in 1..Len(s) : i \in 1..Len(s)+1 /\ i < Len(s)+1
  BY <1>1
<1>5. ASSUME InOrder(r, x, y)
      PROVE  InOrder(s, x, y) \/ (x \in ToSet(s) /\ y = e)
  <2>1. PICK i \in 1..Len(s)+1, j \in 1..Len(s)+1 : i < j /\ r[i] = x /\ r[j] = y
    BY <1>2, <1>5 DEF InOrder
  <2>2. i \in 1..Len(s)
    BY <1>1, <2>1
  <2>3. CASE j = Len(s)+1
    BY <1>1, <1>2, <2>1, <2>2, <2>3
  <2>4. CASE j \in 1..Len(s)
    BY <1>1, <1>2, <2>1, <2>2, <2>4 DEF InOrder
  <2> QED BY <1>3, <2>3, <2>4
<1>6. ASSUME InOrder(s, x, y) PROVE InOrder(r, x, y)
  <2>1. PICK i \in 1..Len(s), j \in 1..Len(s) : i < j /\ s[i] = x /\ s[j] = y
    BY <1>1, <1>6 DEF InOrder
  <2> QED BY <1>2, <1>4, <2>1 DEF InOrder
<1>7. ASSUME x \in ToSet(s), y = e PROVE InOrder(r, x, y)
  <2>1. PICK i \in 1..Len(s) : s[i] = x
    BY <1>1, <1>7
  <2>2. i < Len(s) + 1 /\ Len(s) + 1 \in 1..Len(s)+1
    BY <1>1, <1>4
  <2> QED BY <1>2, <1>4, <1>7, <2>1, <2>2 DEF InOrder
<1> QED BY <1>5, <1>6, <1>7 DEF r

(* Taking an element out leaves the order of the others.                      *)
LEMMA OthersInOrder ==
  ASSUME NEW S, NEW s \in Seq(S), IsInjective(s), NEW e, NEW x, x # e, NEW y, y # e
  PROVE  InOrder(RemoveFirst(s, e), x, y) <=> InOrder(s, x, y)
<1> DEFINE r == RemoveFirst(s, e)
<1>1. r \in Seq(S) /\ IsInjective(r) /\ ToSet(r) = ToSet(s) \ {e} /\ Subsequence(r, s)
  BY RemovedInOrder
<1> HIDE DEF r
<1>2. InOrder(r, x, y) => InOrder(s, x, y)
  BY <1>1 DEF Subsequence
<1>3. ASSUME InOrder(s, x, y) PROVE InOrder(r, x, y)
  <2>1. x \in ToSet(s) /\ y \in ToSet(s) /\ x # y /\ ~InOrder(s, y, x)
    BY <1>3, RingOrders
  <2>2. x \in ToSet(r) /\ y \in ToSet(r) /\ ~InOrder(r, y, x)
    BY <1>1, <2>1 DEF Subsequence
  <2> QED BY <1>1, <2>1, <2>2, RingOrders
<1> QED BY <1>2, <1>3 DEF r

(* What a hit changes: the place in the order of use, and the time of use.    *)
Used(c, l, d) ==
  /\ d.ins = c.ins /\ d.lru = Append(RemoveFirst(c.lru, l), l) /\ d.dead = c.dead /\ d.seq = c.seq
  /\ DOMAIN d.link = DOMAIN c.link
  /\ \A x \in DOMAIN c.link \ {l} : d.link[x] = c.link[x]
  /\ d.link[l].key = c.link[l].key /\ d.link[l].value = c.link[l].value
  /\ d.link[l].written = c.link[l].written /\ d.link[l].accessed = now

LEMMA HitIs ==
  ASSUME conf.eviction # "LFU", now \in 0..MaxClock, NEW c, Chained(c), NEW X, MatchesBut(c, X),
         NEW l \in DOMAIN c.link
  PROVE  LET d == Touch(MoveLfu(MoveLru(c, l), l), l)
         IN  Chained(d) /\ MatchesBut(d, X) /\ Used(c, l, d)
<1> DEFINE e == MoveLru(c, l)
           d == Touch(e, l)
<1>1. Chained(e) /\ SameLinks(c, e)
  BY MoveLruKeeps
<1>2. c \in Caches
  BY DEF Chained
<1>3. e.ins = c.ins /\ e.lru = Append(RemoveFirst(c.lru, l), l) /\ e.dead = c.dead /\ e \in Caches
  BY <1>1, <1>2 DEF MoveLru, Caches, Chained
<1>4. MoveLfu(e, l) = e
  BY DEF MoveLfu
<1> HIDE DEF e
<1>5. MatchesBut(e, X) /\ l \in DOMAIN e.link
  BY <1>1 DEF MatchesBut, SameLinks
<1>6. Chained(d) /\ MatchesBut(d, X)
  BY <1>1, <1>5, TouchKeeps
<1> DEFINE r == [e.link[l] EXCEPT !.accessed = now, !.hits = IF @ < MaxHits THEN @ + 1 ELSE @]
           g == [e.link EXCEPT ![l] = r]
<1>7. e.link \in LinkMaps /\ e.link[l] \in Entries
  BY <1>3, <1>5, LinkMapIs DEF Caches
<1>8. d = [e EXCEPT !.link = g]
  BY <1>3, <1>5, <1>7 DEF Touch, Caches
<1>9. r.key = e.link[l].key /\ r.value = e.link[l].value /\ r.written = e.link[l].written /\ r.accessed = now
  BY <1>7 DEF Entries
<1> HIDE DEF r
<1>10. DOMAIN g = DOMAIN e.link /\ g[l] = r /\ \A x \in DOMAIN e.link \ {l} : g[x] = e.link[x]
  BY <1>5
<1> HIDE DEF g
<1>11. d.link = g /\ d.ins = e.ins /\ d.lru = e.lru /\ d.dead = e.dead /\ d.seq = e.seq
  BY <1>3, <1>8 DEF Caches
<1> HIDE DEF d
<1>12. Used(c, l, d)
  BY <1>1, <1>3, <1>9, <1>10, <1>11 DEF Used, SameLinks
<1> QED BY <1>4, <1>6, <1>12 DEF d, e

(* A hit puts its key last in the order of use and leaves that of writing.    *)
HitMap(m, k) ==
  [entry |-> [m.entry EXCEPT ![k].accessed = now],
   order |-> IF conf.eviction = "LRU" THEN Map!OrderWithLast(Map!Others(m, k), k) ELSE m.order]

UsedOrder(c, l, d) ==
  \A x, y \in DOMAIN c.link :
    GoesBefore(d, x, y) <=> IF conf.eviction = "LRU"
                            THEN x # l /\ (y = l \/ GoesBefore(c, x, y))
                            ELSE GoesBefore(c, x, y)

LEMMA UsedGoesLast ==
  ASSUME NEW c, Chained(c), NEW l \in DOMAIN c.link, NEW d, Used(c, l, d)
  PROVE  UsedOrder(c, l, d) /\ \A x, y \in DOMAIN c.link :
           InOrder(d.lru, x, y) <=> x # l /\ (y = l \/ InOrder(c.lru, x, y))
<1> DEFINE s == c.lru
           r == RemoveFirst(s, l)
<1>1. s \in Seq(Links) /\ IsInjective(s) /\ ToSet(s) = DOMAIN c.link /\ l \in Links
  BY LinkMapIs DEF Chained, Caches, Ring
<1>2. d.lru = Append(r, l) /\ d.ins = c.ins
  BY DEF Used
<1> HIDE DEF s
<1>3. r \in Seq(Links) /\ IsInjective(r) /\ ToSet(r) = ToSet(s) \ {l} /\ Subsequence(r, s)
  BY <1>1, RemovedInOrder
<1> HIDE DEF r
<1>4. ASSUME NEW x \in DOMAIN c.link, NEW y \in DOMAIN c.link
      PROVE  InOrder(d.lru, x, y) <=> x # l /\ (y = l \/ InOrder(s, x, y))
  <2>1. InOrder(d.lru, x, y) <=> InOrder(r, x, y) \/ (x \in ToSet(r) /\ y = l)
    BY <1>1, <1>2, <1>3, GoesLast
  <2>2. InOrder(r, x, y) => x # l /\ y # l
    BY <1>3, RingOrders
  <2>3. x # l /\ y # l => (InOrder(r, x, y) <=> InOrder(s, x, y))
    BY <1>1, OthersInOrder DEF r
  <2>4. x \in ToSet(r) <=> x # l
    BY <1>1, <1>3
  <2> QED BY <2>1, <2>2, <2>3, <2>4
<1>5. UsedOrder(c, l, d)
  BY <1>2, <1>4 DEF UsedOrder, GoesBefore, s
<1> QED BY <1>4, <1>5 DEF s

LEMMA HitMirrors ==
  ASSUME conf.eviction # "LFU", now \in 0..MaxClock,
         NEW c, NEW m, NEW living, Mirrors(c, {}, m, living), NEW k \in DOMAIN c.table
  PROVE  LET l == c.table[k]
         IN  Mirrors(Touch(MoveLfu(MoveLru(c, l), l), l), {}, HitMap(m, k), living)
<1> DEFINE l == c.table[k]
           d == Touch(MoveLfu(MoveLru(c, l), l), l)
<1>0. Chained(c) /\ MatchesBut(c, {}) /\ Sorted(c) /\ Queued(c, living) /\ StandsFor(c, m) /\ Distinct(c)
  BY KeysAreDistinct DEF Mirrors
<1>1. /\ l \in DOMAIN c.link /\ c.link[l].key = k /\ m.entry[k] = Data(c.link[l])
      /\ \A x \in DOMAIN c.link : c.link[x].key = k <=> x = l
  BY FoundIsLiving
<1> HIDE DEF l
<1>2. Chained(d) /\ MatchesBut(d, {}) /\ Used(c, l, d)
  BY <1>0, <1>1, HitIs
<1> HIDE DEF d
<1>3. UsedOrder(c, l, d) /\ \A x, y \in DOMAIN c.link :
           InOrder(d.lru, x, y) <=> x # l /\ (y = l \/ InOrder(c.lru, x, y))
  BY <1>0, <1>1, <1>2, UsedGoesLast
<1>4. /\ DOMAIN d.link = DOMAIN c.link
      /\ \A x \in DOMAIN c.link : /\ d.link[x].key = c.link[x].key /\ d.link[x].value = c.link[x].value
                                  /\ d.link[x].written = c.link[x].written
                                  /\ d.link[x].accessed = IF x = l THEN now ELSE c.link[x].accessed
  BY <1>2 DEF Used
<1>5. Sorted(d)
  <2>1. now \in Nat
    BY CacheConstants
  <2>2. \A x \in DOMAIN c.link : c.link[x].written <= now /\ c.link[x].accessed <= now
    BY <1>0 DEF Sorted
  <2>3. ASSUME NEW x \in DOMAIN c.link, NEW y \in DOMAIN c.link, InOrder(d.lru, x, y)
        PROVE  d.link[x].accessed <= d.link[y].accessed
    <3>1. x # l /\ (y = l \/ InOrder(c.lru, x, y))
      BY <1>3, <2>3
    <3>2. CASE y = l
      BY <1>4, <2>2, <3>1, <3>2
    <3>3. CASE y # l
      BY <1>0, <1>4, <3>1, <3>3 DEF Sorted
    <3> QED BY <3>2, <3>3
  <2>4. \A x, y \in DOMAIN c.link : x < y => d.link[x].written <= d.link[y].written
    BY <1>0, <1>4 DEF Sorted
  <2>5. \A x \in DOMAIN c.link : d.link[x].written <= now /\ d.link[x].accessed <= now
    BY <1>4, <2>1, <2>2
  <2> QED BY <1>4, <2>3, <2>4, <2>5 DEF Sorted
<1>6. Queued(d, living)
  BY <1>0, <1>2, <1>4 DEF Queued, Used
<1> DEFINE e == [m.entry EXCEPT ![k].accessed = now]
           K == DOMAIN m.entry
<1>7. K = {c.link[x].key : x \in DOMAIN c.link} /\ k \in K
  BY <1>0, <1>1 DEF StandsFor
<1>8. DOMAIN e = K /\ e = [x \in DOMAIN e |-> e[x]]
      /\ (\A x \in K \ {k} : e[x] = m.entry[x]) /\ e[k] = [m.entry[k] EXCEPT !.accessed = now]
  BY <1>7
<1>9. e[k] = Data(d.link[l])
  BY <1>1, <1>4, <1>8 DEF Data
<1>10. \A x \in DOMAIN d.link : e[d.link[x].key] = Data(d.link[x])
  <2> SUFFICES ASSUME NEW x \in DOMAIN c.link PROVE e[c.link[x].key] = Data(d.link[x])
    BY <1>4
  <2>1. CASE x = l
    BY <1>1, <1>9, <2>1
  <2>2. CASE x # l
    <3>1. c.link[x].key \in K \ {k} /\ m.entry[c.link[x].key] = Data(c.link[x])
      BY <1>0, <1>1, <1>7, <2>2 DEF StandsFor
    <3>2. Data(d.link[x]) = Data(c.link[x])
      BY <1>4, <2>2 DEF Data
    <3> QED BY <1>8, <3>1, <3>2
  <2> QED BY <2>1, <2>2
<1> DEFINE H == K \ {k}
           o == IF conf.eviction = "LRU" THEN (m.order \cap (H \X H)) \cup (H \X {k}) ELSE m.order
<1>11. HitMap(m, k) = [entry |-> e, order |-> o]
  BY DEF HitMap, Map!OrderWithLast, Map!Others, Map!Only, Map!Present
<1>12. o \subseteq K \X K
  BY <1>0, <1>7 DEF StandsFor
<1>13. ASSUME NEW x \in DOMAIN c.link, NEW y \in DOMAIN c.link
       PROVE  <<c.link[x].key, c.link[y].key>> \in o <=> GoesBefore(d, x, y)
  <2>1. /\ c.link[x].key \in H <=> x # l
        /\ c.link[y].key \in H <=> y # l
        /\ c.link[y].key = k <=> y = l
    BY <1>1, <1>7
  <2>2. <<c.link[x].key, c.link[y].key>> \in m.order <=> GoesBefore(c, x, y)
    BY <1>0 DEF StandsFor
  <2>3. CASE conf.eviction = "LRU"
    <3>1. <<c.link[x].key, c.link[y].key>> \in o <=>
            \/ GoesBefore(c, x, y) /\ x # l /\ y # l
            \/ x # l /\ y = l
      BY <2>1, <2>2, <2>3
    <3>2. GoesBefore(d, x, y) <=> x # l /\ (y = l \/ GoesBefore(c, x, y))
      BY <1>3, <2>3 DEF UsedOrder
    <3> QED BY <3>1, <3>2
  <2>4. CASE conf.eviction # "LRU"
    BY <1>3, <2>2, <2>4 DEF UsedOrder
  <2> QED BY <2>3, <2>4
<1> DEFINE r == [entry |-> e, order |-> o]
<1>14. r.entry = e /\ r.order = o
  OBVIOUS
<1>15. \A x, y \in DOMAIN d.link : <<d.link[x].key, d.link[y].key>> \in o <=> GoesBefore(d, x, y)
  BY <1>4, <1>13
<1>16. DOMAIN e = {d.link[x].key : x \in DOMAIN d.link}
  BY <1>4, <1>7, <1>8
<1> HIDE DEF e, o
<1>17. StandsFor(d, r)
  <2> HIDE DEF r
  <2> QED BY <1>8, <1>10, <1>12, <1>14, <1>15, <1>16 DEF StandsFor
<1> QED BY <1>2, <1>5, <1>6, <1>11, <1>17 DEF Mirrors, d, l

(* What __setitem__ adds: one link, the last of the rings.                    *)
Added(c, k, v, d) ==
  LET l == c.seq + 1
  IN  /\ d.seq = l /\ d.dead = c.dead
      /\ d.ins = Append(c.ins, l) /\ d.lru = Append(c.lru, l)
      /\ DOMAIN d.link = DOMAIN c.link \cup {l}
      /\ \A x \in DOMAIN c.link \ {l} : d.link[x] = c.link[x]
      /\ d.link[l] = [key |-> k, value |-> v, written |-> now, accessed |-> now, hits |-> 0]

LEMMA InsertIs ==
  ASSUME NEW c \in Caches, NEW k, NEW v
  PROVE  Added(c, k, v, Insert(c, k, v))
<1> DEFINE l == c.seq + 1
           r == [key |-> k, value |-> v, written |-> now, accessed |-> now, hits |-> 0]
           f == With(c.link, l, r)
           d == Insert(c, k, v)
<1>1. /\ d.seq = l /\ d.dead = c.dead /\ d.ins = Append(c.ins, l) /\ d.lru = Append(c.lru, l)
      /\ d.link = f
  BY DEF Insert, Caches
<1>2. /\ DOMAIN f = DOMAIN c.link \cup {l} /\ f[l] = r
      /\ \A x \in DOMAIN c.link \ {l} : f[x] = c.link[x]
  BY DEF With
<1> HIDE DEF d, f
<1> QED BY <1>1, <1>2 DEF Added, d

StoreMap(m, k, v) ==
  [entry |-> [x \in Map!Present(m) \cup {k} |->
                IF x = k THEN [value |-> v, written |-> now, accessed |-> now] ELSE m.entry[x]],
   order |-> Map!OrderWithLast(m, k)]

LEMMA AddedGoesLast ==
  ASSUME conf \in Settings, conf.eviction # "LFU", NEW c, Chained(c), c.seq + 1 \in Links,
         NEW k, NEW v, NEW d, Added(c, k, v, d)
  PROVE  LET l == c.seq + 1
         IN  /\ l \notin DOMAIN c.link /\ \A x \in DOMAIN c.link : x < l /\ ~(l < x)
             /\ ~(l < l)
             /\ \A x, y : GoesBefore(d, x, y) <=> GoesBefore(c, x, y) \/ (x \in DOMAIN c.link /\ y = l)
             /\ \A x, y : InOrder(d.lru, x, y) <=> InOrder(c.lru, x, y) \/ (x \in DOMAIN c.link /\ y = l)
<1> DEFINE l == c.seq + 1
<1>1. c.seq \in Nat /\ \A x \in DOMAIN c.link : x \in Nat /\ x <= c.seq
  <2>1. \A x \in DOMAIN c.link : x \in Nat
    BY TimesTyped
  <2>2. c \in Caches /\ \A x \in DOMAIN c.link : x <= c.seq
    BY DEF Chained
  <2>3. c.seq \in Nat
    BY <2>2, CacheConstants DEF Caches
  <2> QED BY <2>1, <2>2, <2>3
<1>2. l \notin DOMAIN c.link /\ ~(l < l) /\ \A x \in DOMAIN c.link : x < l /\ ~(l < x)
  BY <1>1
<1>3. /\ c.ins \in Seq(Links) /\ IsInjective(c.ins) /\ ToSet(c.ins) = DOMAIN c.link
      /\ c.lru \in Seq(Links) /\ IsInjective(c.lru) /\ ToSet(c.lru) = DOMAIN c.link
  BY DEF Chained, Caches, Ring
<1>4. d.ins = Append(c.ins, l) /\ d.lru = Append(c.lru, l)
  BY DEF Added
<1> HIDE DEF l
<1>5. l \in Links
  BY DEF l
<1>6. \A x, y : InOrder(d.ins, x, y) <=> InOrder(c.ins, x, y) \/ (x \in DOMAIN c.link /\ y = l)
  BY <1>2, <1>3, <1>4, <1>5, GoesLast
<1>7. \A x, y : InOrder(d.lru, x, y) <=> InOrder(c.lru, x, y) \/ (x \in DOMAIN c.link /\ y = l)
  BY <1>2, <1>3, <1>4, <1>5, GoesLast
<1>8. \A x, y : GoesBefore(d, x, y) <=> GoesBefore(c, x, y) \/ (x \in DOMAIN c.link /\ y = l)
  BY <1>6, <1>7 DEF GoesBefore
<1> QED BY <1>2, <1>7, <1>8 DEF l

LEMMA StoreMirrors ==
  ASSUME conf \in Settings, conf.eviction # "LFU", now \in 0..MaxClock, NEW k \in Keys, NEW living,
         NEW v \in Values, v \in living, NEW c, NEW m, Mirrors(c, {k}, m, living),
         k \notin Map!Present(m), c.seq < MaxSeq
  PROVE  Mirrors(Insert(c, k, v), {}, StoreMap(m, k, v), living)
<1> DEFINE d == Insert(c, k, v)
           l == c.seq + 1
<1>0. Chained(c) /\ MatchesBut(c, {k}) /\ Sorted(c) /\ Queued(c, living) /\ StandsFor(c, m) /\ c \in Caches
  BY DEF Mirrors, Chained
<1>1. Chained(d) /\ MatchesBut(d, {})
  BY <1>0, InsertKeeps
<1>2. Added(c, k, v, d)
  BY <1>0, InsertIs
<1>3. c.seq \in Nat /\ l \in Links
  BY <1>0, CacheConstants DEF Caches, Links
<1>4. /\ l \notin DOMAIN c.link /\ ~(l < l) /\ \A x \in DOMAIN c.link : x < l /\ ~(l < x)
      /\ \A x, y : GoesBefore(d, x, y) <=> GoesBefore(c, x, y) \/ (x \in DOMAIN c.link /\ y = l)
      /\ \A x, y : InOrder(d.lru, x, y) <=> InOrder(c.lru, x, y) \/ (x \in DOMAIN c.link /\ y = l)
  BY <1>0, <1>2, <1>3, AddedGoesLast
<1> HIDE DEF d
<1>5. /\ d.seq = l /\ d.dead = c.dead /\ DOMAIN d.link = DOMAIN c.link \cup {l}
      /\ \A x \in DOMAIN c.link : d.link[x] = c.link[x]
      /\ d.link[l] = [key |-> k, value |-> v, written |-> now, accessed |-> now, hits |-> 0]
  BY <1>2, <1>4 DEF Added
<1>6. d.link[l].key = k /\ d.link[l].value = v /\ d.link[l].written = now /\ d.link[l].accessed = now
  BY <1>5
<1>7. c.seq <= l
  BY <1>3
<1>8. \A x \in ToSet(c.dead) : x <= c.seq /\ x \in Nat
  <2>1. c.dead \in Seq(Links) /\ Links \subseteq Nat
    BY <1>0, CacheConstants DEF Caches, Links
  <2>2. ToSet(c.dead) \subseteq Links
    BY <2>1, InSequence
  <2> QED BY <1>0, <2>1, <2>2 DEF Queued
<1>9. l \notin ToSet(c.dead) /\ \A x \in ToSet(c.dead) : x <= l
  BY <1>3, <1>8
<1> HIDE DEF l
<1>10. Queued(d, living)
  <2>1. \A x \in DOMAIN c.link : d.link[x].value \notin living <=> x \in ToSet(d.dead)
    BY <1>0, <1>5 DEF Queued
  <2>2. d.link[l].value \notin living <=> l \in ToSet(d.dead)
    BY <1>5, <1>6, <1>9
  <2> QED BY <1>5, <1>9, <2>1, <2>2 DEF Queued
<1>11. Sorted(d)
  <2>0. now \in Nat /\ now <= now
    BY CacheConstants
  <2>1. \A x \in DOMAIN c.link : d.link[x].written <= now /\ d.link[x].accessed <= now
    BY <1>0, <1>5 DEF Sorted
  <2>2. \A x \in DOMAIN d.link : d.link[x].written <= now /\ d.link[x].accessed <= now
    BY <1>5, <1>6, <2>0, <2>1
  <2>3. ASSUME NEW x \in DOMAIN d.link, NEW y \in DOMAIN d.link, x < y
        PROVE  d.link[x].written <= d.link[y].written
    <3>1. CASE y = l
      BY <1>6, <2>2, <3>1
    <3>2. CASE y # l
      <4>1. x \in DOMAIN c.link /\ y \in DOMAIN c.link
        BY <1>4, <1>5, <2>3, <3>2
      <4> QED BY <1>0, <1>5, <2>3, <4>1 DEF Sorted
    <3> QED BY <3>1, <3>2
  <2>4. ASSUME NEW x \in DOMAIN d.link, NEW y \in DOMAIN d.link, InOrder(d.lru, x, y)
        PROVE  d.link[x].accessed <= d.link[y].accessed
    <3>1. CASE y = l
      BY <1>6, <2>2, <3>1
    <3>2. CASE y # l
      <4>1. InOrder(c.lru, x, y) /\ y \in DOMAIN c.link
        BY <1>4, <1>5, <2>4, <3>2
      <4>2. x \in DOMAIN c.link
        <5>1. c.lru \in Seq(Links) /\ IsInjective(c.lru) /\ ToSet(c.lru) = DOMAIN c.link
          BY <1>0 DEF Chained, Caches, Ring
        <5> QED BY <4>1, <5>1, RingOrders
      <4> QED BY <1>0, <1>5, <4>1, <4>2 DEF Sorted
    <3> QED BY <3>1, <3>2
  <2> QED BY <2>2, <2>3, <2>4 DEF Sorted
<1> DEFINE K == DOMAIN m.entry
           new == [value |-> v, written |-> now, accessed |-> now]
           e == [x \in K \cup {k} |-> IF x = k THEN new ELSE m.entry[x]]
           o == m.order \cup (K \X {k})
           r == [entry |-> e, order |-> o]
<1>12. StoreMap(m, k, v) = r
  BY DEF StoreMap, Map!Present, Map!OrderWithLast
<1>13. K = {c.link[x].key : x \in DOMAIN c.link} /\ k \notin K
  BY <1>0 DEF StandsFor, Map!Present
<1>14. \A x \in DOMAIN c.link : c.link[x].key \in K /\ c.link[x].key # k
  BY <1>13
<1>15. /\ DOMAIN e = K \cup {k} /\ e = [x \in DOMAIN e |-> e[x]]
       /\ e[k] = new /\ \A x \in K : e[x] = m.entry[x]
  BY <1>13
<1>16. Data(d.link[l]) = new
  BY <1>6 DEF Data
<1> HIDE DEF new
<1>17. \A x \in DOMAIN d.link : e[d.link[x].key] = Data(d.link[x])
  <2>1. \A x \in DOMAIN c.link : e[d.link[x].key] = Data(d.link[x])
    BY <1>0, <1>5, <1>14, <1>15 DEF StandsFor
  <2>2. e[d.link[l].key] = Data(d.link[l])
    BY <1>6, <1>15, <1>16
  <2> QED BY <1>5, <2>1, <2>2
<1>18. DOMAIN e = {d.link[x].key : x \in DOMAIN d.link}
  <2> HIDE DEF e
  <2> QED BY <1>5, <1>6, <1>13, <1>15
<1>19. m.order \subseteq K \X K
  BY <1>0 DEF StandsFor
<1>20. o \subseteq (DOMAIN e) \X (DOMAIN e)
  BY <1>15, <1>19
<1>21. ASSUME NEW x \in DOMAIN d.link, NEW y \in DOMAIN d.link
       PROVE  <<d.link[x].key, d.link[y].key>> \in o <=> GoesBefore(d, x, y)
  <2>0. \A z \in DOMAIN c.link : z # l
    BY <1>4
  <2>1. GoesBefore(c, x, y) => x \in DOMAIN c.link /\ y \in DOMAIN c.link
    <3>1. /\ c.ins \in Seq(Links) /\ IsInjective(c.ins) /\ ToSet(c.ins) = DOMAIN c.link
          /\ c.lru \in Seq(Links) /\ IsInjective(c.lru) /\ ToSet(c.lru) = DOMAIN c.link
      BY <1>0 DEF Chained, Caches, Ring
    <3>2. /\ InOrder(c.ins, x, y) => x \in ToSet(c.ins) /\ y \in ToSet(c.ins)
          /\ InOrder(c.lru, x, y) => x \in ToSet(c.lru) /\ y \in ToSet(c.lru)
      BY <3>1, RingOrders
    <3> QED BY <3>1, <3>2 DEF GoesBefore
  <2>2. GoesBefore(d, x, y) <=> GoesBefore(c, x, y) \/ (x \in DOMAIN c.link /\ y = l)
    BY <1>4
  <2>3. CASE x \in DOMAIN c.link /\ y \in DOMAIN c.link
    <3>1. <<c.link[x].key, c.link[y].key>> \in m.order <=> GoesBefore(c, x, y)
      BY <1>0, <2>3 DEF StandsFor
    <3>2. d.link[x] = c.link[x] /\ d.link[y] = c.link[y] /\ c.link[y].key # k /\ y # l
      BY <1>5, <1>14, <2>0, <2>3
    <3> QED BY <2>2, <3>1, <3>2
  <2>4. CASE x \in DOMAIN c.link /\ y = l
    BY <1>5, <1>6, <1>14, <2>2, <2>4
  <2>5. CASE x = l
    <3>1. d.link[x].key = k /\ x \notin DOMAIN c.link
      BY <1>4, <1>6, <2>5
    <3> QED BY <1>13, <1>19, <2>1, <2>2, <3>1
  <2> QED BY <1>5, <2>3, <2>4, <2>5
<1> HIDE DEF e, o
<1>22. r.entry = e /\ r.order = o
  OBVIOUS
<1>23. StandsFor(d, r)
  <2> HIDE DEF r
  <2> QED BY <1>15, <1>17, <1>18, <1>20, <1>21, <1>22 DEF StandsFor
<1> QED BY <1>1, <1>10, <1>11, <1>12, <1>23 DEF Mirrors, d

(* clear leaves the empty map.                                                *)
LEMMA ClearMirrors ==
  ASSUME conf \in Settings, Chained(cache), Bounded(cache), Sorted(cache), NEW living, Queued(cache, living)
  PROVE  LET emptied == [cache EXCEPT !.table = <<>>]
         IN  Mirrors(UnlinkAll(emptied, Reverse(cache.ins)), {}, [entry |-> <<>>, order |-> {}], living)
<1> DEFINE c == [cache EXCEPT !.table = <<>>]
           links == Reverse(cache.ins)
           d == UnlinkAll(c, links)
           m == [entry |-> <<>>, order |-> {}]
<1>1. /\ Chained(c) /\ Fewer(cache, c) /\ c.table = <<>>
      /\ c.link = cache.link /\ c.dead = cache.dead /\ c.ins = cache.ins
  BY EmptyMaps, TableChanged
<1> HIDE DEF c
<1>2. cache.ins \in Seq(Links) /\ ToSet(cache.ins) = DOMAIN cache.link
  BY DEF Chained, Caches, Ring
<1>3. links \in Seq(Links) /\ ToSet(links) = DOMAIN cache.link
  BY <1>2, Reversed
<1> HIDE DEF links
<1>4. /\ Chained(d) /\ Fewer(c, d) /\ d.table = c.table /\ d.dead = c.dead
      /\ DOMAIN d.link = DOMAIN c.link \ ToSet(links)
  BY <1>1, <1>3, UnlinkAllKeeps
<1> HIDE DEF d
<1>5. DOMAIN d.link = {} /\ DOMAIN d.table = {}
  BY <1>1, <1>3, <1>4, EmptyMaps
<1>6. MatchesBut(d, {}) /\ Sorted(d)
  BY <1>5 DEF MatchesBut, Sorted
<1>7. Queued(d, living)
  BY <1>1, <1>4, <1>5 DEF Queued, Fewer
<1>8. StandsFor(d, m)
  <2>1. m.entry = <<>> /\ m.order = {} /\ DOMAIN m.entry = {}
    BY EmptyMaps
  <2>2. m.entry = [x \in DOMAIN m.entry |-> m.entry[x]]
    OBVIOUS
  <2> HIDE DEF m
  <2> QED BY <1>5, <2>1, <2>2 DEF StandsFor
<1> QED BY <1>4, <1>6, <1>7, <1>8 DEF Mirrors, d, links, c

-------------------------------------------------------------------------------
(* The steps *)

(* The rings are sorted by time, and the queue is of what is dead.            *)
RInv == IInv /\ conf.eviction # "LFU" /\ Sorted(cache) /\ Queued(cache, alive)

(* A step to a cache that stands for a map is a step to that map.             *)
LEMMA StepTo ==
  ASSUME NEW m, conf' = conf, now' = now, Mirrors(cache', {}, m, alive')
  PROVE  /\ EntriesOf(cache)' = m.entry /\ OrderOf(cache)' = m.order
         /\ Sorted(cache)' /\ Queued(cache, alive)'
<1> DEFINE n == [entry |-> EntriesOf(cache'), order |-> OrderOf(cache')]
<1>1. Chained(cache') /\ MatchesBut(cache', {}) /\ StandsFor(cache', m) /\ Sorted(cache') /\ Queued(cache', alive')
  BY DEF Mirrors
<1>2. StandsFor(cache', n)
  BY <1>1, CacheStands
<1>3. n.entry = EntriesOf(cache') /\ n.order = OrderOf(cache')
  OBVIOUS
<1> HIDE DEF n
<1>4. EntriesOf(cache') = m.entry /\ OrderOf(cache') = m.order
  BY <1>1, <1>2, <1>3, StandsForOne
<1>5. EntriesOf(cache)' = EntriesOf(cache')
  BY DEF EntriesOf
<1>6. OrderOf(cache)' = OrderOf(cache')
  BY DEF OrderOf, GoesBefore, InOrder
<1>7. Sorted(cache)'
  BY <1>1 DEF Sorted, InOrder
<1>8. Queued(cache, alive)'
  BY <1>1 DEF Queued
<1> QED BY <1>4, <1>5, <1>6, <1>7, <1>8

LEMMA CollectedIsGone == Collected = Map!Gone
BY DEF Collected, Map!Gone

(* What every method that takes a key begins with.                            *)
LEMMA CallBegins ==
  ASSUME RInv, NEW gone
  PROVE  Mirrors(AfterReap(gone), {}, Map!Current, alive \ gone) /\ conf \in Settings /\ now \in 0..MaxClock
         /\ conf.eviction # "LFU"
<1>1. /\ conf \in Settings /\ now \in 0..MaxClock /\ Chained(cache) /\ MatchesBut(cache, {})
      /\ Sorted(cache) /\ Queued(cache, alive) /\ conf.eviction # "LFU"
  BY DEF RInv, IInv, Typed
<1> QED BY <1>1, AfterReapMirrors

Simulated == [Map!Next]_Map!vars /\ Sorted(cache)' /\ Queued(cache, alive)'

LEMMA GetSimulated ==
  ASSUME RInv, NEW k \in Keys, Get(k)
  PROVE  Simulated
<1>1. PICK gone \in Collected :
        LET c == AfterReap(gone)
            d == Dropped(c, k, alive \ gone)
        IN /\ Collect(gone)
           /\ IF Found(c, k, alive \ gone)
              THEN /\ cache' = Touch(MoveLfu(MoveLru(c, c.table[k]), c.table[k]), c.table[k])
                   /\ result' = [op |-> "hit", key |-> k, value |-> c.link[c.table[k]].value]
              ELSE cache' = d /\ result' = [op |-> "miss", key |-> k]
           /\ UNCHANGED <<conf, now, cursor>>
  BY DEF Get
<1> DEFINE c == AfterReap(gone)
           m == Map!Current
<1>2. alive' = alive \ gone /\ conf' = conf /\ now' = now /\ gone \in Map!Gone
  BY <1>1, CollectedIsGone DEF Collect
<1>3. Mirrors(c, {}, m, alive') /\ conf \in Settings /\ now \in 0..MaxClock /\ conf.eviction # "LFU"
  BY <1>2, CallBegins
<1>4. /\ Found(c, k, alive') =>
           /\ cache' = Touch(MoveLfu(MoveLru(c, c.table[k]), c.table[k]), c.table[k])
           /\ result' = [op |-> "hit", key |-> k, value |-> c.link[c.table[k]].value]
      /\ ~Found(c, k, alive') => cache' = Dropped(c, k, alive') /\ result' = [op |-> "miss", key |-> k]
  BY <1>1, <1>2
<1>5. result'.op # "exhausted" /\ AbstractAnswer' = result'
  BY <1>4 DEF AbstractAnswer
<1> HIDE DEF c, m
<1>6. /\ k \in DOMAIN c.table <=> k \in Map!Present(m)
      /\ Found(c, k, alive') <=> k \in Map!Living(m, alive')
      /\ k \in DOMAIN c.table => m.entry[k] = Data(c.link[c.table[k]])
  BY <1>3, FoundIsLiving
<1>7. (Map!Hit(k, alive') \/ Map!Miss(k, alive')) /\ Sorted(cache)' /\ Queued(cache, alive)'
  <2>1. CASE Found(c, k, alive')
    <3>1. k \in DOMAIN c.table
      BY <2>1 DEF Found
    <3> DEFINE n == HitMap(m, k)
    <3>2. Mirrors(cache', {}, n, alive')
      BY <1>3, <1>4, <2>1, <3>1, HitMirrors
    <3>3. /\ n.entry = [m.entry EXCEPT ![k].accessed = now]
          /\ n.order = IF conf.eviction = "LRU" THEN Map!OrderWithLast(Map!Others(m, k), k) ELSE m.order
      BY DEF HitMap
    <3> HIDE DEF n
    <3>4. /\ EntriesOf(cache)' = n.entry /\ OrderOf(cache)' = n.order
          /\ Sorted(cache)' /\ Queued(cache, alive)'
      BY <1>2, <3>2, StepTo
    <3>5. m.entry[k].value = c.link[c.table[k]].value
      BY <1>6, <3>1 DEF Data
    <3>6. AbstractAnswer' = [op |-> "hit", key |-> k, value |-> m.entry[k].value]
      BY <1>4, <1>5, <2>1, <3>5
    <3>7. Map!Hit(k, alive')
      BY <1>6, <2>1, <3>3, <3>4, <3>6 DEF Map!Hit, m
    <3> QED BY <3>4, <3>7
  <2>2. CASE ~Found(c, k, alive')
    <3> DEFINE n == Map!Looked(m, k, alive')
    <3>2. Mirrors(cache', {}, n, alive')
      BY <1>3, <1>4, <2>2, DroppedMirrors
    <3> HIDE DEF n
    <3>4. /\ EntriesOf(cache)' = n.entry /\ OrderOf(cache)' = n.order
          /\ Sorted(cache)' /\ Queued(cache, alive)'
      BY <1>2, <3>2, StepTo
    <3>6. AbstractAnswer' = [op |-> "miss", key |-> k]
      BY <1>4, <1>5, <2>2
    <3>7. Map!Miss(k, alive')
      BY <1>6, <2>2, <3>4, <3>6 DEF Map!Miss, Map!Becomes, n, m
    <3> QED BY <3>4, <3>7
  <2> QED BY <2>1, <2>2
<1>8. Map!Call
  BY <1>2, <1>7 DEF Map!Call
<1> QED BY <1>7, <1>8 DEF Simulated, Map!Next

LEMMA RoomMirrors ==
  ASSUME conf \in Settings, conf.eviction # "LFU", NEW c, NEW X, NEW m, NEW living, Mirrors(c, X, m, living)
  PROVE  Mirrors(MakeRoom(c), X, Map!MadeRoom(m), living) /\ Kept(c, MakeRoom(c), X)
<1> DEFINE d == MakeRoom(c)
           n == Map!MadeRoom(m)
<1>0. Chained(c) /\ MatchesBut(c, X) /\ Sorted(c) /\ Queued(c, living) /\ StandsFor(c, m)
  BY DEF Mirrors
<1>1. Kept(c, d, X) /\ d.dead = c.dead /\ StandsFor(d, n)
  BY <1>0, RoomStands
<1> HIDE DEF d, n
<1>2. Chained(d) /\ MatchesBut(d, X) /\ Fewer(c, d)
  BY <1>1 DEF Kept
<1>3. Sorted(d) /\ Queued(d, living)
  BY <1>0, <1>1, <1>2, SortedStill, QueuedStill
<1> QED BY <1>1, <1>2, <1>3 DEF Mirrors, d, n

LEMMA SetSimulated ==
  ASSUME RInv, NEW k \in Keys, NEW v \in Values, Set(k, v)
  PROVE  Simulated
<1>1. PICK gone \in {g \in Collected : v \notin g} :
        LET c        == AfterReap(gone)
            existing == Dropped(c, k, alive \ gone)
            room     == MakeRoom(IF Found(c, k, alive \ gone)
                                 THEN Unlink(c, c.table[k]) ELSE existing)
        IN /\ v \in alive
           /\ cache.seq < MaxSeq
           /\ Collect(gone)
           /\ IF Overweight(v)
              THEN cache' = c /\ result' = [op |-> "refused", key |-> k, value |-> v]
              ELSE /\ cache' = Insert(room, k, v)
                   /\ result' = [op |-> "stored", key |-> k, value |-> v]
           /\ UNCHANGED <<conf, now, cursor>>
  BY DEF Set
<1> DEFINE c == AfterReap(gone)
           m == Map!Current
           e == IF Found(c, k, alive') THEN Unlink(c, c.table[k]) ELSE Dropped(c, k, alive')
           room == MakeRoom(e)
<1>2. alive' = alive \ gone /\ conf' = conf /\ now' = now /\ gone \in Map!Gone /\ v \in alive'
  BY <1>1, CollectedIsGone DEF Collect
<1>3. Mirrors(c, {}, m, alive') /\ conf \in Settings /\ now \in 0..MaxClock /\ conf.eviction # "LFU"
  BY <1>2, CallBegins
<1>4. /\ Overweight(v) => cache' = c /\ result' = [op |-> "refused", key |-> k, value |-> v]
      /\ ~Overweight(v) => cache' = Insert(room, k, v) /\ result' = [op |-> "stored", key |-> k, value |-> v]
  BY <1>1, <1>2
<1>5. result'.op # "exhausted" /\ AbstractAnswer' = result'
  BY <1>4 DEF AbstractAnswer
<1>6. c.seq < MaxSeq
  <2>1. Kept(cache, c, {})
    BY ReapedKeeps DEF RInv
  <2> QED BY <1>1, <2>1 DEF Kept, Fewer
<1> HIDE DEF c, m
<1>7. (Map!Store(k, v) \/ Map!Refuse(k, v)) /\ Sorted(cache)' /\ Queued(cache, alive)'
  <2>1. CASE Overweight(v)
    <3>1. Mirrors(cache', {}, m, alive')
      BY <1>3, <1>4, <2>1
    <3>2. /\ EntriesOf(cache)' = m.entry /\ OrderOf(cache)' = m.order
          /\ Sorted(cache)' /\ Queued(cache, alive)'
      BY <1>2, <3>1, StepTo
    <3>3. AbstractAnswer' = [op |-> "refused", key |-> k, value |-> v]
      BY <1>4, <1>5, <2>1
    <3>4. Map!Refuse(k, v)
      BY <2>1, <3>2, <3>3 DEF Map!Refuse, Map!Becomes, Overweight, m
    <3> QED BY <3>2, <3>4
  <2>2. CASE ~Overweight(v)
    <3> DEFINE others == Map!Others(m, k)
               rest == Map!MadeRoom(others)
               n == StoreMap(rest, k, v)
    <3>1. Mirrors(e, {k}, others, alive') /\ Kept(c, e, {k})
      BY <1>3, ReplacedMirrors
    <3>2. k \notin Map!Present(others) /\ Map!Present(rest) \subseteq Map!Present(others)
      BY DEF Map!Present, Map!Others, Map!Only, Map!MadeRoom
    <3> HIDE DEF others, e
    <3>3. Mirrors(room, {k}, rest, alive') /\ Kept(e, room, {k})
      BY <1>3, <3>1, RoomMirrors
    <3>4. room.seq < MaxSeq
      BY <1>6, <3>1, <3>3 DEF Kept, Fewer
    <3> HIDE DEF room, rest
    <3>5. Mirrors(Insert(room, k, v), {}, n, alive')
      BY <1>2, <1>3, <3>2, <3>3, <3>4, StoreMirrors
    <3>6. Mirrors(cache', {}, n, alive')
      BY <1>4, <2>2, <3>5
    <3>7. /\ n.entry = [x \in Map!Present(rest) \cup {k} |->
                          IF x = k THEN [value |-> v, written |-> now, accessed |-> now] ELSE rest.entry[x]]
          /\ n.order = Map!OrderWithLast(rest, k)
      BY DEF StoreMap
    <3> HIDE DEF n
    <3>8. /\ EntriesOf(cache)' = n.entry /\ OrderOf(cache)' = n.order
          /\ Sorted(cache)' /\ Queued(cache, alive)'
      BY <1>2, <3>6, StepTo
    <3>9. AbstractAnswer' = [op |-> "stored", key |-> k, value |-> v]
      BY <1>4, <1>5, <2>2
    <3>10. Map!Store(k, v)
      BY <2>2, <3>7, <3>8, <3>9 DEF Map!Store, Overweight, rest, others, m
    <3> QED BY <3>8, <3>10
  <2> QED BY <2>1, <2>2
<1>8. Map!Call
  BY <1>2, <1>7 DEF Map!Call
<1> QED BY <1>7, <1>8 DEF Simulated, Map!Next

LEMMA DeleteSimulated ==
  ASSUME RInv, NEW k \in Keys, Delete(k)
  PROVE  Simulated
<1>1. PICK gone \in Collected :
        LET c == AfterReap(gone)
        IN /\ Collect(gone)
           /\ IF Found(c, k, alive \ gone)
              THEN /\ cache' = Unlink([c EXCEPT !.table = Without(@, k)], c.table[k])
                   /\ result' = [op |-> "deleted", key |-> k]
              ELSE cache' = Dropped(c, k, alive \ gone) /\ result' = [op |-> "missing", key |-> k]
           /\ UNCHANGED <<conf, now, cursor>>
  BY DEF Delete
<1> DEFINE c == AfterReap(gone)
           m == Map!Current
<1>2. alive' = alive \ gone /\ conf' = conf /\ now' = now /\ gone \in Map!Gone
  BY <1>1, CollectedIsGone DEF Collect
<1>3. Mirrors(c, {}, m, alive')
  BY <1>2, CallBegins
<1>4. /\ Found(c, k, alive') =>
           /\ cache' = Unlink([c EXCEPT !.table = Without(@, k)], c.table[k])
           /\ result' = [op |-> "deleted", key |-> k]
      /\ ~Found(c, k, alive') => cache' = Dropped(c, k, alive') /\ result' = [op |-> "missing", key |-> k]
  BY <1>1, <1>2
<1>5. result'.op # "exhausted" /\ AbstractAnswer' = result'
  BY <1>4 DEF AbstractAnswer
<1> HIDE DEF c, m
<1>6. Found(c, k, alive') <=> k \in Map!Living(m, alive')
  BY <1>3, FoundIsLiving
<1>7. (Map!Erase(k, alive') \/ Map!EraseMissing(k, alive')) /\ Sorted(cache)' /\ Queued(cache, alive)'
  <2>1. CASE Found(c, k, alive')
    <3> DEFINE n == Map!Others(m, k)
    <3>1. k \in DOMAIN c.table
      BY <2>1 DEF Found
    <3> DEFINE d == Unlink([c EXCEPT !.table = Without(@, k)], c.table[k])
    <3>2. Mirrors(d, {}, n, alive') /\ d = [Unlink(c, c.table[k]) EXCEPT !.table = Without(@, k)]
      BY <1>3, <3>1, RemovalMirrors
    <3>3. Mirrors(cache', {}, n, alive')
      BY <1>4, <2>1, <3>2
    <3> HIDE DEF n
    <3>4. /\ EntriesOf(cache)' = n.entry /\ OrderOf(cache)' = n.order
          /\ Sorted(cache)' /\ Queued(cache, alive)'
      BY <1>2, <3>3, StepTo
    <3>5. AbstractAnswer' = [op |-> "deleted", key |-> k]
      BY <1>4, <1>5, <2>1
    <3>6. Map!Erase(k, alive')
      BY <1>6, <2>1, <3>4, <3>5 DEF Map!Erase, Map!Becomes, n, m
    <3> QED BY <3>4, <3>6
  <2>2. CASE ~Found(c, k, alive')
    <3> DEFINE n == Map!Looked(m, k, alive')
    <3>1. Mirrors(cache', {}, n, alive')
      BY <1>3, <1>4, <2>2, DroppedMirrors
    <3> HIDE DEF n
    <3>2. /\ EntriesOf(cache)' = n.entry /\ OrderOf(cache)' = n.order
          /\ Sorted(cache)' /\ Queued(cache, alive)'
      BY <1>2, <3>1, StepTo
    <3>3. AbstractAnswer' = [op |-> "missing", key |-> k]
      BY <1>4, <1>5, <2>2
    <3>4. Map!EraseMissing(k, alive')
      BY <1>6, <2>2, <3>2, <3>3 DEF Map!EraseMissing, Map!Becomes, n, m
    <3> QED BY <3>2, <3>4
  <2> QED BY <2>1, <2>2
<1>8. Map!Call
  BY <1>2, <1>7 DEF Map!Call
<1> QED BY <1>7, <1>8 DEF Simulated, Map!Next

LEMMA ContainsSimulated ==
  ASSUME RInv, NEW k \in Keys, ContainsKey(k)
  PROVE  Simulated
<1>1. PICK gone \in Collected :
        LET c == AfterReap(gone)
        IN /\ Collect(gone)
           /\ cache' = Dropped(c, k, alive \ gone)
           /\ result' = [op |-> "in", key |-> k, answer |-> Found(c, k, alive \ gone)]
           /\ UNCHANGED <<conf, now, cursor>>
  BY DEF ContainsKey
<1> DEFINE c == AfterReap(gone)
           m == Map!Current
           n == Map!Looked(m, k, alive')
<1>2. alive' = alive \ gone /\ conf' = conf /\ now' = now /\ gone \in Map!Gone
  BY <1>1, CollectedIsGone DEF Collect
<1>3. Mirrors(c, {}, m, alive')
  BY <1>2, CallBegins
<1>4. /\ cache' = Dropped(c, k, alive')
      /\ result' = [op |-> "in", key |-> k, answer |-> Found(c, k, alive')]
  BY <1>1, <1>2
<1>5. AbstractAnswer' = result'
  BY <1>4 DEF AbstractAnswer
<1> HIDE DEF c, m
<1>6. Found(c, k, alive') <=> k \in Map!Living(m, alive')
  BY <1>3, FoundIsLiving
<1>7. Mirrors(cache', {}, n, alive')
  BY <1>3, <1>4, DroppedMirrors
<1> HIDE DEF n
<1>8. /\ EntriesOf(cache)' = n.entry /\ OrderOf(cache)' = n.order
      /\ Sorted(cache)' /\ Queued(cache, alive)'
  BY <1>2, <1>7, StepTo
<1>9. AbstractAnswer' = [op |-> "in", key |-> k, answer |-> k \in Map!Living(m, alive')]
  <2>1. Found(c, k, alive') \in BOOLEAN
    BY DEF Found
  <2>2. Found(c, k, alive') = (k \in Map!Living(m, alive'))
    BY <1>6, <2>1
  <2> QED BY <1>4, <1>5, <2>2
<1>10. Map!Member(k, alive')
  BY <1>8, <1>9 DEF Map!Member, Map!Becomes, n, m
<1>11. Map!Call
  BY <1>2, <1>10 DEF Map!Call
<1> QED BY <1>8, <1>11 DEF Simulated, Map!Next

(* What a call without a key begins with.                                     *)
LEMMA ReapIsCurrent ==
  ASSUME RInv, UNCHANGED <<conf, now, alive>>, cache' = Reap(cache)
  PROVE  /\ Mirrors(cache', {}, Map!Current, alive') /\ Map!Becomes(Map!Current)
         /\ Sorted(cache)' /\ Queued(cache, alive)'
<1> DEFINE m == Map!Current
<1>1. /\ conf \in Settings /\ now \in 0..MaxClock /\ Chained(cache) /\ MatchesBut(cache, {})
      /\ Sorted(cache) /\ Queued(cache, alive)
  BY DEF RInv, IInv, Typed
<1>2. Mirrors(Reap(cache), {}, m, alive)
  BY <1>1, ReapMirrors
<1> HIDE DEF m
<1>3. Mirrors(cache', {}, m, alive')
  BY <1>2
<1>4. /\ EntriesOf(cache)' = m.entry /\ OrderOf(cache)' = m.order
      /\ Sorted(cache)' /\ Queued(cache, alive)'
  BY <1>3, StepTo
<1>5. Map!Becomes(m)
  BY <1>4 DEF Map!Becomes
<1> QED BY <1>3, <1>4, <1>5 DEF m

LEMMA LenSimulated ==
  ASSUME RInv, LenOf
  PROVE  Simulated
<1> DEFINE m == Map!Current
<1>1. /\ cache' = Reap(cache) /\ result' = [op |-> "len", size |-> cache'.size]
      /\ UNCHANGED <<conf, now, alive>>
  BY DEF LenOf
<1>2. /\ Mirrors(cache', {}, m, alive') /\ Map!Becomes(m)
      /\ Sorted(cache)' /\ Queued(cache, alive)'
  BY <1>1, ReapIsCurrent
<1> HIDE DEF m
<1>3. Chained(cache') /\ Distinct(cache') /\ StandsFor(cache', m)
  BY <1>2, KeysAreDistinct DEF Mirrors
<1>4. Map!Size(m) = cache'.size
  BY <1>3, SizeIs
<1>5. AbstractAnswer' = [op |-> "len", size |-> Map!Size(m)]
  BY <1>1, <1>4 DEF AbstractAnswer
<1>6. Map!Count
  BY <1>2, <1>5 DEF Map!Count, m
<1> QED BY <1>1, <1>2, <1>6 DEF Simulated, Map!Next, Map!Whole

LEMMA ClearSimulated ==
  ASSUME RInv, Clear
  PROVE  Simulated
<1> DEFINE d == UnlinkAll([cache EXCEPT !.table = <<>>], Reverse(cache.ins))
           m == [entry |-> <<>>, order |-> {}]
<1>1. /\ cache' = d /\ result' = [op |-> "cleared"]
      /\ UNCHANGED <<conf, now, alive>>
  BY DEF Clear
<1>2. /\ conf \in Settings /\ Chained(cache) /\ Bounded(cache) /\ Sorted(cache) /\ Queued(cache, alive)
  BY DEF RInv, IInv, Typed
<1>3. Mirrors(d, {}, m, alive)
  BY <1>2, ClearMirrors
<1>4. m.entry = <<>> /\ m.order = {}
  OBVIOUS
<1> HIDE DEF d, m
<1>5. /\ EntriesOf(cache)' = m.entry /\ OrderOf(cache)' = m.order
      /\ Sorted(cache)' /\ Queued(cache, alive)'
  BY <1>1, <1>3, StepTo
<1>6. AbstractAnswer' = [op |-> "cleared"]
  BY <1>1 DEF AbstractAnswer
<1>7. Map!Empty
  BY <1>4, <1>5, <1>6 DEF Map!Empty
<1> QED BY <1>1, <1>5, <1>7 DEF Simulated, Map!Next, Map!Whole

LEMMA IterBeginSimulated ==
  ASSUME RInv, IterBegin
  PROVE  Simulated
<1> DEFINE m == Map!Current
<1>1. /\ cache' = Reap(cache) /\ cache'.ins # <<>>
      /\ result' = [op |-> "yield", key |-> cache'.link[Last(cache'.ins)].key]
      /\ UNCHANGED <<conf, now, alive>>
  BY DEF IterBegin
<1>2. /\ Mirrors(cache', {}, m, alive') /\ Map!Becomes(m)
      /\ Sorted(cache)' /\ Queued(cache, alive)'
  BY <1>1, ReapIsCurrent
<1> HIDE DEF m
<1>3. Chained(cache') /\ StandsFor(cache', m)
  BY <1>2 DEF Mirrors
<1> DEFINE s == cache'.ins
<1>4. s \in Seq(Links) /\ ToSet(s) = DOMAIN cache'.link /\ s # <<>>
  BY <1>1, <1>3 DEF Chained, Caches, Ring
<1> HIDE DEF s
<1>5. Last(s) \in ToSet(s)
  <2>1. Len(s) \in 1..Len(s) /\ Last(s) = s[Len(s)]
    BY <1>4 DEF Last
  <2> QED BY <1>4, <2>1, InSequence
<1>6. cache'.link[Last(s)].key \in DOMAIN m.entry
  BY <1>3, <1>4, <1>5 DEF StandsFor
<1>7. EntriesOf(cache)' = m.entry
  BY <1>2 DEF Map!Becomes
<1>8. AbstractAnswer' = [op |-> "yield", key |-> cache'.link[Last(s)].key]
  BY <1>1 DEF AbstractAnswer, s
<1>9. \E k \in DOMAIN EntriesOf(cache)' : AbstractAnswer' = [op |-> "yield", key |-> k]
  BY <1>6, <1>7, <1>8
<1>10. Map!Iterate
  BY <1>2, <1>9 DEF Map!Iterate, m
<1> QED BY <1>1, <1>2, <1>10 DEF Simulated, Map!Next, Map!Whole

(* A step that leaves the links alone leaves the map alone.                   *)
LEMMA SameMap ==
  ASSUME RInv, UNCHANGED <<conf, cache>>
  PROVE  EntriesOf(cache)' = EntriesOf(cache) /\ OrderOf(cache)' = OrderOf(cache)
BY DEF EntriesOf, OrderOf, GoesBefore, InOrder

LEMMA IterNextSimulated ==
  ASSUME RInv, IterNext
  PROVE  Simulated
<1> DEFINE next == Before(cache, cursor.at)
<1>1. /\ cursor.at # None /\ UNCHANGED <<conf, cache, now, alive>>
      /\ Chained(cache) /\ MatchesBut(cache, {}) /\ Sorted(cache) /\ Queued(cache, alive)
  BY DEF IterNext, RInv, IInv
<1>2. EntriesOf(cache)' = EntriesOf(cache) /\ OrderOf(cache)' = OrderOf(cache)
  BY <1>1, SameMap
<1>3. Map!Becomes(Map!Now)
  BY <1>2 DEF Map!Becomes, Map!Now
<1>4. Sorted(cache)' /\ Queued(cache, alive)'
  BY <1>1 DEF Sorted, Queued, InOrder
<1>5. \/ \E k \in DOMAIN EntriesOf(cache)' : AbstractAnswer' = [op |-> "yield", key |-> k]
      \/ AbstractAnswer' \in {[op |-> "changed"], [op |-> "exhausted"]}
  <2>1. CASE Unlinked(cache, cursor.at)
    <3>1. result' = [op |-> "changed"]
      BY <2>1 DEF IterNext
    <3> QED BY <3>1 DEF AbstractAnswer
  <2>2. CASE ~Unlinked(cache, cursor.at) /\ next = None
    <3>1. result' = [op |-> "exhausted", seen |-> cursor.seen, from |-> cursor.from]
      BY <2>2 DEF IterNext
    <3>2. AbstractAnswer' = [op |-> "exhausted"]
      BY <3>1 DEF AbstractAnswer
    <3> QED BY <3>2
  <2>3. CASE ~Unlinked(cache, cursor.at) /\ next # None
    <3>1. result' = [op |-> "yield", key |-> cache.link[next].key]
      BY <2>3 DEF IterNext
    <3>2. next \in DOMAIN cache.link
      BY <1>1, <2>3, BeforeIs DEF Unlinked
    <3>3. cache.link[next].key \in DOMAIN cache.table
      BY <1>1, <3>2 DEF MatchesBut
    <3>4. DOMAIN EntriesOf(cache)' = DOMAIN cache.table
      BY <1>2 DEF EntriesOf
    <3> HIDE DEF next
    <3>5. AbstractAnswer' = [op |-> "yield", key |-> cache.link[next].key]
      BY <3>1 DEF AbstractAnswer
    <3> QED BY <3>3, <3>4, <3>5
  <2> QED BY <2>1, <2>2, <2>3
<1>6. Map!Iterate
  BY <1>3, <1>5 DEF Map!Iterate
<1> QED BY <1>1, <1>4, <1>6 DEF Simulated, Map!Next, Map!Whole

LEMMA TickSimulated ==
  ASSUME RInv, Tick
  PROVE  Simulated
<1>1. /\ now < MaxClock /\ now' = now + 1 /\ UNCHANGED <<conf, cache, alive, cursor, result>>
      /\ Chained(cache) /\ now \in 0..MaxClock /\ Sorted(cache) /\ Queued(cache, alive)
  BY DEF Tick, RInv, IInv, Typed
<1>2. EntriesOf(cache)' = EntriesOf(cache) /\ OrderOf(cache)' = OrderOf(cache)
  BY <1>1, SameMap
<1>3. AbstractAnswer' = AbstractAnswer
  BY <1>1 DEF AbstractAnswer
<1>4. Map!Time
  BY <1>1, <1>2, <1>3 DEF Map!Time
<1>5. Sorted(cache)'
  <2>1. now \in Nat /\ \A l \in DOMAIN cache.link : cache.link[l].written \in Nat /\ cache.link[l].accessed \in Nat
    BY <1>1, TimesTyped, CacheConstants
  <2>2. \A l \in DOMAIN cache.link : cache.link[l].written <= now' /\ cache.link[l].accessed <= now'
    BY <1>1, <2>1 DEF Sorted
  <2> QED BY <1>1, <2>2 DEF Sorted, InOrder
<1>6. Queued(cache, alive)'
  BY <1>1 DEF Queued
<1> QED BY <1>4, <1>5, <1>6 DEF Simulated, Map!Next

LEMMA DeathSimulated ==
  ASSUME RInv, ValueDies
  PROVE  Simulated
<1> DEFINE m == Map!Now
<1>1. PICK v \in alive : alive' = alive \ {v} /\ cache' = Die(cache, {v})
                         /\ UNCHANGED <<conf, now, cursor, result>>
  BY DEF ValueDies
<1>2. /\ Chained(cache) /\ MatchesBut(cache, {}) /\ Sorted(cache) /\ Queued(cache, alive)
  BY DEF RInv, IInv
<1>3. Mirrors(cache, {}, m, alive)
  BY <1>2, CacheStands DEF Mirrors, Map!Now
<1>4. m.entry = EntriesOf(cache) /\ m.order = OrderOf(cache)
  BY DEF Map!Now
<1> HIDE DEF m
<1>5. Mirrors(Die(cache, {v}), {}, m, alive \ {v})
  BY <1>3, DieMirrors
<1>6. /\ EntriesOf(cache)' = m.entry /\ OrderOf(cache)' = m.order
      /\ Sorted(cache)' /\ Queued(cache, alive)'
  BY <1>1, <1>5, StepTo
<1>7. AbstractAnswer' = AbstractAnswer
  BY <1>1 DEF AbstractAnswer
<1>8. Map!Death
  BY <1>1, <1>4, <1>6, <1>7 DEF Map!Death
<1> QED BY <1>6, <1>8 DEF Simulated, Map!Next

LEMMA StutterSimulated ==
  ASSUME RInv, UNCHANGED vars
  PROVE  Simulated
<1>1. /\ UNCHANGED <<conf, cache, now, alive, cursor, result>> /\ Sorted(cache) /\ Queued(cache, alive)
  BY DEF vars, RInv
<1>2. EntriesOf(cache)' = EntriesOf(cache) /\ OrderOf(cache)' = OrderOf(cache)
  BY <1>1, SameMap
<1>3. AbstractAnswer' = AbstractAnswer
  BY <1>1 DEF AbstractAnswer
<1>4. Sorted(cache)' /\ Queued(cache, alive)'
  BY <1>1 DEF Sorted, Queued, InOrder
<1> QED BY <1>1, <1>2, <1>3, <1>4 DEF Simulated, Map!vars

LEMMA SettingsStay ==
  ASSUME [Next]_vars PROVE conf' = conf
BY DEF Next, vars, Get, Set, Delete, ContainsKey, LenOf, Clear, IterBegin, IterNext, Tick, ValueDies

LEMMA StepsSimulated == RInv /\ [Next]_vars => RInv' /\ [Map!Next]_Map!vars
<1> SUFFICES ASSUME RInv, [Next]_vars PROVE RInv' /\ [Map!Next]_Map!vars
  OBVIOUS
<1>1. Simulated
  <2>1. CASE \E k \in Keys : Get(k) \/ Delete(k) \/ ContainsKey(k) \/ \E v \in Values : Set(k, v)
    BY <2>1, GetSimulated, DeleteSimulated, ContainsSimulated, SetSimulated
  <2>2. CASE LenOf
    BY <2>2, LenSimulated
  <2>3. CASE Clear
    BY <2>3, ClearSimulated
  <2>4. CASE IterBegin
    BY <2>4, IterBeginSimulated
  <2>5. CASE IterNext
    BY <2>5, IterNextSimulated
  <2>6. CASE Tick
    BY <2>6, TickSimulated
  <2>7. CASE ValueDies
    BY <2>7, DeathSimulated
  <2>8. CASE UNCHANGED vars
    BY <2>8, StutterSimulated
  <2> QED BY <2>1, <2>2, <2>3, <2>4, <2>5, <2>6, <2>7, <2>8 DEF Next
<1>2. IInv'
  BY NextKeeps DEF RInv
<1>3. conf' = conf
  BY SettingsStay
<1> QED BY <1>1, <1>2, <1>3 DEF RInv, Simulated

LEMMA InitSimulated == Init /\ conf.eviction # "LFU" => RInv /\ Map!Init
<1> SUFFICES ASSUME Init, conf.eviction # "LFU" PROVE RInv /\ Map!Init
  OBVIOUS
<1>1. IInv
  BY InitHolds
<1>2. /\ conf \in Configurations /\ now = 0 /\ alive = Values /\ result = [op |-> "none"]
      /\ cache.table = <<>> /\ cache.link = <<>> /\ cache.dead = <<>>
  BY DEF Init, Fresh
<1>3. DOMAIN cache.link = {} /\ DOMAIN cache.table = {} /\ ToSet(cache.dead) = {}
  BY <1>2, EmptyMaps
<1>4. Sorted(cache) /\ Queued(cache, alive)
  BY <1>3 DEF Sorted, Queued
<1>5. EntriesOf(cache) = <<>>
  <2> DEFINE e == EntriesOf(cache)
  <2>1. DOMAIN e = {} /\ e = [k \in DOMAIN e |-> e[k]]
    BY <1>3 DEF EntriesOf
  <2> HIDE DEF e
  <2>2. e = <<>>
    BY <2>1
  <2> QED BY <2>2 DEF e
<1>6. OrderOf(cache) = {}
  BY <1>3 DEF OrderOf
<1>7. AbstractAnswer = [op |-> "none"]
  BY <1>2 DEF AbstractAnswer
<1> QED BY <1>1, <1>2, <1>4, <1>5, <1>6, <1>7 DEF RInv, Map!Init

(* A cache that evicts what was used or written least recently implements the *)
(* bounded map.                                                               *)
THEOREM CacheImplementsMap == Spec /\ conf.eviction # "LFU" => ImplementsMap
BY InitSimulated, StepsSimulated, PTL DEF Spec, ImplementsMap, Map!Spec
===============================================================================
