---------------------------- MODULE BlockEdits_proofs ----------------------------
(***************************************************************************)
(* What holds of the block array of any function under any sequence of     *)
(* edits: what the last instructions say, the successors and the           *)
(* predecessors stay three copies of the same edges, but for the blocks at *)
(* which a removal of simple gotos raised; and each edit that does not     *)
(* raise does to the flow of control what it says, which is that FlowEdits *)
(* is implemented.                                                         *)
(***************************************************************************)
EXTENDS BlockEdits, FiniteSetTheorems, WellFoundedInduction, TLAPS

-------------------------------------------------------------------------------
(* Numbers and sequences *)

LEMMA Smallest ==
  ASSUME NEW S \in SUBSET Nat, S # {}
  PROVE  \E x \in S : \A y \in S : x <= y
<1>1. PICK x \in S : \A y \in S : ~(<<y, x>> \in OpToRel(<, Nat))
  BY NatLessThanWellFounded, WFMin
<1>2. \A y \in S : ~(y < x)
  BY <1>1, Zenon DEF OpToRel
<1> QED BY <1>2

LEMMA Induction ==
  ASSUME NEW S, 0 \in S, \A k \in Nat : k \in S => k + 1 \in S
  PROVE  Nat \subseteq S
<1> SUFFICES ASSUME Nat \ S # {} PROVE FALSE
  OBVIOUS
<1>1. PICK x \in Nat \ S : \A y \in Nat \ S : x <= y
  BY Smallest
<1>2. x # 0 /\ x - 1 \in Nat
  BY <1>1
<1>3. x - 1 \in S
  BY <1>1, <1>2
<1> QED BY <1>1, <1>2, <1>3

(* The smallest number of a set of them.                                     *)
LEMMA MinIs ==
  ASSUME NEW S \in SUBSET Nat, S # {}
  PROVE  Min(S) \in S /\ \A y \in S : Min(S) <= y
BY Smallest DEF Min

LEMMA InSequence ==
  ASSUME NEW S, NEW s \in Seq(S)
  PROVE  /\ ToSet(s) = {s[i] : i \in 1..Len(s)}
         /\ ToSet(s) \subseteq S
         /\ IsInjective(s) <=> \A i, j \in 1..Len(s) : s[i] = s[j] => i = j
BY DEF ToSet, IsInjective

LEMMA Elements ==
  ASSUME NEW S, NEW s \in Seq(S)
  PROVE  ToSet(s) = {s[i] : i \in 1..Len(s)}
BY DEF ToSet

LEMMA ItemIs ==
  ASSUME NEW S, NEW s \in Seq(S), NEW i \in 1..Len(s)
  PROVE  s[i] \in S
OBVIOUS

LEMMA Concatenated ==
  ASSUME NEW S, NEW s \in Seq(S), NEW t \in Seq(S), IsInjective(s), IsInjective(t),
         ToSet(s) \cap ToSet(t) = {}
  PROVE  /\ s \o t \in Seq(S) /\ IsInjective(s \o t)
         /\ ToSet(s \o t) = ToSet(s) \cup ToSet(t)
<1> DEFINE r == s \o t
<1>1. r \in Seq(S) /\ Len(r) = Len(s) + Len(t)
  OBVIOUS
<1>2. /\ \A i \in 1..Len(s) : r[i] = s[i]
      /\ \A i \in Len(s)+1..Len(r) : i - Len(s) \in 1..Len(t) /\ r[i] = t[i - Len(s)]
      /\ \A i \in 1..Len(t) : r[i + Len(s)] = t[i]
  OBVIOUS
<1>3. \A i \in 1..Len(r) : i \in 1..Len(s) \/ i \in Len(s)+1..Len(r)
  BY <1>1
<1> HIDE DEF r
<1>4. /\ \A i \in 1..Len(s) : s[i] \in ToSet(s)
      /\ \A i \in 1..Len(t) : t[i] \in ToSet(t)
  BY InSequence
<1>5. \A i, j \in 1..Len(r) : r[i] = r[j] => i = j
  <2> SUFFICES ASSUME NEW i \in 1..Len(r), NEW j \in 1..Len(r), r[i] = r[j] PROVE i = j
    OBVIOUS
  <2>1. \A a, b \in 1..Len(s) : s[a] = s[b] => a = b
    BY InSequence
  <2>2. \A a, b \in 1..Len(t) : t[a] = t[b] => a = b
    BY InSequence
  <2>3. CASE i \in 1..Len(s) /\ j \in 1..Len(s)
    BY <1>2, <2>1, <2>3
  <2>4. CASE i \in Len(s)+1..Len(r) /\ j \in Len(s)+1..Len(r)
    <3> DEFINE a == i - Len(s)
               b == j - Len(s)
    <3>1. a \in 1..Len(t) /\ b \in 1..Len(t) /\ r[i] = t[a] /\ r[j] = t[b] /\ (a = b => i = j)
      BY <1>2, <2>4
    <3> HIDE DEF a, b
    <3>2. t[a] = t[b]
      BY <3>1
    <3> QED BY <2>2, <3>1, <3>2
  <2>5. CASE i \in 1..Len(s) /\ j \in Len(s)+1..Len(r)
    BY <1>2, <1>4, <2>5
  <2>6. CASE j \in 1..Len(s) /\ i \in Len(s)+1..Len(r)
    BY <1>2, <1>4, <2>6
  <2> QED BY <1>3, <2>3, <2>4, <2>5, <2>6
<1>6. ToSet(r) = ToSet(s) \cup ToSet(t)
  <2>1. ToSet(r) \subseteq ToSet(s) \cup ToSet(t)
    <3>1. \A i \in 1..Len(r) : r[i] \in ToSet(s) \cup ToSet(t)
      BY <1>2, <1>3, <1>4
    <3>2. r \in Seq(S)
      BY <1>1
    <3>3. ToSet(r) = {r[i] : i \in 1..Len(r)}
      BY <3>2, Elements
    <3> QED BY <3>1, <3>3
  <2>2. \A i \in 1..Len(s) : i \in 1..Len(r)
    BY <1>1
  <2>3. \A i \in 1..Len(t) : i + Len(s) \in 1..Len(r)
    BY <1>1
  <2>4. /\ ToSet(r) = {r[i] : i \in 1..Len(r)} /\ ToSet(s) = {s[i] : i \in 1..Len(s)}
        /\ ToSet(t) = {t[i] : i \in 1..Len(t)}
    <3>1. r \in Seq(S)
      BY <1>1
    <3> QED BY <3>1, Elements
  <2>5. ToSet(s) \subseteq ToSet(r)
    BY <1>2, <2>2, <2>4
  <2>6. ToSet(t) \subseteq ToSet(r)
    BY <1>2, <2>3, <2>4
  <2> QED BY <2>1, <2>5, <2>6
<1> QED BY <1>1, <1>5, <1>6, InSequence DEF r

LEMMA One ==
  ASSUME NEW S, NEW e \in S
  PROVE  <<e>> \in Seq(S) /\ IsInjective(<<e>>) /\ ToSet(<<e>>) = {e}
BY DEF IsInjective, ToSet

LEMMA Appended ==
  ASSUME NEW S, NEW s \in Seq(S), IsInjective(s), NEW e \in S, e \notin ToSet(s)
  PROVE  /\ Append(s, e) \in Seq(S) /\ IsInjective(Append(s, e))
         /\ ToSet(Append(s, e)) = ToSet(s) \cup {e}
<1>1. Append(s, e) = s \o <<e>>
  OBVIOUS
<1>2. <<e>> \in Seq(S) /\ IsInjective(<<e>>) /\ ToSet(<<e>>) = {e}
  BY One
<1> DEFINE t == <<e>>
<1>3. /\ s \o t \in Seq(S) /\ IsInjective(s \o t)
      /\ ToSet(s \o t) = ToSet(s) \cup ToSet(t)
  <2> HIDE DEF t
  <2>1. t \in Seq(S) /\ IsInjective(t) /\ ToSet(s) \cap ToSet(t) = {}
    BY <1>2 DEF t
  <2> QED BY <2>1, Concatenated
<1> QED BY <1>1, <1>2, <1>3

(* The place of an element of a sequence, and the sequence without it.        *)
LEMMA PlaceOf ==
  ASSUME NEW S, NEW s \in Seq(S), IsInjective(s), NEW e \in ToSet(s)
  PROVE  LET at == SelectInSeq(s, LAMBDA x : x = e)
         IN  at \in 1..Len(s) /\ s[at] = e /\ \A i \in 1..Len(s) : s[i] = e => i = at
<1> DEFINE I == {i \in 1..Len(s) : s[i] = e}
           at == SelectInSeq(s, LAMBDA x : x = e)
<1>1. I \in SUBSET Nat /\ I # {}
  BY InSequence
<1>2. at = Min(I)
  BY <1>1 DEF SelectInSeq
<1>3. at \in I
  <2> HIDE DEF I
  <2> QED BY <1>1, <1>2, MinIs
<1> HIDE DEF at
<1>4. at \in 1..Len(s) /\ s[at] = e
  BY <1>3
<1>5. \A i \in 1..Len(s) : s[i] = e => i = at
  BY <1>4, InSequence
<1> QED BY <1>4, <1>5 DEF at

LEMMA Removed ==
  ASSUME NEW S, NEW s \in Seq(S), IsInjective(s), NEW e
  PROVE  LET r == RemoveFirst(s, e)
         IN  /\ r \in Seq(S) /\ IsInjective(r) /\ ToSet(r) = ToSet(s) \ {e}
             /\ \A i, j \in DOMAIN r : i < j =>
                  \E a, b \in DOMAIN s : a < b /\ r[i] = s[a] /\ r[j] = s[b]
<1> DEFINE r == RemoveFirst(s, e)
<1>1. CASE e \notin ToSet(s)
  <2>1. r = s
    BY <1>1, InSequence DEF RemoveFirst
  <2> HIDE DEF r
  <2> QED BY <1>1, <2>1 DEF r
<1>2. CASE e \in ToSet(s)
  <2> DEFINE at == SelectInSeq(s, LAMBDA x : x = e)
             front == SubSeq(s, 1, at - 1)
             back == SubSeq(s, at + 1, Len(s))
  <2>1. at \in 1..Len(s) /\ s[at] = e /\ \A i \in 1..Len(s) : s[i] = e => i = at
    BY <1>2, PlaceOf
  <2>2. r = front \o back
    <3>1. \E i \in 1..Len(s) : s[i] = e
      BY <2>1
    <3>2. r = RemoveAt(s, SelectInSeq(s, LAMBDA v : v = e))
      BY <3>1 DEF RemoveFirst
    <3> QED BY <3>2 DEF RemoveAt
  <2> HIDE DEF at
  <2>3. /\ front \in Seq(S) /\ Len(front) = at - 1 /\ \A i \in 1..at-1 : front[i] = s[i]
        /\ back \in Seq(S) /\ Len(back) = Len(s) - at
        /\ \A i \in 1..Len(s) - at : back[i] = s[i + at]
    BY <2>1
  <2> HIDE DEF r, front, back
  <2>4. /\ r \in Seq(S) /\ Len(r) = Len(s) - 1
        /\ \A i \in 1..at-1 : r[i] = s[i]
        /\ \A i \in at..Len(s)-1 : r[i] = s[i + 1]
    <3>1. Len(front \o back) = Len(s) - 1 /\ front \o back \in Seq(S)
      BY <2>1, <2>3
    <3>2. \A i \in 1..at-1 : (front \o back)[i] = s[i]
      BY <2>1, <2>3
    <3>3. ASSUME NEW i \in at..Len(s)-1
          PROVE  (front \o back)[i] = s[i + 1]
      <4>1. i - Len(front) \in 1..Len(back) /\ (i - Len(front)) + at = i + 1
        BY <2>1, <2>3
      <4>2. (front \o back)[i] = back[i - Len(front)]
        BY <2>1, <2>3, <4>1
      <4> QED BY <2>3, <4>1, <4>2
    <3> QED BY <2>2, <3>1, <3>2, <3>3
  <2> DEFINE from(i) == IF i < at THEN i ELSE i + 1
  <2>5. /\ DOMAIN r = 1..Len(s) - 1 /\ DOMAIN s = 1..Len(s)
        /\ \A i \in 1..Len(s)-1 : from(i) \in 1..Len(s) /\ from(i) # at /\ r[i] = s[from(i)]
        /\ \A i, j \in 1..Len(s)-1 : i < j => from(i) < from(j)
    BY <2>1, <2>4
  <2>6. \A i \in 1..Len(s) : i # at => \E j \in 1..Len(s)-1 : from(j) = i
    <3> SUFFICES ASSUME NEW i \in 1..Len(s), i # at PROVE \E j \in 1..Len(s)-1 : from(j) = i
      OBVIOUS
    <3>1. CASE i < at
      BY <2>1, <3>1
    <3>2. CASE i > at
      <4>1. i - 1 \in 1..Len(s)-1 /\ from(i - 1) = i
        BY <2>1, <3>2
      <4> QED BY <4>1
    <3> QED BY <2>1, <3>1, <3>2
  <2> HIDE DEF from
  <2>7. \A i, j \in 1..Len(s) : s[i] = s[j] => i = j
    BY InSequence
  <2>8. IsInjective(r)
    <3> SUFFICES ASSUME NEW i \in 1..Len(s)-1, NEW j \in 1..Len(s)-1, r[i] = r[j] PROVE i = j
      BY <2>5 DEF IsInjective
    <3>1. from(i) = from(j)
      BY <2>5, <2>7
    <3>2. ~(i < j) /\ ~(j < i)
      BY <2>5, <3>1
    <3> QED BY <3>2
  <2>9. ToSet(r) = ToSet(s) \ {e}
    <3>1. ToSet(r) = {r[i] : i \in 1..Len(s)-1} /\ ToSet(s) = {s[i] : i \in 1..Len(s)}
      BY <2>5 DEF ToSet
    <3>2. ASSUME NEW i \in 1..Len(s)-1
          PROVE  r[i] \in ToSet(s) /\ r[i] # e
      BY <2>1, <2>5, <3>1
    <3>3. ASSUME NEW i \in 1..Len(s), s[i] # e
          PROVE  s[i] \in ToSet(r)
      <4>1. PICK j \in 1..Len(s)-1 : from(j) = i
        BY <2>1, <2>6, <3>3
      <4> QED BY <2>5, <3>1, <4>1
    <3> QED BY <3>1, <3>2, <3>3
  <2>10. \A i, j \in DOMAIN r : i < j =>
           \E a, b \in DOMAIN s : a < b /\ r[i] = s[a] /\ r[j] = s[b]
    BY <2>5
  <2> QED BY <2>4, <2>8, <2>9, <2>10 DEF r
<1> QED BY <1>1, <1>2

LEMMA LengthIs ==
  ASSUME NEW S, NEW s \in Seq(S), IsInjective(s)
  PROVE  Cardinality(ToSet(s)) = Len(s)
<1>1. ToSet(s) = {s[i] : i \in 1..Len(s)} /\ \A i, j \in 1..Len(s) : s[i] = s[j] => i = j
  BY InSequence
<1>2. Len(s) \in Nat /\ DOMAIN s = 1..Len(s) /\ s = [i \in 1..Len(s) |-> s[i]]
  OBVIOUS
<1> DEFINE T == ToSet(s)
           n == Len(s)
<1>3. s \in [1..n -> T]
  BY <1>1, <1>2
<1>4. s \in Bijection(1..n, T)
  <2>1. \A t \in T : \E i \in 1..n : s[i] = t
    BY <1>1
  <2> HIDE DEF T
  <2> QED BY <1>2, <1>3, <2>1 DEF Bijection, Injection, Surjection
<1>5. ExistsBijection(1..n, T)
  BY <1>4 DEF ExistsBijection
<1> HIDE DEF T, n
<1>6. Cardinality(T) = n
  BY <1>2, <1>5, FS_CountingElements DEF n
<1> QED BY <1>6 DEF T, n

LEMMA TailIs ==
  ASSUME NEW S, NEW s \in Seq(S), s # <<>>
  PROVE  LET c == SubSeq(s, 2, Len(s))
         IN  c \in Seq(S) /\ Len(c) = Len(s) - 1 /\ \A j \in 1..Len(s)-1 : c[j] = s[j+1]
BY SMTT(20)

LEMMA RemovedNone ==
  ASSUME NEW S, NEW s \in Seq(S), NEW e, e \notin ToSet(s)
  PROVE  RemoveFirst(s, e) = s
BY InSequence DEF RemoveFirst

LEMMA RemovedHead ==
  ASSUME NEW S, NEW s \in Seq(S), s # <<>>
  PROVE  RemoveFirst(s, s[1]) = SubSeq(s, 2, Len(s))
<1> DEFINE e == s[1]
           I == {i \in 1..Len(s) : s[i] = e}
           at == SelectInSeq(s, LAMBDA v : v = e)
<1>1. 1 \in I /\ I \in SUBSET Nat /\ I # {}
  OBVIOUS
<1>2. at = Min(I)
  BY <1>1 DEF SelectInSeq
<1>3. at = 1
  <2>1. \A i \in I : i >= 1
    OBVIOUS
  <2>2. Min(I) \in I /\ \A y \in I : Min(I) <= y
    <3> HIDE DEF I
    <3> QED BY <1>1, MinIs
  <2>3. Min(I) <= 1 /\ Min(I) >= 1 /\ Min(I) \in Nat
    BY <1>1, <2>1, <2>2
  <2> QED BY <1>2, <2>3
<1>4. RemoveFirst(s, e) = RemoveAt(s, at)
  BY <1>1 DEF RemoveFirst
<1>5. RemoveAt(s, 1) = SubSeq(s, 2, Len(s))
  <2>1. SubSeq(s, 1, 0) = <<>> /\ SubSeq(s, 2, Len(s)) \in Seq(S)
    OBVIOUS
  <2> QED BY <2>1 DEF RemoveAt
<1> QED BY <1>3, <1>4, <1>5

LEMMA RemovedOnly ==
  ASSUME NEW S, NEW a \in S
  PROVE  RemoveFirst(<<a>>, a) = <<>>
<1> DEFINE s == <<a>>
<1>1. s \in Seq(S) /\ s # <<>> /\ s[1] = a /\ SubSeq(s, 2, Len(s)) = <<>>
  OBVIOUS
<1> HIDE DEF s
<1>2. RemoveFirst(s, s[1]) = SubSeq(s, 2, Len(s))
  BY <1>1, RemovedHead
<1> QED BY <1>1, <1>2 DEF s

LEMMA Pair ==
  ASSUME NEW S, NEW a \in S, NEW b \in S, a # b
  PROVE  <<a, b>> \in Seq(S) /\ IsInjective(<<a, b>>) /\ ToSet(<<a, b>>) = {a, b}
BY DEF IsInjective, ToSet

LEMMA AppendIs ==
  ASSUME NEW S, NEW s \in Seq(S), NEW e \in S
  PROVE  /\ Append(s, e) \in Seq(S) /\ Len(Append(s, e)) = Len(s) + 1
         /\ Append(s, e)[Len(s) + 1] = e
         /\ \A i \in 1..Len(s) : Append(s, e)[i] = s[i]
OBVIOUS

LEMMA AppendedTwo ==
  ASSUME NEW S, NEW a \in S, NEW b \in S
  PROVE  Append(<<a>>, b) = <<a, b>>
<1> DEFINE s == <<a>>
           r == Append(s, b)
           q == <<a, b>>
<1>1. s \in Seq(S) /\ Len(s) = 1 /\ s[1] = a
  OBVIOUS
<1> HIDE DEF s
<1>2. r \in Seq(S) /\ Len(r) = 2 /\ r[1] = a /\ r[2] = b
  <2>0. s \in Seq(S)
    BY <1>1
  <2>1. r \in Seq(S) /\ Len(r) = Len(s) + 1 /\ r[Len(s) + 1] = b
    BY <2>0, AppendIs
  <2>2. \A i \in 1..Len(s) : r[i] = s[i]
    BY <2>0, AppendIs
  <2>3. 1 \in 1..Len(s) /\ Len(s) + 1 = 2
    BY <1>1
  <2> HIDE DEF r
  <2> QED BY <1>1, <2>1, <2>2, <2>3
<1>3. q \in Seq(S) /\ Len(q) = 2 /\ q[1] = a /\ q[2] = b
  OBVIOUS
<1> HIDE DEF r, q
<1>4. r = q
  <2>1. \A i \in 1..2 : i = 1 \/ i = 2
    OBVIOUS
  <2>2. \A i \in 1..2 : r[i] = q[i]
    BY <1>2, <1>3, <2>1
  <2> QED BY <1>2, <1>3, <2>2
<1> QED BY <1>4 DEF r, q, s

LEMMA Two ==
  ASSUME NEW a, NEW b
  PROVE  <<a>> \o <<b>> = <<a, b>> /\ Len(<<a, b>>) = 2
<1> DEFINE T == {a, b}
           s == <<a>>
<1>1. s \in Seq(T) /\ a \in T /\ b \in T
  OBVIOUS
<1>2. Append(s, b) = <<a, b>>
  BY <1>1, AppendedTwo
<1>3. s \o <<b>> = <<a, b>>
  <2>1. Append(s, b) = s \o <<b>>
    <3> HIDE DEF s, T
    <3> QED BY <1>1
  <2> QED BY <1>2, <2>1
<1>4. Len(<<a, b>>) = 2
  OBVIOUS
<1> QED BY <1>3, <1>4

LEMMA RemovedSecond ==
  ASSUME NEW S, NEW a \in S, NEW b \in S, a # b
  PROVE  RemoveFirst(<<a, b>>, b) = <<a>>
<1> DEFINE s == <<a, b>>
           I == {i \in 1..Len(s) : s[i] = b}
           at == SelectInSeq(s, LAMBDA v : v = b)
<1>1. s \in Seq(S) /\ Len(s) = 2 /\ s[1] = a /\ s[2] = b
  OBVIOUS
<1> HIDE DEF s
<1>2. 2 \in I /\ I \in SUBSET Nat /\ I # {} /\ \A i \in I : i = 2
  BY <1>1
<1>3. at = Min(I)
  BY <1>2 DEF SelectInSeq
<1>4. at = 2
  <2>1. Min(I) \in I
    <3> HIDE DEF I
    <3> QED BY <1>2, MinIs
  <2> QED BY <1>2, <1>3, <2>1
<1>5. RemoveFirst(s, b) = RemoveAt(s, at)
  BY <1>2 DEF RemoveFirst
<1>6. RemoveAt(s, 2) = <<a>>
  <2> DEFINE f == SubSeq(s, 1, 2 - 1)
             g == SubSeq(s, 2 + 1, Len(s))
  <2>1. f \in Seq(S) /\ Len(f) = 1 /\ f[1] = a /\ g = <<>>
    BY <1>1
  <2>2. f = <<a>>
    <3> HIDE DEF f
    <3> QED BY <2>1
  <2>3. RemoveAt(s, 2) = f \o g
    BY DEF RemoveAt
  <2> HIDE DEF f, g
  <2> QED BY <2>1, <2>2, <2>3
<1> QED BY <1>4, <1>5, <1>6 DEF s

-------------------------------------------------------------------------------
(* A graph of n blocks in order.  The shapes of a block are those that its     *)
(* last instruction gives it.                                                  *)

Jumps(n, b) ==
  /\ b.op = "goto" /\ b.type = "1WAY"
  /\ \E t \in 0..n-1 : b.refs = <<t>> /\ b.succ = <<t>>
Branches(n, s, b) ==
  /\ b.op = "jcond" /\ b.type = "2WAY" /\ s + 1 \in 0..n-1
  /\ \E t \in 0..n-1 : t # s + 1 /\ b.refs = <<t>> /\ b.succ = <<s + 1, t>>
Switches(b) ==
  b.op = "jtbl" /\ b.type = "NWAY" /\ b.refs # <<>> /\ IsInjective(b.refs) /\ b.succ = b.refs
FallsThrough(n, s, b) ==
  b.op \in {"none", "insn", "call"} /\ b.type = "1WAY" /\ s + 1 \in 0..n-1 /\ b.succ = <<s + 1>>
Stops(b) ==
  b.op \in {"none", "insn", "call", "ret", "ijmp"} /\ b.type \in {"0WAY", "STOP"} /\ b.succ = <<>>

InShape(n, s, b) ==
  Jumps(n, b) \/ Branches(n, s, b) \/ Switches(b) \/ FallsThrough(n, s, b) \/ Stops(b)

(* The arrays as they are between any two statements of an edit.               *)
IsArray(n, m) ==
  /\ n \in Nat /\ n >= 2
  /\ m \in [0..n-1 -> Blocks(n)]
  /\ \A x \in 0..n-1 : IsInjective(m[x].pred)
IdsApart(n, m) ==
  /\ \A x \in 0..n-1 : m[x].id < n
  /\ \A x, y \in 0..n-1 : m[x].id = m[y].id => x = y

(* Each block is noted as a predecessor where F says.                          *)
Noted(n, m, F) == \A x, y \in 0..n-1 : y \in ToSet(m[x].pred) <=> x \in F[y]
Edges(n, m) == [y \in 0..n-1 |-> ToSet(m[y].succ)]

Sound(n, m) ==
  /\ IsArray(n, m)
  /\ IdsApart(n, m)
  /\ m[n-1].succ = <<>>
  /\ \A x \in 0..n-1 : InShape(n, x, m[x])
  /\ Noted(n, m, Edges(n, m))

(* All blocks but s are in order, and s is noted as a predecessor of N.        *)
Around(n, m, s, N) ==
  /\ IsArray(n, m)
  /\ IdsApart(n, m)
  /\ s \in 0..n-2 /\ m[n-1].succ = <<>>
  /\ \A x \in 0..n-1 : x # s => InShape(n, x, m[x])
  /\ N \subseteq 0..n-1
  /\ Noted(n, m, [Edges(n, m) EXCEPT ![s] = N])

SameTail(a, b) ==
  a.id = b.id /\ a.op = b.op /\ a.type = b.type /\ a.refs = b.refs /\ a.succ = b.succ
Beside(n, s, m, k) == \A x \in 0..n-1 : x # s => SameTail(m[x], k[x])

(* In the course of an edit of the block s of the array k, which is now m.     *)
Work(n, k, m, s, op, type, refs, succ, N) ==
  /\ Around(n, m, s, N)
  /\ Beside(n, s, m, k)
  /\ m[s].id = k[s].id /\ m[s].op = op /\ m[s].type = type
  /\ m[s].refs = refs /\ m[s].succ = succ

LEMMA BlockIs ==
  ASSUME NEW n, NEW m, IsArray(n, m), NEW x \in 0..n-1
  PROVE  /\ m[x] = [id |-> m[x].id, type |-> m[x].type, op |-> m[x].op, refs |-> m[x].refs,
                    succ |-> m[x].succ, pred |-> m[x].pred]
         /\ m[x].id \in Nat /\ m[x].type \in Types /\ m[x].op \in Opcodes
         /\ m[x].refs \in Seq(0..n-1) /\ m[x].succ \in Seq(0..n-1) /\ m[x].pred \in Seq(0..n-1)
<1>1. m[x] \in Blocks(n)
  BY DEF IsArray
<1> QED BY <1>1 DEF Blocks

(* Only the block's own fields change, its predecessors do not.                *)
LEMMA WorkSets ==
  ASSUME NEW n, NEW k, NEW m, NEW s, NEW op, NEW type, NEW refs, NEW succ, NEW N,
         Work(n, k, m, s, op, type, refs, succ, N),
         NEW op2 \in Opcodes, NEW type2 \in Types, NEW refs2 \in Seq(0..n-1),
         NEW succ2 \in Seq(0..n-1), NEW m2,
         m2 = [m EXCEPT ![s] = [id |-> m[s].id, type |-> type2, op |-> op2, refs |-> refs2,
                                succ |-> succ2, pred |-> m[s].pred]]
  PROVE  Work(n, k, m2, s, op2, type2, refs2, succ2, N)
<1>1. Around(n, m, s, N) /\ Beside(n, s, m, k) /\ m[s].id = k[s].id
  BY DEF Work
<1>2. /\ IsArray(n, m) /\ IdsApart(n, m) /\ s \in 0..n-2 /\ m[n-1].succ = <<>>
      /\ \A x \in 0..n-1 : x # s => InShape(n, x, m[x])
      /\ N \subseteq 0..n-1 /\ Noted(n, m, [Edges(n, m) EXCEPT ![s] = N])
  BY <1>1 DEF Around
<1>3. n \in Nat /\ n >= 2 /\ s \in 0..n-1 /\ n - 1 \in 0..n-1 /\ n - 1 # s /\ m \in [0..n-1 -> Blocks(n)]
  BY <1>2 DEF IsArray
<1> DEFINE b == [id |-> m[s].id, type |-> type2, op |-> op2, refs |-> refs2,
                 succ |-> succ2, pred |-> m[s].pred]
<1>4. b \in Blocks(n)
  BY <1>2, <1>3, BlockIs DEF Blocks
<1>5. b.id = m[s].id /\ b.type = type2 /\ b.op = op2 /\ b.refs = refs2 /\ b.succ = succ2 /\ b.pred = m[s].pred
  OBVIOUS
<1> HIDE DEF b
<1>6. m2 = [m EXCEPT ![s] = b]
  BY DEF b
<1>7. m2 \in [0..n-1 -> Blocks(n)] /\ m2[s] = b /\ \A x \in 0..n-1 : x # s => m2[x] = m[x]
  BY <1>3, <1>4, <1>6
<1>8. \A x \in 0..n-1 : m2[x].pred = m[x].pred /\ m2[x].id = m[x].id
  BY <1>5, <1>7
<1>9. IsArray(n, m2) /\ IdsApart(n, m2)
  BY <1>2, <1>3, <1>7, <1>8 DEF IsArray, IdsApart
<1>10. [Edges(n, m2) EXCEPT ![s] = N] = [Edges(n, m) EXCEPT ![s] = N]
  BY <1>3, <1>7 DEF Edges
<1>11. Noted(n, m2, [Edges(n, m2) EXCEPT ![s] = N])
  BY <1>2, <1>8, <1>10 DEF Noted
<1>12. Around(n, m2, s, N)
  BY <1>2, <1>3, <1>7, <1>9, <1>11 DEF Around
<1>13. Beside(n, s, m2, k)
  BY <1>1, <1>7 DEF Beside
<1> QED BY <1>1, <1>3, <1>5, <1>7, <1>12, <1>13 DEF Work

LEMMA ShapeStays ==
  ASSUME NEW n, NEW x, NEW a, NEW b, SameTail(a, b), InShape(n, x, b)
  PROVE  InShape(n, x, a)
BY DEF SameTail, InShape, Jumps, Branches, Switches, FallsThrough, Stops

(* Only the predecessors of one block change, and with them where s is noted.  *)
LEMMA WorkNotes ==
  ASSUME NEW n, NEW k, NEW m, NEW s, NEW op, NEW type, NEW refs, NEW succ, NEW N,
         Work(n, k, m, s, op, type, refs, succ, N),
         NEW t \in 0..n-1, NEW q \in Seq(0..n-1), IsInjective(q),
         NEW m2, m2 = [m EXCEPT ![t].pred = q],
         NEW N2 \in SUBSET (0..n-1),
         \A x \in 0..n-1 : x # t => (x \in N2 <=> x \in N),
         \A y \in 0..n-1 : y # s => (y \in ToSet(q) <=> y \in ToSet(m[t].pred)),
         s \in ToSet(q) <=> t \in N2
  PROVE  Work(n, k, m2, s, op, type, refs, succ, N2)
<1>1. /\ Around(n, m, s, N) /\ Beside(n, s, m, k) /\ m[s].id = k[s].id
      /\ m[s].op = op /\ m[s].type = type /\ m[s].refs = refs /\ m[s].succ = succ
  BY DEF Work
<1>2. /\ IsArray(n, m) /\ IdsApart(n, m) /\ s \in 0..n-2 /\ m[n-1].succ = <<>>
      /\ \A x \in 0..n-1 : x # s => InShape(n, x, m[x])
      /\ N \subseteq 0..n-1 /\ Noted(n, m, [Edges(n, m) EXCEPT ![s] = N])
  BY <1>1 DEF Around
<1>3. n \in Nat /\ n >= 2 /\ s \in 0..n-1 /\ n - 1 \in 0..n-1 /\ m \in [0..n-1 -> Blocks(n)]
  BY <1>2 DEF IsArray
<1> DEFINE b == [id |-> m[t].id, type |-> m[t].type, op |-> m[t].op, refs |-> m[t].refs,
                 succ |-> m[t].succ, pred |-> q]
<1>4. b \in Blocks(n)
  BY <1>2, <1>3, BlockIs DEF Blocks
<1>5. SameTail(b, m[t]) /\ b.pred = q
  BY DEF SameTail
<1>6. [m[t] EXCEPT !.pred = q] = b
  <2>1. m[t] = [id |-> m[t].id, type |-> m[t].type, op |-> m[t].op, refs |-> m[t].refs,
                succ |-> m[t].succ, pred |-> m[t].pred]
    <3>1. IsArray(n, m)
      BY <1>2
    <3> QED BY <3>1, BlockIs
  <2> QED BY <2>1
<1> HIDE DEF b
<1>7. m2 = [m EXCEPT ![t] = b]
  BY <1>6
<1>8. m2 \in [0..n-1 -> Blocks(n)] /\ m2[t] = b /\ \A x \in 0..n-1 : x # t => m2[x] = m[x]
  BY <1>3, <1>4, <1>7
<1>9. \A x \in 0..n-1 : SameTail(m2[x], m[x])
  BY <1>5, <1>8 DEF SameTail
<1>10. m2[t].pred = q /\ \A x \in 0..n-1 : x # t => m2[x].pred = m[x].pred
  BY <1>5, <1>8
<1>11. IsArray(n, m2)
  BY <1>2, <1>3, <1>8, <1>10 DEF IsArray
<1>12. IdsApart(n, m2)
  BY <1>2, <1>9 DEF IdsApart, SameTail
<1>13. \A x \in 0..n-1 : x # s => InShape(n, x, m2[x])
  BY <1>2, <1>9, ShapeStays
<1>14. Edges(n, m2) = Edges(n, m)
  BY <1>9 DEF Edges, SameTail
<1> DEFINE F == [Edges(n, m) EXCEPT ![s] = N]
           G == [Edges(n, m) EXCEPT ![s] = N2]
<1>15. F[s] = N /\ G[s] = N2 /\ \A y \in 0..n-1 : y # s => F[y] = G[y]
  BY <1>3 DEF Edges
<1>16. Noted(n, m, F)
  BY <1>2
<1> HIDE DEF F, G
<1>17. Noted(n, m2, G)
  <2> SUFFICES ASSUME NEW x \in 0..n-1, NEW y \in 0..n-1
               PROVE  y \in ToSet(m2[x].pred) <=> x \in G[y]
    BY DEF Noted
  <2>1. y \in ToSet(m[x].pred) <=> x \in F[y]
    BY <1>16 DEF Noted
  <2>2. CASE x # t
    BY <1>10, <1>15, <2>1, <2>2
  <2>3. CASE x = t /\ y # s
    BY <1>10, <1>15, <2>1, <2>3
  <2>4. CASE x = t /\ y = s
    BY <1>10, <1>15, <2>1, <2>4
  <2> QED BY <2>2, <2>3, <2>4
<1>18. Around(n, m2, s, N2)
  <2>1. m2[n-1].succ = <<>>
    BY <1>2, <1>3, <1>9 DEF SameTail
  <2> QED BY <1>2, <1>11, <1>12, <1>13, <1>14, <1>17, <2>1 DEF Around, G
<1>19. Beside(n, s, m2, k)
  BY <1>1, <1>9 DEF Beside, SameTail
<1> QED BY <1>1, <1>3, <1>9, <1>18, <1>19 DEF Work, SameTail

LEMMA WorkDelPred ==
  ASSUME NEW n, NEW k, NEW m, NEW s, NEW op, NEW type, NEW refs, NEW succ, NEW N,
         Work(n, k, m, s, op, type, refs, succ, N), NEW t \in 0..n-1
  PROVE  Work(n, k, DelPred(m, t, s), s, op, type, refs, succ, N \ {t})
<1>1. IsArray(n, m) /\ N \subseteq 0..n-1 /\ Noted(n, m, [Edges(n, m) EXCEPT ![s] = N]) /\ s \in 0..n-2
  BY DEF Work, Around
<1>2. m[t].pred \in Seq(0..n-1) /\ IsInjective(m[t].pred) /\ n \in Nat /\ s \in 0..n-1
  <2>1. m[t].pred \in Seq(0..n-1)
    BY <1>1, BlockIs
  <2> QED BY <1>1, <2>1 DEF IsArray
<1> DEFINE q == RemoveFirst(m[t].pred, s)
<1>3. q \in Seq(0..n-1) /\ IsInjective(q) /\ ToSet(q) = ToSet(m[t].pred) \ {s}
  BY <1>2, Removed
<1>4. DelPred(m, t, s) = [m EXCEPT ![t].pred = q]
  BY DEF DelPred
<1> DEFINE m2 == DelPred(m, t, s)
           N2 == N \ {t}
<1>5. /\ N2 \in SUBSET (0..n-1) /\ \A x \in 0..n-1 : x # t => (x \in N2 <=> x \in N)
      /\ t \notin N2
  BY <1>1
<1> HIDE DEF q, m2, N2
<1>6. m2 = [m EXCEPT ![t].pred = q]
  BY <1>4 DEF m2
<1>7. /\ \A y \in 0..n-1 : y # s => (y \in ToSet(q) <=> y \in ToSet(m[t].pred))
      /\ s \in ToSet(q) <=> t \in N2
  BY <1>3, <1>5
<1>8. Work(n, k, m2, s, op, type, refs, succ, N2)
  BY <1>3, <1>5, <1>6, <1>7, WorkNotes
<1> QED BY <1>8 DEF m2, N2

LEMMA WorkAddPred ==
  ASSUME NEW n, NEW k, NEW m, NEW s, NEW op, NEW type, NEW refs, NEW succ, NEW N,
         Work(n, k, m, s, op, type, refs, succ, N), NEW t \in 0..n-1, t \notin N
  PROVE  Work(n, k, AddPred(m, t, s), s, op, type, refs, succ, N \cup {t})
<1>1. IsArray(n, m) /\ N \subseteq 0..n-1 /\ Noted(n, m, [Edges(n, m) EXCEPT ![s] = N]) /\ s \in 0..n-2
  BY DEF Work, Around
<1>2. m[t].pred \in Seq(0..n-1) /\ IsInjective(m[t].pred) /\ n \in Nat /\ s \in 0..n-1 /\ t \in DOMAIN m
  <2>1. m[t].pred \in Seq(0..n-1)
    BY <1>1, BlockIs
  <2> QED BY <1>1, <2>1 DEF IsArray
<1>3. s \notin ToSet(m[t].pred)
  <2>1. [Edges(n, m) EXCEPT ![s] = N][s] = N
    BY <1>2 DEF Edges
  <2> QED BY <1>1, <1>2, <2>1 DEF Noted
<1> DEFINE q == Append(m[t].pred, s)
<1>4. q \in Seq(0..n-1) /\ IsInjective(q) /\ ToSet(q) = ToSet(m[t].pred) \cup {s}
  BY <1>2, <1>3, Appended
<1>5. AddPred(m, t, s) = [m EXCEPT ![t].pred = q]
  BY <1>2 DEF AddPred, Missing
<1> DEFINE m2 == AddPred(m, t, s)
           N2 == N \cup {t}
<1>6. /\ N2 \in SUBSET (0..n-1) /\ \A x \in 0..n-1 : x # t => (x \in N2 <=> x \in N)
      /\ t \in N2 /\ s \in 0..n-1
  BY <1>1, <1>2
<1> HIDE DEF q, m2, N2
<1>7. m2 = [m EXCEPT ![t].pred = q]
  BY <1>5 DEF m2
<1>8. /\ \A y \in 0..n-1 : y # s => (y \in ToSet(q) <=> y \in ToSet(m[t].pred))
      /\ s \in ToSet(q) <=> t \in N2
  BY <1>4, <1>6
<1>9. Work(n, k, m2, s, op, type, refs, succ, N2)
  <2>1. q \in Seq(0..n-1) /\ IsInjective(q)
    BY <1>4
  <2>2. N2 \in SUBSET (0..n-1) /\ \A x \in 0..n-1 : x # t => (x \in N2 <=> x \in N)
    BY <1>6
  <2> QED BY <1>7, <1>8, <2>1, <2>2, WorkNotes
<1> QED BY <1>9 DEF m2, N2

(* The statements of the edits, one after the other.                           *)
LEMMA WorkBegins ==
  ASSUME NEW n, NEW m, NEW s \in 0..n-2, Sound(n, m)
  PROVE  Work(n, m, m, s, m[s].op, m[s].type, m[s].refs, m[s].succ, ToSet(m[s].succ))
<1>1. IsArray(n, m) /\ n \in Nat /\ n >= 2 /\ s \in 0..n-1
  BY DEF Sound, IsArray
<1>2. ToSet(m[s].succ) \subseteq 0..n-1
  <2>1. m[s].succ \in Seq(0..n-1)
    BY <1>1, BlockIs
  <2> QED BY <2>1, InSequence
<1>3. [Edges(n, m) EXCEPT ![s] = ToSet(m[s].succ)] = Edges(n, m)
  BY <1>1 DEF Edges
<1>4. Around(n, m, s, ToSet(m[s].succ))
  BY <1>1, <1>2, <1>3 DEF Sound, Around
<1> QED BY <1>4 DEF Work, Beside, SameTail

LEMMA WorkEnds ==
  ASSUME NEW n, NEW k, NEW m, NEW s, NEW op, NEW type, NEW refs, NEW succ,
         Work(n, k, m, s, op, type, refs, succ, ToSet(succ)), InShape(n, s, m[s])
  PROVE  Sound(n, m)
<1>1. /\ Around(n, m, s, ToSet(succ)) /\ m[s].succ = succ
  BY DEF Work
<1>2. [Edges(n, m) EXCEPT ![s] = ToSet(succ)] = Edges(n, m)
  BY <1>1 DEF Edges
<1> QED BY <1>1, <1>2 DEF Around, Sound

Record(id, op, type, refs, succ, pred) ==
  [id |-> id, type |-> type, op |-> op, refs |-> refs, succ |-> succ, pred |-> pred]

Typed(n, m, s, op, type, refs, succ) ==
  /\ n \in Nat /\ n >= 2 /\ s \in 0..n-1 /\ IsArray(n, m) /\ m \in [0..n-1 -> Blocks(n)]
  /\ op \in Opcodes /\ type \in Types /\ refs \in Seq(0..n-1) /\ succ \in Seq(0..n-1)
  /\ m[s] = Record(m[s].id, op, type, refs, succ, m[s].pred)

LEMMA WorkTyped ==
  ASSUME NEW n, NEW k, NEW m, NEW s, NEW op, NEW type, NEW refs, NEW succ, NEW N,
         Work(n, k, m, s, op, type, refs, succ, N)
  PROVE  Typed(n, m, s, op, type, refs, succ)
<1>1. /\ IsArray(n, m) /\ s \in 0..n-2
      /\ m[s].op = op /\ m[s].type = type /\ m[s].refs = refs /\ m[s].succ = succ
  BY DEF Work, Around
<1>2. n \in Nat /\ n >= 2 /\ s \in 0..n-1 /\ m \in [0..n-1 -> Blocks(n)]
  BY <1>1 DEF IsArray
<1>3. /\ m[s] = [id |-> m[s].id, type |-> m[s].type, op |-> m[s].op, refs |-> m[s].refs,
                 succ |-> m[s].succ, pred |-> m[s].pred]
      /\ m[s].id \in Nat /\ m[s].type \in Types /\ m[s].op \in Opcodes
      /\ m[s].refs \in Seq(0..n-1) /\ m[s].succ \in Seq(0..n-1) /\ m[s].pred \in Seq(0..n-1)
  BY <1>1, <1>2, BlockIs
<1> QED BY <1>1, <1>2, <1>3 DEF Typed, Record

LEMMA WorkOp ==
  ASSUME NEW n, NEW k, NEW m, NEW s, NEW op, NEW type, NEW refs, NEW succ, NEW N,
         Work(n, k, m, s, op, type, refs, succ, N), NEW o \in Opcodes
  PROVE  Work(n, k, [m EXCEPT ![s].op = o], s, o, type, refs, succ, N)
<1>1. /\ n \in Nat /\ s \in 0..n-1 /\ m \in [0..n-1 -> Blocks(n)] /\ succ \in Seq(0..n-1)
      /\ m[s] = Record(m[s].id, op, type, refs, succ, m[s].pred)
      /\ op \in Opcodes /\ type \in Types /\ refs \in Seq(0..n-1)
  <2>1. Typed(n, m, s, op, type, refs, succ)
    BY WorkTyped
  <2> QED BY <2>1 DEF Typed
<1> DEFINE b == Record(m[s].id, o, type, refs, succ, m[s].pred)
<1>2. [m[s] EXCEPT !.op = o] = b
  <2> DEFINE i == m[s].id
             p == m[s].pred
  <2>1. m[s] = Record(i, op, type, refs, succ, p)
    BY <1>1
  <2> HIDE DEF i, p
  <2>2. [Record(i, op, type, refs, succ, p) EXCEPT !.op = o] = Record(i, o, type, refs, succ, p)
    BY DEF Record
  <2> QED BY <2>1, <2>2 DEF b, i, p
<1> HIDE DEF b
<1>3. [m EXCEPT ![s].op = o] = [m EXCEPT ![s] = b]
  BY <1>1, <1>2
<1> QED BY <1>1, <1>3, WorkSets DEF b, Record

LEMMA WorkType ==
  ASSUME NEW n, NEW k, NEW m, NEW s, NEW op, NEW type, NEW refs, NEW succ, NEW N,
         Work(n, k, m, s, op, type, refs, succ, N), NEW y \in Types
  PROVE  Work(n, k, [m EXCEPT ![s].type = y], s, op, y, refs, succ, N)
<1>1. /\ n \in Nat /\ s \in 0..n-1 /\ m \in [0..n-1 -> Blocks(n)] /\ succ \in Seq(0..n-1)
      /\ m[s] = Record(m[s].id, op, type, refs, succ, m[s].pred)
      /\ op \in Opcodes /\ type \in Types /\ refs \in Seq(0..n-1)
  <2>1. Typed(n, m, s, op, type, refs, succ)
    BY WorkTyped
  <2> QED BY <2>1 DEF Typed
<1> DEFINE b == Record(m[s].id, op, y, refs, succ, m[s].pred)
<1>2. [m[s] EXCEPT !.type = y] = b
  <2> DEFINE i == m[s].id
             p == m[s].pred
  <2>1. m[s] = Record(i, op, type, refs, succ, p)
    BY <1>1
  <2> HIDE DEF i, p
  <2>2. [Record(i, op, type, refs, succ, p) EXCEPT !.type = y] = Record(i, op, y, refs, succ, p)
    BY DEF Record
  <2> QED BY <2>1, <2>2 DEF b, i, p
<1> HIDE DEF b
<1>3. [m EXCEPT ![s].type = y] = [m EXCEPT ![s] = b]
  BY <1>1, <1>2
<1> QED BY <1>1, <1>3, WorkSets DEF b, Record

LEMMA WorkRefs ==
  ASSUME NEW n, NEW k, NEW m, NEW s, NEW op, NEW type, NEW refs, NEW succ, NEW N,
         Work(n, k, m, s, op, type, refs, succ, N), NEW r \in Seq(0..n-1)
  PROVE  Work(n, k, [m EXCEPT ![s].refs = r], s, op, type, r, succ, N)
<1>1. /\ n \in Nat /\ s \in 0..n-1 /\ m \in [0..n-1 -> Blocks(n)] /\ succ \in Seq(0..n-1)
      /\ m[s] = Record(m[s].id, op, type, refs, succ, m[s].pred)
      /\ op \in Opcodes /\ type \in Types /\ refs \in Seq(0..n-1)
  <2>1. Typed(n, m, s, op, type, refs, succ)
    BY WorkTyped
  <2> QED BY <2>1 DEF Typed
<1> DEFINE b == Record(m[s].id, op, type, r, succ, m[s].pred)
<1>2. [m[s] EXCEPT !.refs = r] = b
  <2> DEFINE i == m[s].id
             p == m[s].pred
  <2>1. m[s] = Record(i, op, type, refs, succ, p)
    BY <1>1
  <2> HIDE DEF i, p
  <2>2. [Record(i, op, type, refs, succ, p) EXCEPT !.refs = r] = Record(i, op, type, r, succ, p)
    BY DEF Record
  <2> QED BY <2>1, <2>2 DEF b, i, p
<1> HIDE DEF b
<1>3. [m EXCEPT ![s].refs = r] = [m EXCEPT ![s] = b]
  BY <1>1, <1>2
<1> QED BY <1>1, <1>3, WorkSets DEF b, Record

LEMMA WorkSucc ==
  ASSUME NEW n, NEW k, NEW m, NEW s, NEW op, NEW type, NEW refs, NEW succ, NEW N,
         Work(n, k, m, s, op, type, refs, succ, N), NEW q \in Seq(0..n-1)
  PROVE  Work(n, k, [m EXCEPT ![s].succ = q], s, op, type, refs, q, N)
<1>1. /\ n \in Nat /\ s \in 0..n-1 /\ m \in [0..n-1 -> Blocks(n)] /\ succ \in Seq(0..n-1)
      /\ m[s] = Record(m[s].id, op, type, refs, succ, m[s].pred)
      /\ op \in Opcodes /\ type \in Types /\ refs \in Seq(0..n-1)
  <2>1. Typed(n, m, s, op, type, refs, succ)
    BY WorkTyped
  <2> QED BY <2>1 DEF Typed
<1> DEFINE b == Record(m[s].id, op, type, refs, q, m[s].pred)
<1>2. [m[s] EXCEPT !.succ = q] = b
  <2> DEFINE i == m[s].id
             p == m[s].pred
  <2>1. m[s] = Record(i, op, type, refs, succ, p)
    BY <1>1
  <2> HIDE DEF i, p
  <2>2. [Record(i, op, type, refs, succ, p) EXCEPT !.succ = q] = Record(i, op, type, refs, q, p)
    BY DEF Record
  <2> QED BY <2>1, <2>2 DEF b, i, p
<1> HIDE DEF b
<1>3. [m EXCEPT ![s].succ = q] = [m EXCEPT ![s] = b]
  BY <1>1, <1>2
<1> QED BY <1>1, <1>3, WorkSets DEF b, Record

LEMMA WorkMakeOneWay ==
  ASSUME NEW n, NEW k, NEW m, NEW s, NEW op, NEW type, NEW refs, NEW succ, NEW N,
         Work(n, k, m, s, op, type, refs, succ, N), NEW t \in 0..n-1
  PROVE  Work(n, k, MakeOneWay(m, s, t), s, "goto", "1WAY", <<t>>, succ, N)
<1> DEFINE a == [m EXCEPT ![s].op = "goto"]
           b == [a EXCEPT ![s].refs = <<t>>]
           c == [b EXCEPT ![s].type = "1WAY"]
<1>1. "goto" \in Opcodes /\ "1WAY" \in Types /\ <<t>> \in Seq(0..n-1)
  BY DEF Opcodes, Types
<1>2. Work(n, k, a, s, "goto", type, refs, succ, N)
  BY <1>1, WorkOp
<1>3. Work(n, k, b, s, "goto", type, <<t>>, succ, N)
  <2> HIDE DEF a
  <2> QED BY <1>1, <1>2, WorkRefs
<1>4. Work(n, k, c, s, "goto", "1WAY", <<t>>, succ, N)
  <2> HIDE DEF b
  <2> QED BY <1>1, <1>3, WorkType
<1>5. InsertGoto(m, s, t) = b
  BY DEF InsertGoto
<1> HIDE DEF b
<1>6. MakeOneWay(m, s, t) = c
  BY <1>5 DEF MakeOneWay
<1> QED BY <1>4, <1>6

LEMMA WorkDelSucc ==
  ASSUME NEW n, NEW k, NEW m, NEW s, NEW op, NEW type, NEW refs, NEW succ, NEW N,
         Work(n, k, m, s, op, type, refs, succ, N), NEW t,
         RemoveFirst(succ, t) \in Seq(0..n-1)
  PROVE  Work(n, k, DelSucc(m, s, t), s, op, type, refs, RemoveFirst(succ, t), N)
<1>1. m[s].succ = succ
  BY DEF Work
<1> DEFINE q == RemoveFirst(succ, t)
<1>2. DelSucc(m, s, t) = [m EXCEPT ![s].succ = q]
  BY <1>1 DEF DelSucc
<1> HIDE DEF q
<1>3. Work(n, k, [m EXCEPT ![s].succ = q], s, op, type, refs, q, N)
  BY WorkSucc DEF q
<1> QED BY <1>2, <1>3 DEF q

LEMMA WorkAddSucc ==
  ASSUME NEW n, NEW k, NEW m, NEW s, NEW op, NEW type, NEW refs, NEW succ, NEW N,
         Work(n, k, m, s, op, type, refs, succ, N), NEW t \in 0..n-1
  PROVE  Work(n, k, AddSucc(m, s, t), s, op, type, refs, Append(succ, t), N)
<1>1. m[s].succ = succ /\ succ \in Seq(0..n-1)
  <2>1. Typed(n, m, s, op, type, refs, succ)
    BY WorkTyped
  <2> QED BY <2>1 DEF Work, Typed
<1> DEFINE q == Append(succ, t)
<1>2. AddSucc(m, s, t) = [m EXCEPT ![s].succ = q] /\ q \in Seq(0..n-1)
  BY <1>1 DEF AddSucc
<1> HIDE DEF q
<1>3. Work(n, k, [m EXCEPT ![s].succ = q], s, op, type, refs, q, N)
  BY <1>2, WorkSucc
<1> QED BY <1>2, <1>3 DEF q

LEMMA WorkLink ==
  ASSUME NEW n, NEW k, NEW m, NEW s, NEW op, NEW type, NEW refs, NEW succ, NEW N,
         Work(n, k, m, s, op, type, refs, succ, N), NEW t \in 0..n-1, t \notin N
  PROVE  Work(n, k, Link(m, s, t), s, op, type, refs, Append(succ, t), N \cup {t})
<1> DEFINE m2 == AddSucc(m, s, t)
           q == Append(succ, t)
<1>1. Work(n, k, m2, s, op, type, refs, q, N)
  BY WorkAddSucc
<1> HIDE DEF m2, q
<1>2. Work(n, k, AddPred(m2, t, s), s, op, type, refs, q, N \cup {t})
  BY <1>1, WorkAddPred
<1> QED BY <1>2 DEF Link, m2, q

LEMMA WorkUnlink ==
  ASSUME NEW n, NEW k, NEW m, NEW s, NEW op, NEW type, NEW refs, NEW succ, NEW N,
         Work(n, k, m, s, op, type, refs, succ, N), NEW t \in 0..n-1,
         RemoveFirst(succ, t) \in Seq(0..n-1)
  PROVE  Work(n, k, Unlink(m, s, t), s, op, type, refs, RemoveFirst(succ, t), N \ {t})
<1> DEFINE m2 == DelSucc(m, s, t)
           q == RemoveFirst(succ, t)
<1>1. Work(n, k, m2, s, op, type, refs, q, N)
  BY WorkDelSucc
<1> HIDE DEF m2, q
<1>2. Work(n, k, DelPred(m2, t, s), s, op, type, refs, q, N \ {t})
  BY <1>1, WorkDelPred
<1> QED BY <1>2 DEF Unlink, m2, q

Unlinkings(m, s, q, left) ==
  left = [i \in 0..Len(q) |-> IF i = 0 THEN m ELSE Unlink(left[i-1], s, q[i])]

LEMMA UnlinkingsExist ==
  ASSUME NEW m, NEW s, Len(m[s].succ) \in Nat
  PROVE  \E left : /\ Unlinkings(m, s, m[s].succ, left)
                   /\ UnlinkAll(m, s) = left[Len(m[s].succ)]
<1> DEFINE q == m[s].succ
           Upto(k, g) == g = [i \in 0..k |-> IF i = 0 THEN m ELSE Unlink(g[i-1], s, q[i])]
           S == {k \in Nat : \E g : Upto(k, g)}
<1>1. 0 \in S
  <2>1. Upto(0, [i \in 0..0 |-> m])
    OBVIOUS
  <2> QED BY <2>1
<1>2. ASSUME NEW k \in Nat, k \in S
      PROVE  k + 1 \in S
  <2>1. PICK g : Upto(k, g)
    BY <1>2
  <2> DEFINE h == [i \in 0..k+1 |-> IF i = 0 THEN m ELSE Unlink(g[i-1], s, q[i])]
  <2>2. \A i \in 0..k : g[i] = h[i]
    BY <2>1
  <2>3. \A i \in 0..k+1 : i # 0 => i - 1 \in 0..k
    OBVIOUS
  <2>4. \A i \in 0..k+1 : h[i] = IF i = 0 THEN m ELSE Unlink(h[i-1], s, q[i])
    BY <2>2, <2>3
  <2>5. h = [i \in 0..k+1 |-> h[i]]
    OBVIOUS
  <2> HIDE DEF h
  <2>6. Upto(k + 1, h)
    BY <2>4, <2>5
  <2> QED BY <2>6
<1>3. Nat \subseteq S
  <2> HIDE DEF S
  <2> QED BY <1>1, <1>2, Induction
<1>4. \E left : Unlinkings(m, s, q, left)
  BY <1>3 DEF Unlinkings
<1>5. UnlinkAll(m, s) = (CHOOSE left : Unlinkings(m, s, q, left))[Len(q)]
  BY DEF UnlinkAll, Unlinkings
<1> QED BY <1>4, <1>5

LEMMA WorkUnlinkAll ==
  ASSUME NEW n, NEW k, NEW m, NEW s, NEW op, NEW type, NEW refs, NEW succ, NEW N,
         Work(n, k, m, s, op, type, refs, succ, N)
  PROVE  Work(n, k, UnlinkAll(m, s), s, op, type, refs, <<>>, N \ ToSet(succ))
<1>1. /\ n \in Nat /\ s \in 0..n-1 /\ succ \in Seq(0..n-1) /\ m[s].succ = succ
  <2>1. Typed(n, m, s, op, type, refs, succ)
    BY WorkTyped
  <2> QED BY <2>1 DEF Typed, Work
<1>2. PICK left : Unlinkings(m, s, succ, left) /\ UnlinkAll(m, s) = left[Len(succ)]
  <2>1. Len(m[s].succ) \in Nat
    BY <1>1
  <2> QED BY <1>1, <2>1, UnlinkingsExist
<1>3. /\ left[0] = m
      /\ \A i \in 0..Len(succ) : i + 1 <= Len(succ) => left[i+1] = Unlink(left[i], s, succ[i+1])
  <2>1. Len(succ) \in Nat /\ \A i \in 0..Len(succ) : i + 1 <= Len(succ) => i + 1 \in 0..Len(succ) /\ i + 1 # 0
    BY <1>1
  <2> QED BY <1>2, <2>1 DEF Unlinkings
<1> DEFINE cut(i) == {succ[j] : j \in 1..i}
           rest(i) == SubSeq(succ, i + 1, Len(succ))
           S == {i \in Nat : i <= Len(succ) =>
                   Work(n, k, left[i], s, op, type, refs, rest(i), N \ cut(i))}
<1>4. 0 \in S
  <2>1. rest(0) = succ /\ cut(0) = {}
    BY <1>1
  <2> HIDE DEF rest, cut
  <2>2. N \ cut(0) = N
    BY <2>1
  <2> QED BY <1>3, <2>1, <2>2
<1>5. ASSUME NEW i \in Nat, i \in S
      PROVE  i + 1 \in S
  <2> SUFFICES ASSUME i + 1 <= Len(succ)
               PROVE  Work(n, k, left[i+1], s, op, type, refs, rest(i+1), N \ cut(i+1))
    OBVIOUS
  <2>1. /\ rest(i) \in Seq(0..n-1) /\ rest(i) # <<>> /\ rest(i)[1] = succ[i+1]
        /\ SubSeq(rest(i), 2, Len(rest(i))) = rest(i+1) /\ rest(i+1) \in Seq(0..n-1)
    <3> DEFINE a == rest(i)
               b == rest(i+1)
               c == SubSeq(a, 2, Len(a))
    <3>1. /\ a \in Seq(0..n-1) /\ Len(a) = Len(succ) - i
          /\ \A j \in 1..Len(succ)-i : a[j] = succ[j + i]
      BY <1>1
    <3>2. /\ b \in Seq(0..n-1) /\ Len(b) = Len(succ) - i - 1
          /\ \A j \in 1..Len(succ)-i-1 : b[j] = succ[j + i + 1]
      BY <1>1
    <3> HIDE DEF a, b
    <3>3. a # <<>> /\ a[1] = succ[i+1]
      <4>1. 1 \in 1..Len(succ)-i /\ Len(a) # 0 /\ 1 + i = i + 1
        BY <1>1, <3>1
      <4> QED BY <3>1, <4>1
    <3>4. /\ c \in Seq(0..n-1) /\ Len(c) = Len(succ) - i - 1
          /\ \A j \in 1..Len(succ)-i-1 : c[j] = a[j + 1]
      <4>1. Len(a) - 1 = Len(succ) - i - 1
        BY <1>1, <3>1
      <4>2. /\ c \in Seq(0..n-1) /\ Len(c) = Len(a) - 1
            /\ \A j \in 1..Len(a)-1 : c[j] = a[j + 1]
        BY <3>1, <3>3, TailIs
      <4> QED BY <4>1, <4>2
    <3> HIDE DEF c
    <3>5. \A j \in 1..Len(succ)-i-1 : j + 1 \in 1..Len(succ)-i /\ (j + 1) + i = j + i + 1
      BY <1>1
    <3>6. \A j \in 1..Len(succ)-i-1 : c[j] = b[j]
      BY <3>1, <3>2, <3>4, <3>5
    <3>7. c = b
      BY <3>2, <3>4, <3>6
    <3> QED BY <3>1, <3>2, <3>3, <3>7 DEF a, b, c
  <2>2. succ[i+1] \in 0..n-1 /\ i <= Len(succ) /\ i \in 0..Len(succ)
    BY <1>1
  <2>3. (N \ cut(i)) \ {succ[i+1]} = N \ cut(i+1)
    <3>1. \A j \in 1..i+1 : j \in 1..i \/ j = i + 1
      OBVIOUS
    <3>2. \A j \in 1..i : j \in 1..i+1
      OBVIOUS
    <3>3. i + 1 \in 1..i+1
      OBVIOUS
    <3>4. cut(i+1) = cut(i) \cup {succ[i+1]}
      BY <3>1, <3>2, <3>3
    <3> HIDE DEF cut
    <3> QED BY <3>4
  <2>4. Work(n, k, left[i], s, op, type, refs, rest(i), N \ cut(i))
    BY <1>5, <2>2
  <2>5. left[i+1] = Unlink(left[i], s, succ[i+1])
    BY <1>3, <2>2
  <2> HIDE DEF rest, cut
  <2>6. RemoveFirst(rest(i), succ[i+1]) = rest(i+1)
    <3>1. RemoveFirst(rest(i), rest(i)[1]) = SubSeq(rest(i), 2, Len(rest(i)))
      BY <2>1, RemovedHead
    <3> QED BY <2>1, <3>1
  <2> DEFINE a == rest(i)
             e == succ[i+1]
             M == N \ cut(i)
  <2>7. Work(n, k, left[i], s, op, type, refs, a, M) /\ e \in 0..n-1 /\ RemoveFirst(a, e) \in Seq(0..n-1)
    BY <2>1, <2>2, <2>4, <2>6
  <2>8. Work(n, k, Unlink(left[i], s, e), s, op, type, refs, RemoveFirst(a, e), M \ {e})
    <3> HIDE DEF a, e, M
    <3> QED BY <2>7, WorkUnlink
  <2> QED BY <2>3, <2>5, <2>6, <2>8
<1>6. Nat \subseteq S
  <2> HIDE DEF S
  <2> QED BY <1>4, <1>5, Induction
<1>7. Len(succ) \in Nat /\ rest(Len(succ)) = <<>> /\ cut(Len(succ)) = ToSet(succ)
  BY <1>1, Elements
<1>8. Work(n, k, left[Len(succ)], s, op, type, refs, rest(Len(succ)), N \ cut(Len(succ)))
  <2>1. Len(succ) \in S /\ Len(succ) <= Len(succ)
    <3>1. Len(succ) \in Nat /\ Len(succ) <= Len(succ)
      BY <1>1
    <3> HIDE DEF S
    <3> QED BY <1>6, <3>1
  <2> HIDE DEF rest, cut
  <2> QED BY <2>1
<1> HIDE DEF rest, cut
<1> QED BY <1>2, <1>7, <1>8

-------------------------------------------------------------------------------
(* The edits of one block *)

(* An edit of the block s of k has led to m, and all blocks are in order.      *)
Done(n, k, m, s, op, type, refs, succ) ==
  /\ Sound(n, m)
  /\ Beside(n, s, m, k)
  /\ m[s].id = k[s].id /\ m[s].op = op /\ m[s].type = type
  /\ m[s].refs = refs /\ m[s].succ = succ

LEMMA WorkDone ==
  ASSUME NEW n, NEW k, NEW m, NEW s, NEW op, NEW type, NEW refs, NEW succ,
         Work(n, k, m, s, op, type, refs, succ, ToSet(succ)), InShape(n, s, m[s])
  PROVE  Done(n, k, m, s, op, type, refs, succ)
BY WorkEnds DEF Done, Work

LEMMA WorkJumps ==
  ASSUME NEW n, NEW k, NEW m, NEW s, NEW t \in 0..n-1,
         Work(n, k, m, s, "goto", "1WAY", <<t>>, <<t>>, {t})
  PROVE  Done(n, k, m, s, "goto", "1WAY", <<t>>, <<t>>)
<1>1. InShape(n, s, m[s])
  BY DEF Work, InShape, Jumps
<1>2. ToSet(<<t>>) = {t}
  BY DEF ToSet
<1> QED BY <1>1, <1>2, WorkDone

LEMMA WorkChange1Way ==
  ASSUME NEW n, NEW k, NEW m, NEW s, NEW op, NEW type, NEW refs, NEW old \in 0..n-1, NEW N,
         Work(n, k, m, s, op, type, refs, <<old>>, N), N \subseteq {old}, NEW t \in 0..n-1
  PROVE  Done(n, k, Change1Way(m, s, t), s, "goto", "1WAY", <<t>>, <<t>>)
<1> DEFINE a == MakeOneWay(m, s, t)
           b == Unlink(a, s, old)
<1>1. m[s].succ[1] = old
  BY DEF Work
<1>2. Work(n, k, a, s, "goto", "1WAY", <<t>>, <<old>>, N)
  BY WorkMakeOneWay
<1>3. RemoveFirst(<<old>>, old) = <<>> /\ <<>> \in Seq(0..n-1) /\ N \ {old} = {}
  BY RemovedOnly
<1>4. Work(n, k, b, s, "goto", "1WAY", <<t>>, <<>>, {})
  <2> HIDE DEF a
  <2>1. Work(n, k, b, s, "goto", "1WAY", <<t>>, RemoveFirst(<<old>>, old), N \ {old})
    BY <1>2, <1>3, WorkUnlink, ZenonT(40)
  <2> QED BY <1>3, <2>1
<1>5. Work(n, k, Link(b, s, t), s, "goto", "1WAY", <<t>>, <<t>>, {t})
  <2> HIDE DEF b
  <2>1. Append(<<>>, t) = <<t>> /\ {} \cup {t} = {t}
    OBVIOUS
  <2>2. Work(n, k, Link(b, s, t), s, "goto", "1WAY", <<t>>, Append(<<>>, t), {} \cup {t})
    BY <1>4, WorkLink
  <2> QED BY <2>1, <2>2
<1>6. Change1Way(m, s, t) = Link(b, s, t)
  BY <1>1 DEF Change1Way
<1> QED BY <1>5, <1>6, WorkJumps

LEMMA Single ==
  ASSUME NEW S, NEW q \in Seq(S), Len(q) = 1
  PROVE  q = <<q[1]>> /\ q[1] \in S /\ ToSet(q) = {q[1]}
BY SMTT(20) DEF ToSet

LEMMA Change1WayKeeps ==
  ASSUME NEW n, NEW m, Sound(n, m), NEW s \in 0..n-2, Nsucc(m, s) = 1, NEW t \in 0..n-1
  PROVE  Done(n, m, Change1Way(m, s, t), s, "goto", "1WAY", <<t>>, <<t>>)
<1> DEFINE old == m[s].succ[1]
<1>1. m[s].succ = <<old>> /\ old \in 0..n-1 /\ ToSet(m[s].succ) = {old}
  <2>1. IsArray(n, m) /\ s \in 0..n-1
    BY DEF Sound, IsArray
  <2>2. m[s].succ \in Seq(0..n-1)
    BY <2>1, BlockIs
  <2> QED BY <2>2, Single DEF Nsucc
<1>2. Work(n, m, m, s, m[s].op, m[s].type, m[s].refs, m[s].succ, ToSet(m[s].succ))
  BY WorkBegins
<1>3. Work(n, m, m, s, m[s].op, m[s].type, m[s].refs, <<old>>, {old})
  BY <1>1, <1>2
<1> HIDE DEF old
<1> QED BY <1>1, <1>3, WorkChange1Way

LEMMA WorkChange0Way ==
  ASSUME NEW n, NEW k, NEW m, NEW s, NEW op, NEW type, NEW refs,
         Work(n, k, m, s, op, type, refs, <<>>, {}), NEW t \in 0..n-1
  PROVE  Done(n, k, Change0Way(m, s, t), s, "goto", "1WAY", <<t>>, <<t>>)
<1> DEFINE a == MakeOneWay(m, s, t)
<1>1. Work(n, k, a, s, "goto", "1WAY", <<t>>, <<>>, {})
  BY WorkMakeOneWay
<1>2. Work(n, k, Link(a, s, t), s, "goto", "1WAY", <<t>>, <<t>>, {t})
  <2> HIDE DEF a
  <2>1. Append(<<>>, t) = <<t>> /\ {} \cup {t} = {t}
    OBVIOUS
  <2>2. Work(n, k, Link(a, s, t), s, "goto", "1WAY", <<t>>, Append(<<>>, t), {} \cup {t})
    BY <1>1, WorkLink
  <2> QED BY <2>1, <2>2
<1> QED BY <1>2, WorkJumps DEF Change0Way

LEMMA Change0WayKeeps ==
  ASSUME NEW n, NEW m, Sound(n, m), NEW s \in 0..n-2, Nsucc(m, s) = 0, NEW t \in 0..n-1
  PROVE  Done(n, m, Change0Way(m, s, t), s, "goto", "1WAY", <<t>>, <<t>>)
<1>1. m[s].succ = <<>> /\ ToSet(m[s].succ) = {}
  <2>1. IsArray(n, m) /\ s \in 0..n-1
    BY DEF Sound, IsArray
  <2>2. m[s].succ \in Seq(0..n-1)
    BY <2>1, BlockIs
  <2>3. m[s].succ = <<>>
    BY <2>2 DEF Nsucc
  <2> QED BY <2>3 DEF ToSet
<1>2. Work(n, m, m, s, m[s].op, m[s].type, m[s].refs, m[s].succ, ToSet(m[s].succ))
  BY WorkBegins
<1>3. Work(n, m, m, s, m[s].op, m[s].type, m[s].refs, <<>>, {})
  BY <1>1, <1>2
<1> QED BY <1>3, WorkChange0Way

(* A conditional jump to somewhere else than the block it falls into.          *)
LEMMA BranchIs ==
  ASSUME NEW n, NEW m, Sound(n, m), NEW s \in 0..n-1, m[s].op = "jcond"
  PROVE  /\ s + 1 \in 0..n-1 /\ m[s].type = "2WAY"
         /\ m[s].refs[1] \in 0..n-1 /\ m[s].refs[1] # s + 1
         /\ m[s].refs = <<m[s].refs[1]>> /\ m[s].succ = <<s + 1, m[s].refs[1]>>
<1>1. InShape(n, s, m[s])
  BY DEF Sound
<1>2. Branches(n, s, m[s])
  BY <1>1 DEF InShape, Jumps, Switches, FallsThrough, Stops
<1>3. PICK t \in 0..n-1 : t # s + 1 /\ m[s].refs = <<t>> /\ m[s].succ = <<s + 1, t>>
  BY <1>2 DEF Branches
<1>4. m[s].refs[1] = t
  BY <1>3
<1> QED BY <1>2, <1>3, <1>4 DEF Branches

LEMMA Change2WayKeeps ==
  ASSUME NEW n, NEW m, Sound(n, m), NEW s \in 0..n-2, m[s].op = "jcond",
         NEW t \in 0..n-1, t # s + 1
  PROVE  Done(n, m, Change2Way(m, s, t), s, "jcond", "2WAY", <<t>>, <<s + 1, t>>)
<1> DEFINE old == m[s].refs[1]
           a == [m EXCEPT ![s].refs = <<t>>]
           b == Unlink(a, s, old)
<1>1. n \in Nat /\ n >= 2 /\ s \in 0..n-1
  BY DEF Sound, IsArray
<1>2. /\ s + 1 \in 0..n-1 /\ m[s].type = "2WAY" /\ old \in 0..n-1 /\ old # s + 1
      /\ m[s].refs = <<old>> /\ m[s].succ = <<s + 1, old>>
  BY <1>1, BranchIs
<1>3. Change2Way(m, s, t) = Link(b, s, t)
  BY DEF Change2Way
<1> HIDE DEF old
<1>4. ToSet(m[s].succ) = {s + 1, old}
  BY <1>2, Pair
<1>5. Work(n, m, m, s, "jcond", "2WAY", <<old>>, <<s + 1, old>>, {s + 1, old})
  <2>1. Work(n, m, m, s, m[s].op, m[s].type, m[s].refs, m[s].succ, ToSet(m[s].succ))
    BY WorkBegins
  <2> QED BY <1>2, <1>4, <2>1
<1>6. Work(n, m, a, s, "jcond", "2WAY", <<t>>, <<s + 1, old>>, {s + 1, old})
  <2>1. <<t>> \in Seq(0..n-1)
    OBVIOUS
  <2> QED BY <1>5, <2>1, WorkRefs
<1>7. /\ RemoveFirst(<<s + 1, old>>, old) = <<s + 1>> /\ <<s + 1>> \in Seq(0..n-1)
      /\ {s + 1, old} \ {old} = {s + 1}
  <2>1. RemoveFirst(<<s + 1, old>>, old) = <<s + 1>>
    BY <1>2, RemovedSecond
  <2> QED BY <1>2, <2>1
<1>8. Work(n, m, b, s, "jcond", "2WAY", <<t>>, <<s + 1>>, {s + 1})
  <2> HIDE DEF a
  <2> DEFINE q == <<s + 1, old>>
             N == {s + 1, old}
  <2>1. Work(n, m, a, s, "jcond", "2WAY", <<t>>, q, N)
    BY <1>6
  <2>2. RemoveFirst(q, old) = <<s + 1>> /\ RemoveFirst(q, old) \in Seq(0..n-1) /\ N \ {old} = {s + 1}
    BY <1>7
  <2> HIDE DEF q, N
  <2>3. Work(n, m, b, s, "jcond", "2WAY", <<t>>, RemoveFirst(q, old), N \ {old})
    BY <1>2, <2>1, <2>2, WorkUnlink
  <2> QED BY <2>2, <2>3
<1>9. Work(n, m, Link(b, s, t), s, "jcond", "2WAY", <<t>>, <<s + 1, t>>, {s + 1, t})
  <2> HIDE DEF b
  <2>1. Append(<<s + 1>>, t) = <<s + 1, t>> /\ {s + 1} \cup {t} = {s + 1, t}
    BY <1>2, AppendedTwo
  <2>2. Work(n, m, Link(b, s, t), s, "jcond", "2WAY", <<t>>, Append(<<s + 1>>, t), {s + 1} \cup {t})
    BY <1>8, WorkLink
  <2> QED BY <2>1, <2>2
<1> DEFINE c == Link(b, s, t)
<1> HIDE DEF b, c
<1>10. InShape(n, s, c[s]) /\ ToSet(<<s + 1, t>>) = {s + 1, t}
  <2>1. Branches(n, s, c[s])
    BY <1>2, <1>9 DEF Work, Branches, c
  <2> QED BY <1>2, <2>1, Pair DEF InShape
<1>11. Done(n, m, c, s, "jcond", "2WAY", <<t>>, <<s + 1, t>>)
  BY <1>9, <1>10, WorkDone DEF c
<1> QED BY <1>3, <1>11 DEF c

LEMMA Make2WayGotoKeeps ==
  ASSUME NEW n, NEW m, Sound(n, m), NEW s \in 0..n-2, NEW t \in 0..n-1
  PROVE  Done(n, m, Make2WayGoto(m, s, t), s, "goto", "1WAY", <<t>>, <<t>>)
<1> DEFINE a == MakeOneWay(m, s, t)
           b == UnlinkAll(a, s)
           q == m[s].succ
           N == ToSet(q)
<1>1. Work(n, m, m, s, m[s].op, m[s].type, m[s].refs, q, N)
  BY WorkBegins
<1>2. Work(n, m, a, s, "goto", "1WAY", <<t>>, q, N)
  <2> HIDE DEF N, q
  <2> QED BY <1>1, WorkMakeOneWay
<1>3. Work(n, m, b, s, "goto", "1WAY", <<t>>, <<>>, {})
  <2>1. N \ ToSet(q) = {}
    OBVIOUS
  <2> HIDE DEF N, q, a
  <2>2. Work(n, m, b, s, "goto", "1WAY", <<t>>, <<>>, N \ ToSet(q))
    BY <1>2, WorkUnlinkAll
  <2> QED BY <2>1, <2>2
<1>4. Work(n, m, Link(b, s, t), s, "goto", "1WAY", <<t>>, <<t>>, {t})
  <2> HIDE DEF b
  <2>1. Append(<<>>, t) = <<t>> /\ {} \cup {t} = {t}
    OBVIOUS
  <2>2. Work(n, m, Link(b, s, t), s, "goto", "1WAY", <<t>>, Append(<<>>, t), {} \cup {t})
    BY <1>3, WorkLink
  <2> QED BY <2>1, <2>2
<1> QED BY <1>4, WorkJumps DEF Make2WayGoto

LEMMA WorkStops ==
  ASSUME NEW n, NEW k, NEW m, NEW s, NEW op, NEW type, NEW refs, NEW succ,
         Work(n, k, m, s, op, type, refs, <<>>, {}),
         op \in {"none", "insn", "call", "ret", "ijmp"}, type \in {"0WAY", "STOP"}
  PROVE  Done(n, k, m, s, op, type, refs, <<>>)
<1>1. InShape(n, s, m[s])
  BY DEF Work, InShape, Stops
<1>2. ToSet(<<>>) = {}
  BY DEF ToSet
<1> QED BY <1>1, <1>2, WorkDone

(* Control ends in s.                                                          *)
LEMMA WorkEndsFlow ==
  ASSUME NEW n, NEW k, NEW m, NEW s, NEW op, NEW type, NEW refs, NEW t \in 0..n-1,
         Work(n, k, m, s, op, type, refs, <<t>>, {t})
  PROVE  Done(n, k, Unlink([m EXCEPT ![s].op = "insn", ![s].refs = <<>>, ![s].type = "0WAY"], s, t),
              s, "insn", "0WAY", <<>>, <<>>)
<1> DEFINE a == [m EXCEPT ![s].op = "insn"]
           b == [a EXCEPT ![s].refs = <<>>]
           c == [b EXCEPT ![s].type = "0WAY"]
<1>1. "insn" \in Opcodes /\ "0WAY" \in Types /\ <<>> \in Seq(0..n-1)
  BY DEF Opcodes, Types
<1>2. Work(n, k, a, s, "insn", type, refs, <<t>>, {t})
  BY <1>1, WorkOp
<1>3. Work(n, k, b, s, "insn", type, <<>>, <<t>>, {t})
  <2> HIDE DEF a
  <2> QED BY <1>1, <1>2, WorkRefs
<1>4. Work(n, k, c, s, "insn", "0WAY", <<>>, <<t>>, {t})
  <2> HIDE DEF b
  <2> QED BY <1>1, <1>3, WorkType
<1>5. [m EXCEPT ![s].op = "insn", ![s].refs = <<>>, ![s].type = "0WAY"] = c
  OBVIOUS
<1> HIDE DEF c
<1>6. RemoveFirst(<<t>>, t) = <<>> /\ {t} \ {t} = {}
  BY RemovedOnly
<1>7. Work(n, k, Unlink(c, s, t), s, "insn", "0WAY", <<>>, <<>>, {})
  <2>1. Work(n, k, Unlink(c, s, t), s, "insn", "0WAY", <<>>, RemoveFirst(<<t>>, t), {t} \ {t})
    BY <1>1, <1>4, <1>6, WorkUnlink
  <2> QED BY <1>6, <2>1
<1>8. Done(n, k, Unlink(c, s, t), s, "insn", "0WAY", <<>>, <<>>)
  BY <1>7, WorkStops
<1> QED BY <1>5, <1>8

LEMMA JumpIs ==
  ASSUME NEW n, NEW m, Sound(n, m), NEW s \in 0..n-1, m[s].op = "goto"
  PROVE  /\ m[s].type = "1WAY" /\ m[s].refs[1] \in 0..n-1
         /\ m[s].refs = <<m[s].refs[1]>> /\ m[s].succ = <<m[s].refs[1]>>
         /\ m[s].succ[1] = m[s].refs[1] /\ Nsucc(m, s) = 1
<1>1. InShape(n, s, m[s])
  BY DEF Sound
<1>2. Jumps(n, m[s])
  BY <1>1 DEF InShape, Branches, Switches, FallsThrough, Stops
<1>3. PICK t \in 0..n-1 : m[s].refs = <<t>> /\ m[s].succ = <<t>>
  BY <1>2 DEF Jumps
<1>4. m[s].refs[1] = t /\ m[s].succ[1] = t /\ Len(m[s].succ) = 1
  BY <1>3
<1> QED BY <1>2, <1>3, <1>4 DEF Jumps, Nsucc

(* Without its edge to t, s ends, or goes where its other edge went.           *)
EdgeGone(n, m, s, t) ==
  \/ /\ Done(n, m, RemoveEdge(m, s, t), s, "insn", "0WAY", <<>>, <<>>)
     /\ ToSet(m[s].succ) = {t}
  \/ \E u \in 0..n-1 : /\ Done(n, m, RemoveEdge(m, s, t), s, "goto", "1WAY", <<u>>, <<u>>)
                       /\ ToSet(m[s].succ) = {t, u} /\ t # u

LEMMA RemoveEdgeKeeps ==
  ASSUME NEW n, NEW m, Sound(n, m), NEW s \in 0..n-2, m[s].op \in {"goto", "jcond"},
         NEW t \in 0..n-1, CanRemoveEdge(m, s, t)
  PROVE  EdgeGone(n, m, s, t)
<1>1. n \in Nat /\ n >= 2 /\ s \in 0..n-1
  BY DEF Sound, IsArray
<1>2. CASE m[s].op = "jcond"
  <2> DEFINE u == Remaining(m, s, t)
             old == m[s].refs[1]
  <2>1. /\ s + 1 \in 0..n-1 /\ old \in 0..n-1
        /\ m[s].succ = <<s + 1, old>>
    BY <1>1, <1>2, BranchIs
  <2>2. Nsucc(m, s) = 2 /\ m[s].succ[1] = s + 1 /\ m[s].succ[2] = old
    BY <2>1 DEF Nsucc
  <2>3. u \in 0..n-1
    BY <2>1, <2>2 DEF Remaining
  <2>4. RemoveEdge(m, s, t) = Make2WayGoto(m, s, u)
    BY <2>2 DEF RemoveEdge
  <2> HIDE DEF u
  <2>5. Done(n, m, Make2WayGoto(m, s, u), s, "goto", "1WAY", <<u>>, <<u>>)
    BY <2>3, Make2WayGotoKeeps
  <2>6. ToSet(m[s].succ) = {t, u} /\ t # u
    <3>1. ToSet(m[s].succ) = {s + 1, old} /\ old # s + 1
      BY <1>1, <1>2, <2>1, BranchIs, Pair
    <3>2. t \in ToSet(m[s].succ)
      <4>1. Nsucc(m, s) # 1
        BY <2>2
      <4> QED BY <4>1 DEF CanRemoveEdge
    <3>3. u = IF s + 1 # t THEN s + 1 ELSE old
      BY <2>2 DEF Remaining, u
    <3> QED BY <3>1, <3>2, <3>3
  <2> QED BY <2>3, <2>4, <2>5, <2>6 DEF EdgeGone
<1>3. CASE m[s].op = "goto"
  <2>1. Nsucc(m, s) = 1 /\ m[s].succ = <<t>>
    BY <1>1, <1>3, JumpIs DEF CanRemoveEdge
  <2>2. ToSet(<<t>>) = {t}
    BY DEF ToSet
  <2>3. Work(n, m, m, s, m[s].op, m[s].type, m[s].refs, <<t>>, {t})
    <3>1. Work(n, m, m, s, m[s].op, m[s].type, m[s].refs, m[s].succ, ToSet(m[s].succ))
      BY WorkBegins
    <3> QED BY <2>1, <2>2, <3>1
  <2> DEFINE o == m[s].op
             y == m[s].type
             r == m[s].refs
             c == Unlink([m EXCEPT ![s].op = "insn", ![s].refs = <<>>, ![s].type = "0WAY"], s, t)
  <2>4. RemoveEdge(m, s, t) = c
    BY <1>3, <2>1 DEF RemoveEdge
  <2>5. Work(n, m, m, s, o, y, r, <<t>>, {t})
    BY <2>3
  <2> HIDE DEF o, y, r
  <2>6. Done(n, m, c, s, "insn", "0WAY", <<>>, <<>>)
    BY <2>5, WorkEndsFlow
  <2> QED BY <2>1, <2>2, <2>4, <2>6 DEF EdgeGone
<1> QED BY <1>2, <1>3

(* The predecessors of several blocks change at once.                          *)
Noting(n, m, q) == [x \in 0..n-1 |-> [m[x] EXCEPT !.pred = q[x]]]
Notes(n, m, s, q, N) ==
  /\ q \in [0..n-1 -> Seq(0..n-1)]
  /\ \A x \in 0..n-1 : IsInjective(q[x])
  /\ \A x, y \in 0..n-1 : y # s => (y \in ToSet(q[x]) <=> y \in ToSet(m[x].pred))
  /\ \A x \in 0..n-1 : s \in ToSet(q[x]) <=> x \in N

LEMMA WorkNotesAll ==
  ASSUME NEW n, NEW k, NEW m, NEW s, NEW op, NEW type, NEW refs, NEW succ, NEW N,
         Work(n, k, m, s, op, type, refs, succ, N),
         NEW N2 \in SUBSET (0..n-1), NEW q, Notes(n, m, s, q, N2)
  PROVE  Work(n, k, Noting(n, m, q), s, op, type, refs, succ, N2)
<1> DEFINE m2 == Noting(n, m, q)
<1>0. /\ q \in [0..n-1 -> Seq(0..n-1)]
      /\ \A x \in 0..n-1 : IsInjective(q[x])
      /\ \A x, y \in 0..n-1 : y # s => (y \in ToSet(q[x]) <=> y \in ToSet(m[x].pred))
      /\ \A x \in 0..n-1 : s \in ToSet(q[x]) <=> x \in N2
  BY DEF Notes
<1>1. /\ Around(n, m, s, N) /\ Beside(n, s, m, k) /\ m[s].id = k[s].id
      /\ m[s].op = op /\ m[s].type = type /\ m[s].refs = refs /\ m[s].succ = succ
  BY DEF Work
<1>2. /\ IsArray(n, m) /\ IdsApart(n, m) /\ s \in 0..n-2 /\ m[n-1].succ = <<>>
      /\ \A x \in 0..n-1 : x # s => InShape(n, x, m[x])
      /\ N \subseteq 0..n-1 /\ Noted(n, m, [Edges(n, m) EXCEPT ![s] = N])
  BY <1>1 DEF Around
<1>3. n \in Nat /\ n >= 2 /\ s \in 0..n-1 /\ n - 1 \in 0..n-1 /\ m \in [0..n-1 -> Blocks(n)]
  BY <1>2 DEF IsArray
<1>4. ASSUME NEW x \in 0..n-1
      PROVE  m2[x] \in Blocks(n) /\ SameTail(m2[x], m[x]) /\ m2[x].pred = q[x]
  <2> DEFINE a == [id |-> m[x].id, type |-> m[x].type, op |-> m[x].op, refs |-> m[x].refs,
                   succ |-> m[x].succ, pred |-> m[x].pred]
             b == [id |-> m[x].id, type |-> m[x].type, op |-> m[x].op, refs |-> m[x].refs,
                   succ |-> m[x].succ, pred |-> q[x]]
  <2>1. m[x] = a
    BY <1>2, BlockIs
  <2>2. [a EXCEPT !.pred = q[x]] = b
    OBVIOUS
  <2>3. b \in Blocks(n)
    BY <1>0, <1>2, BlockIs DEF Blocks
  <2>4. SameTail(b, m[x]) /\ b.pred = q[x]
    BY DEF SameTail
  <2> HIDE DEF a, b
  <2>5. m2[x] = b
    BY <2>1, <2>2 DEF Noting
  <2> QED BY <2>3, <2>4, <2>5
<1>5. m2 = [x \in 0..n-1 |-> m2[x]]
  BY DEF Noting
<1> HIDE DEF m2
<1>6. m2 \in [0..n-1 -> Blocks(n)]
  BY <1>4, <1>5
<1>7. \A x \in 0..n-1 : SameTail(m2[x], m[x])
  BY <1>4
<1>8. \A x \in 0..n-1 : m2[x].pred = q[x]
  BY <1>4
<1>9. IsArray(n, m2)
  BY <1>0, <1>3, <1>6, <1>8 DEF IsArray
<1>10. IdsApart(n, m2)
  BY <1>2, <1>7 DEF IdsApart, SameTail
<1>11. \A x \in 0..n-1 : x # s => InShape(n, x, m2[x])
  BY <1>2, <1>7, ShapeStays
<1>12. Edges(n, m2) = Edges(n, m)
  BY <1>7 DEF Edges, SameTail
<1> DEFINE F == [Edges(n, m) EXCEPT ![s] = N]
           G == [Edges(n, m) EXCEPT ![s] = N2]
<1>13. F[s] = N /\ G[s] = N2 /\ \A y \in 0..n-1 : y # s => F[y] = G[y]
  BY <1>3 DEF Edges
<1>14. Noted(n, m, F)
  BY <1>2
<1> HIDE DEF F, G
<1>15. Noted(n, m2, G)
  <2> SUFFICES ASSUME NEW x \in 0..n-1, NEW y \in 0..n-1
               PROVE  y \in ToSet(m2[x].pred) <=> x \in G[y]
    BY DEF Noted
  <2>1. y \in ToSet(m[x].pred) <=> x \in F[y]
    BY <1>14 DEF Noted
  <2>2. CASE y # s
    BY <1>0, <1>8, <1>13, <2>1, <2>2
  <2>3. CASE y = s
    BY <1>0, <1>8, <1>13, <2>3
  <2> QED BY <2>2, <2>3
<1>16. Around(n, m2, s, N2)
  <2>1. m2[n-1].succ = <<>>
    BY <1>2, <1>3, <1>7 DEF SameTail
  <2> QED BY <1>2, <1>9, <1>10, <1>11, <1>12, <1>15, <2>1 DEF Around, G
<1>17. Beside(n, s, m2, k)
  BY <1>1, <1>7 DEF Beside, SameTail
<1>18. Work(n, k, m2, s, op, type, refs, succ, N2)
  BY <1>1, <1>3, <1>7, <1>16, <1>17 DEF Work, SameTail
<1> QED BY <1>18 DEF m2

-------------------------------------------------------------------------------
(* A new block: the copy stands where the exit was, and the exit moves.        *)

Moved(n, q) == [i \in DOMAIN q |-> IF q[i] = n - 1 THEN n ELSE q[i]]

(* The block does not go on to the one behind it.                              *)
NoFall(b) == b.op \in {"goto", "ijmp", "ret"} \/ b.type \in {"0WAY", "STOP"}

LEMMA MovedIs ==
  ASSUME NEW n \in Nat, n >= 2, NEW q \in Seq(0..n-1)
  PROVE  /\ Moved(n, q) \in Seq(0..n) /\ Len(Moved(n, q)) = Len(q)
         /\ \A y \in 0..n-2 : y \in ToSet(Moved(n, q)) <=> y \in ToSet(q)
         /\ n - 1 \notin ToSet(Moved(n, q))
         /\ n \in ToSet(Moved(n, q)) <=> n - 1 \in ToSet(q)
         /\ IsInjective(q) => IsInjective(Moved(n, q))
<1> DEFINE r == Moved(n, q)
<1>1. /\ r \in Seq(0..n) /\ Len(r) = Len(q) /\ DOMAIN q = 1..Len(q)
      /\ \A i \in 1..Len(q) : q[i] \in 0..n-1 /\ r[i] = IF q[i] = n - 1 THEN n ELSE q[i]
  <2>1. DOMAIN q = 1..Len(q) /\ Len(q) \in Nat /\ \A i \in 1..Len(q) : q[i] \in 0..n-1
    OBVIOUS
  <2>2. r = [i \in 1..Len(q) |-> IF q[i] = n - 1 THEN n ELSE q[i]]
    BY <2>1 DEF Moved
  <2>3. \A i \in 1..Len(q) : (IF q[i] = n - 1 THEN n ELSE q[i]) \in 0..n
    BY <2>1
  <2> HIDE DEF r
  <2>4. r \in Seq(0..n) /\ Len(r) = Len(q)
    BY <2>1, <2>2, <2>3
  <2> QED BY <2>1, <2>2, <2>4
<1> HIDE DEF r
<1>2. ToSet(r) = {r[i] : i \in 1..Len(q)} /\ ToSet(q) = {q[i] : i \in 1..Len(q)}
  BY <1>1, Elements
<1>3. \A y \in 0..n-2 : y # n /\ y # n - 1
  OBVIOUS
<1>4. \A y \in 0..n-2 : y \in ToSet(r) <=> y \in ToSet(q)
  BY <1>1, <1>2, <1>3
<1>5. \A i \in 1..Len(q) : r[i] # n - 1 /\ (r[i] = n <=> q[i] = n - 1)
  BY <1>1
<1>6. n - 1 \notin ToSet(r)
  BY <1>2, <1>5
<1>7. n \in ToSet(r) <=> n - 1 \in ToSet(q)
  BY <1>2, <1>5
<1>8. IsInjective(q) => IsInjective(r)
  <2>1. ASSUME NEW i \in 1..Len(q), NEW j \in 1..Len(q), r[i] = r[j] PROVE q[i] = q[j]
    <3>1. q[i] # n /\ q[j] # n /\ r[i] = (IF q[i] = n - 1 THEN n ELSE q[i])
          /\ r[j] = (IF q[j] = n - 1 THEN n ELSE q[j])
      BY <1>1
    <3> QED BY <2>1, <3>1
  <2> QED BY <1>1, <2>1, InSequence, SMTT(20)
<1> QED BY <1>1, <1>4, <1>6, <1>7, <1>8 DEF r

LEMMA SizeIs ==
  ASSUME NEW n, NEW m, IsArray(n, m)
  PROVE  Qty(m) = n /\ ExitSerial(m) = n - 1 /\ DOMAIN m = 0..n-1
<1>1. n \in Nat /\ n >= 2 /\ DOMAIN m = 0..n-1
  BY DEF IsArray
<1>2. Cardinality(0..n-1) = n
  <2>1. Cardinality(0..n-1) = IF 0 > n-1 THEN 0 ELSE (n-1) - 0 + 1
    BY <1>1, FS_Interval
  <2> QED BY <1>1, <2>1
<1> QED BY <1>1, <1>2 DEF Qty, ExitSerial

Shifted(n, b, id) ==
  Record(id, b.op, b.type, Moved(n, b.refs), Moved(n, b.succ), Moved(n, b.pred))

LEMMA CopyIs ==
  ASSUME NEW n, NEW m, Sound(n, m), NEW s \in 0..n-2
  PROVE  CopyBlock(m, s) = [i \in 0..n |->
            CASE i < n - 1 -> Shifted(n, m[i], m[i].id)
              [] i = n - 1 -> Shifted(n, m[s], n)
              [] OTHER -> Shifted(n, m[n-1], m[n-1].id)]
<1>1. IsArray(n, m) /\ n \in Nat /\ n >= 2 /\ s \in 0..n-1 /\ n - 1 \in 0..n-1
  BY DEF Sound, IsArray
<1>2. Qty(m) = n /\ ExitSerial(m) = n - 1 /\ (n - 1) + 1 = n
  BY <1>1, SizeIs
<1> DEFINE After(q) == [i \in DOMAIN q |-> IF q[i] = n - 1 THEN (n - 1) + 1 ELSE q[i]]
           Renumbered(b) == [b EXCEPT !.refs = After(@), !.succ = After(@), !.pred = After(@)]
<1>3. \A x \in 0..n-1 : Renumbered(m[x]) = Shifted(n, m[x], m[x].id)
  <2> SUFFICES ASSUME NEW x \in 0..n-1 PROVE Renumbered(m[x]) = Shifted(n, m[x], m[x].id)
    OBVIOUS
  <2> DEFINE i == m[x].id
             o == m[x].op
             y == m[x].type
             r == m[x].refs
             q == m[x].succ
             p == m[x].pred
             b == [id |-> i, type |-> y, op |-> o, refs |-> r, succ |-> q, pred |-> p]
  <2>1. m[x] = b
    BY <1>1, BlockIs
  <2>2. After(r) = Moved(n, r) /\ After(q) = Moved(n, q) /\ After(p) = Moved(n, p)
    BY <1>2 DEF Moved
  <2>3. Shifted(n, m[x], m[x].id) = [id |-> i, type |-> y, op |-> o, refs |-> Moved(n, r),
                                     succ |-> Moved(n, q), pred |-> Moved(n, p)]
    BY DEF Shifted, Record
  <2> HIDE DEF i, o, y, r, q, p
  <2>4. b.refs = r /\ b.succ = q /\ b.pred = p
    OBVIOUS
  <2>5. Renumbered(b) = [id |-> i, type |-> y, op |-> o, refs |-> After(r),
                         succ |-> After(q), pred |-> After(p)]
    <3> DEFINE b1 == [b EXCEPT !.refs = After(r)]
               b2 == [b1 EXCEPT !.succ = After(q)]
               b3 == [b2 EXCEPT !.pred = After(p)]
    <3> HIDE DEF After
    <3>1. b1 = [id |-> i, type |-> y, op |-> o, refs |-> After(r), succ |-> q, pred |-> p]
      OBVIOUS
    <3>2. b2 = [id |-> i, type |-> y, op |-> o, refs |-> After(r), succ |-> After(q), pred |-> p]
      <4> HIDE DEF b1
      <4> QED BY <3>1
    <3>3. b3 = [id |-> i, type |-> y, op |-> o, refs |-> After(r), succ |-> After(q), pred |-> After(p)]
      <4> HIDE DEF b2
      <4> QED BY <3>2
    <3>4. Renumbered(b) = b3
      OBVIOUS
    <3> QED BY <3>3, <3>4
  <2> HIDE DEF b, After, Renumbered
  <2> QED BY <2>1, <2>2, <2>3, <2>5
<1>4. [Renumbered(m[s]) EXCEPT !.id = n] = Shifted(n, m[s], n)
  <2>1. [Shifted(n, m[s], m[s].id) EXCEPT !.id = n] = Shifted(n, m[s], n)
    BY DEF Shifted, Record
  <2>2. Renumbered(m[s]) = Shifted(n, m[s], m[s].id)
    BY <1>1, <1>3
  <2> HIDE DEF Renumbered
  <2> QED BY <2>1, <2>2
<1>5. CopyBlock(m, s) = [i \in 0..n |->
         CASE i < n - 1 -> Renumbered(m[i])
           [] i = n - 1 -> [Renumbered(m[s]) EXCEPT !.id = n]
           [] OTHER -> Renumbered(m[n-1])]
  BY <1>2 DEF CopyBlock
<1>6. \A i \in 0..n : i < n - 1 => i \in 0..n-1
  BY <1>1
<1> HIDE DEF After, Renumbered
<1> QED BY <1>1, <1>3, <1>4, <1>5, <1>6

(* The copy without predecessors, before the first edit of it.                 *)
Copied(n, m, s) ==
  [i \in 0..n |->
     CASE i < n - 1 -> Shifted(n, m[i], m[i].id)
       [] i = n - 1 -> Record(n, m[s].op, m[s].type, Moved(n, m[s].refs), Moved(n, m[s].succ), <<>>)
       [] OTHER -> Shifted(n, m[n-1], m[n-1].id)]

LEMMA CopiedIs ==
  ASSUME NEW n, NEW m, Sound(n, m), NEW s \in 0..n-2
  PROVE  [CopyBlock(m, s) EXCEPT ![n-1].pred = <<>>] = Copied(n, m, s)
<1>1. n \in Nat /\ n >= 2
  BY DEF Sound, IsArray
<1> DEFINE c == CopyBlock(m, s)
<1>2. c = [i \in 0..n |->
            CASE i < n - 1 -> Shifted(n, m[i], m[i].id)
              [] i = n - 1 -> Shifted(n, m[s], n)
              [] OTHER -> Shifted(n, m[n-1], m[n-1].id)]
  BY CopyIs
<1> HIDE DEF c
<1>3. n - 1 \in 0..n /\ ~(n - 1 < n - 1)
  BY <1>1
<1>4. c[n-1] = Shifted(n, m[s], n)
  BY <1>2, <1>3
<1>5. [c[n-1] EXCEPT !.pred = <<>>] =
        Record(n, m[s].op, m[s].type, Moved(n, m[s].refs), Moved(n, m[s].succ), <<>>)
  <2>1. [Shifted(n, m[s], n) EXCEPT !.pred = <<>>] =
          Record(n, m[s].op, m[s].type, Moved(n, m[s].refs), Moved(n, m[s].succ), <<>>)
    BY DEF Shifted, Record
  <2> QED BY <1>4, <2>1
<1>6. [c EXCEPT ![n-1].pred = <<>>] =
        [i \in 0..n |-> IF i = n - 1 THEN [c[n-1] EXCEPT !.pred = <<>>] ELSE c[i]]
  <2> DEFINE z == [c[n-1] EXCEPT !.pred = <<>>]
  <2>1. DOMAIN c = 0..n /\ c = [i \in 0..n |-> c[i]]
    BY <1>2
  <2>2. [c EXCEPT ![n-1].pred = <<>>] = [c EXCEPT ![n-1] = z]
    OBVIOUS
  <2> HIDE DEF z
  <2>3. [c EXCEPT ![n-1] = z] = [i \in 0..n |-> IF i = n - 1 THEN z ELSE c[i]]
    BY <2>1
  <2> QED BY <2>2, <2>3 DEF z
<1> DEFINE b == Record(n, m[s].op, m[s].type, Moved(n, m[s].refs), Moved(n, m[s].succ), <<>>)
<1>7. [c EXCEPT ![n-1].pred = <<>>] = [i \in 0..n |-> IF i = n - 1 THEN b ELSE c[i]]
  BY <1>5, <1>6
<1>8. \A i \in 0..n : i # n - 1 => c[i] = CASE i < n - 1 -> Shifted(n, m[i], m[i].id)
                                           [] i = n - 1 -> b
                                           [] OTHER -> Shifted(n, m[n-1], m[n-1].id)
  <2> HIDE DEF b
  <2> QED BY <1>2
<1> HIDE DEF b
<1>9. \A i \in 0..n : (IF i = n - 1 THEN b ELSE c[i]) =
                         CASE i < n - 1 -> Shifted(n, m[i], m[i].id)
                           [] i = n - 1 -> b
                           [] OTHER -> Shifted(n, m[n-1], m[n-1].id)
  BY <1>8, <1>3
<1>10. Copied(n, m, s) = [i \in 0..n |-> CASE i < n - 1 -> Shifted(n, m[i], m[i].id)
                                           [] i = n - 1 -> b
                                           [] OTHER -> Shifted(n, m[n-1], m[n-1].id)]
  BY DEF Copied, b
<1> QED BY <1>7, <1>9, <1>10 DEF c

LEMMA MovedOne ==
  ASSUME NEW n \in Nat, n >= 2, NEW t \in 0..n-1
  PROVE  \E u \in 0..n : /\ Moved(n, <<t>>) = <<u>>
                         /\ u = (IF t = n - 1 THEN n ELSE t)
<1> DEFINE u == IF t = n - 1 THEN n ELSE t
<1>1. u \in 0..n
  OBVIOUS
<1>2. DOMAIN <<t>> = 1..1 /\ <<t>>[1] = t
  OBVIOUS
<1>3. Moved(n, <<t>>) = [i \in 1..1 |-> u]
  BY <1>2 DEF Moved
<1> HIDE DEF u
<1>4. [i \in 1..1 |-> u] = <<u>>
  OBVIOUS
<1> QED BY <1>1, <1>3, <1>4 DEF u

LEMMA MovedTwo ==
  ASSUME NEW n \in Nat, n >= 2, NEW a \in 0..n-2, NEW t \in 0..n-1
  PROVE  \E u \in 0..n : /\ Moved(n, <<a, t>>) = <<a, u>>
                         /\ u = (IF t = n - 1 THEN n ELSE t)
<1> DEFINE u == IF t = n - 1 THEN n ELSE t
           q == <<a, t>>
           r == <<a, u>>
<1>1. u \in 0..n /\ a # n - 1
  OBVIOUS
<1>2. DOMAIN q = 1..2 /\ q[1] = a /\ q[2] = t
  OBVIOUS
<1>3. DOMAIN r = 1..2 /\ r[1] = a /\ r[2] = u /\ r = [i \in 1..2 |-> r[i]]
  OBVIOUS
<1>4. \A i \in 1..2 : i = 1 \/ i = 2
  OBVIOUS
<1>5. (IF q[2] = n - 1 THEN n ELSE q[2]) = u /\ (IF q[1] = n - 1 THEN n ELSE q[1]) = a
  BY <1>1, <1>2
<1> HIDE DEF u, q, r
<1>6. \A i \in 1..2 : (IF q[i] = n - 1 THEN n ELSE q[i]) = r[i]
  BY <1>3, <1>4, <1>5
<1>7. Moved(n, q) = r
  BY <1>2, <1>3, <1>6 DEF Moved
<1> QED BY <1>1, <1>7 DEF u, q, r

LEMMA ShiftedIs ==
  ASSUME NEW n, NEW b, NEW id
  PROVE  LET a == Shifted(n, b, id)
         IN  /\ a.id = id /\ a.op = b.op /\ a.type = b.type
             /\ a.refs = Moved(n, b.refs) /\ a.succ = Moved(n, b.succ) /\ a.pred = Moved(n, b.pred)
BY DEF Shifted, Record

LEMMA ShapeMoves ==
  ASSUME NEW n \in Nat, n >= 2, NEW x \in 0..n-1, NEW b \in Blocks(n), InShape(n, x, b),
         NEW a, a.op = b.op, a.type = b.type, a.refs = Moved(n, b.refs), a.succ = Moved(n, b.succ),
         x < n - 2 \/ NoFall(b)
  PROVE  InShape(n + 1, x, a)
<1>0. b.refs \in Seq(0..n-1) /\ b.succ \in Seq(0..n-1) /\ (n + 1) - 1 = n
  BY DEF Blocks
<1>1. CASE Jumps(n, b)
  <2>1. PICK t \in 0..n-1 : b.refs = <<t>> /\ b.succ = <<t>>
    BY <1>1 DEF Jumps
  <2>2. PICK u \in 0..n : Moved(n, <<t>>) = <<u>>
    BY MovedOne
  <2>3. Jumps(n + 1, a)
    BY <1>0, <1>1, <2>1, <2>2 DEF Jumps
  <2> QED BY <2>3 DEF InShape
<1>2. CASE Branches(n, x, b)
  <2>1. x < n - 2
    BY <1>2 DEF Branches, NoFall
  <2>2. PICK t \in 0..n-1 : t # x + 1 /\ b.refs = <<t>> /\ b.succ = <<x + 1, t>>
    BY <1>2 DEF Branches
  <2>3. PICK u \in 0..n : Moved(n, <<t>>) = <<u>> /\ u = (IF t = n - 1 THEN n ELSE t)
    BY MovedOne
  <2>4. x + 1 \in 0..n-2
    BY <2>1
  <2>5. PICK v \in 0..n : Moved(n, <<x + 1, t>>) = <<x + 1, v>> /\ v = (IF t = n - 1 THEN n ELSE t)
    BY <2>4, MovedTwo
  <2>6. u # x + 1 /\ u = v /\ x + 1 \in 0..n
    BY <2>1, <2>2, <2>3, <2>4, <2>5
  <2>7. Branches(n + 1, x, a)
    BY <1>0, <1>2, <2>2, <2>3, <2>5, <2>6 DEF Branches
  <2> QED BY <2>7 DEF InShape
<1>3. CASE Switches(b)
  <2>1. Moved(n, b.refs) \in Seq(0..n) /\ Len(Moved(n, b.refs)) = Len(b.refs)
        /\ IsInjective(Moved(n, b.refs))
    BY <1>0, <1>3, MovedIs DEF Switches
  <2>2. Len(b.refs) # 0
    BY <1>0, <1>3 DEF Switches
  <2>3. Moved(n, b.refs) # <<>>
    BY <2>1, <2>2
  <2>4. Switches(a)
    BY <1>3, <2>1, <2>3 DEF Switches
  <2> QED BY <2>4 DEF InShape
<1>4. CASE FallsThrough(n, x, b)
  <2>1. x < n - 2 /\ x + 1 \in 0..n-1 /\ x + 1 \in 0..n
    BY <1>4 DEF FallsThrough, NoFall
  <2>2. PICK u \in 0..n : Moved(n, <<x + 1>>) = <<u>> /\ u = (IF x + 1 = n - 1 THEN n ELSE x + 1)
    BY <2>1, MovedOne
  <2>3. u = x + 1
    BY <2>1, <2>2
  <2>4. FallsThrough(n + 1, x, a)
    BY <1>0, <1>4, <2>1, <2>2, <2>3 DEF FallsThrough
  <2> QED BY <2>4 DEF InShape
<1>5. CASE Stops(b)
  <2>1. Moved(n, <<>>) = <<>>
    BY DEF Moved
  <2>2. Stops(a)
    BY <1>5, <2>1 DEF Stops
  <2> QED BY <2>2 DEF InShape
<1> QED BY <1>1, <1>2, <1>3, <1>4, <1>5 DEF InShape

LEMMA ShiftedTyped ==
  ASSUME NEW n \in Nat, n >= 2, NEW b \in Blocks(n), NEW id \in Nat
  PROVE  Shifted(n, b, id) \in Blocks(n + 1)
<1>1. /\ b.type \in Types /\ b.op \in Opcodes
      /\ b.refs \in Seq(0..n-1) /\ b.succ \in Seq(0..n-1) /\ b.pred \in Seq(0..n-1)
  BY DEF Blocks
<1>2. /\ Moved(n, b.refs) \in Seq(0..n) /\ Moved(n, b.succ) \in Seq(0..n)
      /\ Moved(n, b.pred) \in Seq(0..n)
  BY <1>1, MovedIs
<1>3. (n + 1) - 1 = n
  OBVIOUS
<1> QED BY <1>1, <1>2, <1>3 DEF Shifted, Record, Blocks

(* Where a block of the copy was.                                              *)
Was(n, x) == IF x = n THEN n - 1 ELSE x

LEMMA CopiedBlocks ==
  ASSUME NEW n, NEW m, Sound(n, m), NEW s \in 0..n-2
  PROVE  LET c == Copied(n, m, s)
         IN  /\ c \in [0..n -> Blocks(n + 1)]
             /\ \A x \in 0..n : x # n - 1 =>
                  /\ Was(n, x) \in 0..n-1 /\ Was(n, x) # n /\ c[x] = Shifted(n, m[Was(n, x)], m[Was(n, x)].id)
             /\ c[n-1] = Record(n, m[s].op, m[s].type, Moved(n, m[s].refs), Moved(n, m[s].succ), <<>>)
<1> DEFINE c == Copied(n, m, s)
           d == Record(n, m[s].op, m[s].type, Moved(n, m[s].refs), Moved(n, m[s].succ), <<>>)
<1>1. IsArray(n, m) /\ n \in Nat /\ n >= 2 /\ s \in 0..n-1 /\ n - 1 \in 0..n-1
  BY DEF Sound, IsArray
<1>2. c = [i \in 0..n |-> CASE i < n - 1 -> Shifted(n, m[i], m[i].id)
                            [] i = n - 1 -> d
                            [] OTHER -> Shifted(n, m[n-1], m[n-1].id)]
  BY DEF Copied
<1> HIDE DEF c, d
<1>3. c[n-1] = d
  <2>1. n - 1 \in 0..n /\ ~(n - 1 < n - 1)
    BY <1>1
  <2> QED BY <1>2, <2>1
<1>4. ASSUME NEW x \in 0..n, x # n - 1
      PROVE  /\ Was(n, x) \in 0..n-1 /\ Was(n, x) # n
             /\ c[x] = Shifted(n, m[Was(n, x)], m[Was(n, x)].id)
  <2>1. CASE x < n - 1
    <3>1. Was(n, x) = x /\ x \in 0..n-1 /\ x # n
      BY <1>1, <2>1 DEF Was
    <3>2. c[x] = Shifted(n, m[x], m[x].id)
      BY <1>2, <2>1
    <3> QED BY <3>1, <3>2
  <2>2. CASE ~(x < n - 1)
    <3>1. Was(n, x) = n - 1 /\ n - 1 \in 0..n-1 /\ n - 1 # n
      BY <1>1, <1>4, <2>2 DEF Was
    <3>2. c[x] = Shifted(n, m[n-1], m[n-1].id)
      BY <1>2, <1>4, <2>2
    <3> QED BY <3>1, <3>2
  <2> QED BY <2>1, <2>2
<1>5. d \in Blocks(n + 1)
  <2>1. /\ m[s].type \in Types /\ m[s].op \in Opcodes
        /\ m[s].refs \in Seq(0..n-1) /\ m[s].succ \in Seq(0..n-1)
    BY <1>1, BlockIs
  <2>2. /\ Moved(n, m[s].refs) \in Seq(0..n) /\ Moved(n, m[s].succ) \in Seq(0..n)
    BY <1>1, <2>1, MovedIs
  <2>3. (n + 1) - 1 = n /\ n \in Nat /\ <<>> \in Seq(0..n)
    BY <1>1
  <2> QED BY <2>1, <2>2, <2>3 DEF d, Record, Blocks
<1>6. \A x \in 0..n : c[x] \in Blocks(n + 1)
  <2> SUFFICES ASSUME NEW x \in 0..n PROVE c[x] \in Blocks(n + 1)
    OBVIOUS
  <2>1. CASE x = n - 1
    BY <1>3, <1>5, <2>1
  <2>2. CASE x # n - 1
    <3> DEFINE w == Was(n, x)
    <3>1. w \in 0..n-1 /\ c[x] = Shifted(n, m[w], m[w].id)
      BY <1>4, <2>2
    <3> HIDE DEF w
    <3>2. m[w] \in Blocks(n) /\ m[w].id \in Nat
      <4>1. m[w] \in Blocks(n)
        BY <1>1, <3>1 DEF IsArray
      <4> QED BY <4>1 DEF Blocks
    <3> QED BY <1>1, <3>1, <3>2, ShiftedTyped
  <2> QED BY <2>1, <2>2
<1>7. c \in [0..n -> Blocks(n + 1)]
  <2>1. c = [x \in 0..n |-> c[x]]
    BY <1>2
  <2> QED BY <1>6, <2>1
<1> QED BY <1>3, <1>4, <1>7 DEF c, d

LEMMA CopiedSame ==
  ASSUME NEW n, NEW m, Sound(n, m), NEW s \in 0..n-2, NEW x \in 0..n-2
  PROVE  Copied(n, m, s)[x] = Shifted(n, m[x], m[x].id)
<1>1. n \in Nat /\ n >= 2
  BY DEF Sound, IsArray
<1>2. x \in 0..n /\ x # n - 1 /\ x # n
  BY <1>1
<1>3. Was(n, x) = x
  BY <1>2 DEF Was
<1> QED BY <1>2, <1>3, CopiedBlocks

LEMMA ExitStops ==
  ASSUME NEW n, NEW m, Sound(n, m)
  PROVE  Stops(m[n-1])
<1>1. n - 1 \in 0..n-1 /\ m[n-1].succ = <<>>
  BY DEF Sound, IsArray
<1>2. InShape(n, n - 1, m[n-1])
  BY <1>1 DEF Sound
<1>3. ~Jumps(n, m[n-1]) /\ ~Branches(n, n-1, m[n-1]) /\ ~Switches(m[n-1]) /\ ~FallsThrough(n, n-1, m[n-1])
  BY <1>1 DEF Jumps, Branches, Switches, FallsThrough
<1> QED BY <1>2, <1>3 DEF InShape

LEMMA CopyBegins ==
  ASSUME NEW n, NEW m, Sound(n, m), NEW s \in 0..n-2, NoFall(m[n-2])
  PROVE  Work(n + 1, Copied(n, m, s), Copied(n, m, s), n - 1, m[s].op, m[s].type,
              Moved(n, m[s].refs), Moved(n, m[s].succ), {})
<1> DEFINE c == Copied(n, m, s)
<1>1. /\ IsArray(n, m) /\ n \in Nat /\ n >= 2 /\ s \in 0..n-1 /\ n - 1 \in 0..n-1 /\ n - 2 \in 0..n-1
      /\ (n + 1) - 1 = n /\ (n + 1) - 2 = n - 1 /\ n - 1 \in 0..n /\ n \in 0..n /\ n - 1 # n
  BY DEF Sound, IsArray
<1>2. /\ c \in [0..n -> Blocks(n + 1)]
      /\ \A x \in 0..n : x # n - 1 =>
           /\ Was(n, x) \in 0..n-1 /\ Was(n, x) # n /\ c[x] = Shifted(n, m[Was(n, x)], m[Was(n, x)].id)
      /\ c[n-1] = Record(n, m[s].op, m[s].type, Moved(n, m[s].refs), Moved(n, m[s].succ), <<>>)
  BY CopiedBlocks
<1> HIDE DEF c
<1>3. /\ c[n-1].id = n /\ c[n-1].op = m[s].op /\ c[n-1].type = m[s].type
      /\ c[n-1].refs = Moved(n, m[s].refs) /\ c[n-1].succ = Moved(n, m[s].succ) /\ c[n-1].pred = <<>>
  BY <1>2 DEF Record
<1>4. ASSUME NEW x \in 0..n, x # n - 1
      PROVE  /\ Was(n, x) \in 0..n-1
             /\ c[x].id = m[Was(n, x)].id /\ c[x].op = m[Was(n, x)].op /\ c[x].type = m[Was(n, x)].type
             /\ c[x].refs = Moved(n, m[Was(n, x)].refs) /\ c[x].succ = Moved(n, m[Was(n, x)].succ)
             /\ c[x].pred = Moved(n, m[Was(n, x)].pred)
  BY <1>2, <1>4, ShiftedIs
<1>5. \A x \in 0..n-1 : /\ m[x].refs \in Seq(0..n-1) /\ m[x].succ \in Seq(0..n-1)
                        /\ m[x].pred \in Seq(0..n-1) /\ m[x].id \in Nat /\ m[x] \in Blocks(n)
                        /\ IsInjective(m[x].pred)
  <2>1. \A x \in 0..n-1 : m[x] \in Blocks(n) /\ IsInjective(m[x].pred)
    BY <1>1 DEF IsArray
  <2> QED BY <2>1 DEF Blocks
<1>6. IsArray(n + 1, c)
  <2>1. ASSUME NEW x \in 0..n PROVE IsInjective(c[x].pred)
    <3>1. CASE x = n - 1
      BY <1>3, <3>1 DEF IsInjective
    <3>2. CASE x # n - 1
      <4>1. Was(n, x) \in 0..n-1 /\ c[x].pred = Moved(n, m[Was(n, x)].pred)
        BY <1>4, <3>2
      <4> DEFINE z == m[Was(n, x)].pred
      <4>2. z \in Seq(0..n-1) /\ IsInjective(z)
        BY <1>5, <4>1
      <4> HIDE DEF z
      <4>3. IsInjective(Moved(n, z))
        BY <1>1, <4>2, MovedIs
      <4> QED BY <4>1, <4>3 DEF z
    <3> QED BY <3>1, <3>2
  <2>2. n + 1 \in Nat /\ n + 1 >= 2
    BY <1>1
  <2> QED BY <1>1, <1>2, <2>1, <2>2 DEF IsArray
<1>7. IdsApart(n + 1, c)
  <2>1. /\ \A x \in 0..n-1 : m[x].id < n
        /\ \A x, y \in 0..n-1 : m[x].id = m[y].id => x = y
    BY DEF Sound, IdsApart
  <2>2. \A x \in 0..n : x # n - 1 => c[x].id < n /\ c[x].id \in Nat
    BY <1>4, <1>5, <2>1
  <2>3. \A x \in 0..n : c[x].id < n + 1
    <3>1. \A i \in Nat : i < n => i < n + 1
      BY <1>1
    <3>2. n < n + 1
      BY <1>1
    <3> QED BY <1>3, <2>2, <3>1, <3>2
  <2>4. \A x, y \in 0..n : x # n - 1 /\ y # n - 1 /\ Was(n, x) = Was(n, y) => x = y
    BY <1>1 DEF Was
  <2>5. ASSUME NEW x \in 0..n, NEW y \in 0..n, c[x].id = c[y].id PROVE x = y
    <3>1. CASE x = n - 1 /\ y = n - 1
      BY <3>1
    <3>2. CASE x # n - 1 /\ y # n - 1
      BY <1>4, <2>1, <2>4, <2>5, <3>2
    <3>3. CASE x = n - 1 /\ y # n - 1
      BY <1>1, <1>3, <2>2, <2>5, <3>3
    <3>4. CASE x # n - 1 /\ y = n - 1
      BY <1>1, <1>3, <2>2, <2>5, <3>4
    <3> QED BY <3>1, <3>2, <3>3, <3>4
  <2> QED BY <1>1, <2>3, <2>5 DEF IdsApart
<1>8. c[n].succ = <<>> /\ InShape(n + 1, n, c[n])
  <2>1. Was(n, n) = n - 1 /\ m[n-1].succ = <<>> /\ Stops(m[n-1])
    BY ExitStops DEF Was, Sound
  <2>2. Moved(n, <<>>) = <<>>
    BY DEF Moved
  <2>3. c[n].op = m[n-1].op /\ c[n].type = m[n-1].type /\ c[n].succ = <<>>
    BY <1>1, <1>4, <2>1, <2>2
  <2>4. Stops(c[n])
    BY <2>1, <2>3 DEF Stops
  <2> QED BY <2>3, <2>4 DEF InShape
<1>9. ASSUME NEW x \in 0..n, x # n - 1
      PROVE  InShape(n + 1, x, c[x])
  <2>1. CASE x = n
    BY <1>8, <2>1
  <2>2. CASE x # n
    <3>1. Was(n, x) = x /\ x \in 0..n-1 /\ (x < n - 2 \/ x = n - 2)
      BY <1>1, <1>9, <2>2 DEF Was
    <3>2. x < n - 2 \/ NoFall(m[x])
      BY <3>1
    <3>3. InShape(n, x, m[x]) /\ m[x] \in Blocks(n)
      BY <1>5, <3>1 DEF Sound
    <3>4. /\ c[x].op = m[x].op /\ c[x].type = m[x].type
          /\ c[x].refs = Moved(n, m[x].refs) /\ c[x].succ = Moved(n, m[x].succ)
      BY <1>4, <1>9, <3>1
    <3> QED BY <1>1, <3>1, <3>2, <3>3, <3>4, ShapeMoves
  <2> QED BY <2>1, <2>2
<1> DEFINE E == Edges(n + 1, c)
           F == [E EXCEPT ![n-1] = {}]
<1>10. F[n-1] = {} /\ \A y \in 0..n : y # n - 1 => F[y] = ToSet(c[y].succ)
  BY <1>1 DEF Edges
<1>11. \A x, y \in 0..n-1 : y \in ToSet(m[x].pred) <=> x \in ToSet(m[y].succ)
  BY DEF Sound, Noted, Edges
<1>12. ASSUME NEW q \in Seq(0..n-1), NEW y \in 0..n, y # n - 1
       PROVE  y \in ToSet(Moved(n, q)) <=> Was(n, y) \in ToSet(q)
  <2>1. CASE y = n
    <3>1. Was(n, y) = n - 1
      BY <2>1 DEF Was
    <3> QED BY <1>1, <2>1, <3>1, MovedIs
  <2>2. CASE y # n
    <3>1. Was(n, y) = y /\ y \in 0..n-2
      BY <1>1, <1>12, <2>2 DEF Was
    <3> QED BY <1>1, <3>1, MovedIs
  <2> QED BY <2>1, <2>2
<1>13. \A q \in Seq(0..n-1) : n - 1 \notin ToSet(Moved(n, q))
  BY <1>1, MovedIs
<1> HIDE DEF E, F
<1>14. Noted(n + 1, c, F)
  <2> SUFFICES ASSUME NEW x \in 0..n, NEW y \in 0..n
               PROVE  y \in ToSet(c[x].pred) <=> x \in F[y]
    BY <1>1 DEF Noted
  <2>1. CASE x = n - 1
    <3>1. y \notin ToSet(c[x].pred)
      BY <1>3, <2>1 DEF ToSet
    <3>2. y # n - 1 => n - 1 \notin ToSet(c[y].succ)
      BY <1>4, <1>5, <1>13
    <3> QED BY <1>10, <2>1, <3>1, <3>2
  <2>2. CASE x # n - 1 /\ y = n - 1
    <3>1. y \notin ToSet(c[x].pred)
      BY <1>4, <1>5, <1>13, <2>2
    <3> QED BY <1>10, <2>2, <3>1
  <2>3. CASE x # n - 1 /\ y # n - 1
    <3> DEFINE a == Was(n, x)
               b == Was(n, y)
    <3>1. a \in 0..n-1 /\ b \in 0..n-1 /\ c[x].pred = Moved(n, m[a].pred) /\ c[y].succ = Moved(n, m[b].succ)
      BY <1>4, <2>3
    <3>2. y \in ToSet(Moved(n, m[a].pred)) <=> b \in ToSet(m[a].pred)
      BY <1>5, <1>12, <2>3, <3>1
    <3>3. x \in ToSet(Moved(n, m[b].succ)) <=> a \in ToSet(m[b].succ)
      BY <1>5, <1>12, <2>3, <3>1
    <3> HIDE DEF a, b
    <3> QED BY <1>10, <1>11, <2>3, <3>1, <3>2, <3>3
  <2> QED BY <2>1, <2>2, <2>3
<1>15. Around(n + 1, c, n - 1, {})
  BY <1>1, <1>6, <1>7, <1>8, <1>9, <1>14 DEF Around, F, E
<1>16. Beside(n + 1, n - 1, c, c)
  BY DEF Beside, SameTail
<1>17. Work(n + 1, c, c, n - 1, m[s].op, m[s].type, Moved(n, m[s].refs), Moved(n, m[s].succ), {})
  BY <1>3, <1>15, <1>16 DEF Work
<1> QED BY <1>17 DEF c

-------------------------------------------------------------------------------
(* An array by its columns: statements about different blocks or fields may be *)
(* taken in any order.                                                         *)

Column(D, f) == f = [x \in D |-> f[x]]
Rows(D, i, o, y, r, q, p) == [x \in D |-> Record(i[x], o[x], y[x], r[x], q[x], p[x])]

Put(f, x, v) == [f EXCEPT ![x] = v]
PutOp(m, x, v) == [m EXCEPT ![x].op = v]
PutType(m, x, v) == [m EXCEPT ![x].type = v]
PutRefs(m, x, v) == [m EXCEPT ![x].refs = v]
PutSucc(m, x, v) == [m EXCEPT ![x].succ = v]
PutPred(m, x, v) == [m EXCEPT ![x].pred = v]

LEMMA RowsSetOp ==
  ASSUME NEW D, NEW s \in D, NEW i, NEW o, NEW y, NEW r, NEW q, NEW p, Column(D, o), NEW v
  PROVE  /\ PutOp(Rows(D, i, o, y, r, q, p), s, v) = Rows(D, i, Put(o, s, v), y, r, q, p)
         /\ Column(D, Put(o, s, v))
<1> DEFINE m == Rows(D, i, o, y, r, q, p)
           w == Put(o, s, v)
<1>1. DOMAIN m = D /\ \A x \in D : m[x] = Record(i[x], o[x], y[x], r[x], q[x], p[x])
  BY DEF Rows
<1>2. Column(D, w) /\ w[s] = v /\ \A x \in D : x # s => w[x] = o[x]
  BY DEF Column, Put
<1>3. [m[s] EXCEPT !.op = v] = Record(i[s], v, y[s], r[s], q[s], p[s])
  <2> DEFINE a == i[s]
             b == o[s]
             c == y[s]
             d == r[s]
             e == q[s]
             f == p[s]
  <2>1. m[s] = Record(a, b, c, d, e, f)
    BY <1>1
  <2> HIDE DEF a, b, c, d, e, f
  <2>2. [Record(a, b, c, d, e, f) EXCEPT !.op = v] = Record(a, v, c, d, e, f)
    BY DEF Record
  <2> QED BY <2>1, <2>2 DEF a, c, d, e, f
<1>4. [m EXCEPT ![s].op = v] = [x \in D |-> IF x = s THEN [m[s] EXCEPT !.op = v] ELSE m[x]]
  BY <1>1
<1> HIDE DEF m, w
<1>5. \A x \in D : (IF x = s THEN [m[s] EXCEPT !.op = v] ELSE m[x])
                     = Record(i[x], w[x], y[x], r[x], q[x], p[x])
  BY <1>1, <1>2, <1>3
<1>6. [m EXCEPT ![s].op = v] = Rows(D, i, w, y, r, q, p)
  BY <1>4, <1>5 DEF Rows
<1>7. PutOp(m, s, v) = Rows(D, i, w, y, r, q, p)
  BY <1>6 DEF PutOp
<1> QED BY <1>2, <1>7 DEF m, w

LEMMA RowsSetType ==
  ASSUME NEW D, NEW s \in D, NEW i, NEW o, NEW y, NEW r, NEW q, NEW p, Column(D, y), NEW v
  PROVE  /\ PutType(Rows(D, i, o, y, r, q, p), s, v) = Rows(D, i, o, Put(y, s, v), r, q, p)
         /\ Column(D, Put(y, s, v))
<1> DEFINE m == Rows(D, i, o, y, r, q, p)
           w == Put(y, s, v)
<1>1. DOMAIN m = D /\ \A x \in D : m[x] = Record(i[x], o[x], y[x], r[x], q[x], p[x])
  BY DEF Rows
<1>2. Column(D, w) /\ w[s] = v /\ \A x \in D : x # s => w[x] = y[x]
  BY DEF Column, Put
<1>3. [m[s] EXCEPT !.type = v] = Record(i[s], o[s], v, r[s], q[s], p[s])
  <2> DEFINE a == i[s]
             b == o[s]
             c == y[s]
             d == r[s]
             e == q[s]
             f == p[s]
  <2>1. m[s] = Record(a, b, c, d, e, f)
    BY <1>1
  <2> HIDE DEF a, b, c, d, e, f
  <2>2. [Record(a, b, c, d, e, f) EXCEPT !.type = v] = Record(a, b, v, d, e, f)
    BY DEF Record
  <2> QED BY <2>1, <2>2 DEF a, b, d, e, f
<1>4. [m EXCEPT ![s].type = v] = [x \in D |-> IF x = s THEN [m[s] EXCEPT !.type = v] ELSE m[x]]
  BY <1>1
<1> HIDE DEF m, w
<1>5. \A x \in D : (IF x = s THEN [m[s] EXCEPT !.type = v] ELSE m[x])
                     = Record(i[x], o[x], w[x], r[x], q[x], p[x])
  BY <1>1, <1>2, <1>3
<1>6. [m EXCEPT ![s].type = v] = Rows(D, i, o, w, r, q, p)
  BY <1>4, <1>5 DEF Rows
<1>7. PutType(m, s, v) = Rows(D, i, o, w, r, q, p)
  BY <1>6 DEF PutType
<1> QED BY <1>2, <1>7 DEF m, w

LEMMA RowsSetRefs ==
  ASSUME NEW D, NEW s \in D, NEW i, NEW o, NEW y, NEW r, NEW q, NEW p, Column(D, r), NEW v
  PROVE  /\ PutRefs(Rows(D, i, o, y, r, q, p), s, v) = Rows(D, i, o, y, Put(r, s, v), q, p)
         /\ Column(D, Put(r, s, v))
<1> DEFINE m == Rows(D, i, o, y, r, q, p)
           w == Put(r, s, v)
<1>1. DOMAIN m = D /\ \A x \in D : m[x] = Record(i[x], o[x], y[x], r[x], q[x], p[x])
  BY DEF Rows
<1>2. Column(D, w) /\ w[s] = v /\ \A x \in D : x # s => w[x] = r[x]
  BY DEF Column, Put
<1>3. [m[s] EXCEPT !.refs = v] = Record(i[s], o[s], y[s], v, q[s], p[s])
  <2> DEFINE a == i[s]
             b == o[s]
             c == y[s]
             d == r[s]
             e == q[s]
             f == p[s]
  <2>1. m[s] = Record(a, b, c, d, e, f)
    BY <1>1
  <2> HIDE DEF a, b, c, d, e, f
  <2>2. [Record(a, b, c, d, e, f) EXCEPT !.refs = v] = Record(a, b, c, v, e, f)
    BY DEF Record
  <2> QED BY <2>1, <2>2 DEF a, b, c, e, f
<1>4. [m EXCEPT ![s].refs = v] = [x \in D |-> IF x = s THEN [m[s] EXCEPT !.refs = v] ELSE m[x]]
  BY <1>1
<1> HIDE DEF m, w
<1>5. \A x \in D : (IF x = s THEN [m[s] EXCEPT !.refs = v] ELSE m[x])
                     = Record(i[x], o[x], y[x], w[x], q[x], p[x])
  BY <1>1, <1>2, <1>3
<1>6. [m EXCEPT ![s].refs = v] = Rows(D, i, o, y, w, q, p)
  BY <1>4, <1>5 DEF Rows
<1>7. PutRefs(m, s, v) = Rows(D, i, o, y, w, q, p)
  BY <1>6 DEF PutRefs
<1> QED BY <1>2, <1>7 DEF m, w

LEMMA RowsSetSucc ==
  ASSUME NEW D, NEW s \in D, NEW i, NEW o, NEW y, NEW r, NEW q, NEW p, Column(D, q), NEW v
  PROVE  /\ PutSucc(Rows(D, i, o, y, r, q, p), s, v) = Rows(D, i, o, y, r, Put(q, s, v), p)
         /\ Column(D, Put(q, s, v))
<1> DEFINE m == Rows(D, i, o, y, r, q, p)
           w == Put(q, s, v)
<1>1. DOMAIN m = D /\ \A x \in D : m[x] = Record(i[x], o[x], y[x], r[x], q[x], p[x])
  BY DEF Rows
<1>2. Column(D, w) /\ w[s] = v /\ \A x \in D : x # s => w[x] = q[x]
  BY DEF Column, Put
<1>3. [m[s] EXCEPT !.succ = v] = Record(i[s], o[s], y[s], r[s], v, p[s])
  <2> DEFINE a == i[s]
             b == o[s]
             c == y[s]
             d == r[s]
             e == q[s]
             f == p[s]
  <2>1. m[s] = Record(a, b, c, d, e, f)
    BY <1>1
  <2> HIDE DEF a, b, c, d, e, f
  <2>2. [Record(a, b, c, d, e, f) EXCEPT !.succ = v] = Record(a, b, c, d, v, f)
    BY DEF Record
  <2> QED BY <2>1, <2>2 DEF a, b, c, d, f
<1>4. [m EXCEPT ![s].succ = v] = [x \in D |-> IF x = s THEN [m[s] EXCEPT !.succ = v] ELSE m[x]]
  BY <1>1
<1> HIDE DEF m, w
<1>5. \A x \in D : (IF x = s THEN [m[s] EXCEPT !.succ = v] ELSE m[x])
                     = Record(i[x], o[x], y[x], r[x], w[x], p[x])
  BY <1>1, <1>2, <1>3
<1>6. [m EXCEPT ![s].succ = v] = Rows(D, i, o, y, r, w, p)
  BY <1>4, <1>5 DEF Rows
<1>7. PutSucc(m, s, v) = Rows(D, i, o, y, r, w, p)
  BY <1>6 DEF PutSucc
<1> QED BY <1>2, <1>7 DEF m, w

LEMMA RowsSetPred ==
  ASSUME NEW D, NEW s \in D, NEW i, NEW o, NEW y, NEW r, NEW q, NEW p, Column(D, p), NEW v
  PROVE  /\ PutPred(Rows(D, i, o, y, r, q, p), s, v) = Rows(D, i, o, y, r, q, Put(p, s, v))
         /\ Column(D, Put(p, s, v))
<1> DEFINE m == Rows(D, i, o, y, r, q, p)
           w == Put(p, s, v)
<1>1. DOMAIN m = D /\ \A x \in D : m[x] = Record(i[x], o[x], y[x], r[x], q[x], p[x])
  BY DEF Rows
<1>2. Column(D, w) /\ w[s] = v /\ \A x \in D : x # s => w[x] = p[x]
  BY DEF Column, Put
<1>3. [m[s] EXCEPT !.pred = v] = Record(i[s], o[s], y[s], r[s], q[s], v)
  <2> DEFINE a == i[s]
             b == o[s]
             c == y[s]
             d == r[s]
             e == q[s]
             f == p[s]
  <2>1. m[s] = Record(a, b, c, d, e, f)
    BY <1>1
  <2> HIDE DEF a, b, c, d, e, f
  <2>2. [Record(a, b, c, d, e, f) EXCEPT !.pred = v] = Record(a, b, c, d, e, v)
    BY DEF Record
  <2> QED BY <2>1, <2>2 DEF a, b, c, d, e
<1>4. [m EXCEPT ![s].pred = v] = [x \in D |-> IF x = s THEN [m[s] EXCEPT !.pred = v] ELSE m[x]]
  BY <1>1
<1> HIDE DEF m, w
<1>5. \A x \in D : (IF x = s THEN [m[s] EXCEPT !.pred = v] ELSE m[x])
                     = Record(i[x], o[x], y[x], r[x], q[x], w[x])
  BY <1>1, <1>2, <1>3
<1>6. [m EXCEPT ![s].pred = v] = Rows(D, i, o, y, r, q, w)
  BY <1>4, <1>5 DEF Rows
<1>7. PutPred(m, s, v) = Rows(D, i, o, y, r, q, w)
  BY <1>6 DEF PutPred
<1> QED BY <1>2, <1>7 DEF m, w

LEMMA RowIs ==
  ASSUME NEW D, NEW s \in D, NEW i, NEW o, NEW y, NEW r, NEW q, NEW p
  PROVE  LET m == Rows(D, i, o, y, r, q, p)
         IN  /\ DOMAIN m = D
             /\ m[s].id = i[s] /\ m[s].op = o[s] /\ m[s].type = y[s]
             /\ m[s].refs = r[s] /\ m[s].succ = q[s] /\ m[s].pred = p[s]
BY DEF Rows, Record

LEMMA ColumnSet ==
  ASSUME NEW D, NEW s, NEW f, Column(D, f), NEW v
  PROVE  Column(D, Put(f, s, v))
BY DEF Column, Put

LEMMA RowsMakeOneWay ==
  ASSUME NEW D, NEW s \in D, NEW i, NEW o, NEW y, NEW r, NEW q, NEW p,
         Column(D, o), Column(D, y), Column(D, r), NEW t
  PROVE  MakeOneWay(Rows(D, i, o, y, r, q, p), s, t) =
           Rows(D, i, Put(o, s, "goto"), Put(y, s, "1WAY"), Put(r, s, <<t>>), q, p)
<1> DEFINE m == Rows(D, i, o, y, r, q, p)
           o2 == Put(o, s, "goto")
           y2 == Put(y, s, "1WAY")
           r2 == Put(r, s, <<t>>)
           a == PutOp(m, s, "goto")
           b == PutRefs(a, s, <<t>>)
           c == PutType(b, s, "1WAY")
<1>1. InsertGoto(m, s, t) = b
  BY DEF InsertGoto, PutOp, PutRefs
<1>2. MakeOneWay(m, s, t) = c
  <2> HIDE DEF b
  <2> QED BY <1>1 DEF MakeOneWay, PutType
<1>3. a = Rows(D, i, o2, y, r, q, p)
  BY RowsSetOp
<1>4. b = Rows(D, i, o2, y, r2, q, p)
  <2> HIDE DEF a, o2
  <2> QED BY <1>3, RowsSetRefs
<1>5. c = Rows(D, i, o2, y2, r2, q, p)
  <2> HIDE DEF b, o2, r2
  <2> QED BY <1>4, RowsSetType
<1> QED BY <1>2, <1>5

LEMMA RowsAddSucc ==
  ASSUME NEW D, NEW s \in D, NEW i, NEW o, NEW y, NEW r, NEW q, NEW p, Column(D, q), NEW t
  PROVE  AddSucc(Rows(D, i, o, y, r, q, p), s, t) = Rows(D, i, o, y, r, Put(q, s, Append(q[s], t)), p)
<1> DEFINE m == Rows(D, i, o, y, r, q, p)
           v == Append(q[s], t)
<1>1. m[s].succ = q[s]
  BY RowIs
<1>2. AddSucc(m, s, t) = PutSucc(m, s, v)
  BY <1>1 DEF AddSucc, PutSucc
<1>3. PutSucc(m, s, v) = Rows(D, i, o, y, r, Put(q, s, v), p)
  <2> HIDE DEF v
  <2> QED BY RowsSetSucc
<1> QED BY <1>2, <1>3

LEMMA RowsDelSucc ==
  ASSUME NEW D, NEW s \in D, NEW i, NEW o, NEW y, NEW r, NEW q, NEW p, Column(D, q), NEW t
  PROVE  DelSucc(Rows(D, i, o, y, r, q, p), s, t) =
           Rows(D, i, o, y, r, Put(q, s, RemoveFirst(q[s], t)), p)
<1> DEFINE m == Rows(D, i, o, y, r, q, p)
           v == RemoveFirst(q[s], t)
<1>1. m[s].succ = q[s]
  BY RowIs
<1>2. DelSucc(m, s, t) = PutSucc(m, s, v)
  BY <1>1 DEF DelSucc, PutSucc
<1>3. PutSucc(m, s, v) = Rows(D, i, o, y, r, Put(q, s, v), p)
  <2> HIDE DEF v
  <2> QED BY RowsSetSucc
<1>4. Put(q, s, v) = Put(q, s, RemoveFirst(q[s], t))
  OBVIOUS
<1> QED BY <1>2, <1>3, <1>4

LEMMA RowsAddPred ==
  ASSUME NEW D, NEW t \in D, NEW i, NEW o, NEW y, NEW r, NEW q, NEW p, Column(D, p), NEW s
  PROVE  AddPred(Rows(D, i, o, y, r, q, p), t, s) = Rows(D, i, o, y, r, q, Put(p, t, Append(p[t], s)))
<1> DEFINE m == Rows(D, i, o, y, r, q, p)
           v == Append(p[t], s)
<1>1. m[t].pred = p[t] /\ t \in DOMAIN m
  BY RowIs
<1>2. AddPred(m, t, s) = PutPred(m, t, v)
  BY <1>1 DEF AddPred, Missing, PutPred
<1>3. PutPred(m, t, v) = Rows(D, i, o, y, r, q, Put(p, t, v))
  <2> HIDE DEF v
  <2> QED BY RowsSetPred
<1> QED BY <1>2, <1>3

LEMMA RowsDelPred ==
  ASSUME NEW D, NEW t \in D, NEW i, NEW o, NEW y, NEW r, NEW q, NEW p, Column(D, p), NEW s
  PROVE  DelPred(Rows(D, i, o, y, r, q, p), t, s) =
           Rows(D, i, o, y, r, q, Put(p, t, RemoveFirst(p[t], s)))
<1> DEFINE m == Rows(D, i, o, y, r, q, p)
           v == RemoveFirst(p[t], s)
<1>1. m[t].pred = p[t]
  BY RowIs
<1>2. DelPred(m, t, s) = PutPred(m, t, v)
  BY <1>1 DEF DelPred, PutPred
<1>3. PutPred(m, t, v) = Rows(D, i, o, y, r, q, Put(p, t, v))
  <2> HIDE DEF v
  <2> QED BY RowsSetPred
<1>4. Put(p, t, v) = Put(p, t, RemoveFirst(p[t], s))
  OBVIOUS
<1> QED BY <1>2, <1>3, <1>4

LEMMA HasColumns ==
  ASSUME NEW D, NEW m, m = [x \in D |-> m[x]],
         \A x \in D : m[x] = Record(m[x].id, m[x].op, m[x].type, m[x].refs, m[x].succ, m[x].pred)
  PROVE  m = Rows(D, [x \in D |-> m[x].id], [x \in D |-> m[x].op], [x \in D |-> m[x].type],
                  [x \in D |-> m[x].refs], [x \in D |-> m[x].succ], [x \in D |-> m[x].pred])
BY DEF Rows

LEMMA RowsUnlink ==
  ASSUME NEW D, NEW s \in D, NEW t \in D, NEW i, NEW o, NEW y, NEW r, NEW q, NEW p,
         Column(D, q), Column(D, p)
  PROVE  Unlink(Rows(D, i, o, y, r, q, p), s, t) =
           Rows(D, i, o, y, r, Put(q, s, RemoveFirst(q[s], t)), Put(p, t, RemoveFirst(p[t], s)))
<1> DEFINE q2 == Put(q, s, RemoveFirst(q[s], t))
           m == Rows(D, i, o, y, r, q, p)
           a == DelSucc(m, s, t)
<1>1. a = Rows(D, i, o, y, r, q2, p)
  BY RowsDelSucc
<1>2. Unlink(m, s, t) = DelPred(a, t, s)
  BY DEF Unlink
<1> HIDE DEF a, q2, m
<1>3. DelPred(a, t, s) = Rows(D, i, o, y, r, q2, Put(p, t, RemoveFirst(p[t], s)))
  BY <1>1, RowsDelPred
<1> QED BY <1>2, <1>3 DEF q2, m

(* The predecessors of the copy may be cleared before its edges are cut.       *)
LEMMA DetachedIs ==
  ASSUME NEW n, NEW m, Sound(n, m), NEW s \in 0..n-2
  PROVE  Detached(m, s) = UnlinkAll(Copied(n, m, s), n - 1)
<1> DEFINE D == 0..n
           k == n - 1
           c0 == CopyBlock(m, s)
           c1 == Copied(n, m, s)
           e == Moved(n, m[s].succ)
<1>1. /\ IsArray(n, m) /\ n \in Nat /\ n >= 2 /\ s \in 0..n-1 /\ k \in D /\ n - 1 \in 0..n-1
      /\ ExitSerial(m) = k
  BY SizeIs DEF Sound, IsArray
<1>2. e \in Seq(D) /\ Len(e) \in Nat /\ k \notin ToSet(e)
  <2>1. m[s].succ \in Seq(0..n-1)
    BY <1>1, BlockIs
  <2>2. e \in Seq(D) /\ k \notin ToSet(e)
    BY <1>1, <2>1, MovedIs
  <2> HIDE DEF e
  <2> QED BY <2>2
<1>3. c0 = [x \in D |->
            CASE x < n - 1 -> Shifted(n, m[x], m[x].id)
              [] x = n - 1 -> Shifted(n, m[s], n)
              [] OTHER -> Shifted(n, m[n-1], m[n-1].id)]
  BY CopyIs
<1>4. c1 = PutPred(c0, k, <<>>)
  BY CopiedIs DEF PutPred
<1>5. Detached(m, s) = PutPred(UnlinkAll(c0, k), k, <<>>)
  BY <1>1 DEF Detached, PutPred
<1> HIDE DEF c0, c1
<1>6. c0[k].succ = e
  <2>1. ~(n - 1 < n - 1)
    BY <1>1
  <2>2. c0[k] = Shifted(n, m[s], n)
    BY <1>1, <1>3, <2>1
  <2> QED BY <2>2, ShiftedIs
<1> HIDE DEF e
<1>7. \E i, o, y, r, q, p : /\ Column(D, q) /\ Column(D, p)
                            /\ c0 = Rows(D, i, o, y, r, q, p)
  <2>1. \A b, id : Shifted(n, b, id) =
           LET a == Shifted(n, b, id) IN Record(a.id, a.op, a.type, a.refs, a.succ, a.pred)
    BY DEF Shifted, Record
  <2>2. \A x \in D : \E b, id : c0[x] = Shifted(n, b, id)
    <3> SUFFICES ASSUME NEW x \in D PROVE \E b, id : c0[x] = Shifted(n, b, id)
      OBVIOUS
    <3>1. \/ c0[x] = Shifted(n, m[x], m[x].id) \/ c0[x] = Shifted(n, m[s], n)
          \/ c0[x] = Shifted(n, m[n-1], m[n-1].id)
      BY <1>3
    <3> QED BY <3>1
  <2>3. \A x \in D : c0[x] = Record(c0[x].id, c0[x].op, c0[x].type, c0[x].refs, c0[x].succ, c0[x].pred)
    <3> SUFFICES ASSUME NEW x \in D
                 PROVE  c0[x] = Record(c0[x].id, c0[x].op, c0[x].type, c0[x].refs, c0[x].succ, c0[x].pred)
      OBVIOUS
    <3>1. PICK b, id : c0[x] = Shifted(n, b, id)
      BY <2>2
    <3>2. Shifted(n, b, id) =
            LET a == Shifted(n, b, id) IN Record(a.id, a.op, a.type, a.refs, a.succ, a.pred)
      BY <2>1
    <3> QED BY <3>1, <3>2
  <2>4. c0 = [x \in D |-> c0[x]]
    BY <1>3
  <2>5. c0 = Rows(D, [x \in D |-> c0[x].id], [x \in D |-> c0[x].op], [x \in D |-> c0[x].type],
                  [x \in D |-> c0[x].refs], [x \in D |-> c0[x].succ], [x \in D |-> c0[x].pred])
    <3> HIDE DEF D
    <3> QED BY <2>3, <2>4, HasColumns
  <2>6. Column(D, [x \in D |-> c0[x].succ]) /\ Column(D, [x \in D |-> c0[x].pred])
    BY DEF Column
  <2> QED BY <2>5, <2>6
<1>8. PICK i, o, y, r, q0, p0 : /\ Column(D, q0) /\ Column(D, p0)
                                /\ c0 = Rows(D, i, o, y, r, q0, p0)
  BY <1>7
<1> DEFINE clear(p) == Put(p, k, <<>>)
           A(q, p) == Rows(D, i, o, y, r, q, p)
<1> HIDE DEF D, k
<1>9. c1 = A(q0, clear(p0)) /\ Column(D, clear(p0))
  BY <1>1, <1>4, <1>8, RowsSetPred
<1>10. c1[k].succ = e
  <2>1. c0[k].succ = q0[k]
    BY <1>1, <1>8, RowIs
  <2>2. A(q0, clear(p0))[k].succ = q0[k]
    <3> HIDE DEF clear
    <3> QED BY <1>1, RowIs
  <2> QED BY <1>6, <1>9, <2>1, <2>2
<1>11. PICK f : Unlinkings(c0, k, e, f) /\ UnlinkAll(c0, k) = f[Len(e)]
  <2>1. Len(c0[k].succ) \in Nat
    BY <1>2, <1>6
  <2> QED BY <1>6, <2>1, UnlinkingsExist
<1>12. PICK g : Unlinkings(c1, k, e, g) /\ UnlinkAll(c1, k) = g[Len(e)]
  <2>1. Len(c1[k].succ) \in Nat
    BY <1>2, <1>10
  <2> QED BY <1>10, <2>1, UnlinkingsExist
<1> DEFINE Alike(j) == \E q, p : /\ Column(D, q) /\ Column(D, p)
                                 /\ f[j] = A(q, p) /\ g[j] = A(q, clear(p))
           S == {j \in Nat : j <= Len(e) => Alike(j)}
<1>13. 0 \in S
  <2>1. f[0] = c0 /\ g[0] = c1
    BY <1>2, <1>11, <1>12 DEF Unlinkings
  <2>2. Alike(0)
    BY <1>8, <1>9, <2>1
  <2> HIDE DEF Alike
  <2> QED BY <2>2
<1>14. ASSUME NEW j \in Nat, j \in S
       PROVE  j + 1 \in S
  <2> SUFFICES ASSUME j + 1 <= Len(e) PROVE Alike(j + 1)
    OBVIOUS
  <2> DEFINE t == e[j+1]
  <2>1. j + 1 \in 1..Len(e) /\ j + 1 \in 0..Len(e) /\ j + 1 # 0 /\ (j + 1) - 1 = j /\ j <= Len(e)
    BY <1>2
  <2>2. t \in D /\ t # k
    <3>1. t \in ToSet(e)
      BY <1>2, <2>1, Elements
    <3> QED BY <1>2, <2>1, <3>1
  <2>3. f[j+1] = Unlink(f[j], k, t) /\ g[j+1] = Unlink(g[j], k, t)
    BY <1>11, <1>12, <2>1 DEF Unlinkings
  <2>4. PICK q, p : Column(D, q) /\ Column(D, p) /\ f[j] = A(q, p) /\ g[j] = A(q, clear(p))
    BY <1>14, <2>1
  <2> HIDE DEF t
  <2> DEFINE q2 == Put(q, k, RemoveFirst(q[k], t))
             p2 == Put(p, t, RemoveFirst(p[t], k))
             p3 == Put(clear(p), t, RemoveFirst(clear(p)[t], k))
  <2>5. f[j+1] = A(q2, p2)
    BY <1>1, <2>2, <2>3, <2>4, RowsUnlink
  <2>6. Column(D, clear(p))
    BY <2>4, ColumnSet
  <2>7. g[j+1] = A(q2, p3)
    <3> HIDE DEF clear
    <3> QED BY <1>1, <2>2, <2>3, <2>4, <2>6, RowsUnlink
  <2>8. Column(D, q2) /\ Column(D, p2)
    BY <2>4, ColumnSet
  <2>9. p3 = clear(p2)
    <3>1. \A x \in D : p3[x] = clear(p2)[x]
      BY <1>1, <2>2, <2>4 DEF Column, Put
    <3>2. Column(D, p3) /\ Column(D, clear(p2))
      <4> DEFINE p4 == clear(p)
      <4>1. Column(D, Put(p4, t, RemoveFirst(p4[t], k)))
        <5> HIDE DEF p4
        <5> QED BY <2>6, ColumnSet DEF p4
      <4> HIDE DEF p2
      <4>2. Column(D, clear(p2))
        BY <2>8, ColumnSet
      <4> QED BY <4>1, <4>2
    <3> HIDE DEF p3, p2, clear
    <3> QED BY <3>1, <3>2 DEF Column
  <2> HIDE DEF q2, p2, p3, clear, A
  <2> QED BY <2>5, <2>7, <2>8, <2>9
<1>15. Nat \subseteq S
  <2> HIDE DEF S
  <2> QED BY <1>13, <1>14, Induction
<1>16. Alike(Len(e))
  <2> HIDE DEF Alike
  <2> QED BY <1>2, <1>15
<1>17. PICK q, p : Column(D, q) /\ Column(D, p) /\ f[Len(e)] = A(q, p) /\ g[Len(e)] = A(q, clear(p))
  BY <1>16
<1>18. PutPred(A(q, p), k, <<>>) = A(q, clear(p))
  BY <1>1, <1>17, RowsSetPred
<1> HIDE DEF A, clear
<1> QED BY <1>5, <1>11, <1>12, <1>17, <1>18 DEF c1, k

LEMMA DetachedWork ==
  ASSUME NEW n, NEW m, Sound(n, m), NEW s \in 0..n-2, NoFall(m[n-2])
  PROVE  Work(n + 1, Copied(n, m, s), Detached(m, s), n - 1, m[s].op, m[s].type,
              Moved(n, m[s].refs), <<>>, {})
<1> DEFINE c == Copied(n, m, s)
           op == m[s].op
           type == m[s].type
           r == Moved(n, m[s].refs)
           q == Moved(n, m[s].succ)
<1>1. Work(n + 1, c, c, n - 1, op, type, r, q, {})
  BY CopyBegins
<1> HIDE DEF c, op, type, r, q
<1>2. Work(n + 1, c, UnlinkAll(c, n - 1), n - 1, op, type, r, <<>>, {} \ ToSet(q))
  BY <1>1, WorkUnlinkAll
<1>3. {} \ ToSet(q) = {}
  OBVIOUS
<1>4. Work(n + 1, c, UnlinkAll(c, n - 1), n - 1, op, type, r, <<>>, {})
  BY <1>2, <1>3
<1>5. Detached(m, s) = UnlinkAll(c, n - 1)
  BY DetachedIs DEF c
<1> QED BY <1>4, <1>5 DEF c, op, type, r

LEMMA BareWork ==
  ASSUME NEW n, NEW k, NEW m, NEW s, NEW op, NEW type, NEW refs, NEW succ, NEW N,
         Work(n, k, m, s, op, type, refs, succ, N)
  PROVE  Work(n, k, [m EXCEPT ![s].op = "insn", ![s].refs = <<>>], s, "insn", type, <<>>, succ, N)
<1> DEFINE a == [m EXCEPT ![s].op = "insn"]
           b == [a EXCEPT ![s].refs = <<>>]
<1>1. "insn" \in Opcodes /\ <<>> \in Seq(0..n-1)
  BY DEF Opcodes
<1>2. Work(n, k, a, s, "insn", type, refs, succ, N)
  BY <1>1, WorkOp
<1>3. [m EXCEPT ![s].op = "insn", ![s].refs = <<>>] = b
  OBVIOUS
<1>4. Work(n, k, b, s, "insn", type, <<>>, succ, N)
  <2> HIDE DEF a
  <2> QED BY <1>1, <1>2, WorkRefs
<1> HIDE DEF b
<1> QED BY <1>3, <1>4

LEMMA StandaloneMakes ==
  ASSUME NEW n, NEW m, Sound(n, m), NEW s \in 0..n-2, NoFall(m[n-2]), NEW t \in 0..n
  PROVE  Done(n + 1, Copied(n, m, s), CreateStandalone(m, s, t), n - 1, "goto", "1WAY", <<t>>, <<t>>)
<1> DEFINE c == Copied(n, m, s)
           d == Detached(m, s)
           bare == [d EXCEPT ![n-1].op = "insn", ![n-1].refs = <<>>]
           type == m[s].type
           op == m[s].op
           r == Moved(n, m[s].refs)
<1>1. n \in Nat /\ ExitSerial(m) = n - 1 /\ t \in 0..(n+1)-1
  BY SizeIs DEF Sound, IsArray
<1>2. Work(n + 1, c, d, n - 1, op, type, r, <<>>, {})
  BY DetachedWork
<1>3. Work(n + 1, c, bare, n - 1, "insn", type, <<>>, <<>>, {})
  <2> HIDE DEF c, d, type, op, r
  <2> QED BY <1>2, BareWork
<1>4. CreateStandalone(m, s, t) = Change0Way(bare, n - 1, t)
  BY <1>1 DEF CreateStandalone, Change0Way
<1> HIDE DEF c, bare, type
<1>5. Done(n + 1, c, Change0Way(bare, n - 1, t), n - 1, "goto", "1WAY", <<t>>, <<t>>)
  BY <1>1, <1>3, WorkChange0Way
<1> QED BY <1>4, <1>5 DEF c

LEMMA TerminalMakes ==
  ASSUME NEW n, NEW m, Sound(n, m), NEW s \in 0..n-2, NoFall(m[n-2])
  PROVE  Done(n + 1, Copied(n, m, s), CreateTerminal(m, s), n - 1, "insn", "0WAY", <<>>, <<>>)
<1> DEFINE c == Copied(n, m, s)
           d == Detached(m, s)
           bare == [d EXCEPT ![n-1].op = "insn", ![n-1].refs = <<>>]
           e == [bare EXCEPT ![n-1].type = "0WAY"]
           type == m[s].type
           op == m[s].op
           r == Moved(n, m[s].refs)
<1>1. n \in Nat /\ ExitSerial(m) = n - 1
  BY SizeIs DEF Sound, IsArray
<1>2. Work(n + 1, c, d, n - 1, op, type, r, <<>>, {})
  BY DetachedWork
<1>3. Work(n + 1, c, bare, n - 1, "insn", type, <<>>, <<>>, {})
  <2> HIDE DEF c, d, type, op, r
  <2> QED BY <1>2, BareWork
<1>4. CreateTerminal(m, s) = e
  <2>1. CreateTerminal(m, s) = [d EXCEPT ![n-1].op = "insn", ![n-1].refs = <<>>, ![n-1].type = "0WAY"]
    BY <1>1 DEF CreateTerminal
  <2> HIDE DEF d
  <2> QED BY <2>1
<1>5. "0WAY" \in Types
  BY DEF Types
<1>6. Work(n + 1, c, e, n - 1, "insn", "0WAY", <<>>, <<>>, {})
  <2> HIDE DEF c, bare, type
  <2> QED BY <1>3, <1>5, WorkType
<1>7. Done(n + 1, c, e, n - 1, "insn", "0WAY", <<>>, <<>>)
  <2> HIDE DEF c, e
  <2> QED BY <1>6, WorkStops
<1> HIDE DEF e
<1> QED BY <1>4, <1>7 DEF c

LEMMA ArrayHasColumns ==
  ASSUME NEW n, NEW m, IsArray(n, m)
  PROVE  \E i, o, y, r, q, p : /\ Column(0..n-1, o) /\ Column(0..n-1, y) /\ Column(0..n-1, r)
                               /\ Column(0..n-1, q) /\ Column(0..n-1, p)
                               /\ m = Rows(0..n-1, i, o, y, r, q, p)
<1> DEFINE D == 0..n-1
<1>1. m = [x \in D |-> m[x]]
  BY DEF IsArray
<1>2. \A x \in D : m[x] = Record(m[x].id, m[x].op, m[x].type, m[x].refs, m[x].succ, m[x].pred)
  BY BlockIs DEF Record
<1>3. m = Rows(D, [x \in D |-> m[x].id], [x \in D |-> m[x].op], [x \in D |-> m[x].type],
               [x \in D |-> m[x].refs], [x \in D |-> m[x].succ], [x \in D |-> m[x].pred])
  <2> HIDE DEF D
  <2> QED BY <1>1, <1>2, HasColumns
<1>4. /\ Column(D, [x \in D |-> m[x].op]) /\ Column(D, [x \in D |-> m[x].type])
      /\ Column(D, [x \in D |-> m[x].refs]) /\ Column(D, [x \in D |-> m[x].succ])
      /\ Column(D, [x \in D |-> m[x].pred])
  BY DEF Column
<1> QED BY <1>3, <1>4

LEMMA ColumnsEqual ==
  ASSUME NEW D, NEW f, NEW g, Column(D, f), Column(D, g), \A x \in D : f[x] = g[x]
  PROVE  f = g
BY DEF Column

(* Redirecting s into the new block k and giving k its edge, in either order.  *)
Inserted(d, s, k, t) ==
  LET before == AddSucc(DelSucc(AddSucc(MakeOneWay(d, k, t), k, t), s, t), s, k)
      aimed == [before EXCEPT ![s].refs = <<k>>]
  IN  AddPred(AddPred(DelPred(aimed, t, s), t, k), k, s)
Ended(d, k) == [d EXCEPT ![k].op = "insn", ![k].refs = <<>>, ![k].type = "0WAY"]
Aimed(d, s, k, t) ==
  AddPred(DelPred([AddSucc(DelSucc(d, s, t), s, k) EXCEPT ![s].refs = <<k>>], t, s), k, s)

LEMMA InsertedIs ==
  ASSUME NEW n, NEW d, IsArray(n, d), NEW s \in 0..n-1, NEW k \in 0..n-1, NEW t \in 0..n-1,
         s # k, t # k
  PROVE  Inserted(d, s, k, t) = Change0Way(Aimed(Ended(d, k), s, k, t), k, t)
<1> DEFINE D == 0..n-1
<1>1. PICK i, o, y, r, q, p : /\ Column(D, o) /\ Column(D, y) /\ Column(D, r)
                              /\ Column(D, q) /\ Column(D, p)
                              /\ d = Rows(D, i, o, y, r, q, p)
  BY ArrayHasColumns
<1> HIDE DEF D
<1>2. s \in D /\ k \in D /\ t \in D
  BY DEF D
<1> DEFINE o1 == Put(o, k, "goto")
           y1 == Put(y, k, "1WAY")
           r1 == Put(r, k, <<t>>)
           r2 == Put(r1, s, <<k>>)
           q1 == Put(q, k, Append(q[k], t))
           q2 == Put(q1, s, RemoveFirst(q1[s], t))
           q3 == Put(q2, s, Append(q2[s], k))
           p1 == Put(p, t, RemoveFirst(p[t], s))
           p2 == Put(p1, t, Append(p1[t], k))
           p3 == Put(p2, k, Append(p2[k], s))
<1>3. Inserted(d, s, k, t) = Rows(D, i, o1, y1, r2, q3, p3)
  <2> DEFINE a1 == MakeOneWay(d, k, t)
             a2 == AddSucc(a1, k, t)
             a3 == DelSucc(a2, s, t)
             a4 == AddSucc(a3, s, k)
             a5 == PutRefs(a4, s, <<k>>)
             a6 == DelPred(a5, t, s)
             a7 == AddPred(a6, t, k)
             a8 == AddPred(a7, k, s)
  <2>1. a1 = Rows(D, i, o1, y1, r1, q, p)
    BY <1>1, <1>2, RowsMakeOneWay
  <2>2. Column(D, r1) /\ Column(D, q1) /\ Column(D, p1)
    BY <1>1, ColumnSet
  <2> HIDE DEF o1, y1, r1
  <2>3. a2 = Rows(D, i, o1, y1, r1, q1, p)
    <3> HIDE DEF a1
    <3> QED BY <1>1, <1>2, <2>1, RowsAddSucc
  <2>4. Column(D, q2) /\ Column(D, p2)
    <3> HIDE DEF q1, p1
    <3> QED BY <2>2, ColumnSet
  <2> HIDE DEF q1
  <2>5. a3 = Rows(D, i, o1, y1, r1, q2, p)
    <3> HIDE DEF a2
    <3> QED BY <1>2, <2>2, <2>3, RowsDelSucc
  <2> HIDE DEF q2
  <2>6. a4 = Rows(D, i, o1, y1, r1, q3, p)
    <3> HIDE DEF a3
    <3> QED BY <1>2, <2>4, <2>5, RowsAddSucc
  <2> HIDE DEF q3
  <2>7. a5 = Rows(D, i, o1, y1, r2, q3, p)
    <3> HIDE DEF a4
    <3> QED BY <1>2, <2>2, <2>6, RowsSetRefs
  <2> HIDE DEF r2
  <2>8. a6 = Rows(D, i, o1, y1, r2, q3, p1)
    <3> HIDE DEF a5
    <3> QED BY <1>1, <1>2, <2>7, RowsDelPred
  <2> HIDE DEF p1
  <2>9. a7 = Rows(D, i, o1, y1, r2, q3, p2)
    <3> HIDE DEF a6
    <3> QED BY <1>2, <2>2, <2>8, RowsAddPred
  <2> HIDE DEF p2
  <2>10. a8 = Rows(D, i, o1, y1, r2, q3, p3)
    <3> HIDE DEF a7
    <3> QED BY <1>2, <2>4, <2>9, RowsAddPred
  <2> QED BY <2>10 DEF Inserted, PutRefs
<1> DEFINE oa == Put(o, k, "insn")
           ob == Put(oa, k, "goto")
           ya == Put(y, k, "0WAY")
           yb == Put(ya, k, "1WAY")
           ra == Put(r, k, <<>>)
           rb == Put(ra, s, <<k>>)
           rc == Put(rb, k, <<t>>)
           qa == Put(q, s, RemoveFirst(q[s], t))
           qb == Put(qa, s, Append(qa[s], k))
           qc == Put(qb, k, Append(qb[k], t))
           pb == Put(p1, k, Append(p1[k], s))
           pc == Put(pb, t, Append(pb[t], k))
<1>4. /\ Column(D, oa) /\ Column(D, ya) /\ Column(D, ra) /\ Column(D, qa) /\ Column(D, p1)
  BY <1>1, ColumnSet
<1>5. Column(D, rb) /\ Column(D, qb) /\ Column(D, pb)
  <2> HIDE DEF ra, qa, p1
  <2> QED BY <1>4, ColumnSet
<1>6. Change0Way(Aimed(Ended(d, k), s, k, t), k, t) = Rows(D, i, ob, yb, rc, qc, pc)
  <2> DEFINE e1 == PutOp(d, k, "insn")
             e2 == PutRefs(e1, k, <<>>)
             e3 == PutType(e2, k, "0WAY")
             b1 == DelSucc(e3, s, t)
             b2 == AddSucc(b1, s, k)
             b3 == PutRefs(b2, s, <<k>>)
             b4 == DelPred(b3, t, s)
             b5 == AddPred(b4, k, s)
             b6 == MakeOneWay(b5, k, t)
             b7 == AddSucc(b6, k, t)
             b8 == AddPred(b7, t, k)
  <2>1. Ended(d, k) = e3
    BY DEF Ended, PutOp, PutRefs, PutType
  <2>2. e1 = Rows(D, i, oa, y, r, q, p)
    BY <1>1, <1>2, RowsSetOp
  <2> HIDE DEF oa
  <2>3. e2 = Rows(D, i, oa, y, ra, q, p)
    <3> HIDE DEF e1
    <3> QED BY <1>1, <1>2, <2>2, RowsSetRefs
  <2> HIDE DEF ra
  <2>4. e3 = Rows(D, i, oa, ya, ra, q, p)
    <3> HIDE DEF e2
    <3> QED BY <1>1, <1>2, <2>3, RowsSetType
  <2> HIDE DEF ya, e3
  <2>5. b1 = Rows(D, i, oa, ya, ra, qa, p)
    BY <1>1, <1>2, <2>4, RowsDelSucc
  <2> HIDE DEF qa
  <2>6. b2 = Rows(D, i, oa, ya, ra, qb, p)
    <3> HIDE DEF b1
    <3> QED BY <1>2, <1>4, <2>5, RowsAddSucc
  <2> HIDE DEF qb
  <2>7. b3 = Rows(D, i, oa, ya, rb, qb, p)
    <3> HIDE DEF b2
    <3> QED BY <1>2, <1>4, <2>6, RowsSetRefs
  <2> HIDE DEF rb
  <2>8. b4 = Rows(D, i, oa, ya, rb, qb, p1)
    <3> HIDE DEF b3
    <3> QED BY <1>1, <1>2, <2>7, RowsDelPred
  <2> HIDE DEF p1
  <2>9. b5 = Rows(D, i, oa, ya, rb, qb, pb)
    <3> HIDE DEF b4
    <3> QED BY <1>2, <1>4, <2>8, RowsAddPred
  <2>10. Aimed(Ended(d, k), s, k, t) = b5
    BY <2>1 DEF Aimed, PutRefs
  <2> HIDE DEF pb, b5
  <2>11. b6 = Rows(D, i, ob, yb, rc, qb, pb)
    BY <1>2, <1>4, <1>5, <2>9, RowsMakeOneWay
  <2> HIDE DEF ob, yb, rc
  <2>12. b7 = Rows(D, i, ob, yb, rc, qc, pb)
    <3> HIDE DEF b6
    <3> QED BY <1>2, <1>5, <2>11, RowsAddSucc
  <2> HIDE DEF qc
  <2>13. b8 = Rows(D, i, ob, yb, rc, qc, pc)
    <3> HIDE DEF b7
    <3> QED BY <1>2, <1>5, <2>12, RowsAddPred
  <2>14. Change0Way(b5, k, t) = b8
    BY DEF Change0Way, Link
  <2> QED BY <2>10, <2>13, <2>14
<1>7. o1 = ob /\ y1 = yb
  BY <1>1 DEF Column, Put
<1>8. rc = r2
  <2>1. \A x \in D : rc[x] = r2[x]
    BY <1>1, <1>2 DEF Column, Put
  <2>2. Column(D, rc) /\ Column(D, r2)
    <3>1. Column(D, r1)
      BY <1>1, ColumnSet
    <3> HIDE DEF rb, r1
    <3> QED BY <1>5, <3>1, ColumnSet
  <2> HIDE DEF rc, r2
  <2> QED BY <2>1, <2>2, ColumnsEqual
<1>9. qc = q3
  <2>1. \A x \in D : qc[x] = q3[x]
    BY <1>1, <1>2 DEF Column, Put
  <2>2. Column(D, q1)
    BY <1>1, ColumnSet
  <2>3. Column(D, q2)
    <3> HIDE DEF q1
    <3> QED BY <2>2, ColumnSet
  <2>4. Column(D, qc) /\ Column(D, q3)
    <3> HIDE DEF qb, q2
    <3> QED BY <1>5, <2>3, ColumnSet
  <2> HIDE DEF qc, q3
  <2> QED BY <2>1, <2>4, ColumnsEqual
<1>10. pc = p3
  <2> HIDE DEF p1
  <2>1. \A x \in D : pc[x] = p3[x]
    BY <1>2, <1>4 DEF Column, Put
  <2>2. Column(D, p2)
    BY <1>4, ColumnSet
  <2>3. Column(D, pc) /\ Column(D, p3)
    <3> HIDE DEF pb, p2
    <3> QED BY <1>5, <2>2, ColumnSet
  <2> HIDE DEF pc, p3
  <2> QED BY <2>1, <2>3, ColumnsEqual
<1> HIDE DEF o1, y1, r2, q3, p3, ob, yb, rc, qc, pc
<1> QED BY <1>3, <1>6, <1>7, <1>8, <1>9, <1>10

(* The array r is m with a block in front of the exit, whose successors are    *)
(* new; of the others only s may have changed its own.                         *)
Grown(n, m, r, s, new) ==
  /\ r[n-1].id = n /\ r[n-1].succ = new
  /\ \A x \in 0..n : x # n - 1 => r[x].id = m[Was(n, x)].id
  /\ \A x \in 0..n : x # n - 1 /\ x # s => r[x].succ = Moved(n, m[Was(n, x)].succ)

LEMMA CopyGrown ==
  ASSUME NEW n, NEW m, Sound(n, m), NEW s \in 0..n-2, NEW r, NEW op, NEW type, NEW refs, NEW new,
         Done(n + 1, Copied(n, m, s), r, n - 1, op, type, refs, new)
  PROVE  Grown(n, m, r, n - 1, new)
<1> DEFINE c == Copied(n, m, s)
<1>1. n \in Nat /\ (n + 1) - 1 = n
  BY DEF Sound, IsArray
<1>2. /\ \A x \in 0..n : x # n - 1 => c[x] = Shifted(n, m[Was(n, x)], m[Was(n, x)].id)
      /\ c[n-1] = Record(n, m[s].op, m[s].type, Moved(n, m[s].refs), Moved(n, m[s].succ), <<>>)
  BY CopiedBlocks
<1>3. c[n-1].id = n
  BY <1>2 DEF Record
<1> HIDE DEF c
<1>4. r[n-1].id = c[n-1].id /\ r[n-1].succ = new
  BY DEF Done, c
<1>5. \A x \in 0..n : x # n - 1 => SameTail(r[x], c[x])
  BY <1>1 DEF Done, Beside, c
<1>6. ASSUME NEW x \in 0..n, x # n - 1
      PROVE  r[x].id = m[Was(n, x)].id /\ r[x].succ = Moved(n, m[Was(n, x)].succ)
  <2>1. c[x] = Shifted(n, m[Was(n, x)], m[Was(n, x)].id)
    BY <1>2, <1>6
  <2>2. c[x].id = m[Was(n, x)].id /\ c[x].succ = Moved(n, m[Was(n, x)].succ)
    BY <2>1, ShiftedIs
  <2> QED BY <1>5, <1>6, <2>2 DEF SameTail
<1> QED BY <1>3, <1>4, <1>6 DEF Grown

(* The new block is edited again, or the one that goes to it.                  *)
LEMMA GrownNew ==
  ASSUME NEW n \in Nat, NEW m, NEW a, NEW s, NEW old, Grown(n, m, a, s, old),
         NEW r, NEW op, NEW type, NEW refs, NEW new, Done(n + 1, a, r, n - 1, op, type, refs, new)
  PROVE  Grown(n, m, r, s, new) /\ \A x \in 0..n : x # n - 1 => r[x].succ = a[x].succ
<1>1. (n + 1) - 1 = n
  OBVIOUS
<1>2. /\ \A x \in 0..n : x # n - 1 => SameTail(r[x], a[x])
      /\ r[n-1].id = a[n-1].id /\ r[n-1].succ = new
  BY <1>1 DEF Done, Beside
<1> QED BY <1>2 DEF Grown, SameTail

LEMMA GrownAt ==
  ASSUME NEW n \in Nat, NEW m, NEW a, NEW new, Grown(n, m, a, n - 1, new), NEW s \in 0..n-2,
         NEW r, NEW op, NEW type, NEW refs, NEW succ, Done(n + 1, a, r, s, op, type, refs, succ)
  PROVE  Grown(n, m, r, s, new) /\ r[s].succ = succ
<1>1. (n + 1) - 1 = n /\ s # n - 1 /\ n - 1 \in 0..n
  OBVIOUS
<1>2. /\ \A x \in 0..n : x # s => SameTail(r[x], a[x])
      /\ r[s].id = a[s].id /\ r[s].succ = succ
  BY <1>1 DEF Done, Beside
<1>3. SameTail(r[n-1], a[n-1])
  BY <1>1, <1>2
<1> QED BY <1>1, <1>2, <1>3 DEF Grown, SameTail

LEMMA InsertNopMakes ==
  ASSUME NEW n, NEW m, Sound(n, m), NEW s \in 0..n-2, NoFall(m[n-2]), m[s].op = "goto",
         m[s].succ[1] # n - 1
  PROVE  LET t == m[s].succ[1]
         IN  /\ \E k : Done(n + 1, k, InsertNop(m, s), n - 1, "goto", "1WAY", <<t>>, <<t>>)
             /\ Grown(n, m, InsertNop(m, s), s, <<t>>) /\ InsertNop(m, s)[s].succ = <<n - 1>>
<1> DEFINE t == m[s].succ[1]
           k == n - 1
           c == Copied(n, m, s)
           d == Detached(m, s)
           e == CreateTerminal(m, s)
<1>1. /\ n \in Nat /\ n >= 2 /\ ExitSerial(m) = k /\ s \in 0..n-1 /\ s # k /\ s # n /\ s \in 0..n
      /\ (n + 1) - 1 = n /\ (n + 1) - 2 = k /\ s \in 0..k /\ k \in 0..n /\ k \in 0..k
  BY SizeIs DEF Sound, IsArray
<1>2. m[s].type = "1WAY" /\ t \in 0..n-1 /\ m[s].refs = <<t>> /\ m[s].succ = <<t>>
  BY <1>1, JumpIs
<1>3. t \in 0..n /\ t # k
  BY <1>1, <1>2
<1>4. Done(n + 1, c, e, k, "insn", "0WAY", <<>>, <<>>) /\ Grown(n, m, e, k, <<>>)
  BY TerminalMakes, CopyGrown
<1>5. c[s].op = "goto" /\ c[s].type = "1WAY" /\ c[s].refs = <<t>> /\ c[s].succ = <<t>>
  <2>1. Was(n, s) = s /\ c[s] = Shifted(n, m[s], m[s].id)
    <3>1. Was(n, s) = s
      BY <1>1 DEF Was
    <3> HIDE DEF c
    <3> QED BY <1>1, <3>1, CopiedBlocks, SMTT(20) DEF c
  <2>2. Moved(n, <<t>>) = <<t>>
    <3> HIDE DEF t
    <3>1. PICK u \in 0..n : Moved(n, <<t>>) = <<u>> /\ u = (IF t = n - 1 THEN n ELSE t)
      BY <1>1, <1>2, MovedOne
    <3> QED BY <1>3, <3>1
  <2> HIDE DEF c, t
  <2> QED BY <1>2, <2>1, <2>2, ShiftedIs
<1> HIDE DEF c
<1>6. IsArray(n + 1, d) /\ d[s].op = "goto" /\ d[s].refs = <<t>>
  <2> DEFINE op == m[s].op
             type == m[s].type
             r == Moved(n, m[s].refs)
  <2>1. Work(n + 1, c, d, k, op, type, r, <<>>, {})
    BY DetachedWork DEF c
  <2> HIDE DEF op, type, r, d
  <2>2. IsArray(n + 1, d) /\ SameTail(d[s], c[s])
    BY <1>1, <2>1 DEF Work, Around, Beside
  <2> QED BY <1>5, <2>2 DEF SameTail
<1> HIDE DEF t, d
<1>7. e = Ended(d, k)
  BY <1>1 DEF CreateTerminal, Ended, d
<1>8. InsertNop(m, s) = Inserted(d, s, k, t)
  <2> DEFINE nop == AddSucc(MakeOneWay(d, k, t), k, t)
             before == AddSucc(DelSucc(nop, s, t), s, k)
             aimed == IF before[s].op = "goto" /\ before[s].refs = <<t>>
                      THEN [before EXCEPT ![s].refs = <<k>>] ELSE before
  <2>1. InsertNop(m, s) = AddPred(AddPred(DelPred(aimed, t, s), t, k), k, s)
    BY <1>1 DEF InsertNop, t, d
  <2>2. before[s].op = "goto" /\ before[s].refs = <<t>>
    <3>1. nop[s] = d[s] /\ DOMAIN nop = DOMAIN d /\ s \in DOMAIN d
      BY <1>1, <1>6 DEF AddSucc, MakeOneWay, InsertGoto, IsArray
    <3> HIDE DEF nop
    <3> DEFINE x == RemoveFirst(nop[s].succ, t)
               b1 == [nop EXCEPT ![s].succ = x]
               v == Append(b1[s].succ, k)
               b2 == [b1 EXCEPT ![s].succ = v]
    <3>2. before = b2
      BY DEF AddSucc, DelSucc
    <3>3. b1[s].op = nop[s].op /\ b1[s].refs = nop[s].refs /\ s \in DOMAIN b1
      <4> HIDE DEF x
      <4> QED BY <3>1
    <3>4. b2[s].op = b1[s].op /\ b2[s].refs = b1[s].refs
      <4>1. s \in DOMAIN b1
        BY <3>3
      <4>2. \A z : [b1 EXCEPT ![s].succ = z][s] = [b1[s] EXCEPT !.succ = z]
        <5> HIDE DEF b1
        <5> QED BY <4>1
      <4>3. \A y, z : [y EXCEPT !.succ = z].op = y.op /\ [y EXCEPT !.succ = z].refs = y.refs
        OBVIOUS
      <4>4. b2[s] = [b1[s] EXCEPT !.succ = v]
        <5> HIDE DEF v, b1
        <5> QED BY <4>2
      <4> HIDE DEF v, b1, b2
      <4> QED BY <4>3, <4>4
    <3> HIDE DEF b1, b2, before
    <3> QED BY <1>6, <3>1, <3>2, <3>3, <3>4
  <2> HIDE DEF before
  <2>3. aimed = [before EXCEPT ![s].refs = <<k>>]
    BY <2>2
  <2> QED BY <2>1, <2>3 DEF Inserted, before
<1> HIDE DEF e
<1> DEFINE a == Aimed(e, s, k, t)
<1>9. InsertNop(m, s) = Change0Way(a, k, t)
  BY <1>1, <1>3, <1>6, <1>7, <1>8, InsertedIs
<1>10. Sound(n + 1, e) /\ e[k].succ = <<>> /\ SameTail(e[s], c[s])
  BY <1>1, <1>4 DEF Done, Beside
<1>11. e[s].op = "goto" /\ e[s].type = "1WAY" /\ e[s].refs = <<t>> /\ e[s].succ = <<t>>
  BY <1>5, <1>10 DEF SameTail
<1>12. Done(n + 1, e, a, s, "goto", "1WAY", <<k>>, <<k>>)
  <2> DEFINE N == n + 1
             b1 == DelSucc(e, s, t)
             b2 == AddSucc(b1, s, k)
             b3 == [b2 EXCEPT ![s].refs = <<k>>]
             b4 == DelPred(b3, t, s)
             b5 == AddPred(b4, k, s)
  <2>1. k \in 0..N-1 /\ t \in 0..N-1 /\ <<k>> \in Seq(0..N-1) /\ <<>> \in Seq(0..N-1)
    BY <1>1, <1>3
  <2>2. Work(N, e, e, s, e[s].op, e[s].type, e[s].refs, e[s].succ, ToSet(e[s].succ))
    BY <1>1, <1>10, WorkBegins
  <2>3. ToSet(<<t>>) = {t} /\ RemoveFirst(<<t>>, t) = <<>> /\ Append(<<>>, k) = <<k>>
        /\ {t} \ {t} = {} /\ {} \cup {k} = {k} /\ k \notin {}
    <3>1. t \in {t}
      OBVIOUS
    <3>2. RemoveFirst(<<t>>, t) = <<>>
      BY <3>1, RemovedOnly
    <3>3. ToSet(<<t>>) = {t}
      BY <3>1, One
    <3>4. Append(<<>>, k) = <<k>>
      OBVIOUS
    <3> QED BY <3>2, <3>3, <3>4
  <2>4. Work(N, e, e, s, "goto", "1WAY", <<t>>, <<t>>, {t})
    BY <1>11, <2>2, <2>3
  <2> HIDE DEF N
  <2>5. Work(N, e, b1, s, "goto", "1WAY", <<t>>, <<>>, {t})
    <3>1. Work(N, e, b1, s, "goto", "1WAY", <<t>>, RemoveFirst(<<t>>, t), {t})
      BY <2>1, <2>3, <2>4, WorkDelSucc
    <3> QED BY <2>3, <3>1
  <2>6. Work(N, e, b2, s, "goto", "1WAY", <<t>>, <<k>>, {t})
    <3> HIDE DEF b1
    <3>1. Work(N, e, b2, s, "goto", "1WAY", <<t>>, Append(<<>>, k), {t})
      BY <2>1, <2>5, WorkAddSucc
    <3> QED BY <2>3, <3>1
  <2>7. Work(N, e, b3, s, "goto", "1WAY", <<k>>, <<k>>, {t})
    <3> HIDE DEF b2
    <3> QED BY <2>1, <2>6, WorkRefs
  <2>8. Work(N, e, b4, s, "goto", "1WAY", <<k>>, <<k>>, {})
    <3> HIDE DEF b3
    <3>1. Work(N, e, b4, s, "goto", "1WAY", <<k>>, <<k>>, {t} \ {t})
      BY <2>1, <2>7, WorkDelPred
    <3> QED BY <2>3, <3>1
  <2>9. Work(N, e, b5, s, "goto", "1WAY", <<k>>, <<k>>, {k})
    <3> HIDE DEF b4
    <3>1. Work(N, e, b5, s, "goto", "1WAY", <<k>>, <<k>>, {} \cup {k})
      BY <2>1, <2>3, <2>8, WorkAddPred
    <3> QED BY <2>3, <3>1
  <2>10. a = b5
    BY DEF Aimed
  <2> HIDE DEF b5, a, k
  <2>11. Done(N, e, a, s, "goto", "1WAY", <<k>>, <<k>>)
    BY <2>1, <2>9, <2>10, WorkJumps
  <2> QED BY <2>11 DEF N
<1> HIDE DEF a
<1>13. Sound(n + 1, a) /\ Nsucc(a, k) = 0
  <2>1. Sound(n + 1, a) /\ SameTail(a[k], e[k])
    BY <1>1, <1>12 DEF Done, Beside
  <2>2. a[k].succ = <<>>
    BY <1>10, <2>1 DEF SameTail
  <2> QED BY <2>1, <2>2 DEF Nsucc
<1>14. Done(n + 1, a, Change0Way(a, k, t), k, "goto", "1WAY", <<t>>, <<t>>)
  <2>1. k \in 0..(n+1)-2 /\ t \in 0..(n+1)-1
    BY <1>1, <1>3
  <2> HIDE DEF k
  <2> QED BY <1>13, <2>1, Change0WayKeeps
<1>15. Grown(n, m, a, s, <<>>) /\ a[s].succ = <<k>>
  <2>1. Grown(n, m, e, n - 1, <<>>)
    BY <1>4
  <2> HIDE DEF k
  <2> QED BY <1>1, <1>12, <2>1, GrownAt
<1>16. /\ Grown(n, m, Change0Way(a, k, t), s, <<t>>)
       /\ Change0Way(a, k, t)[s].succ = a[s].succ
  <2> DEFINE r == Change0Way(a, k, t)
  <2>1. Done(n + 1, a, r, n - 1, "goto", "1WAY", <<t>>, <<t>>)
    BY <1>14
  <2> HIDE DEF r, k
  <2>2. Grown(n, m, r, s, <<t>>) /\ \A x \in 0..n : x # n - 1 => r[x].succ = a[x].succ
    BY <1>1, <1>15, <2>1, GrownNew
  <2> QED BY <1>1, <2>2 DEF r, k
<1> QED BY <1>9, <1>14, <1>15, <1>16 DEF t, k

LEMMA InsertEndMakes ==
  ASSUME NEW n, NEW m, Sound(n, m), NEW s \in 0..n-2, NoFall(m[n-2]), m[s].op = "goto",
         m[s].succ[1] # n - 1
  PROVE  LET r == EndCreated(InsertNop(m, s), n - 1)
         IN  /\ \E k : Done(n + 1, k, r, n - 1, "insn", "0WAY", <<>>, <<>>)
             /\ Grown(n, m, r, s, <<>>) /\ r[s].succ = <<n - 1>>
<1> DEFINE t == m[s].succ[1]
           a == InsertNop(m, s)
           b == n - 1
<1>1. n \in Nat /\ n >= 2 /\ s \in 0..n-1 /\ b \in 0..(n+1)-2 /\ (n + 1) - 1 = n /\ n \in Nat
  BY DEF Sound, IsArray
<1>2. t \in 0..n-1
  BY <1>1, JumpIs
<1>3. t \in 0..(n+1)-1
  BY <1>1, <1>2
<1>4. PICK k : Done(n + 1, k, a, b, "goto", "1WAY", <<t>>, <<t>>)
  BY InsertNopMakes
<1>11. Grown(n, m, a, s, <<t>>) /\ a[s].succ = <<n - 1>> /\ s # n - 1 /\ s \in 0..n
  BY <1>1, InsertNopMakes
<1> HIDE DEF t, a, b
<1>5. Sound(n + 1, a) /\ a[b].op = "goto" /\ a[b].type = "1WAY" /\ a[b].refs = <<t>> /\ a[b].succ = <<t>>
  BY <1>4 DEF Done
<1>6. Work(n + 1, a, a, b, a[b].op, a[b].type, a[b].refs, a[b].succ, ToSet(a[b].succ))
  BY <1>1, <1>5, WorkBegins
<1>7. ToSet(<<t>>) = {t} /\ <<t>>[1] = t
  BY DEF ToSet
<1>8. Work(n + 1, a, a, b, "goto", "1WAY", <<t>>, <<t>>, {t})
  BY <1>5, <1>6, <1>7
<1> DEFINE c == Unlink([a EXCEPT ![b].op = "insn", ![b].refs = <<>>, ![b].type = "0WAY"], b, t)
<1>9. Done(n + 1, a, c, b, "insn", "0WAY", <<>>, <<>>)
  BY <1>3, <1>8, WorkEndsFlow
<1>10. EndCreated(a, b) = c
  BY <1>5, <1>7 DEF EndCreated
<1> HIDE DEF c
<1>12. Grown(n, m, c, s, <<>>) /\ \A x \in 0..n : x # n - 1 => c[x].succ = a[x].succ
  <2>1. Done(n + 1, a, c, n - 1, "insn", "0WAY", <<>>, <<>>)
    BY <1>9 DEF b
  <2> QED BY <1>1, <1>11, <2>1, GrownNew
<1> QED BY <1>9, <1>10, <1>11, <1>12 DEF a, b

(* Fencing the block before the copy is making it a jump before copying.       *)
LEMMA FencedIs ==
  ASSUME NEW n, NEW m, Sound(n, m), NEW s \in 0..n-2,
         NoFall(m[n-2]) \/ (s # n - 2 /\ m[n-2].type \in {"0WAY", "1WAY"})
  PROVE  \E a : /\ Sound(n, a) /\ NoFall(a[n-2]) /\ a[s] = m[s]
                /\ \A x \in 0..n-1 : a[x].id = m[x].id /\ a[x].succ = m[x].succ
                /\ Fenced(Copied(n, m, s), s, n - 1) = Copied(n, a, s)
<1> DEFINE c == Copied(n, m, s)
           prev == n - 2
<1>1. /\ n \in Nat /\ n >= 2 /\ n - 1 \in 0..n-1 /\ prev \in 0..n-2 /\ prev \in 0..n-1 /\ prev \in 0..n
      /\ s \in 0..n-1 /\ prev # n - 1 /\ prev # n /\ (n - 1) - 1 = prev /\ (n - 1) + 1 = n
      /\ IsArray(n, m) /\ n # n - 1 /\ prev + 1 = n - 1 /\ n \in 0..n
  BY DEF Sound, IsArray
<1>2. c[prev] = Shifted(n, m[prev], m[prev].id)
  <2>1. Was(n, prev) = prev
    BY <1>1 DEF Was
  <2>2. \A x \in 0..n : x # n - 1 => c[x] = Shifted(n, m[Was(n, x)], m[Was(n, x)].id)
    BY CopiedBlocks
  <2> HIDE DEF c
  <2> QED BY <1>1, <2>1, <2>2
<1>3. /\ c[prev].op = m[prev].op /\ c[prev].succ = Moved(n, m[prev].succ)
      /\ m[prev].succ \in Seq(0..n-1) /\ InShape(n, prev, m[prev])
  <2>1. c[prev].op = m[prev].op /\ c[prev].succ = Moved(n, m[prev].succ)
    <3> HIDE DEF c, prev
    <3> QED BY <1>2, ShiftedIs
  <2>2. m[prev].succ \in Seq(0..n-1)
    BY <1>1, BlockIs
  <2> QED BY <1>1, <2>1, <2>2 DEF Sound
<1>4. CASE NoFall(m[prev])
  <2>1. m[prev].op \in {"goto", "ijmp", "ret"} \/ m[prev].succ = <<>>
    BY <1>3, <1>4 DEF NoFall, InShape, Jumps, Branches, Switches, FallsThrough, Stops
  <2>2. c[prev].op \in {"goto", "ijmp", "ret"} \/ Nsucc(c, prev) = 0
    <3>1. Moved(n, <<>>) = <<>>
      BY DEF Moved
    <3> QED BY <1>3, <2>1, <3>1 DEF Nsucc
  <2> HIDE DEF c, prev
  <2>3. Fenced(c, s, n - 1) = c
    BY <1>1, <2>2 DEF Fenced
  <2> QED BY <1>4, <2>3 DEF c, prev
<1>5. CASE ~NoFall(m[prev])
  <2>1. s # prev /\ m[prev].type = "1WAY"
    BY <1>5 DEF NoFall
  <2>2. FallsThrough(n, prev, m[prev])
    BY <1>3, <1>5, <2>1 DEF NoFall, InShape, Jumps, Branches, Switches, Stops
  <2>3. m[prev].succ = <<n - 1>> /\ m[prev].op \notin {"goto", "jcond", "ijmp", "ret"}
    BY <1>1, <2>2 DEF FallsThrough
  <2>4. Moved(n, <<n - 1>>) = <<n>>
    <3>1. PICK u \in 0..n : Moved(n, <<n - 1>>) = <<u>> /\ u = (IF n - 1 = n - 1 THEN n ELSE n - 1)
      BY <1>1, MovedOne
    <3> QED BY <3>1
  <2> DEFINE a == MakeOneWay(m, prev, n - 1)
             o == m[prev].op
             y == m[prev].type
             r == m[prev].refs
  <2>5. Done(n, m, a, prev, "goto", "1WAY", <<n - 1>>, <<n - 1>>)
    <3>1. Work(n, m, m, prev, m[prev].op, m[prev].type, m[prev].refs, m[prev].succ, ToSet(m[prev].succ))
      BY <1>1, WorkBegins
    <3>2. ToSet(<<n - 1>>) = {n - 1}
      BY DEF ToSet
    <3>3. Work(n, m, m, prev, o, y, r, <<n - 1>>, {n - 1})
      BY <2>3, <3>1, <3>2
    <3> HIDE DEF o, y, r, prev
    <3>4. Work(n, m, a, prev, "goto", "1WAY", <<n - 1>>, <<n - 1>>, {n - 1})
      BY <1>1, <3>3, WorkMakeOneWay
    <3> HIDE DEF a
    <3> QED BY <1>1, <3>4, WorkJumps
  <2>6. Sound(n, a) /\ NoFall(a[prev])
    BY <2>5 DEF Done, NoFall
  <2>7. /\ a[prev] = Record(m[prev].id, "goto", "1WAY", <<n - 1>>, m[prev].succ, m[prev].pred)
        /\ \A x \in 0..n-1 : x # prev => a[x] = m[x]
    <3>1. PICK i, o2, y2, r2, q2, p2 : /\ Column(0..n-1, o2) /\ Column(0..n-1, y2) /\ Column(0..n-1, r2)
                                       /\ Column(0..n-1, q2) /\ Column(0..n-1, p2)
                                       /\ m = Rows(0..n-1, i, o2, y2, r2, q2, p2)
      BY <1>1, ArrayHasColumns
    <3> DEFINE o3 == Put(o2, prev, "goto")
               y3 == Put(y2, prev, "1WAY")
               r3 == Put(r2, prev, <<n - 1>>)
    <3>2. a = Rows(0..n-1, i, o3, y3, r3, q2, p2)
      <4> DEFINE D == 0..n-1
                 e == <<n - 1>>
      <4>1. /\ Column(D, o2) /\ Column(D, y2) /\ Column(D, r2) /\ prev \in D
            /\ m = Rows(D, i, o2, y2, r2, q2, p2)
        BY <1>1, <3>1
      <4> HIDE DEF prev, D
      <4>2. MakeOneWay(Rows(D, i, o2, y2, r2, q2, p2), prev, n - 1) =
              Rows(D, i, Put(o2, prev, "goto"), Put(y2, prev, "1WAY"), Put(r2, prev, <<n - 1>>), q2, p2)
        BY <4>1, RowsMakeOneWay
      <4> QED BY <4>1, <4>2 DEF D
    <3>3. o3[prev] = "goto" /\ y3[prev] = "1WAY" /\ r3[prev] = <<n - 1>>
      BY <1>1, <3>1 DEF Column, Put
    <3>4. \A x \in 0..n-1 : x # prev => o3[x] = o2[x] /\ y3[x] = y2[x] /\ r3[x] = r2[x]
      BY <3>1 DEF Column, Put
    <3> HIDE DEF o3, y3, r3, a, prev
    <3>5. m[prev].id = i[prev] /\ m[prev].succ = q2[prev] /\ m[prev].pred = p2[prev]
      <4> DEFINE D == 0..n-1
      <4>1. prev \in D /\ m = Rows(D, i, o2, y2, r2, q2, p2)
        BY <1>1, <3>1
      <4> HIDE DEF D
      <4> QED BY <4>1, RowIs
    <3>6. \A x \in 0..n-1 : /\ a[x] = Record(i[x], o3[x], y3[x], r3[x], q2[x], p2[x])
                            /\ m[x] = Record(i[x], o2[x], y2[x], r2[x], q2[x], p2[x])
      BY <3>1, <3>2 DEF Rows
    <3> QED BY <1>1, <3>3, <3>4, <3>5, <3>6
  <2>8. a[s] = m[s]
    BY <1>1, <2>1, <2>7
  <2>19. \A x \in 0..n-1 : a[x].id = m[x].id /\ a[x].succ = m[x].succ
    <3>1. a[prev].id = m[prev].id /\ a[prev].succ = m[prev].succ
      <4> HIDE DEF a
      <4> QED BY <2>7 DEF Record
    <3> HIDE DEF a
    <3> QED BY <2>7, <3>1
  <2> HIDE DEF a
  <2> DEFINE b == MakeOneWay(c, prev, n)
             bare == DelSucc(b, prev, n - 1)
             k == Copied(n, a, s)
  <2>9. /\ c \in [0..n -> Blocks(n + 1)] /\ k \in [0..n -> Blocks(n + 1)]
        /\ \A x \in 0..n : x # n - 1 =>
             /\ Was(n, x) \in 0..n-1 /\ Was(n, x) # n
             /\ c[x] = Shifted(n, m[Was(n, x)], m[Was(n, x)].id)
             /\ k[x] = Shifted(n, a[Was(n, x)], a[Was(n, x)].id)
        /\ c[n-1] = k[n-1]
    BY <2>6, <2>8, CopiedBlocks
  <2> HIDE DEF c, k
  <2>10. c[prev].succ = <<n>> /\ Nsucc(c, prev) = 1
    BY <1>3, <2>3, <2>4 DEF Nsucc
  <2>11. c[prev] = Record(c[prev].id, c[prev].op, c[prev].type, c[prev].refs, <<n>>, c[prev].pred)
    <3>1. c[prev] \in Blocks(n + 1)
      BY <1>1, <2>9
    <3> HIDE DEF prev
    <3> QED BY <2>10, <3>1 DEF Blocks, Record
  <2>12. b = [c EXCEPT ![prev] = Record(c[prev].id, "goto", "1WAY", <<n>>, <<n>>, c[prev].pred)]
    <3> DEFINE j == c[prev].id
               e1 == c[prev].op
               e2 == c[prev].type
               e3 == c[prev].refs
               e4 == c[prev].pred
               b1 == [c EXCEPT ![prev].op = "goto"]
               b2 == [b1 EXCEPT ![prev].refs = <<n>>]
               b3 == [b2 EXCEPT ![prev].type = "1WAY"]
    <3>1. c[prev] = Record(j, e1, e2, e3, <<n>>, e4)
      BY <2>11
    <3>2. DOMAIN c = 0..n
      BY <2>9
    <3> HIDE DEF j, e1, e2, e3, e4
    <3>3. b1 = [c EXCEPT ![prev] = Record(j, "goto", e2, e3, <<n>>, e4)]
      <4>1. [Record(j, e1, e2, e3, <<n>>, e4) EXCEPT !.op = "goto"] = Record(j, "goto", e2, e3, <<n>>, e4)
        BY DEF Record
      <4> QED BY <3>1, <4>1
    <3>4. b2 = [c EXCEPT ![prev] = Record(j, "goto", e2, <<n>>, <<n>>, e4)]
      <4>1. [Record(j, "goto", e2, e3, <<n>>, e4) EXCEPT !.refs = <<n>>] = Record(j, "goto", e2, <<n>>, <<n>>, e4)
        BY DEF Record
      <4>2. b1[prev] = Record(j, "goto", e2, e3, <<n>>, e4)
        BY <1>1, <3>2, <3>3
      <4>3. b2 = [c EXCEPT ![prev] = [b1[prev] EXCEPT !.refs = <<n>>]]
        <5> DEFINE w == Record(j, "goto", e2, e3, <<n>>, e4)
        <5>1. b1 = [c EXCEPT ![prev] = w]
          BY <3>3
        <5> HIDE DEF w, b1
        <5> QED BY <1>1, <3>2, <5>1
      <4> HIDE DEF b1, b2
      <4> QED BY <4>1, <4>2, <4>3
    <3>5. b3 = [c EXCEPT ![prev] = Record(j, "goto", "1WAY", <<n>>, <<n>>, e4)]
      <4>1. [Record(j, "goto", e2, <<n>>, <<n>>, e4) EXCEPT !.type = "1WAY"] = Record(j, "goto", "1WAY", <<n>>, <<n>>, e4)
        BY DEF Record
      <4>2. b2[prev] = Record(j, "goto", e2, <<n>>, <<n>>, e4)
        <5> HIDE DEF b2
        <5> QED BY <1>1, <3>2, <3>4
      <4>3. b3 = [c EXCEPT ![prev] = [b2[prev] EXCEPT !.type = "1WAY"]]
        <5> DEFINE w == Record(j, "goto", e2, <<n>>, <<n>>, e4)
        <5>1. b2 = [c EXCEPT ![prev] = w]
          <6> HIDE DEF b2
          <6> QED BY <3>4
        <5> HIDE DEF w, b2
        <5> QED BY <1>1, <3>2, <5>1
      <4> HIDE DEF b2, b3
      <4> QED BY <4>1, <4>2, <4>3
    <3>6. InsertGoto(c, prev, n) = b2
      BY DEF InsertGoto
    <3> HIDE DEF b2
    <3>7. b = b3
      BY <3>6 DEF MakeOneWay
    <3> QED BY <3>5, <3>7 DEF j, e4
  <2> DEFINE w == Record(c[prev].id, "goto", "1WAY", <<n>>, <<n>>, c[prev].pred)
  <2>13. w.succ = <<n>> /\ [w EXCEPT !.succ = <<n>>] = w
    BY DEF Record
  <2> HIDE DEF b, w
  <2>14. b = [c EXCEPT ![prev] = w] /\ b[prev] = w
    BY <1>1, <2>9, <2>12 DEF w
  <2>15. RemoveFirst(<<n>>, n - 1) = <<n>>
    <3> DEFINE q == <<n>>
    <3>1. q \in Seq(0..n) /\ n - 1 \notin ToSet(q)
      BY <1>1 DEF ToSet
    <3> HIDE DEF q
    <3>2. RemoveFirst(q, n - 1) = q
      BY <3>1, RemovedNone
    <3> QED BY <3>2 DEF q
  <2>16. bare = b
    <3>1. b[prev].succ = <<n>>
      BY <2>13, <2>14
    <3>2. bare = [b EXCEPT ![prev].succ = <<n>>]
      BY <2>15, <3>1 DEF DelSucc
    <3>3. [b EXCEPT ![prev].succ = <<n>>] = [b EXCEPT ![prev] = [w EXCEPT !.succ = <<n>>]]
      BY <2>14
    <3>4. [b EXCEPT ![prev] = w] = b
      BY <2>9, <2>14
    <3> HIDE DEF bare
    <3> QED BY <2>13, <3>2, <3>3, <3>4
  <2>17. Fenced(c, s, n - 1) = b
    <3>1. n \in ToSet(bare[prev].succ)
      <4>1. bare[prev].succ = <<n>>
        BY <2>13, <2>14, <2>16
      <4>2. ToSet(<<n>>) = {n}
        BY <1>1, One
      <4> HIDE DEF bare, prev
      <4> QED BY <4>1, <4>2
    <3>2. c[prev].op \notin {"goto", "jcond", "ijmp", "ret"}
      BY <1>3, <2>3
    <3>3. bare = DelSucc(MakeOneWay(c, prev, n), prev, n - 1)
      BY DEF b
    <3>4. Fenced(c, s, n - 1) = IF n \in ToSet(bare[prev].succ) THEN bare ELSE AddSucc(bare, prev, n)
      <4> HIDE DEF prev, bare
      <4> QED BY <1>1, <2>1, <2>10, <3>2, <3>3 DEF Fenced
    <3> HIDE DEF bare
    <3> QED BY <2>16, <3>1, <3>4
  <2>18. b = k
    <3>1. \A x \in 0..n : x # prev => b[x] = k[x]
      <4> SUFFICES ASSUME NEW x \in 0..n, x # prev PROVE b[x] = k[x]
        OBVIOUS
      <4>1. b[x] = c[x]
        BY <2>9, <2>14
      <4>2. CASE x = n - 1
        BY <2>9, <4>1, <4>2
      <4>3. CASE x # n - 1
        <5>1. Was(n, x) # prev
          BY <1>1, <4>3 DEF Was
        <5> QED BY <2>7, <2>9, <4>1, <4>3, <5>1
      <4> QED BY <4>2, <4>3
    <3>2. k[prev] = w
      <4>1. Was(n, prev) = prev
        BY <1>1 DEF Was
      <4>2. k[prev] = Shifted(n, a[prev], a[prev].id) /\ c[prev] = Shifted(n, m[prev], m[prev].id)
        BY <1>1, <2>9, <4>1
      <4>3. /\ a[prev].id = m[prev].id /\ a[prev].op = "goto" /\ a[prev].type = "1WAY"
            /\ a[prev].refs = <<n - 1>> /\ a[prev].succ = <<n - 1>> /\ a[prev].pred = m[prev].pred
        BY <2>3, <2>7 DEF Record
      <4>4. c[prev].id = m[prev].id /\ c[prev].pred = Moved(n, m[prev].pred)
        <5> HIDE DEF prev
        <5> QED BY <4>2, ShiftedIs
      <4>5. Shifted(n, a[prev], a[prev].id) = w
        BY <2>4, <4>3, <4>4 DEF Shifted, w
      <4> QED BY <4>2, <4>5
    <3>3. b[prev] = k[prev]
      BY <2>14, <3>2
    <3>4. DOMAIN b = 0..n /\ b = [x \in 0..n |-> b[x]] /\ k = [x \in 0..n |-> k[x]]
      BY <2>9, <2>14
    <3> QED BY <3>1, <3>3, <3>4
  <2> QED BY <2>6, <2>8, <2>17, <2>18, <2>19 DEF c, k
<1> QED BY <1>4, <1>5

LEMMA DuplicateMakes ==
  ASSUME NEW n, NEW m, Sound(n, m), NEW s \in 0..n-2, m[s].type \in {"0WAY", "1WAY"}, m[s].op # "jtbl",
         NoFall(m[n-2]) \/ (s # n - 2 /\ m[n-2].type \in {"0WAY", "1WAY"})
  PROVE  /\ Sound(n + 1, DuplicateBlock(m, s)) /\ NoFall(DuplicateBlock(m, s)[n-1])
         /\ Grown(n, m, DuplicateBlock(m, s), n - 1, Moved(n, m[s].succ))
<1>1. /\ n \in Nat /\ n >= 2 /\ s \in 0..n-1 /\ s \in 0..n /\ s # n - 1 /\ s # n /\ IsArray(n, m)
      /\ (n + 1) - 1 = n /\ n - 1 \in 0..n
  BY DEF Sound, IsArray
<1>2. PICK a : /\ Sound(n, a) /\ NoFall(a[n-2]) /\ a[s] = m[s]
               /\ \A x \in 0..n-1 : a[x].id = m[x].id /\ a[x].succ = m[x].succ
               /\ Fenced(Copied(n, m, s), s, n - 1) = Copied(n, a, s)
  BY FencedIs
<1> DEFINE k == n - 1
           c == Copied(n, a, s)
           op == m[s].op
           type == m[s].type
           r == Moved(n, m[s].refs)
           q == Moved(n, m[s].succ)
<1>3. Work(n + 1, c, c, k, op, type, r, q, {})
  <2>1. Work(n + 1, Copied(n, a, s), Copied(n, a, s), n - 1, a[s].op, a[s].type,
             Moved(n, a[s].refs), Moved(n, a[s].succ), {})
    BY <1>2, CopyBegins
  <2> QED BY <1>2, <2>1
<1>4. c[s].succ = q /\ c[k].succ = q
  <2>1. Was(n, s) = s
    BY <1>1 DEF Was
  <2>2. c[s] = Shifted(n, m[s], m[s].id)
    <3> HIDE DEF c
    <3> QED BY <1>1, <1>2, <2>1, CopiedBlocks DEF c
  <2> HIDE DEF c, q
  <2>3. c[k].succ = q
    BY <1>3 DEF Work
  <2> QED BY <2>2, <2>3, ShiftedIs DEF q
<1>5. DuplicateBlock(m, s) = IF Nsucc(c, k) = 1 THEN Change1Way(c, k, c[s].succ[1]) ELSE c
  <2>1. ExitSerial(m) = k /\ [CopyBlock(m, s) EXCEPT ![k].pred = <<>>] = Copied(n, m, s)
    BY <1>1, CopiedIs, SizeIs
  <2> QED BY <1>2, <2>1 DEF DuplicateBlock
<1>6. InShape(n, s, m[s])
  BY <1>1 DEF Sound
<1>9. ASSUME NEW e, NEW o, NEW y, NEW z, NEW w, Done(n + 1, c, e, n - 1, o, y, z, w)
      PROVE  Grown(n, m, e, n - 1, w)
  <2>1. Grown(n, a, e, n - 1, w)
    BY <1>2, <1>9, CopyGrown
  <2>2. \A x \in 0..n : x # n - 1 => Was(n, x) \in 0..n-1
    BY <1>1 DEF Was
  <2> QED BY <1>2, <2>1, <2>2 DEF Grown
<1>7. CASE m[s].type = "0WAY"
  <2>1. Stops(m[s])
    BY <1>6, <1>7 DEF InShape, Jumps, Branches, Switches, FallsThrough
  <2>2. op \in {"none", "insn", "call", "ret", "ijmp"} /\ q = <<>>
    <3>1. Moved(n, <<>>) = <<>>
      BY DEF Moved
    <3> QED BY <2>1, <3>1 DEF Stops
  <2> HIDE DEF c, op, q, r, k
  <2>3. Done(n + 1, c, c, k, op, "0WAY", r, <<>>)
    BY <1>3, <1>7, <2>2, WorkStops DEF type
  <2>4. Nsucc(c, k) = 0
    BY <1>4, <2>2 DEF Nsucc
  <2>5. DuplicateBlock(m, s) = c
    BY <1>5, <2>4
  <2>6. Grown(n, m, c, n - 1, <<>>)
    BY <1>9, <2>3 DEF k
  <2> QED BY <2>2, <2>3, <2>5, <2>6 DEF Done, NoFall, k, q
<1>8. CASE m[s].type = "1WAY"
  <2>1. Jumps(n, m[s]) \/ FallsThrough(n, s, m[s])
    BY <1>6, <1>8 DEF InShape, Branches, Switches, Stops
  <2>2. PICK t \in 0..n-1 : m[s].succ = <<t>>
    BY <2>1 DEF Jumps, FallsThrough
  <2>3. PICK u \in 0..n : Moved(n, <<t>>) = <<u>>
    BY <1>1, MovedOne
  <2>4. q = <<u>> /\ u \in 0..(n+1)-1
    BY <1>1, <2>2, <2>3
  <2> HIDE DEF c, op, q, r, k, type
  <2>5. Work(n + 1, c, c, k, op, type, r, <<u>>, {})
    BY <1>3, <2>4
  <2>6. Done(n + 1, c, Change1Way(c, k, u), k, "goto", "1WAY", <<u>>, <<u>>)
    <3>1. {} \subseteq {u}
      OBVIOUS
    <3> QED BY <2>4, <2>5, <3>1, WorkChange1Way
  <2>7. Nsucc(c, k) = 1 /\ c[s].succ[1] = u
    BY <1>4, <2>4 DEF Nsucc
  <2>8. DuplicateBlock(m, s) = Change1Way(c, k, u)
    BY <1>5, <2>7
  <2>9. Grown(n, m, Change1Way(c, k, u), n - 1, <<u>>)
    BY <1>9, <2>6 DEF k
  <2> QED BY <2>4, <2>6, <2>8, <2>9 DEF Done, NoFall, k, q
<1> QED BY <1>7, <1>8

LEMMA GiveFatherMakes ==
  ASSUME NEW n, NEW m, Sound(n, m), NEW s \in 0..n-2, NoFall(m[n-2]), NEW t \in 0..n-1,
         CanGiveFather(m, s, t)
  PROVE  /\ Sound(n + 1, GiveFather(m, s, t)) /\ NoFall(GiveFather(m, s, t)[n-1])
         /\ Grown(n, m, GiveFather(m, s, t), s, <<t>>)
         /\ GiveFather(m, s, t)[s].succ = <<s + 1, n - 1>> /\ s + 1 # n - 1 /\ m[s].op = "jcond"
<1> DEFINE c == Copied(n, m, s)
           a == CreateStandalone(m, s, t)
           k == n - 1
<1>1. /\ n \in Nat /\ n >= 2 /\ s \in 0..n-1 /\ s \in 0..n /\ s # n - 1 /\ s # n /\ IsArray(n, m)
      /\ (n + 1) - 1 = n /\ k \in 0..n /\ t \in 0..n /\ ExitSerial(m) = k /\ s \in 0..(n+1)-2
      /\ k \in 0..(n+1)-1
  BY SizeIs DEF Sound, IsArray
<1>2. m[s].op = "jcond"
  <2>1. InShape(n, s, m[s]) /\ Nsucc(m, s) = 2 /\ m[s].refs = <<t>>
    BY <1>1 DEF Sound, CanGiveFather
  <2>2. Len(m[s].succ) = 2 /\ Len(m[s].refs) = 1
    BY <2>1 DEF Nsucc
  <2>3. ~Jumps(n, m[s])
    BY <2>2 DEF Jumps
  <2>4. ASSUME Switches(m[s]) PROVE FALSE
    <3>1. m[s].succ = m[s].refs
      BY <2>4 DEF Switches
    <3> QED BY <2>2, <3>1
  <2>5. ~FallsThrough(n, s, m[s])
    BY <2>2 DEF FallsThrough
  <2>6. ASSUME Stops(m[s]) PROVE FALSE
    <3>1. m[s].succ = <<>>
      BY <2>6 DEF Stops
    <3> QED BY <2>2, <3>1
  <2>7. Branches(n, s, m[s])
    BY <2>1, <2>3, <2>4, <2>5, <2>6 DEF InShape
  <2> QED BY <2>7 DEF Branches
<1>3. s # n - 2
  <2>1. m[s].type = "2WAY"
    BY <1>1, <1>2, BranchIs
  <2> QED BY <1>2, <2>1 DEF NoFall
<1>4. Done(n + 1, c, a, k, "goto", "1WAY", <<t>>, <<t>>)
  BY <1>1, StandaloneMakes
<1>11. Grown(n, m, a, n - 1, <<t>>)
  BY <1>4, CopyGrown
<1>5. c[s].op = "jcond"
  <2>2. c[s] = Shifted(n, m[s], m[s].id)
    BY CopiedSame
  <2> HIDE DEF c
  <2> QED BY <1>2, <2>2, ShiftedIs
<1> HIDE DEF c, a
<1>6. Sound(n + 1, a) /\ a[s].op = "jcond" /\ a[k].op = "goto"
  BY <1>1, <1>4, <1>5 DEF Done, Beside, SameTail
<1>7. k # s + 1
  BY <1>1, <1>3
<1> DEFINE b == Change2Way(a, s, k)
<1>8. Done(n + 1, a, b, s, "jcond", "2WAY", <<k>>, <<s + 1, k>>)
  <2> HIDE DEF k
  <2> QED BY <1>1, <1>6, <1>7, Change2WayKeeps
<1>9. GiveFather(m, s, t) = b
  BY <1>1 DEF GiveFather, a
<1> HIDE DEF b
<1>10. b[k].op = "goto" /\ Sound(n + 1, b)
  BY <1>1, <1>6, <1>8 DEF Done, Beside, SameTail
<1>12. Grown(n, m, b, s, <<t>>) /\ b[s].succ = <<s + 1, k>>
  <2> HIDE DEF k
  <2> QED BY <1>1, <1>8, <1>11, GrownAt
<1> QED BY <1>2, <1>7, <1>9, <1>10, <1>12 DEF NoFall

-------------------------------------------------------------------------------
(* The switch *)

Seen(q, seen) ==
  seen = [i \in 0..Len(q) |->
            IF i = 0 THEN <<>>
            ELSE IF q[i] \in ToSet(seen[i-1]) THEN seen[i-1] ELSE Append(seen[i-1], q[i])]

LEMMA SeenExists ==
  ASSUME NEW q, Len(q) \in Nat
  PROVE  \E seen : Seen(q, seen) /\ Once(q) = seen[Len(q)]
<1> DEFINE Next1(e, i) == IF q[i] \in ToSet(e) THEN e ELSE Append(e, q[i])
           Upto(k, g) == g = [i \in 0..k |-> IF i = 0 THEN <<>> ELSE Next1(g[i-1], i)]
           S == {k \in Nat : \E g : Upto(k, g)}
<1>1. 0 \in S
  <2>1. Upto(0, [i \in 0..0 |-> <<>>])
    OBVIOUS
  <2> QED BY <2>1
<1>2. ASSUME NEW k \in Nat, k \in S
      PROVE  k + 1 \in S
  <2>1. PICK g : Upto(k, g)
    BY <1>2
  <2> DEFINE h == [i \in 0..k+1 |-> IF i = 0 THEN <<>> ELSE Next1(g[i-1], i)]
  <2> HIDE DEF Next1
  <2>2. \A i \in 0..k : g[i] = h[i]
    BY <2>1
  <2>3. \A i \in 0..k+1 : i # 0 => i - 1 \in 0..k
    OBVIOUS
  <2>4. \A i \in 0..k+1 : h[i] = IF i = 0 THEN <<>> ELSE Next1(h[i-1], i)
    BY <2>2, <2>3
  <2>5. h = [i \in 0..k+1 |-> h[i]]
    OBVIOUS
  <2> HIDE DEF h
  <2>6. Upto(k + 1, h)
    BY <2>4, <2>5
  <2> QED BY <2>6
<1>3. Nat \subseteq S
  <2> HIDE DEF S
  <2> QED BY <1>1, <1>2, Induction
<1>4. \E seen : Seen(q, seen)
  BY <1>3 DEF Seen
<1>5. Once(q) = (CHOOSE seen : Seen(q, seen))[Len(q)]
  BY DEF Once, Seen
<1> QED BY <1>4, <1>5

(* Each element once, and as long as the sequence only if it is the sequence.  *)
LEMMA OnceIs ==
  ASSUME NEW T, NEW q \in Seq(T)
  PROVE  /\ Once(q) \in Seq(T) /\ IsInjective(Once(q)) /\ ToSet(Once(q)) = ToSet(q)
         /\ Len(Once(q)) = Len(q) => Once(q) = q
<1>1. Len(q) \in Nat /\ \A i \in 1..Len(q) : q[i] \in T
  OBVIOUS
<1>2. PICK seen : Seen(q, seen) /\ Once(q) = seen[Len(q)]
  BY <1>1, SeenExists
<1> DEFINE first(i) == {q[j] : j \in 1..i}
           Good(i, e) == /\ e \in Seq(T) /\ IsInjective(e) /\ ToSet(e) = first(i)
                         /\ Len(e) <= i
                         /\ Len(e) = i => \A j \in 1..i : e[j] = q[j]
           S == {i \in Nat : i <= Len(q) => Good(i, seen[i])}
<1>3. 0 \in S
  <2>1. seen[0] = <<>>
    BY <1>1, <1>2 DEF Seen
  <2>2. Good(0, <<>>)
    BY DEF IsInjective, ToSet
  <2> HIDE DEF Good
  <2> QED BY <2>1, <2>2
<1>4. ASSUME NEW i \in Nat, i \in S
      PROVE  i + 1 \in S
  <2> SUFFICES ASSUME i + 1 <= Len(q) PROVE Good(i + 1, seen[i+1])
    OBVIOUS
  <2> DEFINE e == seen[i]
             x == q[i+1]
             f == seen[i+1]
  <2>1. i + 1 \in 1..Len(q) /\ i + 1 \in 0..Len(q) /\ i + 1 # 0 /\ (i + 1) - 1 = i /\ i <= Len(q)
    BY <1>1
  <2>2. f = IF x \in ToSet(e) THEN e ELSE Append(e, x)
    BY <1>2, <2>1 DEF Seen
  <2>3. Good(i, e)
    <3> HIDE DEF Good
    <3> QED BY <1>4, <2>1
  <2>4. first(i + 1) = first(i) \cup {x}
    <3>1. \A j \in 1..i+1 : j \in 1..i \/ j = i + 1
      OBVIOUS
    <3>2. \A j \in 1..i : j \in 1..i+1
      OBVIOUS
    <3>3. i + 1 \in 1..i+1
      OBVIOUS
    <3> QED BY <3>1, <3>2, <3>3
  <2>5. x \in T
    BY <1>1, <2>1
  <2> HIDE DEF first, e, f, x
  <2>6. CASE x \in ToSet(e)
    <3>1. f = e /\ ToSet(f) = first(i + 1)
      BY <2>2, <2>3, <2>4, <2>6
    <3>2. Len(e) \in Nat /\ Len(e) <= i
      BY <2>3
    <3>3. Len(f) <= i + 1 /\ Len(f) # i + 1
      BY <3>1, <3>2
    <3> QED BY <2>3, <3>1, <3>3 DEF f
  <2>7. CASE x \notin ToSet(e)
    <3>1. f = Append(e, x)
      BY <2>2, <2>7
    <3>2. f \in Seq(T) /\ IsInjective(f) /\ ToSet(f) = ToSet(e) \cup {x}
      <4>1. /\ Append(e, x) \in Seq(T) /\ IsInjective(Append(e, x))
            /\ ToSet(Append(e, x)) = ToSet(e) \cup {x}
        BY <2>3, <2>5, <2>7, Appended
      <4> QED BY <3>1, <4>1
    <3>3. /\ Len(f) = Len(e) + 1 /\ f[Len(e) + 1] = x
          /\ \A j \in 1..Len(e) : f[j] = e[j]
      <4>1. e \in Seq(T)
        BY <2>3
      <4>2. /\ Len(Append(e, x)) = Len(e) + 1 /\ Append(e, x)[Len(e) + 1] = x
            /\ \A j \in 1..Len(e) : Append(e, x)[j] = e[j]
        BY <2>5, <4>1, AppendIs
      <4> QED BY <3>1, <4>2
    <3>4. ToSet(f) = first(i + 1)
      BY <2>3, <2>4, <3>2
    <3>5. Len(e) \in Nat /\ Len(e) <= i
      BY <2>3
    <3>6. Len(f) <= i + 1 /\ (Len(f) = i + 1 => Len(e) = i)
      BY <3>3, <3>5
    <3>7. ASSUME Len(f) = i + 1 PROVE \A j \in 1..i+1 : f[j] = q[j]
      <4>1. Len(e) = i /\ \A j \in 1..i : e[j] = q[j]
        BY <2>3, <3>6, <3>7
      <4>2. \A j \in 1..i+1 : j \in 1..i \/ j = i + 1
        OBVIOUS
      <4>3. f[i+1] = q[i+1] /\ \A j \in 1..i : f[j] = q[j]
        BY <3>3, <4>1 DEF x
      <4> QED BY <4>2, <4>3
    <3> QED BY <3>2, <3>4, <3>6, <3>7 DEF f
  <2> QED BY <2>6, <2>7
<1>5. Nat \subseteq S
  <2> HIDE DEF S
  <2> QED BY <1>3, <1>4, Induction
<1> DEFINE r == Once(q)
<1>6. Good(Len(q), r)
  <2> HIDE DEF Good
  <2> QED BY <1>1, <1>2, <1>5
<1>7. first(Len(q)) = ToSet(q)
  BY Elements
<1> HIDE DEF first, r
<1>8. Len(r) = Len(q) => r = q
  BY <1>6
<1> QED BY <1>6, <1>7, <1>8 DEF r

LEMMA OnceSame ==
  ASSUME NEW T, NEW q \in Seq(T), IsInjective(q)
  PROVE  Once(q) = q
<1>1. /\ Once(q) \in Seq(T) /\ IsInjective(Once(q)) /\ ToSet(Once(q)) = ToSet(q)
      /\ Len(Once(q)) = Len(q) => Once(q) = q
  BY OnceIs
<1> DEFINE r == Once(q)
<1> HIDE DEF r
<1>2. Cardinality(ToSet(q)) = Len(q)
  BY LengthIs
<1>3. Cardinality(ToSet(r)) = Len(r)
  BY <1>1, LengthIs DEF r
<1> QED BY <1>1, <1>2, <1>3 DEF r

Climbing(n, serials, upto) ==
  upto = [k \in 0..n |->
            IF k = 0 THEN <<>>
            ELSE IF k - 1 \in serials THEN Append(upto[k-1], k - 1) ELSE upto[k-1]]

LEMMA ClimbingExists ==
  ASSUME NEW n \in Nat, NEW serials
  PROVE  \E upto : Climbing(n, serials, upto) /\ Ascending(n, serials) = upto[n]
<1> DEFINE Next1(e, k) == IF k - 1 \in serials THEN Append(e, k - 1) ELSE e
           Upto(k, g) == g = [i \in 0..k |-> IF i = 0 THEN <<>> ELSE Next1(g[i-1], i)]
           S == {k \in Nat : \E g : Upto(k, g)}
<1>1. 0 \in S
  <2>1. Upto(0, [i \in 0..0 |-> <<>>])
    OBVIOUS
  <2> QED BY <2>1
<1>2. ASSUME NEW k \in Nat, k \in S
      PROVE  k + 1 \in S
  <2>1. PICK g : Upto(k, g)
    BY <1>2
  <2> DEFINE h == [i \in 0..k+1 |-> IF i = 0 THEN <<>> ELSE Next1(g[i-1], i)]
  <2> HIDE DEF Next1
  <2>2. \A i \in 0..k : g[i] = h[i]
    BY <2>1
  <2>3. \A i \in 0..k+1 : i # 0 => i - 1 \in 0..k
    OBVIOUS
  <2>4. \A i \in 0..k+1 : h[i] = IF i = 0 THEN <<>> ELSE Next1(h[i-1], i)
    BY <2>2, <2>3
  <2>5. h = [i \in 0..k+1 |-> h[i]]
    OBVIOUS
  <2> HIDE DEF h
  <2>6. Upto(k + 1, h)
    BY <2>4, <2>5
  <2> QED BY <2>6
<1>3. Nat \subseteq S
  <2> HIDE DEF S
  <2> QED BY <1>1, <1>2, Induction
<1>4. \E upto : Climbing(n, serials, upto)
  BY <1>3 DEF Climbing
<1>5. Ascending(n, serials) = (CHOOSE upto : Climbing(n, serials, upto))[n]
  BY DEF Ascending, Climbing
<1> QED BY <1>4, <1>5

(* Each serial of the set once.                                                *)
LEMMA AscendingIs ==
  ASSUME NEW n \in Nat, NEW serials \in SUBSET (0..n-1)
  PROVE  /\ Ascending(n, serials) \in Seq(0..n-1) /\ IsInjective(Ascending(n, serials))
         /\ ToSet(Ascending(n, serials)) = serials
<1>1. PICK upto : Climbing(n, serials, upto) /\ Ascending(n, serials) = upto[n]
  BY ClimbingExists
<1> DEFINE below(k) == {x \in serials : x < k}
           Good(k, e) == e \in Seq(0..n-1) /\ IsInjective(e) /\ ToSet(e) = below(k)
           S == {k \in Nat : k <= n => Good(k, upto[k])}
<1>2. 0 \in S
  <2>1. upto[0] = <<>>
    BY <1>1 DEF Climbing
  <2>2. below(0) = {}
    <3>1. \A x \in serials : x \in 0..n-1
      OBVIOUS
    <3>2. \A x \in serials : ~(x < 0)
      BY <3>1
    <3> QED BY <3>2
  <2>3. <<>> \in Seq(0..n-1) /\ IsInjective(<<>>) /\ ToSet(<<>>) = {}
    BY DEF IsInjective, ToSet
  <2>4. Good(0, <<>>)
    BY <2>2, <2>3
  <2> HIDE DEF Good
  <2> QED BY <2>1, <2>4
<1>3. ASSUME NEW k \in Nat, k \in S
      PROVE  k + 1 \in S
  <2> SUFFICES ASSUME k + 1 <= n PROVE Good(k + 1, upto[k+1])
    OBVIOUS
  <2> DEFINE e == upto[k]
             f == upto[k+1]
  <2>1. k + 1 \in 0..n /\ k + 1 # 0 /\ (k + 1) - 1 = k /\ k <= n /\ k \in 0..n-1
    OBVIOUS
  <2>2. f = IF k \in serials THEN Append(e, k) ELSE e
    BY <1>1, <2>1 DEF Climbing
  <2>3. Good(k, e)
    <3> HIDE DEF Good
    <3> QED BY <1>3, <2>1
  <2>4. below(k + 1) = IF k \in serials THEN below(k) \cup {k} ELSE below(k)
    <3>1. \A x \in 0..n-1 : x < k + 1 <=> x < k \/ x = k
      OBVIOUS
    <3> QED BY <3>1
  <2>5. k \notin below(k)
    OBVIOUS
  <2> HIDE DEF below, e, f
  <2>6. CASE k \in serials
    <3>1. Append(e, k) \in Seq(0..n-1) /\ IsInjective(Append(e, k)) /\ ToSet(Append(e, k)) = ToSet(e) \cup {k}
      BY <2>1, <2>3, <2>5, Appended
    <3> QED BY <2>2, <2>3, <2>4, <2>6, <3>1 DEF f
  <2>7. CASE k \notin serials
    BY <2>2, <2>3, <2>4, <2>7 DEF f
  <2> QED BY <2>6, <2>7
<1>4. Nat \subseteq S
  <2> HIDE DEF S
  <2> QED BY <1>2, <1>3, Induction
<1>5. Good(n, upto[n])
  <2> HIDE DEF Good
  <2> QED BY <1>4
<1>6. below(n) = serials
  <2>1. \A x \in 0..n-1 : x < n
    OBVIOUS
  <2> QED BY <2>1
<1> HIDE DEF below
<1> QED BY <1>1, <1>5, <1>6

LEMMA WorkFollow ==
  ASSUME NEW n, NEW k, NEW m, NEW s, NEW op, NEW type, NEW refs, NEW succ,
         Work(n, k, m, s, op, type, refs, succ, ToSet(succ)), NEW cases \in Seq(0..n-1)
  PROVE  Work(n, k, FollowCases(m, s, cases), s, op, type, cases, Once(cases), ToSet(cases))
<1> DEFINE old == ToSet(succ)
           new == ToSet(cases)
           kept == [t \in 0..n-1 |->
                      IF t \in old \ new THEN RemoveFirst(m[t].pred, s)
                      ELSE IF t \in new \ old /\ s \notin ToSet(m[t].pred)
                      THEN Append(m[t].pred, s) ELSE m[t].pred]
           m1 == [t \in 0..n-1 |-> [m[t] EXCEPT !.pred = kept[t]]]
           m2 == [m1 EXCEPT ![s].refs = cases]
           m3 == [m2 EXCEPT ![s].succ = Once(cases)]
<1>1. /\ IsArray(n, m) /\ Noted(n, m, [Edges(n, m) EXCEPT ![s] = old]) /\ s \in 0..n-2 /\ m[s].succ = succ
  BY DEF Work, Around
<1>2. n \in Nat /\ s \in 0..n-1 /\ DOMAIN m = 0..n-1 /\ new \in SUBSET (0..n-1)
  <2>1. new \in SUBSET (0..n-1)
    BY InSequence
  <2> QED BY <1>1, <2>1 DEF IsArray
<1>3. ASSUME NEW t \in 0..n-1
      PROVE  /\ kept[t] \in Seq(0..n-1) /\ IsInjective(kept[t])
             /\ \A y \in 0..n-1 : y # s => (y \in ToSet(kept[t]) <=> y \in ToSet(m[t].pred))
             /\ s \in ToSet(kept[t]) <=> t \in new
  <2> DEFINE p == m[t].pred
  <2>1. p \in Seq(0..n-1) /\ IsInjective(p)
    <3>1. p \in Seq(0..n-1)
      BY <1>1, BlockIs
    <3> QED BY <1>1, <3>1 DEF IsArray
  <2>2. s \in ToSet(p) <=> t \in old
    <3>1. [Edges(n, m) EXCEPT ![s] = old][s] = old
      BY <1>2 DEF Edges
    <3> HIDE DEF old
    <3> QED BY <1>1, <1>2, <3>1 DEF Noted
  <2>3. kept[t] = IF t \in old \ new THEN RemoveFirst(p, s)
                  ELSE IF t \in new \ old /\ s \notin ToSet(p) THEN Append(p, s) ELSE p
    OBVIOUS
  <2> HIDE DEF p, kept, old, new
  <2>4. CASE t \in old \ new
    <3>1. RemoveFirst(p, s) \in Seq(0..n-1) /\ IsInjective(RemoveFirst(p, s)) /\ ToSet(RemoveFirst(p, s)) = ToSet(p) \ {s}
      BY <2>1, Removed
    <3> QED BY <2>3, <2>4, <3>1 DEF p
  <2>5. CASE t \in new \ old
    <3>1. Append(p, s) \in Seq(0..n-1) /\ IsInjective(Append(p, s)) /\ ToSet(Append(p, s)) = ToSet(p) \cup {s}
      BY <1>2, <2>1, <2>2, <2>5, Appended
    <3> QED BY <2>2, <2>3, <2>5, <3>1 DEF p
  <2>6. CASE t \notin old \ new /\ t \notin new \ old
    BY <2>1, <2>2, <2>3, <2>6 DEF p
  <2> QED BY <2>4, <2>5, <2>6
<1>4. Work(n, k, m1, s, op, type, refs, succ, new)
  <2>1. kept \in [0..n-1 -> Seq(0..n-1)]
    <3>1. kept = [t \in 0..n-1 |-> kept[t]]
      OBVIOUS
    <3> HIDE DEF kept
    <3> QED BY <1>3, <3>1
  <2>2. \A x, y \in 0..n-1 : y # s => (y \in ToSet(kept[x]) <=> y \in ToSet(m[x].pred))
    BY <1>3
  <2>3. \A x \in 0..n-1 : IsInjective(kept[x])
    BY <1>3
  <2>4. \A x \in 0..n-1 : s \in ToSet(kept[x]) <=> x \in new
    BY <1>3
  <2> HIDE DEF kept, new, old
  <2>5. Work(n, k, m, s, op, type, refs, succ, old)
    BY DEF old
  <2>6. Notes(n, m, s, kept, new)
    BY <2>1, <2>2, <2>3, <2>4 DEF Notes
  <2>7. new \in SUBSET (0..n-1)
    BY <1>2
  <2>8. Work(n, k, Noting(n, m, kept), s, op, type, refs, succ, new)
    BY <2>5, <2>6, <2>7, WorkNotesAll
  <2> QED BY <2>8 DEF Noting
<1>5. Work(n, k, m2, s, op, type, cases, succ, new)
  <2> HIDE DEF m1, new
  <2> QED BY <1>4, WorkRefs
<1>6. Work(n, k, m3, s, op, type, cases, Once(cases), new)
  <2>1. Once(cases) \in Seq(0..n-1)
    BY OnceIs
  <2> HIDE DEF m2, new
  <2> QED BY <1>5, <2>1, WorkSucc
<1>7. FollowCases(m, s, cases) = m3
  <2> DEFINE j == m1[s]
             u == Once(cases)
             K(t) == IF t \in old \ new THEN RemoveFirst(m[t].pred, s)
                     ELSE IF t \in new \ old /\ s \notin ToSet(m[t].pred)
                     THEN Append(m[t].pred, s) ELSE m[t].pred
             B(t) == [m[t] EXCEPT !.pred = K(t)]
  <2>1. FollowCases(m, s, cases) =
          [t \in 0..n-1 |-> IF t = s THEN [B(t) EXCEPT !.refs = cases, !.succ = u] ELSE B(t)]
    BY <1>1, <1>2 DEF FollowCases
  <2>2. m1 = [t \in 0..n-1 |-> B(t)]
    OBVIOUS
  <2> HIDE DEF B, m1, u
  <2>3. m2 = [t \in 0..n-1 |-> IF t = s THEN [B(t) EXCEPT !.refs = cases] ELSE B(t)]
    BY <1>2, <2>2
  <2> HIDE DEF m2
  <2>4. m3 = [t \in 0..n-1 |-> IF t = s THEN [[B(t) EXCEPT !.refs = cases] EXCEPT !.succ = u] ELSE B(t)]
    BY <1>2, <2>3 DEF u
  <2>5. \A t \in 0..n-1 : [B(t) EXCEPT !.refs = cases, !.succ = u] = [[B(t) EXCEPT !.refs = cases] EXCEPT !.succ = u]
    OBVIOUS
  <2> HIDE DEF m3
  <2> QED BY <2>1, <2>4, <2>5
<1> HIDE DEF m3
<1> QED BY <1>6, <1>7

LEMMA SwitchIs ==
  ASSUME NEW n, NEW m, Sound(n, m), NEW s \in 0..n-1, m[s].op = "jtbl"
  PROVE  /\ m[s].type = "NWAY" /\ m[s].refs # <<>> /\ IsInjective(m[s].refs) /\ m[s].succ = m[s].refs
         /\ m[s].refs \in Seq(0..n-1)
<1>1. InShape(n, s, m[s]) /\ IsArray(n, m)
  BY DEF Sound
<1>2. m[s].refs \in Seq(0..n-1)
  BY <1>1, BlockIs
<1> QED BY <1>1, <1>2 DEF InShape, Jumps, Branches, Switches, FallsThrough, Stops

(* The cases of s that went to old go to t.                                    *)
CasesSent(n, m, s, old, t) ==
  \E q \in Seq(0..n-1) :
     /\ Done(n, m, CoalesceCases(RetargetCases(m, s, old, t), s), s, "jtbl", "NWAY", q, q)
     /\ old \in ToSet(m[s].refs) => ToSet(q) = (ToSet(m[s].refs) \ {old}) \cup {t}

LEMMA RouteCasesKeeps ==
  ASSUME NEW n, NEW m, Sound(n, m), NEW s \in 0..n-2, m[s].op = "jtbl",
         NEW old, NEW t \in 0..n-1
  PROVE  CasesSent(n, m, s, old, t)
<1> DEFINE refs == m[s].refs
           cases == [i \in DOMAIN refs |-> IF refs[i] = old THEN t ELSE refs[i]]
           a == FollowCases(m, s, cases)
<1>1. n \in Nat /\ s \in 0..n-1 /\ n >= 2
  BY DEF Sound, IsArray
<1>2. m[s].type = "NWAY" /\ refs # <<>> /\ m[s].succ = refs /\ refs \in Seq(0..n-1)
  BY <1>1, SwitchIs
<1>14. ASSUME old \in ToSet(refs) PROVE ToSet(cases) = (ToSet(refs) \ {old}) \cup {t}
  <2>1. ToSet(refs) = {refs[i] : i \in DOMAIN refs} /\ ToSet(cases) = {cases[i] : i \in DOMAIN refs}
    BY DEF ToSet
  <2>2. \A i \in DOMAIN refs : cases[i] = IF refs[i] = old THEN t ELSE refs[i]
    OBVIOUS
  <2> HIDE DEF refs, cases
  <2>3. PICK i \in DOMAIN refs : refs[i] = old
    BY <1>14, <2>1
  <2> QED BY <2>1, <2>2, <2>3
<1>3. cases \in Seq(0..n-1) /\ Len(cases) = Len(refs) /\ cases # <<>>
  <2> HIDE DEF refs
  <2>1. DOMAIN refs = 1..Len(refs) /\ Len(refs) \in Nat /\ Len(refs) # 0 /\ \A i \in 1..Len(refs) : refs[i] \in 0..n-1
    <3>1. refs \in Seq(0..n-1) /\ refs # <<>>
      BY <1>2
    <3>2. \A T : refs \in Seq(T) => DOMAIN refs = 1..Len(refs) /\ Len(refs) \in Nat /\ \A i \in 1..Len(refs) : refs[i] \in T
      OBVIOUS
    <3>3. DOMAIN refs = 1..Len(refs) /\ Len(refs) \in Nat /\ \A i \in 1..Len(refs) : refs[i] \in 0..n-1
      BY <3>1, <3>2
    <3>4. Len(refs) # 0
      BY <3>1
    <3> QED BY <3>3, <3>4
  <2>2. cases = [i \in 1..Len(refs) |-> IF refs[i] = old THEN t ELSE refs[i]]
    BY <2>1
  <2>3. cases \in Seq(0..n-1) /\ Len(cases) = Len(refs)
    <3> HIDE DEF cases
    <3> QED BY <2>1, <2>2
  <2> HIDE DEF cases
  <2> QED BY <2>1, <2>3
<1>4. RetargetCases(m, s, old, t) = a
  BY DEF RetargetCases
<1> HIDE DEF cases
<1>5. Work(n, m, a, s, "jtbl", "NWAY", cases, Once(cases), ToSet(cases))
  <2>1. Work(n, m, m, s, m[s].op, m[s].type, m[s].refs, m[s].succ, ToSet(m[s].succ))
    BY WorkBegins
  <2>2. Work(n, m, m, s, "jtbl", "NWAY", refs, refs, ToSet(refs))
    BY <1>2, <2>1
  <2> HIDE DEF refs
  <2> QED BY <1>3, <2>2, WorkFollow
<1> HIDE DEF a, refs
<1> DEFINE once == Once(cases)
           up == Ascending(n, ToSet(cases))
<1>6. once \in Seq(0..n-1) /\ IsInjective(once) /\ ToSet(once) = ToSet(cases) /\ (Len(once) = Len(cases) => once = cases)
  BY <1>3, OnceIs
<1>7. up \in Seq(0..n-1) /\ IsInjective(up) /\ ToSet(up) = ToSet(cases)
  <2>1. ToSet(cases) \in SUBSET (0..n-1)
    BY <1>3, InSequence
  <2> QED BY <1>1, <2>1, AscendingIs
<1>8. a[s].refs = cases /\ Qty(a) = n
  <2>1. a[s].refs = cases /\ IsArray(n, a)
    BY <1>5 DEF Work, Around
  <2> QED BY <2>1, SizeIs
<1>9. CoalesceCases(a, s) = IF Len(up) = Len(cases) THEN a ELSE FollowCases(a, s, up)
  BY <1>8 DEF CoalesceCases
<1> HIDE DEF once, up
<1>10. Len(up) = Len(once)
  <2>1. Cardinality(ToSet(up)) = Len(up)
    BY <1>7, LengthIs
  <2>2. Cardinality(ToSet(once)) = Len(once)
    BY <1>6, LengthIs
  <2> QED BY <1>6, <1>7, <2>1, <2>2
<1>11. ASSUME NEW b, NEW q \in Seq(0..n-1), q # <<>>, IsInjective(q),
              Work(n, m, b, s, "jtbl", "NWAY", q, q, ToSet(q))
       PROVE  Done(n, m, b, s, "jtbl", "NWAY", q, q)
  <2>1. InShape(n, s, b[s])
    BY <1>11 DEF Work, InShape, Switches
  <2> QED BY <1>11, <2>1, WorkDone
<1>12. CASE Len(up) = Len(cases)
  <2>1. once = cases /\ IsInjective(cases)
    BY <1>6, <1>10, <1>12
  <2>2. Work(n, m, a, s, "jtbl", "NWAY", cases, cases, ToSet(cases))
    BY <1>5, <2>1 DEF once
  <2>3. Done(n, m, a, s, "jtbl", "NWAY", cases, cases)
    BY <1>3, <1>11, <2>1, <2>2
  <2>4. CoalesceCases(a, s) = a
    BY <1>9, <1>12
  <2> QED BY <1>3, <1>4, <1>14, <2>3, <2>4 DEF refs, CasesSent
<1>13. CASE Len(up) # Len(cases)
  <2> DEFINE b == FollowCases(a, s, up)
  <2>1. Work(n, m, a, s, "jtbl", "NWAY", cases, once, ToSet(once))
    BY <1>5, <1>6 DEF once
  <2>2. Work(n, m, b, s, "jtbl", "NWAY", up, Once(up), ToSet(up))
    BY <1>7, <2>1, WorkFollow
  <2>3. Once(up) = up
    BY <1>7, OnceSame
  <2>4. up # <<>>
    <3>1. cases[1] \in ToSet(cases)
      <4>1. 1 \in 1..Len(cases)
        BY <1>3
      <4> QED BY <1>3, <4>1, Elements
    <3>2. ToSet(<<>>) = {}
      BY DEF ToSet
    <3> QED BY <1>7, <3>1, <3>2
  <2> HIDE DEF b
  <2>5. Done(n, m, b, s, "jtbl", "NWAY", up, up)
    BY <1>7, <1>11, <2>2, <2>3, <2>4
  <2>6. CoalesceCases(a, s) = b
    BY <1>9, <1>13 DEF b
  <2> QED BY <1>4, <1>7, <1>14, <2>5, <2>6 DEF refs, CasesSent
<1> QED BY <1>12, <1>13

LEMMA ConvertJtblKeeps ==
  ASSUME NEW n, NEW m, Sound(n, m), NEW s \in 0..n-2, m[s].op = "jtbl", NEW t \in 0..n-1
  PROVE  Done(n, m, ConvertJtbl(m, s, t), s, "goto", "1WAY", <<t>>, <<t>>)
<1> DEFINE refs == m[s].refs
           old == ToSet(refs)
           cases == ToSet(m[s].refs) \ {t}
           cut == [u \in DOMAIN m |->
                     IF u \in cases THEN [m[u] EXCEPT !.pred = RemoveFirst(@, s)] ELSE m[u]]
           kept == [u \in 0..n-1 |-> IF u \in cases THEN RemoveFirst(m[u].pred, s) ELSE m[u].pred]
           m1 == [u \in 0..n-1 |-> [m[u] EXCEPT !.pred = kept[u]]]
           m2 == MakeOneWay(m1, s, t)
           m3 == [m2 EXCEPT ![s].succ = <<t>>]
           left == old \cap {t}
<1>1. n \in Nat /\ s \in 0..n-1 /\ n >= 2 /\ IsArray(n, m) /\ DOMAIN m = 0..n-1
  BY DEF Sound, IsArray
<1>2. m[s].type = "NWAY" /\ m[s].succ = refs /\ refs \in Seq(0..n-1) /\ old \in SUBSET (0..n-1)
  <2>1. m[s].type = "NWAY" /\ m[s].succ = refs /\ refs \in Seq(0..n-1)
    BY <1>1, SwitchIs
  <2> HIDE DEF refs
  <2> QED BY <2>1, InSequence
<1>3. Work(n, m, m, s, "jtbl", "NWAY", refs, refs, old)
  <2>1. Work(n, m, m, s, m[s].op, m[s].type, m[s].refs, m[s].succ, ToSet(m[s].succ))
    BY WorkBegins
  <2> QED BY <1>2, <2>1
<1>4. cut = m1
  <2>1. ASSUME NEW u \in 0..n-1
        PROVE  (IF u \in cases THEN [m[u] EXCEPT !.pred = RemoveFirst(@, s)] ELSE m[u])
                 = [m[u] EXCEPT !.pred = kept[u]]
    <3>1. CASE u \in cases
      BY <3>1
    <3>2. CASE u \notin cases
      <4>1. m[u] = [id |-> m[u].id, type |-> m[u].type, op |-> m[u].op, refs |-> m[u].refs,
                    succ |-> m[u].succ, pred |-> m[u].pred]
        <5>1. IsArray(n, m)
          BY <1>1
        <5> HIDE DEF kept, cases
        <5> QED BY <5>1, BlockIs
      <4>2. [m[u] EXCEPT !.pred = m[u].pred] = m[u]
        BY <4>1
      <4>3. kept[u] = m[u].pred
        BY <3>2
      <4> HIDE DEF kept
      <4> QED BY <3>2, <4>2, <4>3
    <3> QED BY <3>1, <3>2
  <2> HIDE DEF kept, cases
  <2> QED BY <1>1, <2>1
<1>5. ASSUME NEW u \in 0..n-1
      PROVE  /\ kept[u] \in Seq(0..n-1) /\ IsInjective(kept[u])
             /\ \A y \in 0..n-1 : y # s => (y \in ToSet(kept[u]) <=> y \in ToSet(m[u].pred))
             /\ s \in ToSet(kept[u]) <=> u \in left
  <2> DEFINE p == m[u].pred
  <2>1. p \in Seq(0..n-1) /\ IsInjective(p)
    <3>1. p \in Seq(0..n-1)
      BY <1>1, BlockIs
    <3> QED BY <1>1, <3>1 DEF IsArray
  <2>2. s \in ToSet(p) <=> u \in old
    BY <1>1, <1>2 DEF Sound, Noted, Edges
  <2>3. kept[u] = IF u \in old \ {t} THEN RemoveFirst(p, s) ELSE p
    OBVIOUS
  <2> HIDE DEF p, kept, old
  <2>4. CASE u \in old \ {t}
    <3>1. RemoveFirst(p, s) \in Seq(0..n-1) /\ IsInjective(RemoveFirst(p, s)) /\ ToSet(RemoveFirst(p, s)) = ToSet(p) \ {s}
      BY <2>1, Removed
    <3> QED BY <2>3, <2>4, <3>1 DEF p
  <2>5. CASE u \notin old \ {t}
    BY <2>1, <2>2, <2>3, <2>5 DEF p
  <2> QED BY <2>4, <2>5
<1>6. Work(n, m, m1, s, "jtbl", "NWAY", refs, refs, left)
  <2>1. kept \in [0..n-1 -> Seq(0..n-1)]
    <3>1. kept = [u \in 0..n-1 |-> kept[u]]
      OBVIOUS
    <3> HIDE DEF kept
    <3> QED BY <1>5, <3>1
  <2>2. \A x, y \in 0..n-1 : y # s => (y \in ToSet(kept[x]) <=> y \in ToSet(m[x].pred))
    BY <1>5
  <2>3. \A x \in 0..n-1 : IsInjective(kept[x])
    BY <1>5
  <2>4. \A x \in 0..n-1 : s \in ToSet(kept[x]) <=> x \in left
    BY <1>5
  <2>5. left \in SUBSET (0..n-1)
    BY <1>2
  <2> HIDE DEF kept, left, old, refs
  <2>6. Notes(n, m, s, kept, left)
    BY <2>1, <2>2, <2>3, <2>4 DEF Notes
  <2>7. Work(n, m, Noting(n, m, kept), s, "jtbl", "NWAY", refs, refs, left)
    BY <1>3, <2>5, <2>6, WorkNotesAll
  <2> QED BY <2>7 DEF Noting
<1> HIDE DEF m1, kept, cases
<1>7. Work(n, m, m2, s, "goto", "1WAY", <<t>>, refs, left)
  <2> HIDE DEF refs, left
  <2> QED BY <1>6, WorkMakeOneWay
<1>8. Work(n, m, m3, s, "goto", "1WAY", <<t>>, <<t>>, left)
  <2>1. <<t>> \in Seq(0..n-1)
    OBVIOUS
  <2> HIDE DEF m2, refs, left
  <2> QED BY <1>7, <2>1, WorkSucc
<1>9. ConvertJtbl(m, s, t) = AddPredOnce(m3, t, s)
  BY <1>4 DEF ConvertJtbl, cases
<1> HIDE DEF m3, refs
<1>10. s \in ToSet(m3[t].pred) <=> t \in left
  <2>1. Noted(n, m3, [Edges(n, m3) EXCEPT ![s] = left])
    BY <1>8 DEF Work, Around
  <2>2. [Edges(n, m3) EXCEPT ![s] = left][s] = left
    BY <1>1 DEF Edges
  <2> HIDE DEF left
  <2> QED BY <1>1, <2>1, <2>2 DEF Noted
<1>11. CASE t \in left
  <2>1. left = {t} /\ AddPredOnce(m3, t, s) = m3
    BY <1>10, <1>11 DEF AddPredOnce
  <2> HIDE DEF left
  <2> QED BY <1>8, <1>9, <2>1, WorkJumps
<1>12. CASE t \notin left
  <2>1. left = {} /\ AddPredOnce(m3, t, s) = AddPred(m3, t, s)
    BY <1>10, <1>12 DEF AddPredOnce
  <2> HIDE DEF left
  <2>2. Work(n, m, AddPred(m3, t, s), s, "goto", "1WAY", <<t>>, <<t>>, {} \cup {t})
    BY <1>8, <2>1, WorkAddPred
  <2>3. {} \cup {t} = {t}
    OBVIOUS
  <2>4. Work(n, m, AddPred(m3, t, s), s, "goto", "1WAY", <<t>>, <<t>>, {t})
    BY <2>2, <2>3
  <2> QED BY <1>9, <2>1, <2>4, WorkJumps
<1> QED BY <1>11, <1>12

-------------------------------------------------------------------------------
(* A graph in order is what the contracts ask for. *)

LEMMA SoundIsWellFormed ==
  ASSUME NEW n, NEW m, Sound(n, m)
  PROVE  WellFormed(m)
<1>1. IsArray(n, m) /\ n \in Nat /\ DOMAIN m = 0..n-1
  BY DEF Sound, IsArray
<1>2. \A x \in 0..n-1 : /\ m[x].refs \in Seq(0..n-1) /\ ToSet(m[x].succ) \subseteq 0..n-1
                        /\ ToSet(m[x].pred) \subseteq 0..n-1 /\ InShape(n, x, m[x])
  <2> SUFFICES ASSUME NEW x \in 0..n-1
               PROVE  /\ m[x].refs \in Seq(0..n-1) /\ ToSet(m[x].succ) \subseteq 0..n-1
                      /\ ToSet(m[x].pred) \subseteq 0..n-1 /\ InShape(n, x, m[x])
    OBVIOUS
  <2>1. m[x].refs \in Seq(0..n-1) /\ m[x].succ \in Seq(0..n-1) /\ m[x].pred \in Seq(0..n-1)
    BY <1>1, BlockIs
  <2>2. ToSet(m[x].succ) \subseteq 0..n-1
    BY <2>1, InSequence
  <2>3. ToSet(m[x].pred) \subseteq 0..n-1
    BY <2>1, InSequence
  <2> QED BY <2>1, <2>2, <2>3 DEF Sound
<1>3. EdgesAgree(m)
  <2>1. \A x, y \in 0..n-1 : y \in ToSet(m[x].pred) <=> x \in ToSet(m[y].succ)
    BY DEF Sound, Noted, Edges
  <2> QED BY <1>1, <1>2, <2>1 DEF EdgesAgree
<1>4. PredsUnique(m)
  BY <1>1 DEF PredsUnique, IsArray
<1>5. ASSUME NEW x \in 0..n-1
      PROVE  /\ m[x].type = "NWAY" <=> m[x].op = "jtbl"
             /\ Nsucc(m, x) = SuccessorCount(m, x)
             /\ m[x].type = "2WAY" => m[x].op = "jcond"
             /\ m[x].type = "1WAY" /\ m[x].op = "call" => m[x].succ = <<x + 1>>
             /\ m[x].succ = Outs(m, x)
             /\ m[x].op = "jtbl" => IsInjective(m[x].refs)
  <2> DEFINE b == m[x]
  <2>1. CASE Jumps(n, b)
    BY <2>1 DEF Jumps, Nsucc, SuccessorCount, Outs
  <2>2. CASE Branches(n, x, b)
    <3>1. PICK t \in 0..n-1 : t # x + 1 /\ b.refs = <<t>> /\ b.succ = <<x + 1, t>>
      BY <2>2 DEF Branches
    <3>2. b.refs # <<x + 1>>
      BY <3>1
    <3>3. <<x + 1>> \o <<t>> = <<x + 1, t>> /\ Len(<<x + 1, t>>) = 2
      BY Two
    <3>4. b.op = "jcond" /\ b.type = "2WAY"
      BY <2>2 DEF Branches
    <3>5. Outs(m, x) = <<x + 1>> \o b.refs
      BY <3>2, <3>4 DEF Outs
    <3>6. Nsucc(m, x) = 2 /\ SuccessorCount(m, x) = 2
      BY <3>1, <3>3, <3>4 DEF Nsucc, SuccessorCount
    <3> QED BY <3>1, <3>3, <3>4, <3>5, <3>6
  <2>3. CASE Switches(b)
    BY <2>3 DEF Switches, Nsucc, SuccessorCount, Outs
  <2>4. CASE FallsThrough(n, x, b)
    BY <2>4 DEF FallsThrough, Nsucc, SuccessorCount, Outs
  <2>5. CASE Stops(b)
    BY <2>5 DEF Stops, Nsucc, SuccessorCount, Outs
  <2> QED BY <1>2, <2>1, <2>2, <2>3, <2>4, <2>5 DEF InShape
<1>6. TypeMatchesTail(m) /\ SuccMatchesTail(m) /\ CasesUnique(m)
  BY <1>1, <1>5 DEF TypeMatchesTail, SuccMatchesTail, CasesUnique
<1> QED BY <1>3, <1>4, <1>6 DEF WellFormed

-------------------------------------------------------------------------------
(* Jumps to jumps *)

(* A set of blocks the jumps of m do not lead out of.                          *)
Closed(n, m, S) == \A g \in S : m[g].op = "goto" => m[g].refs[1] \in S

(* What the blocks of the start m have become in k when the first i are past:  *)
(* jumps only appear among those, and jumps and branches lead where the jumps  *)
(* of the start led.                                                           *)
Became(i, x, a, b) ==
  /\ a.op = "goto" => b.op = "goto"
  /\ b.op = "goto" /\ x >= i => a.op = "goto"
  /\ b.op = "jcond" => a.op = "jcond"
  /\ b.op = "jtbl" => a.op = "jtbl" /\ b.succ = a.succ
  /\ NoFall(a) => NoFall(b)
LeadsInto(S, x, a, b) ==
  /\ x \in S /\ a.op = "goto" => b.refs[1] \in S
  /\ b.op = "jcond" /\ a.refs[1] \in S => b.refs[1] \in S
(* Each way out leads where that way out led.                                  *)
Follows(n, m, a, b) ==
  /\ b.id = a.id /\ Len(b.succ) = Len(a.succ)
  /\ \A S \in SUBSET (0..n-1) : Closed(n, m, S) =>
       \A i \in 1..Len(a.succ) : a.succ[i] \in S => b.succ[i] \in S
Led(n, m, k, i) ==
  /\ Sound(n, k)
  /\ \A x \in 0..n-1 : Follows(n, m, m[x], k[x])
  /\ \A x \in 0..n-1 : Became(i, x, m[x], k[x])
  /\ \A S \in SUBSET (0..n-1) : Closed(n, m, S) => \A x \in 0..n-1 : LeadsInto(S, x, m[x], k[x])

(* What a refused update leaves: blocks still, and the contracts are broken at *)
(* most for the block it mistook.                                              *)
Confused(x, b) == (b.op = "jcond" /\ b.refs = <<x + 1>>) \/ b.op = "jtbl"
Spoiled(n, k, R) ==
  /\ k \in [0..n-1 -> Blocks(n)]
  /\ \A x, y \in 0..n-1 : k[x].id = k[y].id => x = y
  /\ WellFormed(k) \/ \A x \in R : Confused(x, k[x])
Going(n, m, run, i) ==
  IF run.refused = {} THEN Led(n, m, run.mba, i) ELSE Spoiled(n, run.mba, run.refused)

LEMMA LedStays ==
  ASSUME NEW i, NEW x, NEW S, NEW a, NEW b, NEW c, SameTail(c, b)
  PROVE  /\ Became(i, x, a, b) => Became(i, x, a, c)
         /\ LeadsInto(S, x, a, b) => LeadsInto(S, x, a, c)
         /\ \A n, m : Follows(n, m, a, b) => Follows(n, m, a, c)
BY DEF SameTail, Became, LeadsInto, Follows, NoFall

LEMMA LedJumps ==
  ASSUME NEW n, NEW m, NEW k, NEW i, Led(n, m, k, i), NEW f \in 0..n-1, NEW l, NEW t,
         Done(n, k, l, f, "goto", "1WAY", <<t>>, <<t>>),
         f >= i => m[f].op = "goto",
         \A S \in SUBSET (0..n-1) : Closed(n, m, S) /\ f \in S /\ m[f].op = "goto" => t \in S,
         Len(m[f].succ) = 1,
         \A S \in SUBSET (0..n-1) : Closed(n, m, S) /\ m[f].succ[1] \in S => t \in S
  PROVE  Led(n, m, l, i)
<1>1. Sound(n, l) /\ \A x \in 0..n-1 : x # f => SameTail(l[x], k[x])
  BY DEF Done, Beside
<1>2. l[f].op = "goto" /\ l[f].refs[1] = t
  BY DEF Done
<1>3. ASSUME NEW x \in 0..n-1 PROVE Became(i, x, m[x], l[x])
  <2>1. CASE x = f
    BY <1>2, <2>1 DEF Became, NoFall
  <2>2. CASE x # f
    <3>1. Became(i, x, m[x], k[x]) /\ SameTail(l[x], k[x])
      BY <1>1, <2>2 DEF Led
    <3> QED BY <3>1, LedStays
  <2> QED BY <2>1, <2>2
<1>4. ASSUME NEW S \in SUBSET (0..n-1), Closed(n, m, S), NEW x \in 0..n-1
      PROVE  LeadsInto(S, x, m[x], l[x])
  <2>1. CASE x = f
    <3>1. f \in S /\ m[f].op = "goto" => t \in S
      BY <1>4
    <3> QED BY <1>2, <2>1, <3>1 DEF LeadsInto
  <2>2. CASE x # f
    <3>1. LeadsInto(S, x, m[x], k[x]) /\ SameTail(l[x], k[x])
      BY <1>1, <1>4, <2>2 DEF Led
    <3> QED BY <3>1, LedStays
  <2> QED BY <2>1, <2>2
<1>5. ASSUME NEW x \in 0..n-1 PROVE Follows(n, m, m[x], l[x])
  <2>1. CASE x = f
    <3>1. Len(l[f].succ) = 1 /\ l[f].succ[1] = t /\ l[f].id = m[f].id
      BY DEF Done, Led, Follows
    <3>2. \A i1 \in 1..1 : i1 = 1
      OBVIOUS
    <3> QED BY <2>1, <3>1, <3>2 DEF Follows
  <2>2. CASE x # f
    <3>1. Follows(n, m, m[x], k[x]) /\ SameTail(l[x], k[x])
      BY <1>1, <2>2 DEF Led
    <3> QED BY <3>1, LedStays
  <2> QED BY <2>1, <2>2
<1> QED BY <1>1, <1>3, <1>4, <1>5 DEF Led

LEMMA LedBranches ==
  ASSUME NEW n, NEW m, NEW k, NEW i, Led(n, m, k, i), NEW f \in 0..n-1, NEW l, NEW t, NEW y,
         Done(n, k, l, f, "jcond", "2WAY", <<t>>, <<y, t>>), m[f].succ = <<y, m[f].refs[1]>>,
         m[f].op = "jcond", m[f].type = "2WAY",
         \A S \in SUBSET (0..n-1) : Closed(n, m, S) /\ m[f].refs[1] \in S => t \in S
  PROVE  Led(n, m, l, i)
<1>1. Sound(n, l) /\ \A x \in 0..n-1 : x # f => SameTail(l[x], k[x])
  BY DEF Done, Beside
<1>2. l[f].op = "jcond" /\ l[f].refs[1] = t
  BY DEF Done
<1>3. ASSUME NEW x \in 0..n-1 PROVE Became(i, x, m[x], l[x])
  <2>1. CASE x = f
    BY <1>2, <2>1 DEF Became, NoFall
  <2>2. CASE x # f
    <3>1. Became(i, x, m[x], k[x]) /\ SameTail(l[x], k[x])
      BY <1>1, <2>2 DEF Led
    <3> QED BY <3>1, LedStays
  <2> QED BY <2>1, <2>2
<1>4. ASSUME NEW S \in SUBSET (0..n-1), Closed(n, m, S), NEW x \in 0..n-1
      PROVE  LeadsInto(S, x, m[x], l[x])
  <2>1. CASE x = f
    <3>1. m[f].refs[1] \in S => t \in S
      BY <1>4
    <3> QED BY <1>2, <2>1, <3>1 DEF LeadsInto
  <2>2. CASE x # f
    <3>1. LeadsInto(S, x, m[x], k[x]) /\ SameTail(l[x], k[x])
      BY <1>1, <1>4, <2>2 DEF Led
    <3> QED BY <3>1, LedStays
  <2> QED BY <2>1, <2>2
<1>5. ASSUME NEW x \in 0..n-1 PROVE Follows(n, m, m[x], l[x])
  <2>1. CASE x = f
    <3> DEFINE r0 == m[f].refs[1]
    <3>1. l[f].succ = <<y, t>> /\ m[f].succ = <<y, r0>> /\ l[f].id = m[f].id
      BY DEF Done, Led, Follows
    <3> HIDE DEF r0
    <3>2. Len(l[f].succ) = 2 /\ l[f].succ[1] = y /\ l[f].succ[2] = t
      BY <3>1
    <3>3. Len(m[f].succ) = 2 /\ m[f].succ[1] = y /\ m[f].succ[2] = r0
      BY <3>1
    <3>4. \A j \in 1..2 : j = 1 \/ j = 2
      OBVIOUS
    <3>5. \A S \in SUBSET (0..n-1) : Closed(n, m, S) /\ r0 \in S => t \in S
      BY DEF r0
    <3> QED BY <2>1, <3>1, <3>2, <3>3, <3>4, <3>5 DEF Follows
  <2>2. CASE x # f
    <3>1. Follows(n, m, m[x], k[x]) /\ SameTail(l[x], k[x])
      BY <1>1, <2>2 DEF Led
    <3> QED BY <3>1, LedStays
  <2> QED BY <2>1, <2>2
<1> QED BY <1>1, <1>3, <1>4, <1>5 DEF Led

LEMMA VerifiedIs ==
  ASSUME NEW n, NEW l, Sound(n, l), NEW f, NEW k, Sound(n, k)
  PROVE  /\ l[f].op # "jtbl" => Verified(l, f, k) = [mba |-> k, refused |-> {}]
         /\ l[f].op = "jtbl" => Verified(l, f, k) = [mba |-> k, refused |-> {f}]
         /\ \A R : Spoiled(n, k, R)
<1>1. WellFormed(k)
  BY SoundIsWellFormed
<1>2. k \in [0..n-1 -> Blocks(n)] /\ \A x, y \in 0..n-1 : k[x].id = k[y].id => x = y
  BY DEF Sound, IsArray, IdsApart
<1> QED BY <1>1, <1>2 DEF Verified, Spoiled

(* One end of an edge and the other, wherever they are.                        *)
Array(n, m) == m \in [0..n-1 -> Blocks(n)]
Linked(n, r, m) ==
  /\ Array(n, r)
  /\ \A x \in 0..n-1 : /\ r[x].id = m[x].id /\ r[x].op = m[x].op
                       /\ r[x].type = m[x].type /\ r[x].refs = m[x].refs
LEMMA Relinked ==
  ASSUME NEW n, NEW m, Array(n, m), NEW s \in 0..n-1, NEW a \in 0..n-1,
         NEW t \in 0..n-1, IsInjective(m[s].succ), IsInjective(m[a].pred),
         NEW r, r = Link(Unlink(m, s, a), s, t)
  PROVE  Linked(n, r, m)
<1> DEFINE Same(z) == /\ z \in [0..n-1 -> Blocks(n)]
                      /\ \A x \in 0..n-1 : /\ z[x].id = m[x].id /\ z[x].op = m[x].op
                                           /\ z[x].type = m[x].type /\ z[x].refs = m[x].refs
<1>1. ASSUME NEW z, Same(z), NEW x \in 0..n-1, NEW q \in Seq(0..n-1)
      PROVE  Same([z EXCEPT ![x].succ = q]) /\ Same([z EXCEPT ![x].pred = q])
  <2> DEFINE b == [z[x] EXCEPT !.succ = q]
             c == [z[x] EXCEPT !.pred = q]
             Alike(e) == /\ e \in Blocks(n) /\ e.id = z[x].id /\ e.op = z[x].op
                         /\ e.type = z[x].type /\ e.refs = z[x].refs
  <2>1. z \in [0..n-1 -> Blocks(n)] /\ z[x] \in Blocks(n)
    BY <1>1
  <2>2. Alike(b) /\ Alike(c)
    BY <2>1 DEF Blocks
  <2>3. [z EXCEPT ![x].succ = q] = [z EXCEPT ![x] = b] /\ [z EXCEPT ![x].pred = q] = [z EXCEPT ![x] = c]
    OBVIOUS
  <2>4. ASSUME NEW e, Alike(e) PROVE Same([z EXCEPT ![x] = e])
    BY <1>1, <2>1, <2>4
  <2> HIDE DEF b, c, Alike, Same
  <2> QED BY <2>2, <2>3, <2>4
<1>2. ASSUME NEW z, Same(z), NEW x \in 0..n-1
      PROVE  z[x].succ \in Seq(0..n-1) /\ z[x].pred \in Seq(0..n-1) /\ DOMAIN z = 0..n-1
  BY <1>2 DEF Blocks
<1>3. Same(m)
  BY DEF Array
<1> HIDE DEF Same
<1>4. m[s].succ \in Seq(0..n-1) /\ m[a].pred \in Seq(0..n-1)
  BY <1>2, <1>3
<1> DEFINE m1 == DelSucc(m, s, a)
           m2 == DelPred(m1, a, s)
           m3 == AddSucc(m2, s, t)
           m4 == AddPred(m3, t, s)
<1>5. Same(m1) /\ m1[a].pred = m[a].pred
  <2> DEFINE q == RemoveFirst(m[s].succ, a)
  <2>1. q \in Seq(0..n-1)
    BY <1>4, Removed
  <2>2. m1 = [m EXCEPT ![s].succ = q]
    BY DEF DelSucc
  <2>3. m2 = m2 /\ m1[a].pred = m[a].pred
    BY <2>2
  <2> HIDE DEF q, m1
  <2> QED BY <1>1, <1>3, <2>1, <2>2, <2>3
<1>6. Same(m2)
  <2> DEFINE q == RemoveFirst(m1[a].pred, s)
  <2>1. q \in Seq(0..n-1)
    BY <1>4, <1>5, Removed
  <2>2. m2 = [m1 EXCEPT ![a].pred = q]
    BY DEF DelPred
  <2> HIDE DEF q, m1, m2
  <2> QED BY <1>1, <1>5, <2>1, <2>2
<1> HIDE DEF m1, m2
<1>7. Same(m3)
  <2> DEFINE q == Append(m2[s].succ, t)
  <2>1. q \in Seq(0..n-1)
    BY <1>2, <1>6, AppendIs
  <2>2. m3 = [m2 EXCEPT ![s].succ = q]
    BY DEF AddSucc
  <2> HIDE DEF q, m3
  <2> QED BY <1>1, <1>6, <2>1, <2>2
<1> HIDE DEF m3
<1>8. Same(m4)
  <2> DEFINE q == Append(m3[t].pred, s)
  <2>1. q \in Seq(0..n-1)
    BY <1>2, <1>7, AppendIs
  <2>2. m4 = [m3 EXCEPT ![t].pred = q]
    BY <1>2, <1>7 DEF AddPred, Missing
  <2> HIDE DEF q, m4
  <2> QED BY <1>1, <1>7, <2>1, <2>2
<1>9. m4 = r
  BY DEF Link, Unlink, m1, m2, m3, m4
<1> QED BY <1>8, <1>9 DEF Same, Linked, Array

(* A branch sent to the block it falls into is refused.                        *)
LEMMA TwistIsRefused ==
  ASSUME NEW n, NEW l, Sound(n, l), NEW f \in 0..n-1, l[f].op = "jcond",
         NEW t, t = f + 1
  PROVE  LET u == Verified(l, f, Change2Way(l, f, t))
         IN  u.refused = {f} /\ Spoiled(n, u.mba, u.refused)
<1> DEFINE old == l[f].refs[1]
           a == [l EXCEPT ![f].refs = <<t>>]
           k == Change2Way(l, f, t)
           u == Verified(l, f, k)
<1>1. /\ f + 1 \in 0..n-1 /\ t \in 0..n-1 /\ l[f].type = "2WAY" /\ old \in 0..n-1 /\ old # f + 1
      /\ l[f].succ = <<f + 1, old>>
  BY BranchIs
<1>2. IsArray(n, l) /\ l \in [0..n-1 -> Blocks(n)] /\ \A x, y \in 0..n-1 : l[x].id = l[y].id => x = y
  BY DEF Sound, IsArray, IdsApart
<1>3. k = Link(Unlink(a, f, old), f, t)
  BY DEF Change2Way
<1> HIDE DEF old
<1>4. /\ a \in [0..n-1 -> Blocks(n)] /\ a[f].refs = <<t>>
      /\ \A x \in 0..n-1 : /\ a[x].id = l[x].id /\ a[x].op = l[x].op /\ a[x].type = l[x].type
                           /\ a[x].succ = l[x].succ /\ a[x].pred = l[x].pred
  <2> DEFINE b == [l[f] EXCEPT !.refs = <<t>>]
  <2>1. <<t>> \in Seq(0..n-1)
    BY <1>1
  <2>2. l[f] \in Blocks(n)
    BY <1>2
  <2>3. /\ b \in Blocks(n) /\ b.refs = <<t>> /\ b.id = l[f].id /\ b.op = l[f].op
        /\ b.type = l[f].type /\ b.succ = l[f].succ /\ b.pred = l[f].pred
    BY <2>1, <2>2 DEF Blocks
  <2>4. a = [l EXCEPT ![f] = b]
    OBVIOUS
  <2> HIDE DEF a, b
  <2> QED BY <1>2, <2>3, <2>4
<1> HIDE DEF a
<1>5. IsInjective(a[f].succ) /\ IsInjective(a[old].pred)
  <2>1. IsInjective(<<f + 1, old>>)
    BY <1>1, Pair
  <2> QED BY <1>1, <1>2, <1>4, <2>1 DEF IsArray
<1>6. /\ k \in [0..n-1 -> Blocks(n)]
      /\ \A x \in 0..n-1 : k[x].id = a[x].id
      /\ k[f].op = "jcond" /\ k[f].type = "2WAY" /\ k[f].refs = <<f + 1>>
  <2> DEFINE r == Link(Unlink(a, f, old), f, t)
  <2>1. /\ r \in [0..n-1 -> Blocks(n)]
        /\ \A x \in 0..n-1 : /\ r[x].id = a[x].id /\ r[x].op = a[x].op
                             /\ r[x].type = a[x].type /\ r[x].refs = a[x].refs
    <3> DEFINE q == r
    <3>1. q = Link(Unlink(a, f, old), f, t)
      OBVIOUS
    <3> HIDE DEF q
    <3>2. Array(n, a)
      BY <1>4 DEF Array
    <3>3. Linked(n, q, a)
      BY <1>1, <1>5, <3>1, <3>2, Relinked
    <3> QED BY <3>3 DEF q, Linked, Array
  <2>2. k = r /\ t = f + 1 /\ a[f].op = "jcond" /\ a[f].type = "2WAY"
    BY <1>1, <1>3, <1>4
  <2> HIDE DEF r
  <2> QED BY <1>4, <2>1, <2>2
<1> HIDE DEF k
<1>7. ~WellFormed(k)
  <2> SUFFICES ASSUME WellFormed(k) PROVE FALSE
    OBVIOUS
  <2>1. f \in DOMAIN k
    BY <1>6
  <2>2. k[f].succ = Outs(k, f) /\ Nsucc(k, f) = SuccessorCount(k, f)
    BY <2>1 DEF WellFormed, SuccMatchesTail, TypeMatchesTail
  <2>3. Outs(k, f) = <<f + 1>> /\ SuccessorCount(k, f) = 2
    BY <1>6 DEF Outs, SuccessorCount
  <2>4. Len(<<f + 1>>) = 1
    OBVIOUS
  <2> QED BY <2>2, <2>3, <2>4 DEF Nsucc
<1>8. u = [mba |-> k, refused |-> {f}]
  BY <1>7 DEF Verified
<1>9. \A x, y \in 0..n-1 : k[x].id = k[y].id => x = y
  BY <1>2, <1>4, <1>6
<1>10. Confused(f, k[f])
  BY <1>6 DEF Confused
<1>11. Spoiled(n, k, {f})
  BY <1>6, <1>9, <1>10 DEF Spoiled
<1> QED BY <1>8, <1>11 DEF k

(* A switch taken for a branch is refused.                                     *)
LEMMA MistakeIsRefused ==
  ASSUME NEW n, NEW l, Sound(n, l), NEW f \in 0..n-1, l[f].op = "jtbl",
         NEW t \in 0..n-1, NEW guess \in 0..n
  PROVE  LET u == Verified(l, f, MistakeSwitch(l, f, guess, t))
         IN  u.refused = {f} /\ Spoiled(n, u.mba, u.refused)
<1> DEFINE k == MistakeSwitch(l, f, guess, t)
           u == Verified(l, f, k)
<1>1. IsArray(n, l) /\ l \in [0..n-1 -> Blocks(n)] /\ \A x, y \in 0..n-1 : l[x].id = l[y].id => x = y
  BY DEF Sound, IsArray, IdsApart
<1>2. u = [mba |-> k, refused |-> {f}]
  BY DEF Verified
<1>3. /\ k \in [0..n-1 -> Blocks(n)]
      /\ \A x \in 0..n-1 : k[x].id = l[x].id /\ k[x].op = l[x].op
  <2>1. CASE guess \in 0..n-1
    <3>1. k = Link(Unlink(l, f, guess), f, t)
      BY <1>1, <2>1 DEF MistakeSwitch, Missing
    <3>2. IsInjective(l[f].succ) /\ IsInjective(l[guess].pred)
      BY <1>1, <2>1, SwitchIs DEF IsArray
    <3> DEFINE r == k
    <3> HIDE DEF k
    <3>3. Array(n, l)
      BY <1>1 DEF Array
    <3>4. Linked(n, r, l)
      BY <2>1, <3>1, <3>2, <3>3, Relinked
    <3> QED BY <3>4 DEF Linked, Array
  <2>2. CASE guess \notin 0..n-1
    BY <1>1, <2>2 DEF MistakeSwitch, Missing
  <2> QED BY <2>1, <2>2
<1> HIDE DEF k
<1>4. Spoiled(n, k, {f})
  BY <1>1, <1>3 DEF Spoiled, Confused
<1> QED BY <1>2, <1>4 DEF k

(* One father of the jump s is sent where s jumps, or the update is refused.   *)
LEMMA UpdateLeads ==
  ASSUME NEW n, NEW m, Sound(n, m), NEW guess \in 0..n,
         NEW s \in 0..n-1, NEW k, Led(n, m, k, s), k[s].op = "goto",
         NEW l, Led(n, m, l, s + 1),
         NEW f \in 0..n-1, s \in ToSet(k[f].succ), SameTail(l[f], k[f])
  PROVE  LET u == UpdateSuccessor(l, f, s, k[s].refs[1], guess)
         IN  Going(n, m, u, s + 1) /\ (u.refused = {} => Beside(n, f, u.mba, l))
<1> DEFINE new == k[s].refs[1]
           u == UpdateSuccessor(l, f, s, new, guess)
           Fine == Going(n, m, u, s + 1) /\ (u.refused = {} => Beside(n, f, u.mba, l))
<1>1. /\ n \in Nat /\ n >= 2 /\ Sound(n, k) /\ Sound(n, l) /\ n - 1 \in 0..n-1 /\ k[n-1].succ = <<>>
      /\ ~Missing(l, f)
  BY DEF Sound, IsArray, Led, Missing
<1>2. m[s].op = "goto"
  BY DEF Led, Became
<1>3. new \in 0..n-1
  BY <1>1, JumpIs
<1>4. \A S \in SUBSET (0..n-1) : Closed(n, m, S) /\ s \in S => new \in S
  BY <1>2 DEF Led, LeadsInto
<1>5. f \in 0..n-2
  <2>1. f # n - 1
    BY <1>1 DEF ToSet
  <2> QED BY <1>1, <2>1
<1>6. /\ l[f].op = k[f].op /\ l[f].refs = k[f].refs /\ l[f].succ = k[f].succ
      /\ Nsucc(l, f) = Len(k[f].succ)
  BY DEF SameTail, Nsucc
<1>7. /\ u = Begun(l) => Fine
      /\ \A r : u = [mba |-> r, refused |-> {}] /\ Led(n, m, r, s + 1) /\ Beside(n, f, r, l) => Fine
      /\ u.refused = {f} /\ Spoiled(n, u.mba, {f}) => Fine
  <2>1. Beside(n, f, l, l) /\ {f} # {}
    BY DEF Beside, SameTail
  <2> HIDE DEF u
  <2>2. Begun(l).mba = l /\ Begun(l).refused = {}
    BY DEF Begun
  <2>3. u = Begun(l) => Fine
    BY <2>1, <2>2 DEF Going
  <2>4. ASSUME NEW r, u = [mba |-> r, refused |-> {}], Led(n, m, r, s + 1), Beside(n, f, r, l)
        PROVE  Fine
    <3>1. u.mba = r /\ u.refused = {}
      BY <2>4
    <3> QED BY <2>4, <3>1 DEF Going
  <2>5. u.refused = {f} /\ Spoiled(n, u.mba, {f}) => Fine
    BY <2>1 DEF Going
  <2> QED BY <2>3, <2>4, <2>5
<1>8. InShape(n, f, k[f]) /\ Became(s, f, m[f], k[f])
  BY <1>1 DEF Sound, Led
<1> SUFFICES Fine
  OBVIOUS
<1> HIDE DEF new, u, Fine
<1>9. ASSUME Nsucc(l, f) = 1, f # 0, k[f].op # "jtbl", f >= s + 1 => m[f].op = "goto",
             \A S \in SUBSET (0..n-1) : Closed(n, m, S) /\ f \in S /\ m[f].op = "goto" => new \in S
      PROVE  Fine
  <2> DEFINE r == Change1Way(l, f, new)
  <2>1. Done(n, l, r, f, "goto", "1WAY", <<new>>, <<new>>)
    BY <1>1, <1>3, <1>5, <1>9, Change1WayKeeps
  <2>2. u = [mba |-> r, refused |-> {}]
    <3>1. u = Verified(l, f, r)
      BY <1>1, <1>9 DEF UpdateSuccessor, CanChange1Way, CanChange2Way, u
    <3>2. Sound(n, r)
      BY <2>1 DEF Done
    <3> HIDE DEF r
    <3> QED BY <1>1, <1>6, <1>9, <3>1, <3>2, VerifiedIs
  <2> HIDE DEF r
  <2>3. Follows(n, m, m[f], k[f]) /\ Len(k[f].succ) = 1 /\ k[f].succ[1] = s
    <3>1. Len(k[f].succ) = 1
      BY <1>6, <1>9
    <3>2. k[f].succ \in Seq(0..n-1)
      BY <1>1, BlockIs DEF Sound
    <3>3. ToSet(k[f].succ) = {k[f].succ[1]}
      BY <3>1, <3>2, Single
    <3> QED BY <3>1, <3>3 DEF Led
  <2>4. /\ Len(m[f].succ) = 1
        /\ \A S \in SUBSET (0..n-1) : Closed(n, m, S) /\ m[f].succ[1] \in S => new \in S
    <3>1. 1 \in 1..1
      OBVIOUS
    <3> QED BY <1>4, <2>3, <3>1 DEF Follows
  <2>5. Led(n, m, r, s + 1)
    BY <1>9, <2>1, <2>4, LedJumps
  <2>6. Beside(n, f, r, l)
    BY <2>1 DEF Done
  <2> QED BY <1>7, <2>2, <2>5, <2>6
<1>10. ASSUME Nsucc(l, f) = 1, f = 0
       PROVE  u = Begun(l)
  BY <1>1, <1>10 DEF UpdateSuccessor, CanChange1Way, CanChange2Way, u
<1>11. CASE Jumps(n, k[f])
  <2>1. k[f].op = "goto" /\ k[f].refs = <<s>> /\ k[f].succ = <<s>>
    <3>1. PICK t \in 0..n-1 : k[f].refs = <<t>> /\ k[f].succ = <<t>>
      BY <1>11 DEF Jumps
    <3>2. ToSet(<<t>>) = {t}
      BY DEF ToSet
    <3> QED BY <1>11, <3>1, <3>2 DEF Jumps
  <2>2. Nsucc(l, f) = 1 /\ k[f].op # "jtbl"
    BY <1>6, <2>1
  <2>3. CASE f = 0
    BY <1>7, <1>10, <2>2, <2>3
  <2>4. CASE f # 0
    <3>1. f >= s + 1 => m[f].op = "goto"
      BY <1>8, <2>1 DEF Became
    <3>2. ASSUME NEW S \in SUBSET (0..n-1), Closed(n, m, S), f \in S, m[f].op = "goto"
          PROVE  new \in S
      <4>1. LeadsInto(S, f, m[f], k[f])
        BY <3>2 DEF Led
      <4>2. s \in S
        BY <2>1, <3>2, <4>1 DEF LeadsInto
      <4> QED BY <1>4, <3>2, <4>2
    <3> QED BY <1>9, <2>2, <2>4, <3>1, <3>2
  <2> QED BY <2>3, <2>4
<1>12. CASE FallsThrough(n, f, k[f])
  <2>1. k[f].op \in {"none", "insn", "call"} /\ k[f].succ = <<f + 1>>
    BY <1>12 DEF FallsThrough
  <2>2. s = f + 1
    BY <2>1 DEF ToSet
  <2>3. Nsucc(l, f) = 1 /\ k[f].op # "jtbl"
    BY <1>6, <2>1
  <2>4. m[f].op # "goto"
    BY <1>8, <2>1 DEF Became
  <2>5. ~(f >= s + 1)
    BY <2>2
  <2>6. CASE f = 0
    BY <1>7, <1>10, <2>3, <2>6
  <2>7. CASE f # 0
    BY <1>9, <2>3, <2>4, <2>5, <2>7
  <2> QED BY <2>6, <2>7
<1>13. CASE Switches(k[f])
  <2>1. l[f].op = "jtbl" /\ f \in 0..n-1
    BY <1>6, <1>13 DEF Switches
  <2>2. CASE CanChange1Way(l, f)
    <3> DEFINE r == Change1Way(l, f, new)
    <3>1. Done(n, l, r, f, "goto", "1WAY", <<new>>, <<new>>)
      BY <1>1, <1>3, <1>5, <2>2, Change1WayKeeps DEF CanChange1Way
    <3>2. u = Verified(l, f, r)
      BY <1>1, <2>2 DEF UpdateSuccessor, CanChange1Way, CanChange2Way, u
    <3>3. Sound(n, r)
      BY <3>1 DEF Done
    <3> HIDE DEF r
    <3>4. u = [mba |-> r, refused |-> {f}] /\ Spoiled(n, r, {f})
      BY <1>1, <2>1, <3>2, <3>3, VerifiedIs
    <3> QED BY <1>7, <3>4
  <2>3. CASE CanChange2Way(l, f) /\ s # f + 1
    <3>1. ~CanChange1Way(l, f)
      BY <2>3 DEF CanChange1Way, CanChange2Way
    <3>2. u = Verified(l, f, MistakeSwitch(l, f, guess, new))
      BY <1>1, <2>1, <2>3, <3>1 DEF UpdateSuccessor, JumpsTo, u
    <3>3. u.refused = {f} /\ Spoiled(n, u.mba, u.refused)
      BY <1>1, <1>3, <2>1, <3>2, MistakeIsRefused
    <3> QED BY <1>7, <3>3
  <2>4. CASE ~CanChange1Way(l, f) /\ ~(CanChange2Way(l, f) /\ s # f + 1)
    <3>1. u = Begun(l)
      BY <1>1, <2>4 DEF UpdateSuccessor, u
    <3> QED BY <1>7, <3>1
  <2> QED BY <2>2, <2>3, <2>4
<1>14. CASE Branches(n, f, k[f])
  <2>1. PICK t \in 0..n-1 : t # f + 1 /\ k[f].refs = <<t>> /\ k[f].succ = <<f + 1, t>>
    BY <1>14 DEF Branches
  <2>2. k[f].op = "jcond" /\ f + 1 \in 0..n-1 /\ m[f].op = "jcond"
    BY <1>8, <1>14 DEF Branches, Became
  <2>3. ToSet(<<f + 1, t>>) = {f + 1, t}
    BY <2>1, <2>2, Pair
  <2>4. s = f + 1 \/ s = t
    BY <2>1, <2>3
  <2>5. Nsucc(l, f) = 2
    BY <1>6, <2>1
  <2>6. CASE s = f + 1
    <3>1. u = Begun(l)
      BY <1>1, <2>5, <2>6 DEF UpdateSuccessor, CanChange1Way, CanChange2Way, u
    <3> QED BY <1>7, <3>1
  <2>7. CASE s = t
    <3> DEFINE r0 == m[f].refs[1]
    <3>1. m[f].type = "2WAY" /\ r0 \in 0..n-1 /\ m[f].succ = <<f + 1, r0>>
      BY <2>2, BranchIs
    <3>2. \A S \in SUBSET (0..n-1) : Closed(n, m, S) /\ r0 \in S => s \in S
      BY <2>1, <2>2, <2>7 DEF Led, LeadsInto
    <3>3. u = Verified(l, f, Change2Way(l, f, new))
      <4>1. s # f + 1
        BY <2>1, <2>7
      <4>2. JumpsTo(l, f, "jcond")
        BY <1>6, <2>1, <2>2 DEF JumpsTo
      <4> QED BY <1>1, <2>5, <4>1, <4>2 DEF UpdateSuccessor, CanChange1Way, CanChange2Way, u
    <3>4. CASE new = f + 1
      <4>1. u.refused = {f} /\ Spoiled(n, u.mba, u.refused)
        BY <1>1, <1>6, <2>2, <3>3, <3>4, TwistIsRefused
      <4> QED BY <1>7, <4>1
    <3>5. CASE new # f + 1
      <4> DEFINE r == Change2Way(l, f, new)
      <4>1. Done(n, l, r, f, "jcond", "2WAY", <<new>>, <<f + 1, new>>)
        BY <1>1, <1>3, <1>5, <1>6, <2>2, <3>5, Change2WayKeeps
      <4>2. Sound(n, r) /\ Beside(n, f, r, l)
        BY <4>1 DEF Done
      <4> HIDE DEF r
      <4>3. \A T \in SUBSET (0..n-1) : Closed(n, m, T) /\ m[f].refs[1] \in T => new \in T
        BY <1>4, <3>2
      <4>4. Led(n, m, r, s + 1)
        BY <2>2, <3>1, <4>1, <4>3, LedBranches
      <4>5. u = [mba |-> r, refused |-> {}]
        <5>1. u = Verified(l, f, r) /\ l[f].op # "jtbl"
          BY <1>6, <2>2, <3>3 DEF r
        <5> QED BY <1>1, <4>2, <5>1, VerifiedIs
      <4> QED BY <1>7, <4>2, <4>4, <4>5
    <3> QED BY <3>4, <3>5
  <2> QED BY <2>4, <2>6, <2>7
<1>15. CASE Stops(k[f])
  BY <1>15 DEF Stops, ToSet
<1> QED BY <1>8, <1>11, <1>12, <1>13, <1>14, <1>15 DEF InShape

LEMMA LedOn ==
  ASSUME NEW n, NEW m, NEW k, NEW i \in Nat, Led(n, m, k, i)
  PROVE  Led(n, m, k, i + 1)
<1>1. \A x \in 0..n-1 : x >= i + 1 => x >= i
  OBVIOUS
<1> QED BY <1>1 DEF Led, Became

LEMMA LedBegins ==
  ASSUME NEW n, NEW m, Sound(n, m)
  PROVE  Led(n, m, m, 0)
BY DEF Led, Became, LeadsInto, Follows, Closed

SentNext(run, f, s, new, guess) ==
  IF run.refused # {} THEN run ELSE UpdateSuccessor(run.mba, f, s, new, guess)
Sent(m, s, new, guess, fathers, sent) ==
  sent = [i \in 0..Len(fathers) |->
            IF i = 0 THEN Begun(m) ELSE SentNext(sent[i-1], fathers[i], s, new, guess)]

LEMMA SentExists ==
  ASSUME NEW m, NEW s, NEW guess, Len(m[s].pred) \in Nat
  PROVE  \E sent : /\ Sent(m, s, m[s].refs[1], guess, m[s].pred, sent)
                   /\ Bypass(m, s, guess) = sent[Len(m[s].pred)]
<1> DEFINE q == m[s].pred
           new == m[s].refs[1]
           Upto(k, g) == g = [i \in 0..k |-> IF i = 0 THEN Begun(m) ELSE SentNext(g[i-1], q[i], s, new, guess)]
           S == {k \in Nat : \E g : Upto(k, g)}
<1>1. 0 \in S
  <2>1. Upto(0, [i \in 0..0 |-> Begun(m)])
    OBVIOUS
  <2> QED BY <2>1
<1>2. ASSUME NEW k \in Nat, k \in S
      PROVE  k + 1 \in S
  <2>1. PICK g : Upto(k, g)
    BY <1>2
  <2> DEFINE h == [i \in 0..k+1 |-> IF i = 0 THEN Begun(m) ELSE SentNext(g[i-1], q[i], s, new, guess)]
  <2>2. \A i \in 0..k : g[i] = h[i]
    BY <2>1
  <2>3. \A i \in 0..k+1 : i # 0 => i - 1 \in 0..k
    OBVIOUS
  <2>4. \A i \in 0..k+1 : h[i] = IF i = 0 THEN Begun(m) ELSE SentNext(h[i-1], q[i], s, new, guess)
    BY <2>2, <2>3
  <2>5. h = [i \in 0..k+1 |-> h[i]]
    OBVIOUS
  <2> HIDE DEF h
  <2>6. Upto(k + 1, h)
    BY <2>4, <2>5
  <2> QED BY <2>6
<1>3. Nat \subseteq S
  <2> HIDE DEF S
  <2> QED BY <1>1, <1>2, Induction
<1>4. \E sent : Sent(m, s, new, guess, q, sent)
  BY <1>3 DEF Sent
<1>5. Bypass(m, s, guess) = (CHOOSE sent : Sent(m, s, new, guess, q, sent))[Len(q)]
  BY DEF Bypass, Sent, SentNext
<1> QED BY <1>4, <1>5

LEMMA BypassLeads ==
  ASSUME NEW n, NEW m, Sound(n, m), NEW guess \in 0..n,
         NEW s \in 0..n-1, NEW k, Led(n, m, k, s), k[s].op = "goto"
  PROVE  Going(n, m, Bypass(k, s, guess), s + 1)
<1> DEFINE q == k[s].pred
           new == k[s].refs[1]
<1>1. Sound(n, k) /\ IsArray(n, k) /\ n \in Nat /\ s \in Nat
  BY DEF Led, Sound, IsArray
<1>2. q \in Seq(0..n-1) /\ IsInjective(q) /\ \A f \in ToSet(q) : f \in 0..n-1 /\ s \in ToSet(k[f].succ)
  <2>1. q \in Seq(0..n-1)
    BY <1>1, BlockIs
  <2>2. IsInjective(q)
    BY <1>1 DEF IsArray
  <2>3. ToSet(q) \subseteq 0..n-1
    <3> HIDE DEF q
    <3> QED BY <2>1, InSequence
  <2>4. \A f \in 0..n-1 : f \in ToSet(q) => s \in ToSet(k[f].succ)
    BY <1>1 DEF Sound, Noted, Edges
  <2> HIDE DEF q
  <2> QED BY <2>1, <2>2, <2>3, <2>4
<1>3. PICK sent : Sent(k, s, new, guess, q, sent) /\ Bypass(k, s, guess) = sent[Len(q)]
  <2>1. Len(k[s].pred) \in Nat
    BY <1>2
  <2> QED BY <2>1, SentExists
<1> HIDE DEF q
<1>4. Len(q) \in Nat /\ (\A i \in 1..Len(q) : q[i] \in ToSet(q)) /\ \A i, j \in 1..Len(q) : q[i] = q[j] => i = j
  <2>1. ToSet(q) = {q[i] : i \in 1..Len(q)} /\ \A i, j \in 1..Len(q) : q[i] = q[j] => i = j
    BY <1>2, InSequence
  <2> QED BY <1>2, <2>1
<1> DEFINE Good(j, run) ==
             /\ Going(n, m, run, s + 1)
             /\ run.refused = {} => \A x \in 0..n-1 : (\A i \in 1..j : x # q[i]) => SameTail(run.mba[x], k[x])
           S == {j \in Nat : j <= Len(q) => Good(j, sent[j])}
<1>5. 0 \in S
  <2>1. sent[0] = Begun(k) /\ Begun(k).mba = k /\ Begun(k).refused = {}
    BY <1>3, <1>4 DEF Sent, Begun
  <2>2. Led(n, m, k, s + 1)
    BY <1>1, LedOn
  <2>3. Good(0, Begun(k))
    BY <2>1, <2>2 DEF SameTail, Going
  <2> HIDE DEF Good
  <2> QED BY <2>1, <2>3
<1>6. ASSUME NEW j \in Nat, j \in S
      PROVE  j + 1 \in S
  <2> SUFFICES ASSUME j + 1 <= Len(q) PROVE Good(j + 1, sent[j+1])
    OBVIOUS
  <2> DEFINE run == sent[j]
             l == run.mba
             r == sent[j+1]
             f == q[j+1]
  <2>1. j + 1 \in 1..Len(q) /\ j + 1 \in 0..Len(q) /\ j + 1 # 0 /\ (j + 1) - 1 = j /\ j <= Len(q)
    BY <1>4
  <2>2. r = SentNext(run, f, s, new, guess)
    BY <1>3, <2>1 DEF Sent
  <2>3. Good(j, run)
    <3> HIDE DEF Good
    <3> QED BY <1>6, <2>1
  <2>4. f \in 0..n-1 /\ s \in ToSet(k[f].succ)
    BY <1>2, <1>4, <2>1
  <2>5. \A i \in 1..j : i \in 1..Len(q) /\ i # j + 1 /\ i \in 1..j+1
    BY <2>1
  <2>6. \A i \in 1..j : f # q[i]
    BY <1>4, <2>1, <2>5
  <2> SUFFICES Good(j + 1, r)
    OBVIOUS
  <2> HIDE DEF run, r, f
  <2>7. CASE run.refused # {}
    <3>1. r = run
      BY <2>2, <2>7 DEF SentNext
    <3> QED BY <2>3, <2>7, <3>1
  <2>8. CASE run.refused = {}
    <3>1. r = UpdateSuccessor(l, f, s, new, guess)
      BY <2>2, <2>8 DEF SentNext
    <3>2. Led(n, m, l, s + 1)
      BY <2>3, <2>8 DEF Going
    <3>3. SameTail(l[f], k[f])
      BY <2>3, <2>4, <2>6, <2>8
    <3>4. Going(n, m, r, s + 1) /\ (r.refused = {} => Beside(n, f, r.mba, l))
      <4> HIDE DEF l
      <4> QED BY <2>4, <3>1, <3>2, <3>3, UpdateLeads
    <3>5. ASSUME r.refused = {}, NEW x \in 0..n-1, \A i \in 1..j+1 : x # q[i]
          PROVE  SameTail(r.mba[x], k[x])
      <4>1. x # f /\ \A i \in 1..j : x # q[i]
        BY <2>1, <2>5, <3>5 DEF f
      <4>2. SameTail(l[x], k[x]) /\ SameTail(r.mba[x], l[x])
        BY <2>3, <2>8, <3>4, <3>5, <4>1 DEF Beside
      <4> QED BY <4>2 DEF SameTail
    <3> QED BY <3>4, <3>5
  <2> QED BY <2>7, <2>8
<1>7. Nat \subseteq S
  <2> HIDE DEF S
  <2> QED BY <1>5, <1>6, Induction
<1>8. Good(Len(q), sent[Len(q)])
  <2> HIDE DEF Good
  <2> QED BY <1>4, <1>7
<1> QED BY <1>3, <1>8

PastNext(run, i, guess) ==
  IF run.refused # {} \/ ~JumpsTo(run.mba, i, "goto") THEN run ELSE Bypass(run.mba, i, guess)
Past(m, n, guess, past) ==
  past = [i \in 0..n |-> IF i = 0 THEN Begun(m) ELSE PastNext(past[i-1], i - 1, guess)]

LEMMA PastExists ==
  ASSUME NEW m, NEW n, NEW guess, n = ExitSerial(m), n \in Nat
  PROVE  \E past : Past(m, n, guess, past) /\ BypassAll(m, guess) = past[n]
<1> DEFINE Upto(k, g) == g = [i \in 0..k |-> IF i = 0 THEN Begun(m) ELSE PastNext(g[i-1], i - 1, guess)]
           S == {k \in Nat : \E g : Upto(k, g)}
<1>1. 0 \in S
  <2>1. Upto(0, [i \in 0..0 |-> Begun(m)])
    OBVIOUS
  <2> QED BY <2>1
<1>2. ASSUME NEW k \in Nat, k \in S
      PROVE  k + 1 \in S
  <2>1. PICK g : Upto(k, g)
    BY <1>2
  <2> DEFINE h == [i \in 0..k+1 |-> IF i = 0 THEN Begun(m) ELSE PastNext(g[i-1], i - 1, guess)]
  <2>2. \A i \in 0..k : g[i] = h[i]
    BY <2>1
  <2>3. \A i \in 0..k+1 : i # 0 => i - 1 \in 0..k
    OBVIOUS
  <2>4. \A i \in 0..k+1 : h[i] = IF i = 0 THEN Begun(m) ELSE PastNext(h[i-1], i - 1, guess)
    BY <2>2, <2>3
  <2>5. h = [i \in 0..k+1 |-> h[i]]
    OBVIOUS
  <2> HIDE DEF h
  <2>6. Upto(k + 1, h)
    BY <2>4, <2>5
  <2> QED BY <2>6
<1>3. Nat \subseteq S
  <2> HIDE DEF S
  <2> QED BY <1>1, <1>2, Induction
<1>4. \E past : Past(m, n, guess, past)
  BY <1>3 DEF Past
<1>5. BypassAll(m, guess) = (CHOOSE past : Past(m, n, guess, past))[n]
  BY DEF BypassAll, Past, PastNext
<1> QED BY <1>4, <1>5

LEMMA BypassAllLeads ==
  ASSUME NEW n, NEW m, Sound(n, m), NEW guess \in 0..n
  PROVE  Going(n, m, BypassAll(m, guess), n - 1)
<1>1. n \in Nat /\ n >= 2 /\ n - 1 = ExitSerial(m) /\ n - 1 \in Nat
  BY SizeIs DEF Sound, IsArray
<1>2. PICK past : Past(m, n - 1, guess, past) /\ BypassAll(m, guess) = past[n-1]
  BY <1>1, PastExists
<1> DEFINE S == {i \in Nat : i <= n - 1 => Going(n, m, past[i], i)}
<1>3. 0 \in S
  <2>1. past[0] = Begun(m) /\ Begun(m).mba = m /\ Begun(m).refused = {}
    BY <1>1, <1>2 DEF Past, Begun
  <2> QED BY <2>1, LedBegins DEF Going
<1>4. ASSUME NEW i \in Nat, i \in S
      PROVE  i + 1 \in S
  <2> SUFFICES ASSUME i + 1 <= n - 1 PROVE Going(n, m, past[i+1], i + 1)
    OBVIOUS
  <2>1. i + 1 \in 0..n-1 /\ i + 1 # 0 /\ (i + 1) - 1 = i /\ i <= n - 1 /\ i \in 0..n-1
    BY <1>1
  <2> DEFINE run == past[i]
  <2>2. past[i+1] = PastNext(run, i, guess)
    BY <1>2, <2>1 DEF Past
  <2>3. Going(n, m, run, i)
    BY <1>4, <2>1
  <2> HIDE DEF run
  <2>4. CASE run.refused # {}
    BY <2>2, <2>3, <2>4 DEF PastNext, Going
  <2>5. CASE run.refused = {}
    <3> DEFINE k == run.mba
    <3>1. Led(n, m, k, i)
      BY <2>3, <2>5 DEF Going
    <3>2. CASE JumpsTo(k, i, "goto")
      <4>1. Going(n, m, Bypass(k, i, guess), i + 1)
        <5> HIDE DEF k
        <5>1. k[i].op = "goto"
          BY <3>2 DEF JumpsTo
        <5> QED BY <2>1, <3>1, <5>1, BypassLeads
      <4> QED BY <2>2, <2>5, <3>2, <4>1 DEF PastNext
    <3>3. CASE ~JumpsTo(k, i, "goto")
      <4>1. Led(n, m, k, i + 1)
        BY <3>1, LedOn
      <4> QED BY <2>2, <2>5, <3>3, <4>1 DEF PastNext, Going
    <3> QED BY <3>2, <3>3
  <2> QED BY <2>4, <2>5
<1>5. Nat \subseteq S
  <2> HIDE DEF S
  <2> QED BY <1>3, <1>4, Induction
<1> QED BY <1>1, <1>2, <1>5

-------------------------------------------------------------------------------
(* The graphs the decompiler makes are in order.                               *)

LEMMA MadeIsSound ==
  ASSUME NEW m, Made(m, MaxBlocks)
  PROVE  \E n \in 2..MaxBlocks : Sound(n, m)
<1>1. PICK n \in 2..MaxBlocks :
        /\ DOMAIN m = 0..n-1
        /\ m \in [0..n-1 -> Blocks(n)]
        /\ \A s \in 0..n-1 :
              /\ m[s].id = s
              /\ m[s].op \in {"goto", "jcond"} => Len(m[s].refs) = 1
              /\ m[s].op = "jcond" => m[s].type = "2WAY"
              /\ m[s].op = "jtbl" => m[s].refs # <<>>
        /\ m[n-1].type = "STOP" /\ m[n-1].op = "none"
        /\ WellFormed(m)
  BY DEF Made
<1>2. n \in Nat /\ n >= 2 /\ n - 1 \in 0..n-1
  BY BlockEditsConstants
<1>3. EdgesAgree(m) /\ PredsUnique(m) /\ TypeMatchesTail(m) /\ SuccMatchesTail(m) /\ CasesUnique(m)
  BY <1>1 DEF WellFormed
<1>4. IsArray(n, m)
  BY <1>1, <1>2, <1>3 DEF IsArray, PredsUnique
<1>5. IdsApart(n, m)
  BY <1>1, <1>2 DEF IdsApart
<1>6. ASSUME NEW x \in 0..n-1
      PROVE  /\ m[x].type \in Types /\ m[x].op \in Opcodes
             /\ m[x].refs \in Seq(0..n-1) /\ m[x].succ \in Seq(0..n-1) /\ m[x].pred \in Seq(0..n-1)
             /\ m[x].type = "NWAY" <=> m[x].op = "jtbl"
             /\ Len(m[x].succ) = SuccessorCount(m, x)
             /\ m[x].succ = Outs(m, x)
  <2>1. /\ m[x].type \in Types /\ m[x].op \in Opcodes
        /\ m[x].refs \in Seq(0..n-1) /\ m[x].succ \in Seq(0..n-1) /\ m[x].pred \in Seq(0..n-1)
    BY <1>4, BlockIs
  <2> QED BY <1>1, <1>3, <2>1 DEF TypeMatchesTail, SuccMatchesTail, Nsucc
<1>7. m[n-1].succ = <<>>
  BY <1>1, <1>2, <1>6 DEF Outs
<1>8. ASSUME NEW x \in 0..n-1 PROVE InShape(n, x, m[x])
  <2> DEFINE b == m[x]
  <2>1. /\ b.type \in Types /\ b.op \in Opcodes /\ b.refs \in Seq(0..n-1) /\ b.succ \in Seq(0..n-1)
        /\ b.type = "NWAY" <=> b.op = "jtbl"
        /\ b.type \in {"STOP", "0WAY"} => Len(b.succ) = 0
        /\ b.type = "1WAY" => Len(b.succ) = 1
        /\ b.type = "2WAY" => Len(b.succ) = 2
    BY <1>6 DEF SuccessorCount
  <2>2. /\ b.op \in {"goto", "jcond"} => Len(b.refs) = 1
        /\ b.op = "jcond" => b.type = "2WAY"
        /\ b.op = "jtbl" => b.refs # <<>> /\ IsInjective(b.refs)
    BY <1>1, <1>3 DEF CasesUnique
  <2>3. /\ b.op \in {"jtbl", "goto"} => b.succ = b.refs
        /\ b.op = "jcond" => b.succ = IF b.refs = <<x + 1>> THEN b.refs ELSE <<x + 1>> \o b.refs
        /\ b.op \in {"ijmp", "ret"} => b.succ = <<>>
        /\ b.op \in {"none", "insn", "call"} =>
             b.succ = IF b.type \in {"0WAY", "STOP"} THEN <<>> ELSE <<x + 1>>
    BY <1>6 DEF Outs
  <2> SUFFICES InShape(n, x, b)
    OBVIOUS
  <2> HIDE DEF b
  <2>4. CASE b.op = "jtbl"
    BY <2>1, <2>2, <2>3, <2>4 DEF InShape, Switches
  <2>5. CASE b.op = "goto"
    <3>1. b.refs = <<b.refs[1]>> /\ b.refs[1] \in 0..n-1
      BY <2>1, <2>2, <2>5, Single
    <3>2. Len(b.succ) = 1 /\ b.succ = <<b.refs[1]>>
      BY <2>2, <2>3, <2>5, <3>1
    <3>3. b.type = "1WAY"
      BY <2>1, <2>5, <3>2 DEF Types
    <3> QED BY <2>5, <3>1, <3>2, <3>3 DEF InShape, Jumps
  <2>6. CASE b.op = "jcond"
    <3> DEFINE t == b.refs[1]
    <3>1. b.refs = <<t>> /\ t \in 0..n-1
      BY <2>1, <2>2, <2>6, Single
    <3>2. Len(b.succ) = 2 /\ b.type = "2WAY"
      BY <2>1, <2>2, <2>6
    <3>3. b.refs # <<x + 1>>
      <4>1. Len(<<x + 1>>) = 1
        OBVIOUS
      <4> QED BY <2>3, <2>6, <3>2, <4>1
    <3>4. b.succ = <<x + 1>> \o <<t>>
      BY <2>3, <2>6, <3>1, <3>3
    <3> HIDE DEF t
    <3>5. <<x + 1>> \o <<t>> = <<x + 1, t>>
      BY Two
    <3>6. b.succ = <<x + 1, t>> /\ t # x + 1
      BY <3>1, <3>3, <3>4, <3>5
    <3>7. x + 1 \in 0..n-1
      <4>1. b.succ[1] = x + 1 /\ 1 \in 1..Len(b.succ)
        BY <3>2, <3>6
      <4>2. b.succ[1] \in 0..n-1
        BY <2>1, <4>1
      <4> QED BY <4>1, <4>2
    <3> QED BY <2>6, <3>1, <3>2, <3>6, <3>7 DEF InShape, Branches
  <2>7. CASE b.op \in {"ijmp", "ret"}
    <3>1. b.succ = <<>> /\ Len(b.succ) = 0
      BY <2>3, <2>7
    <3>2. b.type \in {"0WAY", "STOP"}
      BY <2>1, <2>7, <3>1 DEF Types
    <3> QED BY <2>7, <3>1, <3>2 DEF InShape, Stops
  <2>8. CASE b.op \in {"none", "insn", "call"}
    <3>1. CASE b.type \in {"0WAY", "STOP"}
      BY <2>3, <2>8, <3>1 DEF InShape, Stops
    <3>2. CASE b.type \notin {"0WAY", "STOP"}
      <4>1. b.succ = <<x + 1>>
        BY <2>3, <2>8, <3>2
      <4>2. Len(b.succ) = 1 /\ b.succ[1] = x + 1
        BY <4>1
      <4>3. x + 1 \in 0..n-1
        <5>1. b.succ[1] \in 0..n-1
          BY <2>1, <4>2
        <5> QED BY <4>2, <5>1
      <4>4. b.type = "1WAY"
        BY <2>1, <2>8, <3>2, <4>2 DEF Types
      <4> QED BY <2>8, <4>1, <4>3, <4>4 DEF InShape, FallsThrough
    <3> QED BY <3>1, <3>2
  <2> QED BY <2>1, <2>4, <2>5, <2>6, <2>7, <2>8 DEF Opcodes
<1>9. Noted(n, m, Edges(n, m))
  BY <1>1, <1>3 DEF Noted, Edges, EdgesAgree
<1> QED BY <1>4, <1>5, <1>7, <1>8, <1>9 DEF Sound

-------------------------------------------------------------------------------
(* The invariant: the graph is in order, and once the last block was prepared  *)
(* it does not fall into the exit.                                             *)

IInv ==
  /\ \E n \in 2..MaxBlocks : Sound(n, mba) /\ (prepared /\ n > 2 => NoFall(mba[n-2]))
  /\ prepared \in BOOLEAN
  /\ edits \in 0..MaxEdits

(* An edit that creates no block, and one that creates one before the exit.    *)
Keeps(n, m) == Sound(n, m) /\ \A x \in 0..n-1 : NoFall(mba[x]) => NoFall(m[x])
Grows(n, m) == Sound(n + 1, m) /\ NoFall(m[n-1])

LEMMA DoneKeeps ==
  ASSUME NEW n, NEW m, NEW s \in 0..n-1, NEW op, NEW type, NEW refs, NEW succ,
         Done(n, mba, m, s, op, type, refs, succ),
         op = "goto" \/ type = "0WAY" \/ ~NoFall(mba[s])
  PROVE  Keeps(n, m)
<1>1. NoFall(mba[s]) => NoFall(m[s])
  BY DEF Done, NoFall
<1>2. ASSUME NEW x \in 0..n-1, x # s, NoFall(mba[x]) PROVE NoFall(m[x])
  <2>1. SameTail(m[x], mba[x])
    BY <1>2 DEF Done, Beside
  <2> QED BY <1>2, <2>1 DEF SameTail, NoFall
<1>3. Sound(n, m)
  BY DEF Done
<1> QED BY <1>1, <1>2, <1>3 DEF Keeps

LEMMA DoneGrows ==
  ASSUME NEW n, NEW k, NEW m, NEW op, NEW type, NEW refs, NEW succ,
         Done(n + 1, k, m, n - 1, op, type, refs, succ), op = "goto" \/ type = "0WAY"
  PROVE  Grows(n, m)
BY DEF Done, Grows, NoFall

LEMMA EditedKeeps ==
  ASSUME IInv, NEW n \in 2..MaxBlocks, Sound(n, mba), prepared /\ n > 2 => NoFall(mba[n-2]),
         NEW m, Keeps(n, m), NEW e, Edited(m, e)
  PROVE  IInv'
<1>1. mba' = m /\ prepared' = prepared /\ edits' = edits + 1 /\ edits < MaxEdits
  BY DEF Edited
<1>2. n \in Nat /\ n >= 2 /\ n - 2 \in 0..n-1 /\ MaxEdits \in Nat
  BY BlockEditsConstants
<1>3. Sound(n, m) /\ (prepared /\ n > 2 => NoFall(m[n-2]))
  BY <1>2 DEF Keeps
<1>4. prepared' \in BOOLEAN /\ edits' \in 0..MaxEdits
  BY <1>1, <1>2 DEF IInv
<1>5. Sound(n, mba') /\ (prepared' /\ n > 2 => NoFall(mba'[n-2]))
  BY <1>1, <1>3
<1> QED BY <1>4, <1>5 DEF IInv

LEMMA EditedGrows ==
  ASSUME IInv, NEW n \in 2..MaxBlocks, NEW m, Grows(n, m), NEW e, Edited(m, e)
  PROVE  IInv'
<1>1. mba' = m /\ prepared' = prepared /\ edits' = edits + 1 /\ edits < MaxEdits /\ Qty(m) <= MaxBlocks
  BY DEF Edited
<1>2. n \in Nat /\ n >= 2 /\ MaxEdits \in Nat /\ MaxBlocks \in Nat
  BY BlockEditsConstants
<1>3. Sound(n + 1, m) /\ NoFall(m[n-1])
  BY DEF Grows
<1>4. Qty(m) = n + 1
  BY <1>3, SizeIs DEF Sound
<1>5. n + 1 \in 2..MaxBlocks /\ (n + 1) - 2 = n - 1
  BY <1>1, <1>2, <1>4
<1>6. prepared' \in BOOLEAN /\ edits' \in 0..MaxEdits
  BY <1>1, <1>2 DEF IInv
<1>7. Sound(n + 1, mba') /\ (prepared' /\ n + 1 > 2 => NoFall(mba'[(n + 1) - 2]))
  BY <1>1, <1>3, <1>5
<1> QED BY <1>5, <1>6, <1>7 DEF IInv

(* A block without successors stops.                                           *)
LEMMA NoSuccessorStops ==
  ASSUME NEW n, NEW m, Sound(n, m), NEW s \in 0..n-1, Nsucc(m, s) = 0
  PROVE  Stops(m[s])
<1>1. InShape(n, s, m[s]) /\ IsArray(n, m)
  BY DEF Sound
<1>2. m[s].succ \in Seq(0..n-1) /\ m[s].refs \in Seq(0..n-1)
  BY <1>1, BlockIs
<1>3. m[s].succ = <<>>
  BY <1>2 DEF Nsucc
<1>4. ~Jumps(n, m[s]) /\ ~Branches(n, s, m[s]) /\ ~Switches(m[s]) /\ ~FallsThrough(n, s, m[s])
  BY <1>3 DEF Jumps, Branches, Switches, FallsThrough
<1> QED BY <1>1, <1>4 DEF InShape

LEMMA InitHolds == Init => IInv
<1> SUFFICES ASSUME Init PROVE IInv
  OBVIOUS
<1>1. Made(mba, MaxBlocks) /\ MaxEdits \in Nat
  BY BlockEditsConstants DEF Init
<1>2. \E n \in 2..MaxBlocks : Sound(n, mba)
  BY <1>1, MadeIsSound
<1>3. prepared = FALSE /\ edits \in 0..MaxEdits
  BY <1>1 DEF Init
<1> QED BY <1>2, <1>3 DEF IInv

LEMMA EnsureLastBlockIsGotoHolds ==
  ASSUME IInv, EnsureLastBlockIsGoto
  PROVE  IInv'
<1>1. PICK n \in 2..MaxBlocks : Sound(n, mba)
  BY DEF IInv
<1>2. n \in Nat /\ n >= 2 /\ ExitSerial(mba) = n - 1 /\ IsArray(n, mba)
  BY <1>1, SizeIs DEF Sound, IsArray
<1>3. Exit - 1 = n - 2 /\ n - 2 \in 0..n-2 /\ n - 2 \in 0..n-1
  BY <1>2 DEF Exit
<1>4. /\ prepared' = TRUE /\ edits' = edits /\ Nsucc(mba, n-2) <= 1
      /\ mba' = IF CanChange1Way(mba, n-2) THEN Change1Way(mba, n-2, mba[n-2].succ[1]) ELSE mba
  BY <1>3 DEF EnsureLastBlockIsGoto
<1>5. edits' \in 0..MaxEdits
  BY <1>4 DEF IInv
<1>6. mba[n-2].succ \in Seq(0..n-1)
  BY <1>2, <1>3, BlockIs
<1>7. CASE CanChange1Way(mba, n-2)
  <2>1. Nsucc(mba, n-2) = 1
    BY <1>7 DEF CanChange1Way
  <2>2. mba[n-2].succ[1] \in 0..n-1
    BY <1>6, <2>1 DEF Nsucc
  <2> DEFINE t == mba[n-2].succ[1]
  <2>3. Done(n, mba, Change1Way(mba, n-2, t), n-2, "goto", "1WAY", <<t>>, <<t>>)
    BY <1>1, <1>3, <2>1, <2>2, Change1WayKeeps
  <2>4. mba' = Change1Way(mba, n-2, t)
    BY <1>4, <1>7
  <2>5. Sound(n, mba') /\ NoFall(mba'[n-2])
    BY <2>3, <2>4 DEF Done, NoFall
  <2> QED BY <1>4, <1>5, <2>5 DEF IInv
<1>8. CASE ~CanChange1Way(mba, n-2)
  <2>1. mba' = mba
    BY <1>4, <1>8
  <2>2. ASSUME n > 2 PROVE NoFall(mba[n-2])
    <3>1. n - 2 # 0
      BY <1>2, <2>2
    <3>2. Nsucc(mba, n-2) = 0
      <4>1. Nsucc(mba, n-2) \in Nat
        BY <1>6 DEF Nsucc
      <4>2. Nsucc(mba, n-2) # 1
        BY <1>8, <3>1 DEF CanChange1Way
      <4>3. Nsucc(mba, n-2) <= 1
        BY <1>4
      <4> QED BY <4>1, <4>2, <4>3
    <3>3. Stops(mba[n-2])
      BY <1>1, <1>3, <3>2, NoSuccessorStops
    <3> QED BY <3>3 DEF Stops, NoFall
  <2> QED BY <1>1, <1>4, <1>5, <2>1, <2>2 DEF IInv
<1> QED BY <1>7, <1>8

(* The state at a step that edits the graph, and the numbers it ranges over.   *)
At(n) ==
  /\ IInv /\ n \in 2..MaxBlocks /\ Sound(n, mba)
  /\ prepared /\ n > 2 => NoFall(mba[n-2])

LEMMA AtIs ==
  ASSUME NEW n, At(n)
  PROVE  /\ n \in 2..MaxBlocks /\ n \in Nat /\ n >= 2
         /\ Sound(n, mba) /\ IsArray(n, mba) /\ Serials = 0..n-1 /\ Exit = n - 1
         /\ Targets \subseteq 0..n-1
         /\ \A s \in Inner : s \in 0..n-2 /\ s \in 0..n-1 /\ s # 0 /\ n > 2
<1>1. n \in 2..MaxBlocks /\ Sound(n, mba) /\ IsArray(n, mba)
  BY DEF At, Sound
<1>2. n \in Nat /\ n >= 2 /\ Serials = 0..n-1 /\ Exit = n - 1
  BY <1>1, SizeIs DEF IsArray, Serials, Exit
<1> QED BY <1>1, <1>2 DEF Targets, Inner

LEMMA AtKeeps ==
  ASSUME NEW n, At(n), NEW m, Keeps(n, m), NEW e, Edited(m, e)
  PROVE  IInv'
BY EditedKeeps DEF At

LEMMA AtGrows ==
  ASSUME NEW n, At(n), NEW m, Grows(n, m), NEW e, Edited(m, e)
  PROVE  IInv'
BY EditedGrows DEF At

LEMMA PreparedNoFall ==
  ASSUME NEW n, At(n), prepared, NEW s \in Inner
  PROVE  NoFall(mba[n-2])
BY AtIs DEF At

LEMMA RedirectGotoHolds ==
  ASSUME NEW n, At(n), NEW s \in Inner, NEW t \in Targets, RedirectGoto(s, t)
  PROVE  IInv'
<1>1. /\ Sound(n, mba) /\ s \in 0..n-2 /\ s \in 0..n-1 /\ t \in 0..n-1
      /\ Nsucc(mba, s) = 1 /\ Edited(Change1Way(mba, s, t), Goes(s, t))
  BY AtIs DEF RedirectGoto, CanChange1Way
<1>2. Done(n, mba, Change1Way(mba, s, t), s, "goto", "1WAY", <<t>>, <<t>>)
  BY <1>1, Change1WayKeeps
<1>3. Keeps(n, Change1Way(mba, s, t))
  BY <1>1, <1>2, DoneKeeps
<1> QED BY <1>1, <1>3, AtKeeps

LEMMA RedirectEndHolds ==
  ASSUME NEW n, At(n), NEW s \in Inner, NEW t \in Targets, RedirectEnd(s, t)
  PROVE  IInv'
<1>1. /\ Sound(n, mba) /\ s \in 0..n-2 /\ s \in 0..n-1 /\ t \in 0..n-1
      /\ Nsucc(mba, s) = 0 /\ Edited(Change0Way(mba, s, t), Goes(s, t))
  BY AtIs DEF RedirectEnd
<1>2. Done(n, mba, Change0Way(mba, s, t), s, "goto", "1WAY", <<t>>, <<t>>)
  BY <1>1, Change0WayKeeps
<1>3. Keeps(n, Change0Way(mba, s, t))
  BY <1>1, <1>2, DoneKeeps
<1> QED BY <1>1, <1>3, AtKeeps

LEMMA RedirectBranchHolds ==
  ASSUME NEW n, At(n), NEW s \in Inner, NEW t \in Targets, RedirectBranch(s, t)
  PROVE  IInv'
<1>1. /\ Sound(n, mba) /\ s \in 0..n-2 /\ s \in 0..n-1 /\ t \in 0..n-1
      /\ mba[s].op = "jcond" /\ t # s + 1
      /\ Edited(Change2Way(mba, s, t), Replaces(s, mba[s].refs[1], t))
  BY AtIs DEF RedirectBranch
<1>2. Done(n, mba, Change2Way(mba, s, t), s, "jcond", "2WAY", <<t>>, <<s + 1, t>>)
  BY <1>1, Change2WayKeeps
<1>3. ~NoFall(mba[s])
  BY <1>1, BranchIs DEF NoFall
<1>4. Keeps(n, Change2Way(mba, s, t))
  BY <1>1, <1>2, <1>3, DoneKeeps
<1> QED BY <1>1, <1>4, AtKeeps

LEMMA ConvertToGotoHolds ==
  ASSUME NEW n, At(n), NEW s \in Inner, NEW t \in Targets, ConvertToGoto(s, t)
  PROVE  IInv'
<1>1. /\ Sound(n, mba) /\ s \in 0..n-2 /\ s \in 0..n-1 /\ t \in 0..n-1
      /\ Edited(Make2WayGoto(mba, s, t), Goes(s, t))
  BY AtIs DEF ConvertToGoto
<1>2. Done(n, mba, Make2WayGoto(mba, s, t), s, "goto", "1WAY", <<t>>, <<t>>)
  BY <1>1, Make2WayGotoKeeps
<1>3. Keeps(n, Make2WayGoto(mba, s, t))
  BY <1>1, <1>2, DoneKeeps
<1> QED BY <1>1, <1>3, AtKeeps

LEMMA DropEdgeHolds ==
  ASSUME NEW n, At(n), NEW s \in Inner, NEW t \in Targets, DropEdge(s, t)
  PROVE  IInv'
<1>1. /\ Sound(n, mba) /\ s \in 0..n-2 /\ s \in 0..n-1 /\ t \in 0..n-1
      /\ mba[s].op \in {"goto", "jcond"} /\ CanRemoveEdge(mba, s, t)
      /\ Edited(RemoveEdge(mba, s, t), Cuts(s, t))
  BY AtIs DEF DropEdge
<1>2. EdgeGone(n, mba, s, t)
  BY <1>1, RemoveEdgeKeeps
<1>3. Keeps(n, RemoveEdge(mba, s, t))
  <2>1. ASSUME Done(n, mba, RemoveEdge(mba, s, t), s, "insn", "0WAY", <<>>, <<>>)
        PROVE  Keeps(n, RemoveEdge(mba, s, t))
    BY <1>1, <2>1, DoneKeeps
  <2>2. ASSUME NEW u \in 0..n-1, Done(n, mba, RemoveEdge(mba, s, t), s, "goto", "1WAY", <<u>>, <<u>>)
        PROVE  Keeps(n, RemoveEdge(mba, s, t))
    BY <1>1, <2>2, DoneKeeps
  <2> QED BY <1>2, <2>1, <2>2 DEF EdgeGone
<1> QED BY <1>1, <1>3, AtKeeps

LEMMA RouteCasesHolds ==
  ASSUME NEW n, At(n), NEW s \in Inner, NEW t \in Targets, NEW old \in Targets, RouteCases(s, old, t)
  PROVE  IInv'
<1> DEFINE m == CoalesceCases(RetargetCases(mba, s, old, t), s)
<1>1. /\ Sound(n, mba) /\ s \in 0..n-2 /\ s \in 0..n-1 /\ t \in 0..n-1
      /\ mba[s].op = "jtbl" /\ Edited(m, Replaces(s, old, t))
  BY AtIs DEF RouteCases
<1>2. PICK q : Done(n, mba, m, s, "jtbl", "NWAY", q, q)
  <2>1. CasesSent(n, mba, s, old, t)
    BY <1>1, RouteCasesKeeps
  <2> QED BY <2>1 DEF CasesSent
<1> HIDE DEF m
<1>3. ~NoFall(mba[s])
  BY <1>1, SwitchIs DEF NoFall
<1>4. Keeps(n, m)
  BY <1>1, <1>2, <1>3, DoneKeeps
<1> QED BY <1>1, <1>4, AtKeeps

LEMMA CollapseSwitchHolds ==
  ASSUME NEW n, At(n), NEW s \in Inner, NEW t \in Targets, CollapseSwitch(s, t)
  PROVE  IInv'
<1>1. /\ Sound(n, mba) /\ s \in 0..n-2 /\ s \in 0..n-1 /\ t \in 0..n-1
      /\ mba[s].op = "jtbl" /\ Edited(ConvertJtbl(mba, s, t), Goes(s, t))
  BY AtIs DEF CollapseSwitch
<1>2. Done(n, mba, ConvertJtbl(mba, s, t), s, "goto", "1WAY", <<t>>, <<t>>)
  BY <1>1, ConvertJtblKeeps
<1>3. Keeps(n, ConvertJtbl(mba, s, t))
  BY <1>1, <1>2, DoneKeeps
<1> QED BY <1>1, <1>3, AtKeeps

LEMMA InsertBlockHolds ==
  ASSUME NEW n, At(n), NEW s \in Inner, InsertBlock(s)
  PROVE  IInv'
<1> DEFINE t == mba[s].succ[1]
<1>1. /\ Sound(n, mba) /\ s \in 0..n-2 /\ NoFall(mba[n-2]) /\ mba[s].op = "goto" /\ t # n - 1
      /\ Edited(InsertNop(mba, s), Detours(s, t, {t}))
  BY AtIs, PreparedNoFall DEF InsertBlock
<1>2. \E k : Done(n + 1, k, InsertNop(mba, s), n - 1, "goto", "1WAY", <<t>>, <<t>>)
  BY <1>1, InsertNopMakes
<1>3. Grows(n, InsertNop(mba, s))
  BY <1>2, DoneGrows
<1> QED BY <1>1, <1>3, AtIs, AtGrows

LEMMA InsertEndHolds ==
  ASSUME NEW n, At(n), NEW s \in Inner, InsertEnd(s)
  PROVE  IInv'
<1> DEFINE m == EndCreated(InsertNop(mba, s), n - 1)
<1>1. /\ Sound(n, mba) /\ s \in 0..n-2 /\ NoFall(mba[n-2]) /\ mba[s].op = "goto"
      /\ mba[s].succ[1] # n - 1 /\ Edited(m, Detours(s, mba[s].succ[1], {}))
  BY AtIs, PreparedNoFall DEF InsertEnd
<1>2. \E k : Done(n + 1, k, m, n - 1, "insn", "0WAY", <<>>, <<>>)
  BY <1>1, InsertEndMakes
<1> HIDE DEF m
<1>3. Grows(n, m)
  BY <1>2, DoneGrows
<1> QED BY <1>1, <1>3, AtIs, AtGrows

LEMMA DuplicateHolds ==
  ASSUME NEW n, At(n), NEW s \in Inner, Duplicate(s)
  PROVE  IInv'
<1>1. /\ Sound(n, mba) /\ s \in 0..n-2 /\ s \in 0..n-1 /\ mba[s].type \in {"0WAY", "1WAY"}
      /\ Exit - 1 = n - 2
      /\ prepared \/ (s # Exit - 1 /\ mba[Exit - 1].type \in {"0WAY", "1WAY"})
      /\ Edited(DuplicateBlock(mba, s), Creates(ToSet(mba[s].succ)))
  BY AtIs DEF Duplicate
<1>2. mba[s].op # "jtbl"
  BY <1>1, SwitchIs
<1>3. NoFall(mba[n-2]) \/ (s # n - 2 /\ mba[n-2].type \in {"0WAY", "1WAY"})
  <2>1. prepared => NoFall(mba[n-2])
    BY PreparedNoFall
  <2> QED BY <1>1, <2>1
<1>4. Grows(n, DuplicateBlock(mba, s))
  BY <1>1, <1>2, <1>3, DuplicateMakes DEF Grows
<1> QED BY <1>1, <1>4, AtIs, AtGrows

LEMMA TerminalHolds ==
  ASSUME NEW n, At(n), NEW s \in Inner, Terminal(s)
  PROVE  IInv'
<1>1. /\ Sound(n, mba) /\ s \in 0..n-2 /\ NoFall(mba[n-2])
      /\ Edited(CreateTerminal(mba, s), Creates({}))
  BY AtIs, PreparedNoFall DEF Terminal
<1>2. Done(n + 1, Copied(n, mba, s), CreateTerminal(mba, s), n - 1, "insn", "0WAY", <<>>, <<>>)
  BY <1>1, TerminalMakes
<1>3. Grows(n, CreateTerminal(mba, s))
  BY <1>2, DoneGrows
<1> QED BY <1>1, <1>3, AtIs, AtGrows

LEMMA StandaloneHolds ==
  ASSUME NEW n, At(n), NEW s \in Inner, NEW t \in Targets, Standalone(s, t)
  PROVE  IInv'
<1>1. /\ Sound(n, mba) /\ s \in 0..n-2 /\ NoFall(mba[n-2]) /\ t \in 0..n-1 /\ t \in 0..n
      /\ Edited(CreateStandalone(mba, s, t), Creates({t}))
  BY AtIs, PreparedNoFall DEF Standalone
<1>2. Done(n + 1, Copied(n, mba, s), CreateStandalone(mba, s, t), n - 1, "goto", "1WAY", <<t>>, <<t>>)
  BY <1>1, StandaloneMakes
<1>3. Grows(n, CreateStandalone(mba, s, t))
  BY <1>2, DoneGrows
<1> QED BY <1>1, <1>3, AtIs, AtGrows

LEMMA EnsureFatherHolds ==
  ASSUME NEW n, At(n), NEW s \in Inner, NEW t \in Targets, EnsureFather(s, t)
  PROVE  IInv'
<1>1. /\ Sound(n, mba) /\ s \in 0..n-2 /\ NoFall(mba[n-2]) /\ t \in 0..n-1 /\ CanGiveFather(mba, s, t)
      /\ Edited(GiveFather(mba, s, t), Detours(s, t, {t}))
  BY AtIs, PreparedNoFall DEF EnsureFather
<1>2. Grows(n, GiveFather(mba, s, t))
  BY <1>1, GiveFatherMakes DEF Grows
<1> QED BY <1>1, <1>2, AtIs, AtGrows

Shortens(n) == [kind |-> "shorten", jumps |-> {Id(x) : x \in {y \in 0..n-1 : mba[y].op = "goto"}}]
Refuses(run) == [kind |-> "refused", at |-> run.refused]

LEMMA RemovalLeads ==
  ASSUME NEW n, At(n), RemoveSimpleGotos
  PROVE  \E run : /\ Going(n, mba, run, n - 1)
                  /\ run.refused = {} => Edited(run.mba, Shortens(n))
                  /\ run.refused # {} => Edited(run.mba, Refuses(run))
<1>1. Sound(n, mba) /\ Serials = 0..n-1 /\ Qty(mba) = n
  BY AtIs, SizeIs
<1>2. PICK guess \in 0..n :
        LET run == BypassAll(mba, guess)
        IN  Edited(run.mba, IF run.refused = {} THEN Shortens(n) ELSE Refuses(run))
  BY <1>1 DEF RemoveSimpleGotos, SimpleGoto, Shortens, Refuses
<1> DEFINE run == BypassAll(mba, guess)
<1>3. Going(n, mba, run, n - 1)
  BY <1>1, BypassAllLeads
<1> QED BY <1>2, <1>3

(* A removal that was refused left blocks, and broke the contracts at most at  *)
(* the block that it mistook.                                                  *)
Refused ==
  /\ edit.kind = "refused"
  /\ TypeOK
  /\ WellFormed(mba) \/ \A s \in edit.at : Mistaken(s)
Held == IInv \/ Refused

LEMMA RemoveSimpleGotosHolds ==
  ASSUME NEW n, At(n), RemoveSimpleGotos
  PROVE  Held'
<1>1. PICK run : /\ Going(n, mba, run, n - 1)
                 /\ run.refused = {} => Edited(run.mba, Shortens(n))
                 /\ run.refused # {} => Edited(run.mba, Refuses(run))
  BY RemovalLeads
<1>2. CASE run.refused = {}
  <2>1. Keeps(n, run.mba)
    BY <1>1, <1>2 DEF Going, Led, Became, Keeps
  <2> QED BY <1>1, <1>2, <2>1, AtKeeps DEF Held
<1>3. CASE run.refused # {}
  <2>1. /\ mba' = run.mba /\ edit' = Refuses(run) /\ prepared' = prepared
        /\ edits' = edits + 1 /\ edits < MaxEdits
    BY <1>1, <1>3 DEF Edited
  <2>2. Spoiled(n, mba', run.refused)
    BY <1>1, <1>3, <2>1 DEF Going
  <2>3. n \in 2..MaxBlocks /\ MaxEdits \in Nat /\ prepared \in BOOLEAN /\ edits \in 0..MaxEdits
    BY AtIs, BlockEditsConstants DEF At, IInv
  <2>4. prepared' \in BOOLEAN /\ edits' \in 0..MaxEdits
    BY <2>1, <2>3
  <2>5. DOMAIN mba' = 0..n-1 /\ \A s \in 0..n-1 : mba'[s] \in Blocks(n)
    BY <2>2 DEF Spoiled
  <2>6. \A s, t \in 0..n-1 : mba'[s].id = mba'[t].id => s = t
    BY <2>2 DEF Spoiled
  <2>7. TypeOK'
    BY <2>3, <2>4, <2>5, <2>6 DEF TypeOK, Serials, Id
  <2>8. edit'.kind = "refused" /\ edit'.at = run.refused
    BY <2>1 DEF Refuses
  <2>9. WellFormed(mba)' \/ \A s \in edit'.at : Mistaken(s)'
    BY <2>2, <2>8 DEF Spoiled, Confused, Mistaken
  <2>10. Refused'
    BY <2>7, <2>8, <2>9 DEF Refused
  <2> QED BY <2>10 DEF Held
<1> QED BY <1>2, <1>3

LEMMA NextHolds ==
  ASSUME Held, Next
  PROVE  Held'
<1>1. PICK n : At(n)
  BY DEF Next, Held, Refused, IInv, At
<1>2. CASE EnsureLastBlockIsGoto
  BY <1>1, <1>2, EnsureLastBlockIsGotoHolds DEF At, Held
<1>3. CASE RemoveSimpleGotos
  BY <1>1, <1>3, RemoveSimpleGotosHolds
<1>4. CASE \E s \in Inner : InsertBlock(s) \/ InsertEnd(s) \/ Duplicate(s) \/ Terminal(s)
  BY <1>1, <1>4, InsertBlockHolds, InsertEndHolds, DuplicateHolds, TerminalHolds DEF Held
<1>5. ASSUME NEW s \in Inner, NEW t \in Targets,
             \/ RedirectGoto(s, t)
             \/ RedirectEnd(s, t)
             \/ RedirectBranch(s, t)
             \/ ConvertToGoto(s, t)
             \/ DropEdge(s, t)
             \/ Standalone(s, t)
             \/ EnsureFather(s, t)
             \/ CollapseSwitch(s, t)
      PROVE  Held'
  <2>1. IInv'
    BY <1>1, <1>5, RedirectGotoHolds, RedirectEndHolds, RedirectBranchHolds, ConvertToGotoHolds,
       DropEdgeHolds, StandaloneHolds, EnsureFatherHolds, CollapseSwitchHolds
  <2> QED BY <2>1 DEF Held
<1>6. ASSUME NEW s \in Inner, NEW t \in Targets, NEW old \in Targets, RouteCases(s, old, t)
      PROVE  Held'
  BY <1>1, <1>6, RouteCasesHolds DEF Held
<1> QED BY <1>2, <1>3, <1>4, <1>5, <1>6 DEF Next, Edit

LEMMA HeldAlways == Spec => []Held
<1>1. ASSUME Held, [Next]_vars PROVE Held'
  <2>1. CASE Next
    BY <1>1, <2>1, NextHolds
  <2>2. CASE UNCHANGED vars
    <3>1. mba' = mba /\ prepared' = prepared /\ edit' = edit /\ edits' = edits
      BY <2>2 DEF vars
    <3>2. IInv => IInv'
      BY <3>1 DEF IInv
    <3>3. Refused => Refused'
      BY <3>1 DEF Refused, TypeOK, Serials, Id, Mistaken
    <3> QED BY <1>1, <3>2, <3>3 DEF Held
  <2> QED BY <1>1, <2>1, <2>2
<1>2. Init => Held
  BY InitHolds DEF Held
<1> QED BY <1>1, <1>2, PTL DEF Spec

(* Whatever graph the decompiler hands over and whichever edits the rules make *)
(* of it, in any order and number, no two blocks are the same block, and each  *)
(* block's last instruction, its successors and the predecessors of the others *)
(* agree on every edge, each predecessor noted once: unless a removal of       *)
(* simple gotos raised, at a branch it sent to the block that the branch falls *)
(* into or at a switch it took for a branch.                                   *)
THEOREM GraphIsSoundAlways == Spec => []GraphIsSound
<1>1. ASSUME IInv PROVE GraphIsSound
  <2>1. PICK n \in 2..MaxBlocks : Sound(n, mba)
    BY <1>1 DEF IInv
  <2>2. IsArray(n, mba) /\ IdsApart(n, mba)
    BY <2>1 DEF Sound
  <2>3. Serials = 0..n-1 /\ mba \in [0..n-1 -> Blocks(n)]
    BY <2>2 DEF IsArray, Serials
  <2>4. \E k \in 2..MaxBlocks : DOMAIN mba = 0..k-1 /\ \A s \in Serials : mba[s] \in Blocks(k)
    BY <2>3 DEF Serials
  <2>5. \A s, t \in Serials : Id(s) = Id(t) => s = t
    BY <2>2, <2>3 DEF IdsApart, Id
  <2>6. TypeOK
    BY <1>1, <2>4, <2>5 DEF IInv, TypeOK
  <2>7. WellFormed(mba)
    BY <2>1, SoundIsWellFormed
  <2> QED BY <2>6, <2>7 DEF GraphIsSound
<1>2. ASSUME Refused PROVE GraphIsSound
  BY <1>2 DEF Refused, GraphIsSound
<1>3. Held => GraphIsSound
  BY <1>1, <1>2 DEF Held
<1> QED BY <1>3, HeldAlways, PTL

-------------------------------------------------------------------------------
(* What an edit does to the flow of control *)

Ways(m, q) == {m[t].id : t \in ToSet(q)}

LEMMA FlowIs ==
  ASSUME NEW n, NEW m, Sound(n, m)
  PROVE  /\ DOMAIN Flow(m) = {m[x].id : x \in 0..n-1}
         /\ \A x \in 0..n-1 : Flow(m)[m[x].id] = Ways(m, m[x].succ)
         /\ Flow(m) = [i \in DOMAIN Flow(m) |-> Flow(m)[i]]
<1>1. DOMAIN m = 0..n-1 /\ \A x, y \in 0..n-1 : m[x].id = m[y].id => x = y
  BY DEF Sound, IsArray, IdsApart
<1> DEFINE Who(i) == CHOOSE x \in DOMAIN m : m[x].id = i
           Ids == {m[x].id : x \in DOMAIN m}
<1>2. Flow(m) = [i \in Ids |-> {m[t].id : t \in ToSet(m[Who(i)].succ)}]
  BY DEF Flow
<1>3. ASSUME NEW x \in 0..n-1 PROVE Who(m[x].id) = x
  BY <1>1
<1> HIDE DEF Who
<1>4. ASSUME NEW x \in 0..n-1 PROVE Flow(m)[m[x].id] = Ways(m, m[x].succ)
  <2>1. m[x].id \in Ids
    BY <1>1
  <2>2. Flow(m)[m[x].id] = {m[t].id : t \in ToSet(m[Who(m[x].id)].succ)}
    BY <1>2, <2>1
  <2> QED BY <1>3, <2>2 DEF Ways
<1> QED BY <1>1, <1>2, <1>4

LEMMA SameFlow ==
  ASSUME NEW n, NEW m, Sound(n, m), NEW r, Sound(n, r),
         \A x \in 0..n-1 : r[x].id = m[x].id
  PROVE  /\ DOMAIN Flow(r) = DOMAIN Flow(m)
         /\ \A q \in Seq(0..n-1) : Ways(r, q) = Ways(m, q)
<1>1. DOMAIN Flow(r) = DOMAIN Flow(m)
  <2>1. /\ DOMAIN Flow(r) = {r[x].id : x \in 0..n-1}
        /\ \A x \in 0..n-1 : Flow(r)[r[x].id] = Ways(r, r[x].succ)
        /\ Flow(r) = [i \in DOMAIN Flow(r) |-> Flow(r)[i]]
    BY FlowIs
  <2>2. /\ DOMAIN Flow(m) = {m[x].id : x \in 0..n-1}
        /\ \A x \in 0..n-1 : Flow(m)[m[x].id] = Ways(m, m[x].succ)
        /\ Flow(m) = [i \in DOMAIN Flow(m) |-> Flow(m)[i]]
    BY FlowIs
  <2> QED BY <2>1, <2>2
<1>2. ASSUME NEW q \in Seq(0..n-1) PROVE Ways(r, q) = Ways(m, q)
  <2>1. ToSet(q) \subseteq 0..n-1
    BY InSequence
  <2> QED BY <2>1 DEF Ways
<1> QED BY <1>1, <1>2

(* An edit of one block changes where that block goes.                         *)
LEMMA FlowDone ==
  ASSUME NEW n, NEW m, Sound(n, m), NEW s \in 0..n-1, NEW r, NEW op, NEW type, NEW refs,
         NEW succ \in Seq(0..n-1), Done(n, m, r, s, op, type, refs, succ)
  PROVE  Flow(r) = [Flow(m) EXCEPT ![m[s].id] = Ways(m, succ)]
<1> DEFINE f == Flow(m)
           g == Flow(r)
<1>1. Sound(n, r) /\ r[s].id = m[s].id /\ r[s].succ = succ
  BY DEF Done
<1>2. \A x \in 0..n-1 : r[x].id = m[x].id /\ (x # s => r[x].succ = m[x].succ)
  BY <1>1 DEF Done, Beside, SameTail
<1>3. DOMAIN g = DOMAIN f /\ \A q \in Seq(0..n-1) : Ways(r, q) = Ways(m, q)
  BY <1>1, <1>2, SameFlow
<1>4. /\ f = [i \in DOMAIN f |-> f[i]] /\ DOMAIN f = {m[x].id : x \in 0..n-1}
      /\ \A x \in 0..n-1 : f[m[x].id] = Ways(m, m[x].succ)
  <2>1. /\ DOMAIN Flow(m) = {m[x].id : x \in 0..n-1}
        /\ \A x \in 0..n-1 : Flow(m)[m[x].id] = Ways(m, m[x].succ)
        /\ Flow(m) = [i \in DOMAIN Flow(m) |-> Flow(m)[i]]
    BY FlowIs
  <2> QED BY <2>1
<1>5. /\ g = [i \in DOMAIN g |-> g[i]]
      /\ \A x \in 0..n-1 : g[r[x].id] = Ways(r, r[x].succ)
  <2>1. /\ DOMAIN Flow(r) = {r[x].id : x \in 0..n-1}
        /\ \A x \in 0..n-1 : Flow(r)[r[x].id] = Ways(r, r[x].succ)
        /\ Flow(r) = [i \in DOMAIN Flow(r) |-> Flow(r)[i]]
    BY <1>1, FlowIs
  <2> QED BY <2>1
<1>6. \A x \in 0..n-1 : r[x].succ \in Seq(0..n-1)
  BY <1>1, BlockIs DEF Sound
<1>7. \A x \in 0..n-1 : g[m[x].id] = Ways(m, r[x].succ)
  BY <1>2, <1>3, <1>5, <1>6
<1>8. \A x, y \in 0..n-1 : m[x].id = m[y].id => x = y
  BY DEF Sound, IdsApart
<1> HIDE DEF f, g
<1> DEFINE h == [f EXCEPT ![m[s].id] = Ways(m, succ)]
<1>9. h = [i \in DOMAIN f |-> IF i = m[s].id THEN Ways(m, succ) ELSE f[i]]
  BY <1>4
<1>10. ASSUME NEW x \in 0..n-1
       PROVE  g[m[x].id] = IF m[x].id = m[s].id THEN Ways(m, succ) ELSE f[m[x].id]
  <2>1. CASE x = s
    BY <1>1, <1>7, <2>1
  <2>2. CASE x # s
    <3>1. m[x].id # m[s].id
      BY <1>8, <2>2
    <3> QED BY <1>2, <1>4, <1>7, <2>2, <3>1
  <2> QED BY <2>1, <2>2
<1>11. \A i \in DOMAIN f : g[i] = IF i = m[s].id THEN Ways(m, succ) ELSE f[i]
  BY <1>4, <1>10
<1>12. g = h
  BY <1>3, <1>5, <1>9, <1>11
<1> QED BY <1>12 DEF f, g

LEMMA WaysAre ==
  ASSUME NEW m, NEW a
  PROVE  Ways(m, <<>>) = {} /\ Ways(m, <<a>>) = {m[a].id}
<1>1. ToSet(<<>>) = {} /\ ToSet(<<a>>) = {a}
  BY DEF ToSet
<1> QED BY <1>1 DEF Ways

LEMMA WaysOfTwo ==
  ASSUME NEW m, NEW a, NEW b
  PROVE  Ways(m, <<a, b>>) = {m[a].id, m[b].id}
<1>1. ToSet(<<a, b>>) = {a, b}
  BY DEF ToSet
<1> QED BY <1>1 DEF Ways

(* Identities are numbered as blocks are made.                                 *)
LEMMA NewIs ==
  ASSUME NEW n, NEW m, Sound(n, m)
  PROVE  n \notin DOMAIN Flow(m)
<1>1. n \in Nat /\ \A x \in 0..n-1 : m[x].id < n
  BY DEF Sound, IsArray, IdsApart
<1>2. /\ DOMAIN Flow(m) = {m[x].id : x \in 0..n-1}
      /\ \A x \in 0..n-1 : Flow(m)[m[x].id] = Ways(m, m[x].succ)
      /\ Flow(m) = [i \in DOMAIN Flow(m) |-> Flow(m)[i]]
  BY FlowIs
<1> QED BY <1>1, <1>2

LEMMA WaysMoved ==
  ASSUME NEW n \in Nat, NEW m, NEW r, NEW s, NEW new, Grown(n, m, r, s, new), NEW q \in Seq(0..n-1)
  PROVE  Ways(r, Moved(n, q)) = Ways(m, q)
<1>1. \A y \in 0..n-1 : r[IF y = n - 1 THEN n ELSE y].id = m[y].id
  <2>1. n \in 0..n /\ n # n - 1 /\ Was(n, n) = n - 1
    BY DEF Was
  <2>2. \A y \in 0..n-1 : y # n - 1 => y \in 0..n /\ Was(n, y) = y
    BY DEF Was
  <2> QED BY <2>1, <2>2 DEF Grown
<1>2. ToSet(q) = {q[i] : i \in DOMAIN q} /\ \A i \in DOMAIN q : q[i] \in 0..n-1
  <2>1. DOMAIN q = 1..Len(q)
    OBVIOUS
  <2> QED BY <2>1 DEF ToSet
<1>3. ToSet(Moved(n, q)) = {IF q[i] = n - 1 THEN n ELSE q[i] : i \in DOMAIN q}
  BY DEF ToSet, Moved
<1>4. Ways(r, Moved(n, q)) = {r[IF q[i] = n - 1 THEN n ELSE q[i]].id : i \in DOMAIN q}
  BY <1>3 DEF Ways
<1>5. Ways(m, q) = {m[q[i]].id : i \in DOMAIN q}
  BY <1>2 DEF Ways
<1> QED BY <1>1, <1>2, <1>4, <1>5

(* The new block n goes where its successors say, s may go elsewhere, and the  *)
(* others go where they went.                                                  *)
Flowing(n, m, r, s, new) ==
    /\ DOMAIN Flow(r) = DOMAIN Flow(m) \cup {n}
    /\ Flow(r) = [i \in DOMAIN Flow(r) |-> Flow(r)[i]]
    /\ Flow(r)[n] = Ways(r, new)
    /\ s # n - 1 => Flow(r)[m[s].id] = Ways(r, r[s].succ)
    /\ \A i \in DOMAIN Flow(m) : s = n - 1 \/ i # m[s].id => Flow(r)[i] = Flow(m)[i]

LEMMA GrownFlow ==
  ASSUME NEW n, NEW m, Sound(n, m), NEW r, Sound(n + 1, r), NEW s \in 0..n-1, NEW new,
         Grown(n, m, r, s, new)
  PROVE  Flowing(n, m, r, s, new)
<1>1. /\ n \in Nat /\ n >= 2 /\ (n + 1) - 1 = n /\ n - 1 \in 0..n /\ IsArray(n, m)
      /\ \A x \in 0..n-1 : x # n - 1 => x \in 0..n /\ x # n - 1 /\ Was(n, x) = x
      /\ n \in 0..n /\ n # n - 1 /\ Was(n, n) = n - 1
  BY DEF Sound, IsArray, Was
<1>2. /\ DOMAIN Flow(m) = {m[x].id : x \in 0..n-1}
      /\ \A x \in 0..n-1 : Flow(m)[m[x].id] = Ways(m, m[x].succ)
      /\ Flow(m) = [i \in DOMAIN Flow(m) |-> Flow(m)[i]]
  BY FlowIs
<1>3. /\ DOMAIN Flow(r) = {r[x].id : x \in 0..n}
      /\ \A x \in 0..n : Flow(r)[r[x].id] = Ways(r, r[x].succ)
      /\ Flow(r) = [i \in DOMAIN Flow(r) |-> Flow(r)[i]]
  <2> DEFINE N == n + 1
  <2>1. Sound(N, r) /\ N - 1 = n
    BY <1>1
  <2> HIDE DEF N
  <2>2. /\ DOMAIN Flow(r) = {r[x].id : x \in 0..N-1}
        /\ \A x \in 0..N-1 : Flow(r)[r[x].id] = Ways(r, r[x].succ)
        /\ Flow(r) = [i \in DOMAIN Flow(r) |-> Flow(r)[i]]
    BY <2>1, FlowIs
  <2> QED BY <2>1, <2>2
<1>4. /\ r[n-1].id = n /\ r[n-1].succ = new /\ r[n].id = m[n-1].id
      /\ n # s => r[n].succ = Moved(n, m[n-1].succ)
      /\ \A x \in 0..n-1 : x # n - 1 => r[x].id = m[x].id /\ (x # s => r[x].succ = Moved(n, m[x].succ))
  BY <1>1 DEF Grown
<1>5. n # s
  BY <1>1
<1>6. DOMAIN Flow(r) = DOMAIN Flow(m) \cup {n}
  <2>1. ASSUME NEW i \in DOMAIN Flow(r) PROVE i \in DOMAIN Flow(m) \cup {n}
    <3>1. PICK x \in 0..n : i = r[x].id
      BY <1>3
    <3>2. x = n \/ x = n - 1 \/ (x \in 0..n-1 /\ x # n - 1)
      BY <1>1
    <3>3. n - 1 \in 0..n-1
      BY <1>1
    <3> QED BY <1>2, <1>4, <3>1, <3>2, <3>3
  <2>2. ASSUME NEW i \in DOMAIN Flow(m) PROVE i \in DOMAIN Flow(r)
    <3>1. PICK x \in 0..n-1 : i = m[x].id
      BY <1>2
    <3>2. x = n - 1 \/ (x # n - 1 /\ x \in 0..n)
      BY <1>1
    <3> QED BY <1>1, <1>3, <1>4, <3>1, <3>2
  <2>3. n \in DOMAIN Flow(r)
    BY <1>1, <1>3, <1>4
  <2> QED BY <2>1, <2>2, <2>3
<1>7. Flow(r)[n] = Ways(r, new)
  BY <1>1, <1>3, <1>4
<1>8. s # n - 1 => Flow(r)[m[s].id] = Ways(r, r[s].succ)
  BY <1>1, <1>3, <1>4
<1>9. ASSUME NEW i \in DOMAIN Flow(m), s = n - 1 \/ i # m[s].id PROVE Flow(r)[i] = Flow(m)[i]
  <2>1. PICK x \in 0..n-1 : i = m[x].id
    BY <1>2
  <2>2. m[x].succ \in Seq(0..n-1)
    BY <1>1, BlockIs
  <2>3. Ways(r, Moved(n, m[x].succ)) = Flow(m)[i]
    <3>1. Ways(r, Moved(n, m[x].succ)) = Ways(m, m[x].succ)
      BY <1>1, <2>2, WaysMoved
    <3> QED BY <1>2, <2>1, <3>1
  <2>4. CASE x = n - 1
    BY <1>1, <1>3, <1>4, <1>5, <2>1, <2>3, <2>4
  <2>5. CASE x # n - 1
    <3>1. x # s
      BY <1>9, <2>1, <2>5
    <3> QED BY <1>1, <1>3, <1>4, <2>1, <2>3, <2>5, <3>1
  <2> QED BY <2>4, <2>5
<1> QED BY <1>3, <1>6, <1>7, <1>8, <1>9 DEF Flowing

(* The step the edit claims to be, kind by kind.                               *)
LEMMA DidGo ==
  ASSUME NEW n, Sound(n, mba), NEW s \in 0..n-1, NEW t \in 0..n-1, NEW op, NEW type, NEW refs,
         Done(n, mba, mba', s, op, type, refs, <<t>>), edit' = Goes(s, t)
  PROVE  Promise!Performed
<1> DEFINE q == <<t>>
<1>1. q \in Seq(0..n-1) /\ Ways(mba, q) = {Id(t)} /\ Done(n, mba, mba', s, op, type, refs, q)
  <2>1. Ways(mba, <<t>>) = {mba[t].id}
    BY WaysAre
  <2> QED BY <2>1 DEF Id
<1> HIDE DEF q
<1>2. Flow(mba') = [Flow(mba) EXCEPT ![mba[s].id] = Ways(mba, q)]
  BY <1>1, FlowDone
<1>3. Promise!Goto(Id(s), Id(t))
  BY <1>1, <1>2 DEF Promise!Goto, Id
<1>4. edit'.kind = "goto" /\ edit'.at = Id(s) /\ edit'.to = Id(t)
  BY DEF Goes
<1> QED BY <1>3, <1>4 DEF Promise!Performed

LEMMA WaysIn ==
  ASSUME NEW n, NEW m, Sound(n, m), NEW s \in 0..n-1, NEW x \in ToSet(m[s].succ)
  PROVE  x \in 0..n-1 /\ m[x].id \in Flow(m)[m[s].id] /\ Flow(m)[m[s].id] = Ways(m, m[s].succ)
         /\ m[s].succ \in Seq(0..n-1) /\ ToSet(m[s].succ) \subseteq 0..n-1
<1>1. m[s].succ \in Seq(0..n-1)
  BY BlockIs DEF Sound
<1>2. ToSet(m[s].succ) \subseteq 0..n-1
  BY <1>1, InSequence
<1>3. /\ DOMAIN Flow(m) = {m[y].id : y \in 0..n-1}
      /\ \A y \in 0..n-1 : Flow(m)[m[y].id] = Ways(m, m[y].succ)
      /\ Flow(m) = [i \in DOMAIN Flow(m) |-> Flow(m)[i]]
  BY FlowIs
<1>4. Flow(m)[m[s].id] = Ways(m, m[s].succ)
  BY <1>3
<1> QED BY <1>1, <1>2, <1>4 DEF Ways

LEMMA DidReplace ==
  ASSUME NEW n, Sound(n, mba), NEW s \in 0..n-1, NEW t \in 0..n-1, NEW old \in ToSet(mba[s].succ),
         NEW op, NEW type, NEW refs, NEW succ \in Seq(0..n-1),
         Done(n, mba, mba', s, op, type, refs, succ),
         ToSet(succ) = (ToSet(mba[s].succ) \ {old}) \cup {t}, edit' = Replaces(s, old, t)
  PROVE  Promise!Performed
<1>1. Flow(mba') = [Flow(mba) EXCEPT ![mba[s].id] = Ways(mba, succ)]
  BY FlowDone
<1>2. /\ old \in 0..n-1 /\ Id(old) \in Flow(mba)[Id(s)] /\ ToSet(mba[s].succ) \subseteq 0..n-1
      /\ Flow(mba)[Id(s)] = Ways(mba, mba[s].succ)
  BY WaysIn DEF Id
<1>3. \A x, y \in 0..n-1 : mba[x].id = mba[y].id => x = y
  BY DEF Sound, IdsApart
<1>4. Ways(mba, succ) = (Flow(mba)[Id(s)] \ {Id(old)}) \cup {Id(t)}
  BY <1>2, <1>3 DEF Ways, Id
<1>5. Promise!Replace(Id(s), Id(old), Id(t))
  BY <1>1, <1>2, <1>4 DEF Promise!Replace, Id
<1>6. edit'.kind = "replace" /\ edit'.at = Id(s) /\ edit'.from = Id(old) /\ edit'.to = Id(t)
  BY DEF Replaces
<1> QED BY <1>5, <1>6 DEF Promise!Performed

LEMMA DidCut ==
  ASSUME NEW n, Sound(n, mba), NEW s \in 0..n-1, NEW old \in ToSet(mba[s].succ),
         NEW op, NEW type, NEW refs, NEW succ \in Seq(0..n-1),
         Done(n, mba, mba', s, op, type, refs, succ),
         ToSet(succ) = ToSet(mba[s].succ) \ {old}, edit' = Cuts(s, old)
  PROVE  Promise!Performed
<1>1. Flow(mba') = [Flow(mba) EXCEPT ![mba[s].id] = Ways(mba, succ)]
  BY FlowDone
<1>2. /\ old \in 0..n-1 /\ Id(old) \in Flow(mba)[Id(s)] /\ ToSet(mba[s].succ) \subseteq 0..n-1
      /\ Flow(mba)[Id(s)] = Ways(mba, mba[s].succ)
  BY WaysIn DEF Id
<1>3. \A x, y \in 0..n-1 : mba[x].id = mba[y].id => x = y
  BY DEF Sound, IdsApart
<1>4. Ways(mba, succ) = Flow(mba)[Id(s)] \ {Id(old)}
  BY <1>2, <1>3 DEF Ways, Id
<1>5. Promise!Cut(Id(s), Id(old))
  BY <1>1, <1>2, <1>4 DEF Promise!Cut, Id
<1>6. edit'.kind = "cut" /\ edit'.at = Id(s) /\ edit'.from = Id(old)
  BY DEF Cuts
<1> QED BY <1>5, <1>6 DEF Promise!Performed

LEMMA DidCreate ==
  ASSUME NEW n, Sound(n, mba), Sound(n + 1, mba'), NEW new, Grown(n, mba, mba', n - 1, new),
         NEW T, Ways(mba', new) = {Id(t) : t \in T}, edit' = Creates(T)
  PROVE  Promise!Performed
<1> DEFINE f == Flow(mba)
           g == Flow(mba')
           targets == {Id(t) : t \in T}
<1>1. n - 1 \in 0..n-1
  BY DEF Sound, IsArray
<1>2. /\ DOMAIN g = DOMAIN f \cup {n} /\ g = [i \in DOMAIN g |-> g[i]]
      /\ g[n] = Ways(mba', new) /\ \A i \in DOMAIN f : g[i] = f[i]
  <2> DEFINE s == n - 1
  <2>1. s \in 0..n-1 /\ s = n - 1 /\ Grown(n, mba, mba', s, new)
    BY <1>1
  <2> HIDE DEF s
  <2>2. Flowing(n, mba, mba', s, new)
    BY <2>1, GrownFlow
  <2> QED BY <2>1, <2>2 DEF Flowing
<1>3. n \notin DOMAIN f
  BY NewIs
<1> HIDE DEF f, g
<1>4. g = [i \in DOMAIN f \cup {n} |-> IF i = n THEN targets ELSE f[i]]
  BY <1>2, <1>3
<1>5. Promise!Create(targets)
  <2> HIDE DEF targets
  <2>1. n \in Promise!New
    BY <1>2, <1>3 DEF Promise!New, Promise!Ids, f, g
  <2>2. Flow(mba)' = Promise!Created(n, targets)
    BY <1>4 DEF Promise!Created, Promise!Ids, f, g
  <2> QED BY <2>1, <2>2 DEF Promise!Create
<1>6. edit'.kind = "create" /\ edit'.targets = targets
  BY DEF Creates
<1> HIDE DEF targets
<1> QED BY <1>5, <1>6 DEF Promise!Performed

LEMMA DidDetour ==
  ASSUME NEW n, Sound(n, mba), Sound(n + 1, mba'), NEW s \in 0..n-2, NEW new,
         Grown(n, mba, mba', s, new), NEW T, Ways(mba', new) = {Id(t) : t \in T},
         NEW old \in ToSet(mba[s].succ), edit' = Detours(s, old, T),
         Ways(mba', mba'[s].succ) = (Ways(mba, mba[s].succ) \ {Id(old)}) \cup {n}
  PROVE  Promise!Performed
<1> DEFINE f == Flow(mba)
           g == Flow(mba')
           b == Id(s)
           to == (f[b] \ {Id(old)}) \cup {n}
           targets == {Id(t) : t \in T}
<1>1. n \in Nat /\ s \in 0..n-1 /\ s # n - 1
  BY DEF Sound, IsArray
<1>2. /\ DOMAIN g = DOMAIN f \cup {n} /\ g = [i \in DOMAIN g |-> g[i]]
      /\ g[n] = Ways(mba', new) /\ g[b] = Ways(mba', mba'[s].succ)
      /\ \A i \in DOMAIN f : i # b => g[i] = f[i]
  <2>1. Flowing(n, mba, mba', s, new)
    BY <1>1, GrownFlow
  <2> QED BY <1>1, <2>1 DEF Flowing, Id
<1>3. n \notin DOMAIN f
  BY NewIs
<1>4. Id(old) \in f[b] /\ f[b] = Ways(mba, mba[s].succ) /\ b \in DOMAIN f
  <2>1. mba[s].id \in DOMAIN Flow(mba)
    <3>1. /\ DOMAIN Flow(mba) = {mba[x].id : x \in 0..n-1}
          /\ \A x \in 0..n-1 : Flow(mba)[mba[x].id] = Ways(mba, mba[x].succ)
          /\ Flow(mba) = [i \in DOMAIN Flow(mba) |-> Flow(mba)[i]]
      BY FlowIs
    <3> QED BY <1>1, <3>1
  <2> QED BY <1>1, <2>1, WaysIn DEF Id
<1> HIDE DEF f, g, b
<1> DEFINE c == [i \in DOMAIN f \cup {n} |-> IF i = n THEN targets ELSE f[i]]
<1>5. b # n /\ c[b] = f[b]
  BY <1>3, <1>4
<1>6. g = [c EXCEPT ![b] = (@ \ {Id(old)}) \cup {n}]
  <2>1. g[b] = to /\ g[n] = targets
    BY <1>2, <1>4
  <2> HIDE DEF to, targets
  <2>2. \A i \in DOMAIN c : g[i] = IF i = b THEN to ELSE c[i]
    BY <1>2, <1>3, <1>5, <2>1
  <2>3. [c EXCEPT ![b] = (@ \ {Id(old)}) \cup {n}] = [i \in DOMAIN c |-> IF i = b THEN to ELSE c[i]]
    <3>1. to = (c[b] \ {Id(old)}) \cup {n}
      BY <1>5 DEF to
    <3>2. c = [i \in DOMAIN c |-> c[i]]
      OBVIOUS
    <3> HIDE DEF c
    <3> QED BY <3>1, <3>2
  <2>4. DOMAIN c = DOMAIN g
    BY <1>2
  <2> HIDE DEF c
  <2> QED BY <1>2, <2>2, <2>3, <2>4
<1>7. Promise!Detour(b, Id(old), targets)
  <2>1. c = Promise!Created(n, targets)
    BY DEF Promise!Created, Promise!Ids, f
  <2>2. n \in Promise!New
    BY <1>2, <1>3 DEF Promise!New, Promise!Ids, f, g
  <2> HIDE DEF c, targets
  <2>3. Flow(mba)' = [Promise!Created(n, targets) EXCEPT ![b] = (@ \ {Id(old)}) \cup {n}]
    BY <1>6, <2>1 DEF g
  <2>4. Id(old) \in Flow(mba)[b]
    BY <1>4 DEF f
  <2> QED BY <2>2, <2>3, <2>4 DEF Promise!Detour
<1>8. edit'.kind = "detour" /\ edit'.at = b /\ edit'.from = Id(old) /\ edit'.targets = targets
  BY DEF Detours, b
<1> HIDE DEF targets
<1> QED BY <1>7, <1>8 DEF Promise!Performed

(* From the block a control gets to b along jumps.                             *)
Leads(J, a, b) ==
  \A S \in SUBSET DOMAIN Flow(mba) :
     a \in S /\ (\A j \in S \cap J : Flow(mba)[j] \subseteq S) => b \in S

LEMMA DidShorten ==
  ASSUME NEW n, Sound(n, mba), Sound(n, mba'), NEW J,
         \A x \in 0..n-1 : mba'[x].id = mba[x].id /\ Len(mba'[x].succ) = Len(mba[x].succ),
         \A x \in 0..n-1 : \A i \in 1..Len(mba[x].succ) :
            Leads(J, mba[mba[x].succ[i]].id, mba[mba'[x].succ[i]].id),
         edit' = [kind |-> "shorten", jumps |-> J]
  PROVE  Promise!Performed
<1> DEFINE f == Flow(mba)
           g == Flow(mba')
<1>1. DOMAIN g = DOMAIN f /\ \A q \in Seq(0..n-1) : Ways(mba', q) = Ways(mba, q)
  BY SameFlow
<1>2. DOMAIN f = {mba[x].id : x \in 0..n-1} /\ \A x \in 0..n-1 : f[mba[x].id] = Ways(mba, mba[x].succ)
  <2>1. /\ DOMAIN Flow(mba) = {mba[x].id : x \in 0..n-1}
        /\ \A x \in 0..n-1 : Flow(mba)[mba[x].id] = Ways(mba, mba[x].succ)
        /\ Flow(mba) = [i \in DOMAIN Flow(mba) |-> Flow(mba)[i]]
    BY FlowIs
  <2> QED BY <2>1
<1>3. \A x \in 0..n-1 : g[mba'[x].id] = Ways(mba', mba'[x].succ)
  <2>1. /\ DOMAIN Flow(mba') = {mba'[x].id : x \in 0..n-1}
        /\ \A x \in 0..n-1 : Flow(mba')[mba'[x].id] = Ways(mba', mba'[x].succ)
        /\ Flow(mba') = [i \in DOMAIN Flow(mba') |-> Flow(mba')[i]]
    BY FlowIs
  <2> QED BY <2>1
<1>4. ASSUME NEW b \in DOMAIN f
      PROVE  /\ g[b] \subseteq UNION {Promise!Through(y, J) : y \in f[b]}
             /\ \A y \in f[b] : g[b] \cap Promise!Through(y, J) # {}
  <2>1. PICK x \in 0..n-1 : b = mba[x].id
    BY <1>2
  <2> DEFINE q == mba[x].succ
             r == mba'[x].succ
  <2>2. q \in Seq(0..n-1) /\ r \in Seq(0..n-1) /\ Len(r) = Len(q)
    BY BlockIs DEF Sound
  <2>3. mba'[x].id = mba[x].id /\ \A i \in 1..Len(q) : Leads(J, mba[q[i]].id, mba[r[i]].id)
    OBVIOUS
  <2>4. f[b] = Ways(mba, q) /\ g[b] = Ways(mba, r)
    BY <1>1, <1>2, <1>3, <2>1, <2>2, <2>3
  <2> HIDE DEF q, r
  <2>5. ToSet(q) = {q[i] : i \in 1..Len(q)} /\ ToSet(r) = {r[i] : i \in 1..Len(q)}
    BY <2>2, Elements
  <2>6. f[b] = {mba[q[i]].id : i \in 1..Len(q)} /\ g[b] = {mba[r[i]].id : i \in 1..Len(q)}
    BY <2>4, <2>5 DEF Ways
  <2>7. ASSUME NEW i \in 1..Len(q)
        PROVE  mba[r[i]].id \in Promise!Through(mba[q[i]].id, J)
    <3>1. r[i] \in 0..n-1
      <4>1. i \in 1..Len(r)
        BY <2>2
      <4> QED BY <2>2, <4>1, ItemIs
    <3>2. mba[r[i]].id \in DOMAIN Flow(mba)
      BY <1>2, <3>1
    <3>3. Leads(J, mba[q[i]].id, mba[r[i]].id)
      BY <2>3
    <3> HIDE DEF f
    <3> QED BY <3>2, <3>3 DEF Leads, Promise!Through, Promise!Ids
  <2> HIDE DEF f, g
  <2> QED BY <2>6, <2>7
<1>5. Promise!Shorten(J)
  BY <1>1, <1>4 DEF Promise!Shorten, Promise!Ids
<1>6. edit'.kind = "shorten" /\ edit'.jumps = J
  OBVIOUS
<1> QED BY <1>5, <1>6 DEF Promise!Performed

-------------------------------------------------------------------------------
(* Action by action *)

LEMMA EnsureLastBlockIsGotoDid ==
  ASSUME NEW n, At(n), EnsureLastBlockIsGoto
  PROVE  Promise!Performed
<1> DEFINE s == n - 2
           t == mba[s].succ[1]
<1>1. /\ Sound(n, mba) /\ IsArray(n, mba) /\ n \in Nat /\ n >= 2
      /\ s \in 0..n-2 /\ s \in 0..n-1 /\ Exit - 1 = s
  BY AtIs
<1>2. /\ mba' = IF CanChange1Way(mba, s) THEN Change1Way(mba, s, t) ELSE mba
      /\ edit' = IF CanChange1Way(mba, s) THEN Goes(s, t) ELSE [kind |-> "shorten", jumps |-> {}]
  BY <1>1 DEF EnsureLastBlockIsGoto
<1> HIDE DEF s
<1>3. CASE CanChange1Way(mba, s)
  <2>1. Nsucc(mba, s) = 1 /\ mba[s].succ \in Seq(0..n-1)
    BY <1>1, <1>3, BlockIs DEF CanChange1Way
  <2>2. t \in 0..n-1
    <3> DEFINE q == mba[s].succ
    <3>1. 1 \in 1..Len(q) /\ q \in Seq(0..n-1)
      BY <2>1 DEF Nsucc
    <3> HIDE DEF q
    <3>2. q[1] \in 0..n-1
      BY <3>1, ItemIs
    <3> QED BY <3>2 DEF q
  <2> HIDE DEF t
  <2>3. Done(n, mba, Change1Way(mba, s, t), s, "goto", "1WAY", <<t>>, <<t>>)
    BY <1>1, <2>1, <2>2, Change1WayKeeps
  <2>4. mba' = Change1Way(mba, s, t) /\ edit' = Goes(s, t)
    BY <1>2, <1>3
  <2>5. Done(n, mba, mba', s, "goto", "1WAY", <<t>>, <<t>>)
    BY <2>3, <2>4
  <2> QED BY <1>1, <2>2, <2>4, <2>5, DidGo
<1>4. CASE ~CanChange1Way(mba, s)
  <2>1. mba' = mba /\ edit' = [kind |-> "shorten", jumps |-> {}]
    BY <1>2, <1>4
  <2> DEFINE J == {}
  <2>2. edit' = [kind |-> "shorten", jumps |-> J] /\ Sound(n, mba')
    BY <1>1, <2>1
  <2>3. /\ \A x \in 0..n-1 : mba'[x].id = mba[x].id /\ Len(mba'[x].succ) = Len(mba[x].succ)
        /\ \A x \in 0..n-1 : \A i \in 1..Len(mba[x].succ) :
              Leads(J, mba[mba[x].succ[i]].id, mba[mba'[x].succ[i]].id)
    BY <2>1 DEF Leads
  <2> HIDE DEF J
  <2> QED BY <1>1, <2>2, <2>3, DidShorten
<1> QED BY <1>3, <1>4

LEMMA RedirectGotoDid ==
  ASSUME NEW n, At(n), NEW s \in Inner, NEW t \in Targets, RedirectGoto(s, t)
  PROVE  Promise!Performed
<1>1. /\ Sound(n, mba) /\ s \in 0..n-2 /\ s \in 0..n-1 /\ t \in 0..n-1
      /\ Nsucc(mba, s) = 1 /\ mba' = Change1Way(mba, s, t) /\ edit' = Goes(s, t)
  BY AtIs DEF RedirectGoto, CanChange1Way, Edited
<1>2. Done(n, mba, Change1Way(mba, s, t), s, "goto", "1WAY", <<t>>, <<t>>)
  BY <1>1, Change1WayKeeps
<1>3. Done(n, mba, mba', s, "goto", "1WAY", <<t>>, <<t>>)
  BY <1>1, <1>2
<1> QED BY <1>1, <1>3, DidGo

LEMMA RedirectEndDid ==
  ASSUME NEW n, At(n), NEW s \in Inner, NEW t \in Targets, RedirectEnd(s, t)
  PROVE  Promise!Performed
<1>1. /\ Sound(n, mba) /\ s \in 0..n-2 /\ s \in 0..n-1 /\ t \in 0..n-1
      /\ Nsucc(mba, s) = 0 /\ mba' = Change0Way(mba, s, t) /\ edit' = Goes(s, t)
  BY AtIs DEF RedirectEnd, Edited
<1>2. Done(n, mba, Change0Way(mba, s, t), s, "goto", "1WAY", <<t>>, <<t>>)
  BY <1>1, Change0WayKeeps
<1>3. Done(n, mba, mba', s, "goto", "1WAY", <<t>>, <<t>>)
  BY <1>1, <1>2
<1> QED BY <1>1, <1>3, DidGo

LEMMA RedirectBranchDid ==
  ASSUME NEW n, At(n), NEW s \in Inner, NEW t \in Targets, RedirectBranch(s, t)
  PROVE  Promise!Performed
<1> DEFINE old == mba[s].refs[1]
           q == <<s + 1, t>>
<1>1. /\ Sound(n, mba) /\ s \in 0..n-2 /\ s \in 0..n-1 /\ t \in 0..n-1
      /\ mba[s].op = "jcond" /\ t # s + 1
      /\ mba' = Change2Way(mba, s, t) /\ edit' = Replaces(s, old, t)
  BY AtIs DEF RedirectBranch, Edited
<1>2. Done(n, mba, Change2Way(mba, s, t), s, "jcond", "2WAY", <<t>>, <<s + 1, t>>)
  BY <1>1, Change2WayKeeps
<1>3. /\ s + 1 \in 0..n-1 /\ old \in 0..n-1 /\ old # s + 1
      /\ mba[s].refs = <<old>> /\ mba[s].succ = <<s + 1, old>>
  BY <1>1, BranchIs
<1> HIDE DEF old
<1>4. ToSet(<<s + 1, old>>) = {s + 1, old}
  BY <1>3, Pair
<1>5. q \in Seq(0..n-1) /\ ToSet(q) = {s + 1, t}
  BY <1>1, <1>3, Pair
<1>6. Done(n, mba, mba', s, "jcond", "2WAY", <<t>>, q)
  BY <1>1, <1>2
<1> HIDE DEF q
<1>7. old \in ToSet(mba[s].succ) /\ ToSet(q) = (ToSet(mba[s].succ) \ {old}) \cup {t}
  BY <1>3, <1>4, <1>5
<1> QED BY <1>1, <1>5, <1>6, <1>7, DidReplace

LEMMA ConvertToGotoDid ==
  ASSUME NEW n, At(n), NEW s \in Inner, NEW t \in Targets, ConvertToGoto(s, t)
  PROVE  Promise!Performed
<1>1. /\ Sound(n, mba) /\ s \in 0..n-2 /\ s \in 0..n-1 /\ t \in 0..n-1
      /\ mba' = Make2WayGoto(mba, s, t) /\ edit' = Goes(s, t)
  BY AtIs DEF ConvertToGoto, Edited
<1>2. Done(n, mba, Make2WayGoto(mba, s, t), s, "goto", "1WAY", <<t>>, <<t>>)
  BY <1>1, Make2WayGotoKeeps
<1>3. Done(n, mba, mba', s, "goto", "1WAY", <<t>>, <<t>>)
  BY <1>1, <1>2
<1> QED BY <1>1, <1>3, DidGo

LEMMA DropEdgeDid ==
  ASSUME NEW n, At(n), NEW s \in Inner, NEW t \in Targets, DropEdge(s, t)
  PROVE  Promise!Performed
<1>1. /\ Sound(n, mba) /\ s \in 0..n-2 /\ s \in 0..n-1 /\ t \in 0..n-1
      /\ mba[s].op \in {"goto", "jcond"} /\ CanRemoveEdge(mba, s, t)
      /\ mba' = RemoveEdge(mba, s, t) /\ edit' = Cuts(s, t)
  BY AtIs DEF DropEdge, Edited
<1>2. EdgeGone(n, mba, s, t)
  BY <1>1, RemoveEdgeKeeps
<1>3. ASSUME Done(n, mba, RemoveEdge(mba, s, t), s, "insn", "0WAY", <<>>, <<>>),
             ToSet(mba[s].succ) = {t}
      PROVE  Promise!Performed
  <2> DEFINE q == <<>>
  <2>1. q \in Seq(0..n-1) /\ ToSet(q) = {}
    BY DEF ToSet
  <2>2. Done(n, mba, mba', s, "insn", "0WAY", q, q)
    BY <1>1, <1>3
  <2> HIDE DEF q
  <2>3. t \in ToSet(mba[s].succ) /\ ToSet(q) = ToSet(mba[s].succ) \ {t}
    BY <1>3, <2>1
  <2> QED BY <1>1, <2>1, <2>2, <2>3, DidCut
<1>4. ASSUME NEW u \in 0..n-1, Done(n, mba, RemoveEdge(mba, s, t), s, "goto", "1WAY", <<u>>, <<u>>),
             ToSet(mba[s].succ) = {t, u}, t # u
      PROVE  Promise!Performed
  <2> DEFINE q == <<u>>
  <2>1. q \in Seq(0..n-1) /\ ToSet(q) = {u}
    BY DEF ToSet
  <2>2. Done(n, mba, mba', s, "goto", "1WAY", q, q)
    BY <1>1, <1>4
  <2> HIDE DEF q
  <2>3. t \in ToSet(mba[s].succ) /\ ToSet(q) = ToSet(mba[s].succ) \ {t}
    BY <1>4, <2>1
  <2> QED BY <1>1, <2>1, <2>2, <2>3, DidCut
<1> QED BY <1>2, <1>3, <1>4 DEF EdgeGone

LEMMA RouteCasesDid ==
  ASSUME NEW n, At(n), NEW s \in Inner, NEW t \in Targets, NEW old \in Targets, RouteCases(s, old, t)
  PROVE  Promise!Performed
<1>1. /\ Sound(n, mba) /\ s \in 0..n-2 /\ s \in 0..n-1 /\ t \in 0..n-1
      /\ mba[s].op = "jtbl" /\ old \in ToSet(mba[s].refs)
      /\ mba' = CoalesceCases(RetargetCases(mba, s, old, t), s) /\ edit' = Replaces(s, old, t)
  BY AtIs DEF RouteCases, Edited
<1>2. CasesSent(n, mba, s, old, t)
  BY <1>1, RouteCasesKeeps
<1>3. PICK q \in Seq(0..n-1) : /\ Done(n, mba, mba', s, "jtbl", "NWAY", q, q)
                               /\ ToSet(q) = (ToSet(mba[s].refs) \ {old}) \cup {t}
  BY <1>1, <1>2 DEF CasesSent
<1>4. mba[s].succ = mba[s].refs
  BY <1>1, SwitchIs
<1> QED BY <1>1, <1>3, <1>4, DidReplace

LEMMA CollapseSwitchDid ==
  ASSUME NEW n, At(n), NEW s \in Inner, NEW t \in Targets, CollapseSwitch(s, t)
  PROVE  Promise!Performed
<1>1. /\ Sound(n, mba) /\ s \in 0..n-2 /\ s \in 0..n-1 /\ t \in 0..n-1
      /\ mba[s].op = "jtbl" /\ mba' = ConvertJtbl(mba, s, t) /\ edit' = Goes(s, t)
  BY AtIs DEF CollapseSwitch, Edited
<1>2. Done(n, mba, ConvertJtbl(mba, s, t), s, "goto", "1WAY", <<t>>, <<t>>)
  BY <1>1, ConvertJtblKeeps
<1>3. Done(n, mba, mba', s, "goto", "1WAY", <<t>>, <<t>>)
  BY <1>1, <1>2
<1> QED BY <1>1, <1>3, DidGo

(* What the identities are after a block was created.                          *)
LEMMA GrownIds ==
  ASSUME NEW n \in Nat, n >= 2, NEW r, NEW s, NEW new, Grown(n, mba, r, s, new)
  PROVE  Ways(r, <<n - 1>>) = {n} /\ \A t \in 0..n-2 : r[t].id = Id(t) /\ Ways(r, <<t>>) = {Id(t)}
<1>1. r[n-1].id = n
  BY DEF Grown
<1>2. ASSUME NEW t \in 0..n-2 PROVE r[t].id = Id(t)
  <2>1. t \in 0..n /\ t # n - 1 /\ Was(n, t) = t
    BY DEF Was
  <2> QED BY <2>1 DEF Grown, Id
<1> DEFINE e == n - 1
<1>3. Ways(r, <<e>>) = {r[e].id}
  BY WaysAre
<1>4. \A t \in 0..n-2 : Ways(r, <<t>>) = {r[t].id}
  BY WaysAre
<1> QED BY <1>1, <1>2, <1>3, <1>4

LEMMA InsertBlockDid ==
  ASSUME NEW n, At(n), NEW s \in Inner, InsertBlock(s)
  PROVE  Promise!Performed
<1> DEFINE t == mba[s].succ[1]
           T == {t}
           q == <<t>>
<1>1. /\ Sound(n, mba) /\ s \in 0..n-2 /\ s \in 0..n-1 /\ n \in Nat /\ n >= 2
      /\ NoFall(mba[n-2]) /\ mba[s].op = "goto" /\ t # n - 1
      /\ mba' = InsertNop(mba, s) /\ edit' = Detours(s, t, T)
  BY AtIs, PreparedNoFall DEF InsertBlock, Edited
<1>2. t \in 0..n-1 /\ mba[s].succ = q
  BY <1>1, JumpIs
<1>3. /\ \E k : Done(n + 1, k, InsertNop(mba, s), n - 1, "goto", "1WAY", <<t>>, <<t>>)
      /\ Grown(n, mba, InsertNop(mba, s), s, <<t>>) /\ InsertNop(mba, s)[s].succ = <<n - 1>>
  BY <1>1, InsertNopMakes
<1>4. Sound(n + 1, mba') /\ Grown(n, mba, mba', s, q) /\ mba'[s].succ = <<n - 1>>
  BY <1>1, <1>3 DEF Done
<1>5. t \in 0..n-2
  BY <1>1, <1>2
<1>6. ToSet(q) = {t} /\ Ways(mba, q) = {Id(t)}
  <2>1. Ways(mba, <<t>>) = {mba[t].id}
    BY WaysAre
  <2> QED BY <2>1 DEF Id, ToSet
<1>7. Ways(mba', <<n - 1>>) = {n} /\ Ways(mba', q) = {Id(t)}
  BY <1>1, <1>4, <1>5, GrownIds
<1> HIDE DEF t, q
<1>8. t \in ToSet(mba[s].succ) /\ Ways(mba', q) = {Id(u) : u \in T}
  BY <1>2, <1>6, <1>7
<1>9. Ways(mba', mba'[s].succ) = (Ways(mba, mba[s].succ) \ {Id(t)}) \cup {n}
  BY <1>2, <1>4, <1>6, <1>7
<1> HIDE DEF T
<1> QED BY <1>1, <1>4, <1>8, <1>9, DidDetour

LEMMA InsertEndDid ==
  ASSUME NEW n, At(n), NEW s \in Inner, InsertEnd(s)
  PROVE  Promise!Performed
<1> DEFINE t == mba[s].succ[1]
           T == {}
           q == <<>>
           m == EndCreated(InsertNop(mba, s), n - 1)
<1>1. /\ Sound(n, mba) /\ s \in 0..n-2 /\ s \in 0..n-1 /\ n \in Nat /\ n >= 2
      /\ NoFall(mba[n-2]) /\ mba[s].op = "goto" /\ t # n - 1
      /\ mba' = m /\ edit' = Detours(s, t, T)
  BY AtIs, PreparedNoFall DEF InsertEnd, Edited
<1>2. t \in 0..n-1 /\ mba[s].succ = <<t>>
  BY <1>1, JumpIs
<1>3. /\ \E k : Done(n + 1, k, m, n - 1, "insn", "0WAY", <<>>, <<>>)
      /\ Grown(n, mba, m, s, <<>>) /\ m[s].succ = <<n - 1>>
  BY <1>1, InsertEndMakes
<1> HIDE DEF m
<1>4. Sound(n + 1, mba') /\ Grown(n, mba, mba', s, q) /\ mba'[s].succ = <<n - 1>>
  BY <1>1, <1>3 DEF Done
<1>5. ToSet(<<t>>) = {t} /\ Ways(mba, <<t>>) = {Id(t)} /\ Ways(mba', q) = {}
  <2>1. Ways(mba, <<t>>) = {mba[t].id} /\ Ways(mba', <<>>) = {}
    BY WaysAre
  <2> QED BY <2>1 DEF Id, ToSet
<1>6. Ways(mba', <<n - 1>>) = {n}
  BY <1>1, <1>4, GrownIds
<1> HIDE DEF t, q
<1>7. t \in ToSet(mba[s].succ) /\ Ways(mba', q) = {Id(u) : u \in T}
  BY <1>2, <1>5
<1>8. Ways(mba', mba'[s].succ) = (Ways(mba, mba[s].succ) \ {Id(t)}) \cup {n}
  BY <1>2, <1>4, <1>5, <1>6
<1> HIDE DEF T
<1> QED BY <1>1, <1>4, <1>7, <1>8, DidDetour

LEMMA EnsureFatherDid ==
  ASSUME NEW n, At(n), NEW s \in Inner, NEW t \in Targets, EnsureFather(s, t)
  PROVE  Promise!Performed
<1> DEFINE T == {t}
           q == <<t>>
           y == s + 1
           e == n - 1
<1>1. /\ Sound(n, mba) /\ s \in 0..n-2 /\ s \in 0..n-1 /\ n \in Nat /\ n >= 2
      /\ NoFall(mba[n-2]) /\ t \in 0..n-2 /\ t \in 0..n-1 /\ CanGiveFather(mba, s, t)
      /\ mba' = GiveFather(mba, s, t) /\ edit' = Detours(s, t, T)
  BY AtIs, PreparedNoFall DEF EnsureFather, Edited
<1>2. /\ Sound(n + 1, GiveFather(mba, s, t)) /\ NoFall(GiveFather(mba, s, t)[n-1])
      /\ Grown(n, mba, GiveFather(mba, s, t), s, <<t>>)
      /\ GiveFather(mba, s, t)[s].succ = <<s + 1, n - 1>> /\ s + 1 # n - 1 /\ mba[s].op = "jcond"
  BY <1>1, GiveFatherMakes
<1>3. /\ Sound(n + 1, mba') /\ Grown(n, mba, mba', s, q) /\ mba'[s].succ = <<y, e>>
      /\ y \in 0..n-2
  BY <1>1, <1>2
<1>4. t # y /\ mba[s].succ = <<y, t>>
  <2>1. mba[s].refs[1] = t
    BY <1>1 DEF CanGiveFather
  <2>2. mba[s].refs[1] # s + 1 /\ mba[s].succ = <<s + 1, mba[s].refs[1]>>
    BY <1>1, <1>2, BranchIs
  <2> QED BY <2>1, <2>2
<1>5. mba'[e].id = n
  BY <1>3 DEF Grown
<1> HIDE DEF y
<1>6. Ways(mba', q) = {Id(t)} /\ mba'[y].id = Id(y)
  <2>1. Ways(mba', <<n - 1>>) = {n} /\ \A u \in 0..n-2 : mba'[u].id = Id(u) /\ Ways(mba', <<u>>) = {Id(u)}
    BY <1>1, <1>3, GrownIds
  <2> QED BY <1>1, <1>3, <2>1
<1> HIDE DEF e
<1>7. Ways(mba', <<y, e>>) = {mba'[y].id, mba'[e].id} /\ Ways(mba, <<y, t>>) = {mba[y].id, mba[t].id}
  BY WaysOfTwo
<1>8. mba[y].id # mba[t].id
  <2>1. y \in 0..n-1
    BY <1>1, <1>3
  <2> QED BY <1>1, <1>4, <2>1 DEF Sound, IdsApart
<1>9. t \in ToSet(mba[s].succ)
  <2>1. ToSet(<<y, t>>) = {y, t}
    BY DEF ToSet
  <2> QED BY <1>4, <2>1
<1> HIDE DEF q
<1>10. Ways(mba', q) = {Id(u) : u \in T}
  BY <1>6
<1>11. Ways(mba', mba'[s].succ) = (Ways(mba, mba[s].succ) \ {Id(t)}) \cup {n}
  BY <1>3, <1>4, <1>5, <1>6, <1>7, <1>8 DEF Id
<1> HIDE DEF T
<1> QED BY <1>1, <1>3, <1>9, <1>10, <1>11, DidDetour

LEMMA DuplicateDid ==
  ASSUME NEW n, At(n), NEW s \in Inner, Duplicate(s)
  PROVE  Promise!Performed
<1> DEFINE q == mba[s].succ
           T == ToSet(q)
           new == Moved(n, q)
<1>1. /\ Sound(n, mba) /\ s \in 0..n-2 /\ s \in 0..n-1 /\ n \in Nat /\ mba[s].type \in {"0WAY", "1WAY"}
      /\ Exit - 1 = n - 2
      /\ prepared \/ (s # Exit - 1 /\ mba[Exit - 1].type \in {"0WAY", "1WAY"})
      /\ mba' = DuplicateBlock(mba, s) /\ edit' = Creates(T)
  BY AtIs DEF Duplicate, Edited
<1>2. mba[s].op # "jtbl"
  BY <1>1, SwitchIs
<1>3. NoFall(mba[n-2]) \/ (s # n - 2 /\ mba[n-2].type \in {"0WAY", "1WAY"})
  <2>1. prepared => NoFall(mba[n-2])
    BY PreparedNoFall
  <2> QED BY <1>1, <2>1
<1>4. /\ Sound(n + 1, DuplicateBlock(mba, s)) /\ NoFall(DuplicateBlock(mba, s)[n-1])
      /\ Grown(n, mba, DuplicateBlock(mba, s), n - 1, Moved(n, mba[s].succ))
  BY <1>1, <1>2, <1>3, DuplicateMakes
<1>5. Sound(n + 1, mba') /\ Grown(n, mba, mba', n - 1, new)
  BY <1>1, <1>4
<1>6. q \in Seq(0..n-1)
  BY <1>1, BlockIs DEF Sound
<1> HIDE DEF q
<1>7. Ways(mba', Moved(n, q)) = Ways(mba, q)
  BY <1>1, <1>5, <1>6, WaysMoved
<1>8. Ways(mba', new) = {Id(t) : t \in T}
  BY <1>7 DEF Ways, Id
<1> HIDE DEF new, T
<1> QED BY <1>1, <1>5, <1>8, DidCreate

LEMMA TerminalDid ==
  ASSUME NEW n, At(n), NEW s \in Inner, Terminal(s)
  PROVE  Promise!Performed
<1> DEFINE T == {}
           q == <<>>
<1>1. /\ Sound(n, mba) /\ s \in 0..n-2 /\ NoFall(mba[n-2])
      /\ mba' = CreateTerminal(mba, s) /\ edit' = Creates(T)
  BY AtIs, PreparedNoFall DEF Terminal, Edited
<1>2. Done(n + 1, Copied(n, mba, s), CreateTerminal(mba, s), n - 1, "insn", "0WAY", <<>>, <<>>)
  BY <1>1, TerminalMakes
<1>3. Done(n + 1, Copied(n, mba, s), mba', n - 1, "insn", "0WAY", q, q)
  BY <1>1, <1>2
<1>4. Ways(mba', q) = {Id(t) : t \in T}
  BY WaysAre
<1> HIDE DEF q, T
<1>5. Grown(n, mba, mba', n - 1, q) /\ Sound(n + 1, mba')
  BY <1>1, <1>3, CopyGrown DEF Done
<1> QED BY <1>1, <1>4, <1>5, DidCreate

LEMMA StandaloneDid ==
  ASSUME NEW n, At(n), NEW s \in Inner, NEW t \in Targets, Standalone(s, t)
  PROVE  Promise!Performed
<1> DEFINE T == {t}
           q == <<t>>
<1>1. /\ Sound(n, mba) /\ s \in 0..n-2 /\ NoFall(mba[n-2]) /\ t \in 0..n-2 /\ t \in 0..n
      /\ n \in Nat /\ n >= 2
      /\ mba' = CreateStandalone(mba, s, t) /\ edit' = Creates(T)
  BY AtIs, PreparedNoFall DEF Standalone, Edited
<1>2. Done(n + 1, Copied(n, mba, s), CreateStandalone(mba, s, t), n - 1, "goto", "1WAY", <<t>>, <<t>>)
  BY <1>1, StandaloneMakes
<1>3. Done(n + 1, Copied(n, mba, s), mba', n - 1, "goto", "1WAY", q, q)
  BY <1>1, <1>2
<1> HIDE DEF q, T
<1>4. Grown(n, mba, mba', n - 1, q)
  BY <1>1, <1>3, CopyGrown
<1>5. Sound(n + 1, mba')
  BY <1>3 DEF Done
<1>6. Ways(mba', <<n - 1>>) = {n} /\ \A u \in 0..n-2 : mba'[u].id = Id(u) /\ Ways(mba', <<u>>) = {Id(u)}
  BY <1>1, <1>4, GrownIds
<1>7. Ways(mba', q) = {Id(u) : u \in T}
  BY <1>1, <1>6 DEF q, T
<1> QED BY <1>1, <1>4, <1>5, <1>7, DidCreate

LEMMA RemoveSimpleGotosDid ==
  ASSUME NEW n, At(n), RemoveSimpleGotos
  PROVE  Promise!Performed
<1> DEFINE G == {x \in 0..n-1 : mba[x].op = "goto"}
           J == {Id(x) : x \in G}
<1>1. Sound(n, mba) /\ Serials = 0..n-1
  BY AtIs
<1>2. PICK run : /\ Going(n, mba, run, n - 1)
                 /\ run.refused = {} => Edited(run.mba, Shortens(n))
                 /\ run.refused # {} => Edited(run.mba, Refuses(run))
  BY RemovalLeads
<1>3. CASE run.refused # {}
  BY <1>2, <1>3 DEF Edited, Refuses, Promise!Performed
<1>4. CASE run.refused = {}
  <2>1. mba' = run.mba /\ edit' = [kind |-> "shorten", jumps |-> J]
    BY <1>2, <1>4 DEF Edited, Shortens
  <2>2. Led(n, mba, run.mba, n - 1)
    BY <1>2, <1>4 DEF Going
  <2>3. Sound(n, mba') /\ \A x \in 0..n-1 : Follows(n, mba, mba[x], mba'[x])
    BY <2>1, <2>2 DEF Led
  <2>4. \A x \in 0..n-1 : mba'[x].id = mba[x].id /\ Len(mba'[x].succ) = Len(mba[x].succ)
    BY <2>3 DEF Follows
  <2>5. ASSUME NEW x \in 0..n-1, NEW i \in 1..Len(mba[x].succ)
        PROVE  Leads(J, mba[mba[x].succ[i]].id, mba[mba'[x].succ[i]].id)
    <3> DEFINE a == mba[x].succ[i]
               b == mba'[x].succ[i]
    <3>1. a \in 0..n-1 /\ b \in 0..n-1
      <4> DEFINE q == mba[x].succ
                 r == mba'[x].succ
      <4>1. q \in Seq(0..n-1) /\ r \in Seq(0..n-1)
        BY <1>1, <2>3, BlockIs DEF Sound
      <4>2. i \in 1..Len(q) /\ i \in 1..Len(r)
        BY <2>4
      <4> HIDE DEF q, r
      <4>3. q[i] \in 0..n-1 /\ r[i] \in 0..n-1
        BY <4>1, <4>2, ItemIs
      <4> QED BY <4>3 DEF q, r
    <3>2. \A S \in SUBSET (0..n-1) : Closed(n, mba, S) /\ a \in S => b \in S
      BY <2>3 DEF Follows
    <3> HIDE DEF a, b
    <3>3. ASSUME NEW S \in SUBSET DOMAIN Flow(mba), mba[a].id \in S,
                 \A j \in S \cap J : Flow(mba)[j] \subseteq S
          PROVE  mba[b].id \in S
      <4> DEFINE X == {g \in 0..n-1 : mba[g].id \in S}
      <4>1. ASSUME NEW g \in X, mba[g].op = "goto" PROVE mba[g].refs[1] \in X
        <5> DEFINE t == mba[g].refs[1]
        <5>1. t \in 0..n-1 /\ mba[g].succ = <<t>>
          BY <1>1, <4>1, JumpIs
        <5>2. Flow(mba)[mba[g].id] = Ways(mba, mba[g].succ)
          <6>1. /\ DOMAIN Flow(mba) = {mba[y].id : y \in 0..n-1}
                /\ \A y \in 0..n-1 : Flow(mba)[mba[y].id] = Ways(mba, mba[y].succ)
                /\ Flow(mba) = [j \in DOMAIN Flow(mba) |-> Flow(mba)[j]]
            BY <1>1, FlowIs
          <6> QED BY <6>1
        <5> HIDE DEF t
        <5>3. Ways(mba, <<t>>) = {mba[t].id}
          BY WaysAre
        <5>4. mba[g].id \in S \cap J
          BY <4>1 DEF Id
        <5>5. mba[t].id \in S
          BY <3>3, <5>1, <5>2, <5>3, <5>4
        <5> QED BY <5>1, <5>5 DEF t
      <4>2. Closed(n, mba, X) /\ X \in SUBSET (0..n-1) /\ a \in X
        BY <3>1, <3>3, <4>1 DEF Closed
      <4>3. b \in X
        <5> HIDE DEF X
        <5> QED BY <3>2, <4>2
      <4> QED BY <4>3
    <3> HIDE DEF J
    <3> QED BY <3>3 DEF Leads, a, b
  <2> HIDE DEF J
  <2> QED BY <1>1, <2>1, <2>3, <2>4, <2>5, DidShorten
<1> QED BY <1>3, <1>4

LEMMA NextPerforms ==
  ASSUME Held, Next
  PROVE  Promise!Performed
<1>1. PICK n : At(n)
  BY DEF Next, Held, Refused, IInv, At
<1>2. CASE EnsureLastBlockIsGoto
  BY <1>1, <1>2, EnsureLastBlockIsGotoDid
<1>3. CASE RemoveSimpleGotos
  BY <1>1, <1>3, RemoveSimpleGotosDid
<1>4. CASE \E s \in Inner : InsertBlock(s) \/ InsertEnd(s) \/ Duplicate(s) \/ Terminal(s)
  BY <1>1, <1>4, InsertBlockDid, InsertEndDid, DuplicateDid, TerminalDid
<1>5. ASSUME NEW s \in Inner, NEW t \in Targets,
             \/ RedirectGoto(s, t)
             \/ RedirectEnd(s, t)
             \/ RedirectBranch(s, t)
             \/ ConvertToGoto(s, t)
             \/ DropEdge(s, t)
             \/ Standalone(s, t)
             \/ EnsureFather(s, t)
             \/ CollapseSwitch(s, t)
      PROVE  Promise!Performed
  BY <1>1, <1>5, RedirectGotoDid, RedirectEndDid, RedirectBranchDid, ConvertToGotoDid,
     DropEdgeDid, StandaloneDid, EnsureFatherDid, CollapseSwitchDid
<1>6. ASSUME NEW s \in Inner, NEW t \in Targets, NEW old \in Targets, RouteCases(s, old, t)
      PROVE  Promise!Performed
  BY <1>1, <1>6, RouteCasesDid
<1> QED BY <1>2, <1>3, <1>4, <1>5, <1>6 DEF Next, Edit

LEMMA PerformedIs ==
  ASSUME Held, [Next]_vars
  PROVE  [Promise!Next]_<<Flow(mba), edit>>
<1>1. CASE UNCHANGED vars
  BY <1>1 DEF vars
<1>2. CASE Next
  BY <1>2, NextPerforms DEF Promise!Next, Next
<1> QED BY <1>1, <1>2

(* Whatever graph and edits, each edit that raises nothing does to the flow,   *)
(* by identity, what it says, and nothing to that of any other block: the      *)
(* array of blocks under the edits of cfg_mutations.py implements FlowEdits.   *)
THEOREM EditsDoWhatTheySayAlways == Spec => EditsDoWhatTheySay
<1>1. Init => Promise!Init
  BY DEF Init, Promise!Init
<1>2. Held /\ [Next]_vars => [Promise!Next]_<<Flow(mba), edit>>
  BY PerformedIs
<1> QED BY <1>1, <1>2, HeldAlways, PTL DEF Spec, EditsDoWhatTheySay, Promise!Spec

===============================================================================
