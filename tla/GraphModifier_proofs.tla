------------------------- MODULE GraphModifier_proofs -------------------------
(***************************************************************************)
(* What holds of a batch of any length on any graph the decompiler makes:  *)
(* types, that control goes where it went at the start but for the edits   *)
(* counted, and what a graph restored from the snapshot is.  All of it is  *)
(* about plans without the two edits that lose their edge to the exit.     *)
(***************************************************************************)
EXTENDS GraphModifier, FiniteSetTheorems, WellFoundedInduction, TLAPS

-------------------------------------------------------------------------------
(* Numbers and sequences *)

LEMMA Smallest ==
  ASSUME NEW S \in SUBSET Nat, S # {}
  PROVE  \E x \in S : \A y \in S : x <= y
<1>1. PICK x \in S : \A y \in S : ~(<<y, x>> \in OpToRel(<, Nat))
  BY NatLessThanWellFounded, WFMin
<1>2. \A y \in S : ~(y < x)
  BY <1>1, Zenon DEF OpToRel
<1> QED BY <1>2

LEMMA Induction ==
  ASSUME NEW S, 0 \in S, \A k \in Nat : k \in S => k + 1 \in S
  PROVE  Nat \subseteq S
<1> SUFFICES ASSUME Nat \ S # {} PROVE FALSE
  OBVIOUS
<1>1. PICK x \in Nat \ S : \A y \in Nat \ S : x <= y
  BY Smallest
<1>2. x # 0 /\ x - 1 \in Nat
  BY <1>1
<1>3. x - 1 \in S
  BY <1>1, <1>2
<1> QED BY <1>1, <1>2, <1>3

LEMMA MinIs ==
  ASSUME NEW S \in SUBSET Nat, S # {}
  PROVE  Min(S) \in S /\ \A y \in S : Min(S) <= y
BY Smallest DEF Min

LEMMA Elements ==
  ASSUME NEW S, NEW s \in Seq(S)
  PROVE  ToSet(s) = {s[i] : i \in 1..Len(s)} /\ ToSet(s) \subseteq S
BY DEF ToSet

LEMMA ElementIn ==
  ASSUME NEW S, NEW s \in Seq(S), NEW i \in 1..Len(s)
  PROVE  s[i] \in S
OBVIOUS

LEMMA SequenceIs ==
  ASSUME NEW S, NEW n \in Nat, NEW r \in [1..n -> S]
  PROVE  r \in Seq(S) /\ Len(r) = n
OBVIOUS

LEMMA OneElement ==
  ASSUME NEW S, NEW a \in S
  PROVE  <<a>> \in Seq(S) /\ ToSet(<<a>>) = {a} /\ Len(<<a>>) = 1 /\ <<a>>[1] = a
BY DEF ToSet

LEMMA TwoElements ==
  ASSUME NEW S, NEW a \in S, NEW b \in S
  PROVE  /\ <<a, b>> \in Seq(S) /\ ToSet(<<a, b>>) = {a, b} /\ Len(<<a, b>>) = 2
         /\ <<a, b>>[1] = a /\ <<a, b>>[2] = b
<1> DEFINE s == <<a, b>>
<1>1. s \in Seq(S) /\ Len(s) = 2 /\ s[1] = a /\ s[2] = b
  OBVIOUS
<1> HIDE DEF s
<1>2. ToSet(s) = {s[i] : i \in 1..Len(s)}
  BY <1>1, Elements
<1>3. 1..Len(s) = {1, 2}
  BY <1>1
<1> QED BY <1>1, <1>2, <1>3 DEF s

LEMMA Pair ==
  \A a, b : ToSet(<<a, b>>) = {a, b} /\ Len(<<a, b>>) = 2 /\ <<a, b>>[1] = a /\ <<a, b>>[2] = b
<1> TAKE a, b
<1>1. a \in {a, b} /\ b \in {a, b}
  OBVIOUS
<1> QED BY <1>1, TwoElements

LEMMA LengthOne ==
  ASSUME NEW S, NEW s \in Seq(S), Len(s) = 1
  PROVE  s = <<s[1]>> /\ s[1] \in S
<1>1. s[1] \in S
  OBVIOUS
<1> DEFINE t == <<s[1]>>
<1>2. t \in Seq(S) /\ Len(t) = 1 /\ t[1] = s[1]
  BY <1>1
<1> HIDE DEF t
<1>3. s = t
  BY <1>2
<1> QED BY <1>1, <1>3 DEF t

LEMMA LengthTwo ==
  ASSUME NEW S, NEW s \in Seq(S), Len(s) = 2
  PROVE  s = <<s[1], s[2]>> /\ s[1] \in S /\ s[2] \in S
<1>1. s[1] \in S /\ s[2] \in S
  <2>1. 1 \in 1..Len(s) /\ 2 \in 1..Len(s)
    OBVIOUS
  <2>2. \A i \in 1..Len(s) : s[i] \in S
    OBVIOUS
  <2> QED BY <2>1, <2>2
<1>0. PICK a \in S, b \in S : a = s[1] /\ b = s[2]
  BY <1>1
<1> DEFINE t == <<a, b>>
<1>2. t \in Seq(S) /\ Len(t) = 2 /\ t[1] = s[1] /\ t[2] = s[2]
  BY <1>0, TwoElements
<1> HIDE DEF t
<1>3. \A i \in 1..2 : i = 1 \/ i = 2
  OBVIOUS
<1>4. s = t
  BY <1>2, <1>3
<1> QED BY <1>0, <1>1, <1>4 DEF t

LEMMA Appending ==
  ASSUME NEW S, NEW s \in Seq(S), NEW e \in S
  PROVE  /\ Append(s, e) \in Seq(S) /\ Len(Append(s, e)) = Len(s) + 1
         /\ \A i \in 1..Len(s) : Append(s, e)[i] = s[i]
         /\ Append(s, e)[Len(s) + 1] = e
         /\ ToSet(Append(s, e)) = ToSet(s) \cup {e}
<1> DEFINE r == Append(s, e)
<1>1. r \in Seq(S) /\ Len(r) = Len(s) + 1 /\ Len(s) \in Nat
  OBVIOUS
<1>2. (\A i \in 1..Len(s) : r[i] = s[i]) /\ r[Len(s) + 1] = e
  OBVIOUS
<1> HIDE DEF r
<1>3. ToSet(r) = {r[i] : i \in 1..Len(r)} /\ ToSet(s) = {s[i] : i \in 1..Len(s)}
  BY <1>1, Elements
<1>4. \A i \in 1..Len(r) : i \in 1..Len(s) \/ i = Len(s) + 1
  BY <1>1
<1>5. (\A i \in 1..Len(s) : i \in 1..Len(r)) /\ Len(s) + 1 \in 1..Len(r)
  BY <1>1
<1>6. ToSet(r) \subseteq ToSet(s) \cup {e}
  BY <1>2, <1>3, <1>4
<1>7. ToSet(s) \cup {e} \subseteq ToSet(r)
  BY <1>2, <1>3, <1>5
<1> QED BY <1>1, <1>2, <1>6, <1>7 DEF r

LEMMA Rest ==
  ASSUME NEW S, NEW s \in Seq(S), NEW i \in Nat, i <= Len(s)
  PROVE  /\ SubSeq(s, i + 1, Len(s)) \in Seq(S) /\ Len(SubSeq(s, i + 1, Len(s))) = Len(s) - i
         /\ \A j \in 1..Len(s)-i : SubSeq(s, i + 1, Len(s))[j] = s[j+i]
OBVIOUS

LEMMA AppendedOne ==
  ASSUME NEW S, NEW a \in S, NEW b \in S
  PROVE  Append(<<>>, b) = <<b>> /\ Append(<<a>>, b) = <<a, b>>
<1>1. Append(<<>>, b) = <<b>>
  OBVIOUS
<1> DEFINE s == <<a>>
           r == Append(s, b)
           t == <<a, b>>
<1>2. s \in Seq(S) /\ Len(s) = 1 /\ s[1] = a
  OBVIOUS
<1>3. t \in Seq(S) /\ Len(t) = 2 /\ t[1] = a /\ t[2] = b
  OBVIOUS
<1> HIDE DEF s
<1>4. r \in Seq(S) /\ Len(r) = 2 /\ r[1] = a /\ r[2] = b
  <2>1. 1 \in 1..Len(s) /\ Len(s) + 1 = 2
    BY <1>2
  <2>2. /\ Append(s, b) \in Seq(S) /\ Len(Append(s, b)) = Len(s) + 1
        /\ \A i \in 1..Len(s) : Append(s, b)[i] = s[i]
        /\ Append(s, b)[Len(s) + 1] = b
    <3>1. s \in Seq(S)
      BY <1>2
    <3> QED BY <3>1, Appending
  <2> HIDE DEF r
  <2>3. r \in Seq(S) /\ Len(r) = 2 /\ r[1] = s[1] /\ r[2] = b
    BY <2>1, <2>2 DEF r
  <2> QED BY <1>2, <2>3
<1> HIDE DEF r, t
<1>5. \A i \in 1..2 : i = 1 \/ i = 2
  OBVIOUS
<1>6. r = t
  BY <1>3, <1>4, <1>5
<1> QED BY <1>1, <1>6 DEF r, s, t

LEMMA JoinedOnes ==
  ASSUME NEW S, NEW a \in S, NEW b \in S
  PROVE  <<a>> \o <<b>> = <<a, b>>
<1> DEFINE u == <<a>>
           v == <<b>>
<1>1. u \in Seq(S) /\ Len(u) = 1 /\ u[1] = a /\ v \in Seq(S) /\ Len(v) = 1 /\ v[1] = b
  BY OneElement
<1> HIDE DEF u, v
<1>2. u \o v \in Seq(S) /\ Len(u \o v) = 2 /\ (u \o v)[1] = a /\ (u \o v)[2] = b
  <2>1. u \o v \in Seq(S) /\ Len(u \o v) = Len(u) + Len(v)
    <3>1. u \in Seq(S) /\ v \in Seq(S)
      BY <1>1
    <3> QED BY <3>1
  <2>2. \A i \in 1..Len(u) : (u \o v)[i] = u[i]
    BY <1>1
  <2>3. \A i \in 1..Len(u) + Len(v) : i > Len(u) => (u \o v)[i] = v[i - Len(u)]
    BY <1>1
  <2>4. 1 \in 1..Len(u) /\ 2 \in 1..Len(u)+Len(v) /\ 2 > Len(u) /\ 2 - Len(u) = 1
    BY <1>1
  <2>5. (u \o v)[1] = u[1]
    BY <2>2, <2>4
  <2>6. (u \o v)[2] = v[2 - Len(u)]
    BY <2>3, <2>4
  <2> QED BY <1>1, <2>1, <2>4, <2>5, <2>6
<1> DEFINE w == u \o v
<1>3. w \in Seq(S) /\ Len(w) = 2 /\ w[1] = a /\ w[2] = b
  BY <1>2
<1> HIDE DEF w
<1>4. w = <<a, b>>
  BY <1>3, LengthTwo
<1> QED BY <1>4 DEF w, u, v

(* A sequence r that is s without an element at its first place.              *)
FirstTaken(S, s, e, r) ==
  \/ r = s /\ e \notin ToSet(s)
  \/ \E at \in 1..Len(s) :
       /\ s[at] = e /\ \A i \in 1..at-1 : s[i] # e
       /\ r \in Seq(S) /\ Len(r) = Len(s) - 1
       /\ \A i \in 1..Len(r) : r[i] = IF i < at THEN s[i] ELSE s[i + 1]

LEMMA Removing ==
  ASSUME NEW S, NEW s \in Seq(S), NEW e
  PROVE  FirstTaken(S, s, e, RemoveFirst(s, e))
<1> DEFINE r == RemoveFirst(s, e)
<1>1. CASE e \notin ToSet(s)
  <2>1. ToSet(s) = {s[i] : i \in 1..Len(s)}
    BY Elements
  <2>2. r = s
    BY <1>1, <2>1 DEF RemoveFirst
  <2> HIDE DEF r
  <2>3. FirstTaken(S, s, e, r)
    BY <1>1, <2>2 DEF FirstTaken
  <2> QED BY <2>3 DEF r
<1>2. CASE e \in ToSet(s)
  <2> DEFINE I == {i \in 1..Len(s) : s[i] = e}
             at == SelectInSeq(s, LAMBDA x : x = e)
             front == SubSeq(s, 1, at - 1)
             back == SubSeq(s, at + 1, Len(s))
  <2>1. I \in SUBSET Nat /\ I # {}
    BY <1>2, Elements
  <2>2. at = Min(I)
    BY <2>1 DEF SelectInSeq
  <2>3. at \in I /\ \A y \in I : at <= y
    <3> HIDE DEF I
    <3> QED BY <2>1, <2>2, MinIs
  <2> HIDE DEF at
  <2>4. at \in 1..Len(s) /\ s[at] = e /\ \A i \in 1..at-1 : s[i] # e
    BY <2>3
  <2>5. r = front \o back
    <3>1. \E i \in 1..Len(s) : s[i] = e
      BY <2>4
    <3>2. r = RemoveAt(s, at)
      BY <3>1 DEF RemoveFirst, at
    <3> QED BY <3>2 DEF RemoveAt
  <2>6. /\ front \in Seq(S) /\ Len(front) = at - 1 /\ \A i \in 1..at-1 : front[i] = s[i]
        /\ back \in Seq(S) /\ Len(back) = Len(s) - at
        /\ \A i \in 1..Len(s) - at : back[i] = s[i + at]
    BY <2>4
  <2> HIDE DEF r, front, back
  <2>7. Len(front \o back) = Len(s) - 1 /\ front \o back \in Seq(S)
    <3>0. front \in Seq(S) /\ back \in Seq(S)
      BY <2>6
    <3>1. Len(front \o back) = Len(front) + Len(back) /\ front \o back \in Seq(S)
      BY <3>0
    <3> QED BY <2>4, <2>6, <3>1
  <2>8. \A i \in 1..at-1 : (front \o back)[i] = s[i]
    BY <2>4, <2>6
  <2>9. ASSUME NEW i \in at..Len(s)-1
        PROVE  (front \o back)[i] = s[i + 1]
    <3>1. i - Len(front) \in 1..Len(back) /\ (i - Len(front)) + at = i + 1
      BY <2>4, <2>6
    <3>2. (front \o back)[i] = back[i - Len(front)]
      BY <2>4, <2>6, <3>1
    <3> QED BY <2>6, <3>1, <3>2
  <2>10. \A i \in 1..Len(r) : r[i] = IF i < at THEN s[i] ELSE s[i + 1]
    <3> SUFFICES ASSUME NEW i \in 1..Len(r) PROVE r[i] = IF i < at THEN s[i] ELSE s[i + 1]
      OBVIOUS
    <3>1. i \in 1..at-1 \/ i \in at..Len(s)-1
      BY <2>4, <2>5, <2>7
    <3>2. CASE i \in 1..at-1
      <4>1. i < at /\ r[i] = s[i]
        BY <2>4, <2>5, <2>8, <3>2
      <4> QED BY <4>1
    <3>3. CASE i \in at..Len(s)-1
      <4>1. ~(i < at) /\ r[i] = s[i + 1]
        BY <2>4, <2>5, <2>9, <3>3
      <4> QED BY <4>1
    <3> QED BY <3>1, <3>2, <3>3
  <2>11. r \in Seq(S) /\ Len(r) = Len(s) - 1
    BY <2>5, <2>7
  <2>12. \E a \in 1..Len(s) :
           /\ s[a] = e /\ \A i \in 1..a-1 : s[i] # e
           /\ r \in Seq(S) /\ Len(r) = Len(s) - 1
           /\ \A i \in 1..Len(r) : r[i] = IF i < a THEN s[i] ELSE s[i + 1]
    BY <2>4, <2>10, <2>11
  <2>13. FirstTaken(S, s, e, r)
    BY <2>12 DEF FirstTaken
  <2> QED BY <2>13 DEF r
<1> QED BY <1>1, <1>2

LEMMA RemovedTyped ==
  ASSUME NEW S, NEW s \in Seq(S), NEW e
  PROVE  /\ RemoveFirst(s, e) \in Seq(S)
         /\ ToSet(s) \ {e} \subseteq ToSet(RemoveFirst(s, e))
         /\ ToSet(RemoveFirst(s, e)) \subseteq ToSet(s)
<1> DEFINE r == RemoveFirst(s, e)
<1>1. CASE r = s
  BY <1>1
<1>2. ASSUME NEW at \in 1..Len(s), s[at] = e,
             r \in Seq(S), Len(r) = Len(s) - 1,
             \A i \in 1..Len(r) : r[i] = IF i < at THEN s[i] ELSE s[i + 1]
      PROVE  /\ r \in Seq(S) /\ ToSet(s) \ {e} \subseteq ToSet(r)
             /\ ToSet(r) \subseteq ToSet(s)
  <2> HIDE DEF r
  <2>1. ToSet(r) = {r[i] : i \in 1..Len(r)} /\ ToSet(s) = {s[i] : i \in 1..Len(s)}
    BY <1>2, Elements
  <2>2. \A i \in 1..Len(r) : r[i] \in ToSet(s)
    BY <1>2, <2>1
  <2>3. ASSUME NEW i \in 1..Len(s), s[i] # e
        PROVE  s[i] \in ToSet(r)
    <3>1. CASE i < at
      <4>1. i \in 1..Len(r) /\ r[i] = s[i]
        BY <1>2, <3>1
      <4> QED BY <2>1, <4>1
    <3>2. CASE i > at
      <4>1. i - 1 \in 1..Len(r) /\ ~(i - 1 < at) /\ (i - 1) + 1 = i
        BY <1>2, <3>2
      <4>2. r[i - 1] = s[i]
        BY <1>2, <4>1
      <4> QED BY <2>1, <4>1, <4>2
    <3> QED BY <1>2, <2>3, <3>1, <3>2
  <2> QED BY <1>2, <2>1, <2>2, <2>3
<1> HIDE DEF r
<1>3. \/ r = s
      \/ \E at \in 1..Len(s) :
           /\ s[at] = e
           /\ r \in Seq(S) /\ Len(r) = Len(s) - 1
           /\ \A i \in 1..Len(r) : r[i] = IF i < at THEN s[i] ELSE s[i + 1]
  <2>1. FirstTaken(S, s, e, r)
    BY Removing DEF r
  <2> QED BY <2>1 DEF FirstTaken
<1> QED BY <1>1, <1>2, <1>3 DEF r

LEMMA RemovedOnly ==
  ASSUME NEW S, NEW a \in S
  PROVE  RemoveFirst(<<a>>, a) = <<>>
<1> DEFINE s == <<a>>
           r == RemoveFirst(s, a)
<1>1. s \in Seq(S) /\ Len(s) = 1 /\ a \in ToSet(s)
  BY OneElement
<1> HIDE DEF s
<1>2. r \in Seq(S) /\ Len(r) = 0
  <2>1. FirstTaken(S, s, a, r)
    BY <1>1, Removing
  <2> HIDE DEF r
  <2> QED BY <1>1, <2>1 DEF FirstTaken
<1> QED BY <1>2 DEF r, s

(* A pair without one of its elements.                                        *)
LEMMA RemovedFromPair ==
  ASSUME NEW S, NEW a \in S, NEW b \in S
  PROVE  /\ RemoveFirst(<<a, b>>, a) = <<b>>
         /\ RemoveFirst(<<b, a>>, a) = <<b>>
<1> DEFINE Lone(s) == /\ s \in Seq(S) /\ Len(s) = 2
                      /\ \/ s[1] = a /\ s[2] = b
                         \/ s[1] = b /\ s[2] = a
<1>1. ASSUME NEW s, Lone(s) PROVE RemoveFirst(s, a) = <<b>>
  <2> DEFINE r == RemoveFirst(s, a)
  <2>1. a \in ToSet(s)
    BY <1>1, Elements
  <2> HIDE DEF r
  <2>2. PICK at \in 1..Len(s) :
           /\ s[at] = a /\ \A i \in 1..at-1 : s[i] # a
           /\ r \in Seq(S) /\ Len(r) = Len(s) - 1
           /\ \A i \in 1..Len(r) : r[i] = IF i < at THEN s[i] ELSE s[i + 1]
    <3>1. s \in Seq(S)
      BY <1>1
    <3>2. FirstTaken(S, s, a, r)
      BY <3>1, Removing DEF r
    <3> QED BY <2>1, <3>2 DEF FirstTaken
  <2>3. Len(r) = 1 /\ r[1] = b
    <3>1. at = 1 \/ at = 2
      BY <1>1
    <3>2. CASE at = 1
      <4>1. s[2] = b
        BY <1>1, <2>2, <3>2
      <4> QED BY <1>1, <2>2, <3>2, <4>1
    <3>3. CASE at = 2
      <4>1. s[1] # a /\ 1 \in 1..at-1
        BY <2>2, <3>3
      <4> QED BY <1>1, <2>2, <3>3, <4>1
    <3> QED BY <3>1, <3>2, <3>3
  <2>4. r = <<b>>
    BY <2>2, <2>3
  <2> QED BY <2>4 DEF r
<1>2. Lone(<<a, b>>) /\ Lone(<<b, a>>)
  OBVIOUS
<1> HIDE DEF Lone
<1> QED BY <1>1, <1>2

-------------------------------------------------------------------------------
(* The statements of the edits, what they note as predecessors left out        *)

Sequences == Seq(0..MaxBlocks-1)

Array(q, m) == q \in 2..MaxBlocks /\ m \in [0..q-1 -> Blocks(MaxBlocks)]

SameTail(a, b) ==
  a.id = b.id /\ a.op = b.op /\ a.type = b.type /\ a.refs = b.refs /\ a.succ = b.succ

(* In the course of an edit of the block s of the array k, which is now m.     *)
Now(q, k, m, s, op, type, refs, succ) ==
  /\ Array(q, m) /\ s \in 0..q-1
  /\ \A x \in 0..q-1 : x # s => SameTail(m[x], k[x])
  /\ m[s].id = k[s].id /\ m[s].op = op /\ m[s].type = type
  /\ m[s].refs = refs /\ m[s].succ = succ

Record(id, op, type, refs, succ, pred) ==
  [id |-> id, type |-> type, op |-> op, refs |-> refs, succ |-> succ, pred |-> pred]

LEMMA Bound == MaxBlocks \in Nat /\ MaxPlan \in Nat
BY GraphModifierConstants

LEMMA BlockIs ==
  ASSUME NEW q, NEW m, Array(q, m), NEW x \in 0..q-1
  PROVE  /\ m[x] = Record(m[x].id, m[x].op, m[x].type, m[x].refs, m[x].succ, m[x].pred)
         /\ m[x].id \in Nat /\ m[x].type \in Types /\ m[x].op \in Opcodes
         /\ m[x].refs \in Sequences /\ m[x].succ \in Sequences /\ m[x].pred \in Sequences
<1>1. m[x] \in Blocks(MaxBlocks)
  BY DEF Array
<1> QED BY <1>1 DEF Blocks, Record, Sequences

LEMMA RecordIs ==
  ASSUME NEW id \in Nat, NEW op \in Opcodes, NEW type \in Types,
         NEW refs \in Sequences, NEW succ \in Sequences, NEW pred \in Sequences
  PROVE  LET b == Record(id, op, type, refs, succ, pred)
         IN  /\ b \in Blocks(MaxBlocks)
             /\ b.id = id /\ b.op = op /\ b.type = type
             /\ b.refs = refs /\ b.succ = succ /\ b.pred = pred
BY DEF Record, Blocks, Sequences

LEMMA ArrayIs ==
  ASSUME NEW q, NEW m, Array(q, m)
  PROVE  /\ q \in Nat /\ q >= 2 /\ q <= MaxBlocks /\ m \in [0..q-1 -> Blocks(MaxBlocks)]
         /\ DOMAIN m = 0..q-1 /\ Qty(m) = q /\ ExitSerial(m) = q - 1
         /\ \A t : Missing(m, t) <=> t \notin 0..q-1
<1>1. q \in Nat /\ q >= 2 /\ q <= MaxBlocks /\ DOMAIN m = 0..q-1
  BY Bound DEF Array
<1>2. Cardinality(0..q-1) = q
  <2>1. 0 \in Int /\ q - 1 \in Int /\ 0 <= q - 1
    BY <1>1
  <2>2. Cardinality(0..q-1) = (q - 1) - 0 + 1
    BY <1>1, FS_Interval
  <2> QED BY <1>1, <2>2
<1> QED BY <1>1, <1>2 DEF Array, Qty, ExitSerial, Missing

LEMMA NowBegins ==
  ASSUME NEW q, NEW m, Array(q, m), NEW s \in 0..q-1
  PROVE  Now(q, m, m, s, m[s].op, m[s].type, m[s].refs, m[s].succ)
BY DEF Now, SameTail

LEMMA NowTyped ==
  ASSUME NEW q, NEW k, NEW m, NEW s, NEW op, NEW type, NEW refs, NEW succ,
         Now(q, k, m, s, op, type, refs, succ)
  PROVE  /\ m[s] = Record(m[s].id, op, type, refs, succ, m[s].pred)
         /\ m[s].id \in Nat /\ type \in Types /\ op \in Opcodes
         /\ refs \in Sequences /\ succ \in Sequences /\ m[s].pred \in Sequences
         /\ s \in 0..q-1 /\ Array(q, m) /\ m \in [0..q-1 -> Blocks(MaxBlocks)]
<1>1. /\ Array(q, m) /\ s \in 0..q-1
      /\ m[s].op = op /\ m[s].type = type /\ m[s].refs = refs /\ m[s].succ = succ
  BY DEF Now
<1>2. /\ m[s] = Record(m[s].id, m[s].op, m[s].type, m[s].refs, m[s].succ, m[s].pred)
      /\ m[s].id \in Nat /\ m[s].type \in Types /\ m[s].op \in Opcodes
      /\ m[s].refs \in Sequences /\ m[s].succ \in Sequences /\ m[s].pred \in Sequences
  BY <1>1, BlockIs
<1>3. m \in [0..q-1 -> Blocks(MaxBlocks)]
  BY <1>1 DEF Array
<1> QED BY <1>1, <1>2, <1>3

(* Only the block's own fields change.                                         *)
LEMMA NowSets ==
  ASSUME NEW q, NEW k, NEW m, NEW s, NEW op, NEW type, NEW refs, NEW succ,
         Now(q, k, m, s, op, type, refs, succ),
         NEW op2 \in Opcodes, NEW type2 \in Types, NEW refs2 \in Sequences,
         NEW succ2 \in Sequences, NEW pred2 \in Sequences, NEW m2,
         m2 = [m EXCEPT ![s] = Record(m[s].id, op2, type2, refs2, succ2, pred2)]
  PROVE  Now(q, k, m2, s, op2, type2, refs2, succ2)
<1>1. /\ m[s].id \in Nat /\ s \in 0..q-1 /\ m \in [0..q-1 -> Blocks(MaxBlocks)] /\ Array(q, m)
  BY NowTyped
<1>2. /\ \A x \in 0..q-1 : x # s => SameTail(m[x], k[x])
      /\ m[s].id = k[s].id
  BY DEF Now
<1> DEFINE b == Record(m[s].id, op2, type2, refs2, succ2, pred2)
<1>3. /\ b \in Blocks(MaxBlocks) /\ b.id = m[s].id /\ b.op = op2 /\ b.type = type2
      /\ b.refs = refs2 /\ b.succ = succ2
  BY <1>1, RecordIs
<1>4. m2 = [m EXCEPT ![s] = b]
  OBVIOUS
<1> HIDE DEF b
<1>5. m2 \in [0..q-1 -> Blocks(MaxBlocks)] /\ m2[s] = b /\ \A x \in 0..q-1 : x # s => m2[x] = m[x]
  BY <1>1, <1>3, <1>4
<1>6. Array(q, m2)
  BY <1>1, <1>5 DEF Array
<1> QED BY <1>1, <1>2, <1>3, <1>5, <1>6 DEF Now

LEMMA NowOp ==
  ASSUME NEW q, NEW k, NEW m, NEW s, NEW op, NEW type, NEW refs, NEW succ,
         Now(q, k, m, s, op, type, refs, succ), NEW o \in Opcodes
  PROVE  Now(q, k, [m EXCEPT ![s].op = o], s, o, type, refs, succ)
<1>1. /\ m[s] = Record(m[s].id, op, type, refs, succ, m[s].pred)
      /\ type \in Types /\ refs \in Sequences /\ succ \in Sequences /\ m[s].pred \in Sequences
      /\ s \in 0..q-1 /\ m \in [0..q-1 -> Blocks(MaxBlocks)]
  BY NowTyped
<1> DEFINE i == m[s].id
           p == m[s].pred
           b == Record(i, o, type, refs, succ, p)
<1>2. m[s] = Record(i, op, type, refs, succ, p)
  BY <1>1
<1>3. [m[s] EXCEPT !.op = o] = b
  <2> HIDE DEF i, p
  <2>1. [Record(i, op, type, refs, succ, p) EXCEPT !.op = o] = b
    BY DEF Record
  <2> QED BY <1>2, <2>1
<1> HIDE DEF b
<1>4. [m EXCEPT ![s].op = o] = [m EXCEPT ![s] = b]
  BY <1>1, <1>3
<1> QED BY <1>1, <1>4, NowSets DEF b

LEMMA NowType ==
  ASSUME NEW q, NEW k, NEW m, NEW s, NEW op, NEW type, NEW refs, NEW succ,
         Now(q, k, m, s, op, type, refs, succ), NEW y \in Types
  PROVE  Now(q, k, [m EXCEPT ![s].type = y], s, op, y, refs, succ)
<1>1. /\ m[s] = Record(m[s].id, op, type, refs, succ, m[s].pred)
      /\ op \in Opcodes /\ refs \in Sequences /\ succ \in Sequences /\ m[s].pred \in Sequences
      /\ s \in 0..q-1 /\ m \in [0..q-1 -> Blocks(MaxBlocks)]
  BY NowTyped
<1> DEFINE i == m[s].id
           p == m[s].pred
           b == Record(i, op, y, refs, succ, p)
<1>2. m[s] = Record(i, op, type, refs, succ, p)
  BY <1>1
<1>3. [m[s] EXCEPT !.type = y] = b
  <2> HIDE DEF i, p
  <2>1. [Record(i, op, type, refs, succ, p) EXCEPT !.type = y] = b
    BY DEF Record
  <2> QED BY <1>2, <2>1
<1> HIDE DEF b
<1>4. [m EXCEPT ![s].type = y] = [m EXCEPT ![s] = b]
  BY <1>1, <1>3
<1> QED BY <1>1, <1>4, NowSets DEF b

LEMMA NowRefs ==
  ASSUME NEW q, NEW k, NEW m, NEW s, NEW op, NEW type, NEW refs, NEW succ,
         Now(q, k, m, s, op, type, refs, succ), NEW r \in Sequences
  PROVE  Now(q, k, [m EXCEPT ![s].refs = r], s, op, type, r, succ)
<1>1. /\ m[s] = Record(m[s].id, op, type, refs, succ, m[s].pred)
      /\ op \in Opcodes /\ type \in Types /\ succ \in Sequences /\ m[s].pred \in Sequences
      /\ s \in 0..q-1 /\ m \in [0..q-1 -> Blocks(MaxBlocks)]
  BY NowTyped
<1> DEFINE i == m[s].id
           p == m[s].pred
           b == Record(i, op, type, r, succ, p)
<1>2. m[s] = Record(i, op, type, refs, succ, p)
  BY <1>1
<1>3. [m[s] EXCEPT !.refs = r] = b
  <2> HIDE DEF i, p
  <2>1. [Record(i, op, type, refs, succ, p) EXCEPT !.refs = r] = b
    BY DEF Record
  <2> QED BY <1>2, <2>1
<1> HIDE DEF b
<1>4. [m EXCEPT ![s].refs = r] = [m EXCEPT ![s] = b]
  BY <1>1, <1>3
<1> QED BY <1>1, <1>4, NowSets DEF b

LEMMA NowSucc ==
  ASSUME NEW q, NEW k, NEW m, NEW s, NEW op, NEW type, NEW refs, NEW succ,
         Now(q, k, m, s, op, type, refs, succ), NEW r \in Sequences
  PROVE  Now(q, k, [m EXCEPT ![s].succ = r], s, op, type, refs, r)
<1>1. /\ m[s] = Record(m[s].id, op, type, refs, succ, m[s].pred)
      /\ op \in Opcodes /\ type \in Types /\ refs \in Sequences /\ m[s].pred \in Sequences
      /\ s \in 0..q-1 /\ m \in [0..q-1 -> Blocks(MaxBlocks)]
  BY NowTyped
<1> DEFINE i == m[s].id
           p == m[s].pred
           b == Record(i, op, type, refs, r, p)
<1>2. m[s] = Record(i, op, type, refs, succ, p)
  BY <1>1
<1>3. [m[s] EXCEPT !.succ = r] = b
  <2> HIDE DEF i, p
  <2>1. [Record(i, op, type, refs, succ, p) EXCEPT !.succ = r] = b
    BY DEF Record
  <2> QED BY <1>2, <2>1
<1> HIDE DEF b
<1>4. [m EXCEPT ![s].succ = r] = [m EXCEPT ![s] = b]
  BY <1>1, <1>3
<1> QED BY <1>1, <1>4, NowSets DEF b

(* What the predecessors of a block are does not matter, nor whether it is     *)
(* there.                                                                      *)
LEMMA NowNotes ==
  ASSUME NEW q, NEW k, NEW m, NEW s, NEW op, NEW type, NEW refs, NEW succ,
         Now(q, k, m, s, op, type, refs, succ), NEW t, NEW p,
         t \in 0..q-1 => p \in Sequences
  PROVE  Now(q, k, [m EXCEPT ![t].pred = p], s, op, type, refs, succ)
<1>1. /\ s \in 0..q-1 /\ m \in [0..q-1 -> Blocks(MaxBlocks)] /\ Array(q, m)
  BY NowTyped
<1>2. /\ \A x \in 0..q-1 : x # s => SameTail(m[x], k[x])
      /\ m[s].id = k[s].id /\ m[s].op = op /\ m[s].type = type
      /\ m[s].refs = refs /\ m[s].succ = succ
  BY DEF Now
<1> DEFINE m2 == [m EXCEPT ![t].pred = p]
<1>3. CASE t \notin 0..q-1
  <2>1. m2 = m
    BY <1>1, <1>3
  <2> QED BY <2>1
<1>4. CASE t \in 0..q-1
  <2>1. /\ m[t] = Record(m[t].id, m[t].op, m[t].type, m[t].refs, m[t].succ, m[t].pred)
        /\ m[t].id \in Nat /\ m[t].type \in Types /\ m[t].op \in Opcodes
        /\ m[t].refs \in Sequences /\ m[t].succ \in Sequences
    BY <1>1, <1>4, BlockIs
  <2> DEFINE b == Record(m[t].id, m[t].op, m[t].type, m[t].refs, m[t].succ, p)
  <2>2. /\ b \in Blocks(MaxBlocks) /\ b.id = m[t].id /\ b.op = m[t].op /\ b.type = m[t].type
        /\ b.refs = m[t].refs /\ b.succ = m[t].succ
    BY <1>4, <2>1, RecordIs
  <2>3. [m[t] EXCEPT !.pred = p] = b
    <3>1. \A i, o, y, r, u, e : [Record(i, o, y, r, u, e) EXCEPT !.pred = p] = Record(i, o, y, r, u, p)
      BY DEF Record
    <3> QED BY <2>1, <3>1
  <2> HIDE DEF b
  <2>4. m2 = [m EXCEPT ![t] = b]
    BY <1>1, <1>4, <2>3
  <2> HIDE DEF m2
  <2>5. m2 \in [0..q-1 -> Blocks(MaxBlocks)] /\ m2[t] = b /\ \A x \in 0..q-1 : x # t => m2[x] = m[x]
    BY <1>1, <1>4, <2>2, <2>4
  <2>6. \A x \in 0..q-1 : SameTail(m2[x], m[x])
    BY <2>2, <2>5 DEF SameTail
  <2>7. Array(q, m2)
    BY <1>1, <2>5 DEF Array
  <2>8. Now(q, k, m2, s, op, type, refs, succ)
    BY <1>1, <1>2, <2>6, <2>7 DEF Now, SameTail
  <2> QED BY <2>8 DEF m2
<1> QED BY <1>3, <1>4

LEMMA NowAddPred ==
  ASSUME NEW q, NEW k, NEW m, NEW s, NEW op, NEW type, NEW refs, NEW succ,
         Now(q, k, m, s, op, type, refs, succ), NEW t
  PROVE  Now(q, k, AddPred(m, t, s), s, op, type, refs, succ)
<1>1. Array(q, m) /\ s \in 0..q-1
  BY NowTyped
<1> DEFINE p == Append(m[t].pred, s)
<1>2. CASE t \in 0..q-1
  <2>1. m[t].pred \in Sequences /\ s \in 0..MaxBlocks-1
    <3>1. q \in Nat /\ q <= MaxBlocks /\ MaxBlocks \in Nat
      BY <1>1, ArrayIs, Bound
    <3> QED BY <1>1, <1>2, <3>1, BlockIs
  <2>2. p \in Sequences
    BY <2>1 DEF Sequences
  <2>3. AddPred(m, t, s) = [m EXCEPT ![t].pred = p]
    BY <1>1, <1>2, ArrayIs DEF AddPred
  <2> HIDE DEF p
  <2>4. Now(q, k, [m EXCEPT ![t].pred = p], s, op, type, refs, succ)
    BY <2>2, NowNotes
  <2> QED BY <2>3, <2>4
<1>3. CASE t \notin 0..q-1
  <2>1. AddPred(m, t, s) = m
    BY <1>1, <1>3, ArrayIs DEF AddPred
  <2> QED BY <2>1
<1> QED BY <1>2, <1>3

LEMMA NowAddPredOnce ==
  ASSUME NEW q, NEW k, NEW m, NEW s, NEW op, NEW type, NEW refs, NEW succ,
         Now(q, k, m, s, op, type, refs, succ), NEW t
  PROVE  Now(q, k, AddPredOnce(m, t, s), s, op, type, refs, succ)
<1>1. AddPredOnce(m, t, s) = m \/ AddPredOnce(m, t, s) = AddPred(m, t, s)
  BY DEF AddPredOnce
<1> QED BY <1>1, NowAddPred

LEMMA NowDelPred ==
  ASSUME NEW q, NEW k, NEW m, NEW s, NEW op, NEW type, NEW refs, NEW succ,
         Now(q, k, m, s, op, type, refs, succ), NEW t
  PROVE  Now(q, k, DelPred(m, t, s), s, op, type, refs, succ)
<1> DEFINE p == RemoveFirst(m[t].pred, s)
<1>1. t \in 0..q-1 => p \in Sequences
  <2> SUFFICES ASSUME t \in 0..q-1 PROVE p \in Sequences
    OBVIOUS
  <2>1. m[t].pred \in Sequences
    BY NowTyped, BlockIs
  <2> QED BY <2>1, RemovedTyped DEF Sequences
<1>2. DelPred(m, t, s) = [m EXCEPT ![t].pred = p]
  BY DEF DelPred
<1> HIDE DEF p
<1>3. Now(q, k, [m EXCEPT ![t].pred = p], s, op, type, refs, succ)
  BY <1>1, NowNotes
<1> QED BY <1>2, <1>3

LEMMA NowDelSucc ==
  ASSUME NEW q, NEW k, NEW m, NEW s, NEW op, NEW type, NEW refs, NEW succ,
         Now(q, k, m, s, op, type, refs, succ), NEW t
  PROVE  Now(q, k, DelSucc(m, s, t), s, op, type, refs, RemoveFirst(succ, t))
<1> DEFINE r == RemoveFirst(succ, t)
<1>1. m[s].succ = succ
  BY DEF Now
<1>2. r \in Sequences
  <2>1. succ \in Sequences
    BY NowTyped
  <2> QED BY <2>1, RemovedTyped DEF Sequences
<1>3. DelSucc(m, s, t) = [m EXCEPT ![s].succ = r]
  BY <1>1 DEF DelSucc
<1> HIDE DEF r
<1>4. Now(q, k, [m EXCEPT ![s].succ = r], s, op, type, refs, r)
  BY <1>2, NowSucc
<1> QED BY <1>3, <1>4 DEF r

LEMMA NowAddSucc ==
  ASSUME NEW q, NEW k, NEW m, NEW s, NEW op, NEW type, NEW refs, NEW succ,
         Now(q, k, m, s, op, type, refs, succ), NEW t \in 0..MaxBlocks-1
  PROVE  Now(q, k, AddSucc(m, s, t), s, op, type, refs, Append(succ, t))
<1> DEFINE r == Append(succ, t)
<1>1. m[s].succ = succ
  BY DEF Now
<1>2. r \in Sequences
  <2>1. succ \in Sequences
    BY NowTyped
  <2> QED BY <2>1 DEF Sequences
<1>3. AddSucc(m, s, t) = [m EXCEPT ![s].succ = r]
  BY <1>1 DEF AddSucc
<1> HIDE DEF r
<1>4. Now(q, k, [m EXCEPT ![s].succ = r], s, op, type, refs, r)
  BY <1>2, NowSucc
<1> QED BY <1>3, <1>4 DEF r

LEMMA NowLink ==
  ASSUME NEW q, NEW k, NEW m, NEW s, NEW op, NEW type, NEW refs, NEW succ,
         Now(q, k, m, s, op, type, refs, succ), NEW t \in 0..MaxBlocks-1
  PROVE  Now(q, k, Link(m, s, t), s, op, type, refs, Append(succ, t))
<1> DEFINE m2 == AddSucc(m, s, t)
           r == Append(succ, t)
<1>1. Now(q, k, m2, s, op, type, refs, r)
  BY NowAddSucc
<1> HIDE DEF m2, r
<1>2. Now(q, k, AddPred(m2, t, s), s, op, type, refs, r)
  BY <1>1, NowAddPred
<1> QED BY <1>2 DEF Link, m2, r

LEMMA NowAddEdge ==
  ASSUME NEW q, NEW k, NEW m, NEW s, NEW op, NEW type, NEW refs, NEW succ,
         Now(q, k, m, s, op, type, refs, succ), NEW t \in 0..MaxBlocks-1
  PROVE  Now(q, k, AddEdge(m, s, t), s, op, type, refs, Append(succ, t))
<1> DEFINE m2 == AddSucc(m, s, t)
           r == Append(succ, t)
<1>1. Now(q, k, m2, s, op, type, refs, r)
  BY NowAddSucc
<1> HIDE DEF m2, r
<1>2. Now(q, k, AddPredOnce(m2, t, s), s, op, type, refs, r)
  BY <1>1, NowAddPredOnce
<1> QED BY <1>2 DEF AddEdge, m2, r

LEMMA NowUnlink ==
  ASSUME NEW q, NEW k, NEW m, NEW s, NEW op, NEW type, NEW refs, NEW succ,
         Now(q, k, m, s, op, type, refs, succ), NEW t
  PROVE  Now(q, k, Unlink(m, s, t), s, op, type, refs, RemoveFirst(succ, t))
<1> DEFINE m2 == DelSucc(m, s, t)
           r == RemoveFirst(succ, t)
<1>1. Now(q, k, m2, s, op, type, refs, r)
  BY NowDelSucc
<1> HIDE DEF m2, r
<1>2. Now(q, k, DelPred(m2, t, s), s, op, type, refs, r)
  BY <1>1, NowDelPred
<1> QED BY <1>2 DEF Unlink, m2, r

LEMMA NowMakeOneWay ==
  ASSUME NEW q, NEW k, NEW m, NEW s, NEW op, NEW type, NEW refs, NEW succ,
         Now(q, k, m, s, op, type, refs, succ), NEW t \in 0..MaxBlocks-1
  PROVE  Now(q, k, MakeOneWay(m, s, t), s, "goto", "1WAY", <<t>>, succ)
<1> DEFINE a == [m EXCEPT ![s].op = "goto"]
           b == [a EXCEPT ![s].refs = <<t>>]
           c == [b EXCEPT ![s].type = "1WAY"]
<1>1. "goto" \in Opcodes /\ "1WAY" \in Types /\ <<t>> \in Sequences
  BY DEF Opcodes, Types, Sequences
<1>2. Now(q, k, a, s, "goto", type, refs, succ)
  BY <1>1, NowOp
<1>3. Now(q, k, b, s, "goto", type, <<t>>, succ)
  <2> HIDE DEF a
  <2> QED BY <1>1, <1>2, NowRefs
<1>4. Now(q, k, c, s, "goto", "1WAY", <<t>>, succ)
  <2> HIDE DEF b
  <2> QED BY <1>1, <1>3, NowType
<1>5. InsertGoto(m, s, t) = b
  BY DEF InsertGoto
<1> HIDE DEF b
<1>6. MakeOneWay(m, s, t) = c
  BY <1>5 DEF MakeOneWay
<1> QED BY <1>4, <1>6

LEMMA RemovedBehind ==
  ASSUME NEW S, NEW g \in Seq(S), NEW s \in Seq(S), NEW i \in Nat, i < Len(s),
         s[i+1] \notin ToSet(g)
  PROVE  RemoveFirst(g \o SubSeq(s, i + 1, Len(s)), s[i+1]) = g \o SubSeq(s, i + 2, Len(s))
<1> DEFINE a == SubSeq(s, i + 1, Len(s))
           b == SubSeq(s, i + 2, Len(s))
           w == g \o a
           v == g \o b
           e == s[i+1]
           r == RemoveFirst(w, e)
<1>1. /\ a \in Seq(S) /\ Len(a) = Len(s) - i /\ \A j \in 1..Len(s)-i : a[j] = s[j+i]
      /\ b \in Seq(S) /\ Len(b) = Len(s) - i - 1 /\ \A j \in 1..Len(s)-i-1 : b[j] = s[j+i+1]
  OBVIOUS
<1> HIDE DEF a, b
<1>2. /\ w \in Seq(S) /\ Len(w) = Len(g) + Len(s) - i
      /\ \A j \in 1..Len(g) : w[j] = g[j]
      /\ \A j \in Len(g)+1..Len(w) : w[j] = s[j-Len(g)+i]
  <2>1. w \in Seq(S) /\ Len(w) = Len(g) + Len(a)
    <3>1. a \in Seq(S)
      BY <1>1
    <3> QED BY <3>1
  <2>2. \A j \in 1..Len(g) : w[j] = g[j]
    BY <1>1
  <2>3. ASSUME NEW j \in Len(g)+1..Len(w)
        PROVE  w[j] = s[j-Len(g)+i]
    <3>1. j - Len(g) \in 1..Len(s)-i /\ Len(g) \in Nat
      BY <1>1, <2>1
    <3>2. w[j] = a[j-Len(g)]
      BY <1>1, <2>1, <3>1
    <3> QED BY <1>1, <3>1, <3>2
  <2> QED BY <1>1, <2>1, <2>2, <2>3
<1>3. /\ v \in Seq(S) /\ Len(v) = Len(g) + Len(s) - i - 1
      /\ \A j \in 1..Len(g) : v[j] = g[j]
      /\ \A j \in Len(g)+1..Len(v) : v[j] = s[j-Len(g)+i+1]
  <2>1. v \in Seq(S) /\ Len(v) = Len(g) + Len(b)
    <3>1. b \in Seq(S)
      BY <1>1
    <3> QED BY <3>1
  <2>2. \A j \in 1..Len(g) : v[j] = g[j]
    BY <1>1
  <2>3. ASSUME NEW j \in Len(g)+1..Len(v)
        PROVE  v[j] = s[j-Len(g)+i+1]
    <3>1. j - Len(g) \in 1..Len(s)-i-1 /\ Len(g) \in Nat
      BY <1>1, <2>1
    <3>2. v[j] = b[j-Len(g)]
      BY <1>1, <2>1, <3>1
    <3> QED BY <1>1, <3>1, <3>2
  <2> QED BY <1>1, <2>1, <2>2, <2>3
<1> HIDE DEF w, v
<1>4. Len(g) \in Nat /\ Len(g) + 1 \in 1..Len(w) /\ w[Len(g)+1] = e
  <2>1. Len(g) + 1 \in Len(g)+1..Len(w) /\ Len(g) + 1 - Len(g) + i = i + 1 /\ Len(g) \in Nat
    BY <1>2
  <2> QED BY <1>2, <2>1
<1>5. PICK at \in 1..Len(w) :
        /\ w[at] = e /\ \A j \in 1..at-1 : w[j] # e
        /\ r \in Seq(S) /\ Len(r) = Len(w) - 1
        /\ \A j \in 1..Len(r) : r[j] = IF j < at THEN w[j] ELSE w[j + 1]
  <2>1. e \in ToSet(w) /\ w \in Seq(S)
    BY <1>2, <1>4, Elements
  <2> HIDE DEF e
  <2>2. FirstTaken(S, w, e, r)
    BY <2>1, Removing DEF r
  <2> QED BY <2>1, <2>2 DEF FirstTaken
<1> HIDE DEF r
<1>6. at = Len(g) + 1
  <2>1. ~(at > Len(g) + 1)
    BY <1>4, <1>5
  <2>2. ~(at <= Len(g))
    <3> SUFFICES ASSUME at <= Len(g) PROVE FALSE
      OBVIOUS
    <3>1. at \in 1..Len(g)
      BY <1>5
    <3>2. g[at] = e
      BY <1>2, <1>5, <3>1
    <3> QED BY <3>1, <3>2, Elements
  <2> QED BY <1>4, <2>1, <2>2
<1>7. Len(r) = Len(v)
  BY <1>2, <1>3, <1>5
<1>8. ASSUME NEW j \in 1..Len(r)
      PROVE  r[j] = v[j]
  <2>1. CASE j <= Len(g)
    <3>1. j \in 1..Len(g) /\ j < at
      BY <1>6, <2>1
    <3> QED BY <1>2, <1>3, <1>5, <3>1
  <2>2. CASE j > Len(g)
    <3>1. /\ j + 1 \in Len(g)+1..Len(w) /\ ~(j < at) /\ j \in Len(g)+1..Len(v)
          /\ (j + 1) - Len(g) + i = j - Len(g) + i + 1
      BY <1>2, <1>4, <1>5, <1>6, <1>7, <2>2
    <3>2. r[j] = w[j+1]
      BY <1>5, <3>1
    <3>3. w[j+1] = s[(j + 1) - Len(g) + i]
      BY <1>2, <3>1
    <3>4. v[j] = s[j - Len(g) + i + 1]
      BY <1>3, <3>1
    <3> QED BY <3>1, <3>2, <3>3, <3>4
  <2> QED BY <1>4, <2>1, <2>2
<1>9. r = v
  <2>1. r \in Seq(S) /\ v \in Seq(S)
    BY <1>3, <1>5
  <2> QED BY <1>7, <1>8, <2>1
<1> QED BY <1>9 DEF r, v, w, a, b, e

Unlinkings(m, s, q, left) ==
  left = [i \in 0..Len(q) |-> IF i = 0 THEN m ELSE Unlink(left[i-1], s, q[i])]

LEMMA UnlinkingsExist ==
  ASSUME NEW m, NEW s, NEW q, Len(q) \in Nat
  PROVE  \E left : Unlinkings(m, s, q, left)
<1> DEFINE Upto(k, g) == g = [i \in 0..k |-> IF i = 0 THEN m ELSE Unlink(g[i-1], s, q[i])]
           S == {k \in Nat : \E g : Upto(k, g)}
<1>1. 0 \in S
  <2>1. Upto(0, [i \in 0..0 |-> m])
    OBVIOUS
  <2> QED BY <2>1
<1>2. ASSUME NEW k \in Nat, k \in S
      PROVE  k + 1 \in S
  <2>1. PICK g : Upto(k, g)
    BY <1>2
  <2> DEFINE h == [i \in 0..k+1 |-> IF i = 0 THEN m ELSE Unlink(g[i-1], s, q[i])]
  <2>2. \A i \in 0..k : g[i] = h[i]
    BY <2>1
  <2>3. \A i \in 0..k+1 : i # 0 => i - 1 \in 0..k
    OBVIOUS
  <2>4. \A i \in 0..k+1 : h[i] = IF i = 0 THEN m ELSE Unlink(h[i-1], s, q[i])
    BY <2>2, <2>3
  <2>5. h = [i \in 0..k+1 |-> h[i]]
    OBVIOUS
  <2> HIDE DEF h
  <2>6. Upto(k + 1, h)
    BY <2>4, <2>5
  <2> QED BY <2>6
<1>3. Nat \subseteq S
  <2> HIDE DEF S
  <2> QED BY <1>1, <1>2, Induction
<1> QED BY <1>3 DEF Unlinkings

LEMMA UnlinkingsAre ==
  ASSUME NEW m, NEW s, NEW q, Len(q) \in Nat, NEW left, Unlinkings(m, s, q, left)
  PROVE  /\ left[0] = m
         /\ \A i \in Nat : i < Len(q) => left[i+1] = Unlink(left[i], s, q[i+1])
<1>1. 0 \in 0..Len(q) /\ \A i \in Nat : i < Len(q) => i + 1 \in 0..Len(q) /\ i + 1 # 0 /\ (i + 1) - 1 = i
  OBVIOUS
<1>2. left[0] = m
  BY <1>1 DEF Unlinkings
<1>3. ASSUME NEW i \in Nat, i < Len(q)
      PROVE  left[i+1] = Unlink(left[i], s, q[i+1])
  BY <1>1, <1>3 DEF Unlinkings
<1> QED BY <1>2, <1>3

LEMMA NowUnlinkAll ==
  ASSUME NEW q, NEW k, NEW m, NEW s, NEW op, NEW type, NEW refs, NEW succ,
         Now(q, k, m, s, op, type, refs, succ)
  PROVE  Now(q, k, UnlinkAll(m, s), s, op, type, refs, <<>>)
<1>1. succ \in Sequences /\ m[s].succ = succ /\ Len(succ) \in Nat
  <2>1. succ \in Sequences
    BY NowTyped
  <2> QED BY <2>1 DEF Now, Sequences
<1>2. PICK left : Unlinkings(m, s, succ, left) /\ UnlinkAll(m, s) = left[Len(succ)]
  <2>1. UnlinkAll(m, s) = (CHOOSE left : Unlinkings(m, s, succ, left))[Len(succ)]
    BY <1>1 DEF UnlinkAll, Unlinkings
  <2>2. \E left : Unlinkings(m, s, succ, left)
    BY <1>1, UnlinkingsExist
  <2> QED BY <2>1, <2>2
<1>3. /\ left[0] = m
      /\ \A i \in Nat : i < Len(succ) => left[i+1] = Unlink(left[i], s, succ[i+1])
  <2>1. Len(succ) \in Nat /\ Unlinkings(m, s, succ, left)
    BY <1>1, <1>2
  <2> QED BY <2>1, UnlinkingsAre
<1> DEFINE rest(i) == SubSeq(succ, i + 1, Len(succ))
           S == {i \in Nat : i <= Len(succ) => Now(q, k, left[i], s, op, type, refs, rest(i))}
<1>4. 0 \in S
  <2>1. rest(0) = succ
    BY <1>1 DEF Sequences
  <2> QED BY <1>3, <2>1
<1>5. ASSUME NEW i \in Nat, i \in S
      PROVE  i + 1 \in S
  <2> SUFFICES ASSUME i + 1 <= Len(succ)
               PROVE  Now(q, k, left[i+1], s, op, type, refs, rest(i+1))
    OBVIOUS
  <2>1. i < Len(succ) /\ i <= Len(succ) /\ (i + 1) + 1 = i + 2
    BY <1>1
  <2>2. RemoveFirst(rest(i), succ[i+1]) = rest(i+1)
    <3> DEFINE none == <<>>
    <3>1. none \in Seq(0..MaxBlocks-1) /\ ToSet(none) = {} /\ succ \in Seq(0..MaxBlocks-1)
      BY <1>1 DEF ToSet, Sequences
    <3>2. \A z \in Seq(0..MaxBlocks-1) : none \o z = z
      OBVIOUS
    <3>3. rest(i) \in Seq(0..MaxBlocks-1) /\ rest(i+1) \in Seq(0..MaxBlocks-1)
      <4>1. succ \in Seq(0..MaxBlocks-1)
        BY <1>1 DEF Sequences
      <4>2. i + 1 \in Nat
        OBVIOUS
      <4> QED BY <2>1, <4>1, <4>2, Rest
    <3> HIDE DEF none
    <3>4. RemoveFirst(none \o SubSeq(succ, i + 1, Len(succ)), succ[i+1]) = none \o SubSeq(succ, i + 2, Len(succ))
      BY <2>1, <3>1, RemovedBehind
    <3> QED BY <2>1, <3>2, <3>3, <3>4
  <2>3. Now(q, k, left[i], s, op, type, refs, rest(i)) /\ left[i+1] = Unlink(left[i], s, succ[i+1])
    BY <1>3, <1>5, <2>1
  <2> HIDE DEF rest
  <2>4. Now(q, k, Unlink(left[i], s, succ[i+1]), s, op, type, refs, RemoveFirst(rest(i), succ[i+1]))
    BY <2>3, NowUnlink
  <2> QED BY <2>2, <2>3, <2>4
<1>6. Nat \subseteq S
  <2> HIDE DEF S
  <2> QED BY <1>4, <1>5, Induction
<1>7. rest(Len(succ)) = <<>> /\ Len(succ) \in S
  <2>1. rest(Len(succ)) = <<>>
    BY <1>1 DEF Sequences
  <2> HIDE DEF S
  <2> QED BY <1>1, <1>6, <2>1
<1>8. Now(q, k, left[Len(succ)], s, op, type, refs, rest(Len(succ)))
  BY <1>1, <1>7
<1> HIDE DEF rest
<1> QED BY <1>2, <1>7, <1>8

-------------------------------------------------------------------------------
(* The edits of one block                                                      *)

LEMMA Change1WayIs ==
  ASSUME NEW q, NEW m, Array(q, m), NEW s \in 0..q-1, Len(m[s].succ) = 1,
         NEW t \in 0..MaxBlocks-1
  PROVE  Now(q, m, Change1Way(m, s, t), s, "goto", "1WAY", <<t>>, <<t>>)
<1> DEFINE old == m[s].succ[1]
           a == MakeOneWay(m, s, t)
           b == Unlink(a, s, old)
<1>1. old \in 0..MaxBlocks-1 /\ m[s].succ = <<old>>
  <2>1. m[s].succ \in Seq(0..MaxBlocks-1)
    BY BlockIs DEF Sequences
  <2> QED BY <2>1, LengthOne
<1>2. Now(q, m, a, s, "goto", "1WAY", <<t>>, m[s].succ)
  BY NowBegins, NowMakeOneWay
<1> HIDE DEF a, old
<1>3. Now(q, m, b, s, "goto", "1WAY", <<t>>, <<>>)
  <2>1. RemoveFirst(<<old>>, old) = <<>>
    BY <1>1, RemovedOnly
  <2>2. Now(q, m, b, s, "goto", "1WAY", <<t>>, RemoveFirst(m[s].succ, old))
    BY <1>2, NowUnlink
  <2> QED BY <1>1, <2>1, <2>2
<1> HIDE DEF b
<1>4. Now(q, m, Link(b, s, t), s, "goto", "1WAY", <<t>>, Append(<<>>, t))
  BY <1>3, NowLink
<1>5. Append(<<>>, t) = <<t>>
  OBVIOUS
<1> QED BY <1>4, <1>5 DEF Change1Way, a, b, old

LEMMA Change2WayIs ==
  ASSUME NEW q, NEW m, Array(q, m), NEW s \in 0..q-1, NEW r, NEW f, m[s].refs = <<r>>,
         m[s].succ = <<f, r>> \/ m[s].succ = <<r, f>>, NEW t \in 0..MaxBlocks-1
  PROVE  Now(q, m, Change2Way(m, s, t), s, m[s].op, m[s].type, <<t>>, <<f, t>>)
<1> DEFINE a == [m EXCEPT ![s].refs = <<t>>]
           b == Unlink(a, s, r)
<1>1. r \in 0..MaxBlocks-1 /\ f \in 0..MaxBlocks-1 /\ m[s].refs[1] = r
  <2>1. m[s].succ \in Seq(0..MaxBlocks-1)
    BY BlockIs DEF Sequences
  <2>2. ToSet(m[s].succ) = {f, r}
    <3>1. ToSet(<<f, r>>) = {f, r} /\ ToSet(<<r, f>>) = {f, r}
      BY Pair
    <3>2. CASE m[s].succ = <<f, r>>
      BY <3>1, <3>2
    <3>3. CASE m[s].succ = <<r, f>>
      BY <3>1, <3>3
    <3> QED BY <3>2, <3>3
  <2>3. m[s].refs[1] = r
    OBVIOUS
  <2>4. ToSet(m[s].succ) \subseteq 0..MaxBlocks-1
    BY <2>1, Elements
  <2> QED BY <2>2, <2>3, <2>4
<1>2. Now(q, m, a, s, m[s].op, m[s].type, <<t>>, m[s].succ)
  <2>1. <<t>> \in Sequences
    BY DEF Sequences
  <2> QED BY <2>1, NowBegins, NowRefs
<1> HIDE DEF a
<1>3. Now(q, m, b, s, m[s].op, m[s].type, <<t>>, <<f>>)
  <2>1. RemoveFirst(m[s].succ, r) = <<f>>
    BY <1>1, RemovedFromPair
  <2>2. Now(q, m, b, s, m[s].op, m[s].type, <<t>>, RemoveFirst(m[s].succ, r))
    BY <1>2, NowUnlink
  <2> QED BY <2>1, <2>2
<1> HIDE DEF b
<1>4. Now(q, m, Link(b, s, t), s, m[s].op, m[s].type, <<t>>, Append(<<f>>, t))
  BY <1>3, NowLink
<1>5. Append(<<f>>, t) = <<f, t>>
  BY <1>1, AppendedOne
<1>6. Change2Way(m, s, t) = Link(b, s, t)
  BY <1>1 DEF Change2Way, a, b
<1> QED BY <1>4, <1>5, <1>6

LEMMA Make2WayGotoIs ==
  ASSUME NEW q, NEW m, Array(q, m), NEW s \in 0..q-1, NEW t \in 0..MaxBlocks-1
  PROVE  Now(q, m, Make2WayGoto(m, s, t), s, "goto", "1WAY", <<t>>, <<t>>)
<1> DEFINE a == MakeOneWay(m, s, t)
           b == UnlinkAll(a, s)
<1>1. Now(q, m, a, s, "goto", "1WAY", <<t>>, m[s].succ)
  BY NowBegins, NowMakeOneWay
<1> HIDE DEF a
<1>2. Now(q, m, b, s, "goto", "1WAY", <<t>>, <<>>)
  BY <1>1, NowUnlinkAll
<1> HIDE DEF b
<1>3. Now(q, m, Link(b, s, t), s, "goto", "1WAY", <<t>>, Append(<<>>, t))
  BY <1>2, NowLink
<1>4. Append(<<>>, t) = <<t>>
  OBVIOUS
<1> QED BY <1>3, <1>4 DEF Make2WayGoto, a, b

(* One of two ways goes, or the only one.                                      *)
LEMMA RemoveEdgeIs ==
  ASSUME NEW q, NEW m, Array(q, m), NEW s \in 0..q-1, NEW t, CanRemoveEdge(m, s, t)
  PROVE  \E op, type, refs, succ :
            /\ Now(q, m, RemoveEdge(m, s, t), s, op, type, refs, succ)
            /\ ToSet(succ) = ToSet(m[s].succ) \ {t}
            /\ Len(succ) <= 1
            /\ op = "goto" \/ op = "insn" \/ (op = m[s].op /\ Len(succ) = 0)
<1>1. m[s].succ \in Seq(0..MaxBlocks-1)
  BY BlockIs DEF Sequences
<1>2. CASE Nsucc(m, s) = 2
  <2> DEFINE a == m[s].succ[1]
             b == m[s].succ[2]
             o == Remaining(m, s, t)
  <2>1. a \in 0..MaxBlocks-1 /\ b \in 0..MaxBlocks-1 /\ m[s].succ = <<a, b>>
    <3>1. Len(m[s].succ) = 2
      BY <1>2 DEF Nsucc
    <3> QED BY <1>1, <3>1, LengthTwo
  <2>2. ToSet(m[s].succ) = {a, b}
    <3>1. ToSet(<<a, b>>) = {a, b}
      BY Pair
    <3> QED BY <2>1, <3>1
  <2>3. o \in 0..MaxBlocks-1 /\ {o} = {a, b} \ {t}
    <3>1. t \in {a, b} /\ {a, b} # {t}
      BY <1>2, <2>2 DEF CanRemoveEdge
    <3>2. o = IF a # t THEN a ELSE b
      BY DEF Remaining
    <3> HIDE DEF a, b, o
    <3> QED BY <2>1, <3>1, <3>2
  <2> HIDE DEF a, b, o
  <2>4. Now(q, m, Make2WayGoto(m, s, o), s, "goto", "1WAY", <<o>>, <<o>>)
    BY <2>3, Make2WayGotoIs
  <2>5. ToSet(<<o>>) = {o} /\ Len(<<o>>) = 1
    BY <2>3, OneElement
  <2>6. RemoveEdge(m, s, t) = Make2WayGoto(m, s, o)
    BY <1>2 DEF RemoveEdge, o
  <2>7. /\ Now(q, m, RemoveEdge(m, s, t), s, "goto", "1WAY", <<o>>, <<o>>)
        /\ ToSet(<<o>>) = ToSet(m[s].succ) \ {t} /\ Len(<<o>>) <= 1
    BY <2>2, <2>3, <2>4, <2>5, <2>6
  <2> QED BY <2>7
<1>3. CASE Nsucc(m, s) # 2
  <2> DEFINE b == IF m[s].op = "goto"
                  THEN [m EXCEPT ![s].op = "insn", ![s].refs = <<>>] ELSE m
             c == [b EXCEPT ![s].type = "0WAY"]
  <2>1. m[s].succ = <<t>> /\ t \in 0..MaxBlocks-1
    <3>1. m[s].succ = <<t>> /\ Len(m[s].succ) = 1 /\ m[s].succ[1] = t
      BY <1>3 DEF CanRemoveEdge, Nsucc
    <3> QED BY <1>1, <3>1, LengthOne
  <2>2. PICK op, refs : /\ Now(q, m, b, s, op, m[s].type, refs, m[s].succ)
                        /\ op = "insn" \/ op = m[s].op
    <3>1. CASE m[s].op = "goto"
      <4> DEFINE d == [m EXCEPT ![s].op = "insn"]
      <4>1. "insn" \in Opcodes /\ <<>> \in Sequences
        BY DEF Opcodes, Sequences
      <4>2. Now(q, m, d, s, "insn", m[s].type, m[s].refs, m[s].succ)
        BY <4>1, NowBegins, NowOp
      <4>3. Now(q, m, [d EXCEPT ![s].refs = <<>>], s, "insn", m[s].type, <<>>, m[s].succ)
        <5> HIDE DEF d
        <5> QED BY <4>1, <4>2, NowRefs
      <4>4. b = [d EXCEPT ![s].refs = <<>>]
        BY <3>1
      <4> QED BY <4>3, <4>4
    <3>2. CASE m[s].op # "goto"
      <4>1. b = m
        BY <3>2
      <4> QED BY <4>1, NowBegins
    <3> QED BY <3>1, <3>2
  <2> HIDE DEF b
  <2>3. Now(q, m, c, s, op, "0WAY", refs, m[s].succ)
    <3>1. "0WAY" \in Types
      BY DEF Types
    <3> QED BY <2>2, <3>1, NowType
  <2> HIDE DEF c
  <2>4. Now(q, m, Unlink(c, s, t), s, op, "0WAY", refs, RemoveFirst(m[s].succ, t))
    BY <2>3, NowUnlink
  <2>5. RemoveFirst(m[s].succ, t) = <<>> /\ ToSet(m[s].succ) = {t} /\ Len(<<>>) = 0 /\ ToSet(<<>>) = {}
    BY <2>1, RemovedOnly, OneElement DEF ToSet
  <2>6. RemoveEdge(m, s, t) = Unlink(c, s, t)
    BY <1>3 DEF RemoveEdge, b, c
  <2>7. /\ Now(q, m, RemoveEdge(m, s, t), s, op, "0WAY", refs, <<>>)
        /\ ToSet(<<>>) = ToSet(m[s].succ) \ {t} /\ Len(<<>>) <= 1
        /\ op = "goto" \/ op = "insn" \/ (op = m[s].op /\ Len(<<>>) = 0)
    BY <2>2, <2>4, <2>5, <2>6
  <2> QED BY <2>7
<1> QED BY <1>2, <1>3

-------------------------------------------------------------------------------
(* The edits that create a block in front of the exit                          *)

(* Where a block is after the insertion, and the names of a list of blocks.    *)
Place(q, x) == IF x = q - 1 THEN q ELSE x
Moved(q, u) == [i \in DOMAIN u |-> Place(q, u[i])]

Shifted(q, a, b) ==
  /\ b.op = a.op /\ b.type = a.type
  /\ b.refs = Moved(q, a.refs) /\ b.succ = Moved(q, a.succ)

(* k is the array m with a copy of the block s put before the exit.            *)
Copied(q, m, s, k) ==
  /\ Array(q, m) /\ Array(q + 1, k) /\ s \in 0..q-1
  /\ \A x \in 0..q-1 : k[Place(q, x)].id = m[x].id /\ Shifted(q, m[x], k[Place(q, x)])
  /\ k[q-1].id = q /\ Shifted(q, m[s], k[q-1])

LEMMA MovedIs ==
  ASSUME NEW q \in Nat, q < MaxBlocks, NEW u \in Sequences
  PROVE  /\ Moved(q, u) \in Sequences /\ Len(Moved(q, u)) = Len(u)
         /\ \A i \in 1..Len(u) : Moved(q, u)[i] = Place(q, u[i])
         /\ ToSet(Moved(q, u)) = {Place(q, t) : t \in ToSet(u)}
<1> DEFINE r == Moved(q, u)
<1>1. u \in Seq(0..MaxBlocks-1) /\ Len(u) \in Nat /\ DOMAIN u = 1..Len(u)
  BY DEF Sequences
<1>11. u \in Seq(0..MaxBlocks-1)
  BY <1>1
<1>2. \A i \in 1..Len(u) : u[i] \in 0..MaxBlocks-1
  BY <1>11, ElementIn
<1>3. \A i \in 1..Len(u) : Place(q, u[i]) \in 0..MaxBlocks-1
  BY <1>2, Bound DEF Place
<1>4. r = [i \in 1..Len(u) |-> Place(q, u[i])]
  BY <1>1 DEF Moved
<1> HIDE DEF r
<1>5. r \in [1..Len(u) -> 0..MaxBlocks-1] /\ \A i \in 1..Len(u) : r[i] = Place(q, u[i])
  BY <1>3, <1>4
<1>6. r \in Seq(0..MaxBlocks-1)
  <2>1. r \in [1..Len(u) -> 0..MaxBlocks-1]
    BY <1>5
  <2>2. Len(u) \in Nat
    BY <1>1
  <2> QED BY <2>1, <2>2, SequenceIs
<1>7. Len(r) = Len(u)
  BY <1>1, <1>5, <1>6
<1>8. ToSet(r) = {r[i] : i \in 1..Len(r)} /\ ToSet(u) = {u[i] : i \in 1..Len(u)}
  BY <1>1, <1>6, Elements
<1>9. ToSet(r) = {Place(q, t) : t \in ToSet(u)}
  BY <1>5, <1>7, <1>8
<1> QED BY <1>5, <1>6, <1>7, <1>9 DEF r, Sequences

LEMMA MovedOne == \A q, r : Moved(q, <<r>>) = <<Place(q, r)>>
<1> TAKE q, r
<1> DEFINE u == <<r>>
           v == <<Place(q, r)>>
<1>1. DOMAIN u = 1..1 /\ u[1] = r /\ v = [i \in 1..1 |-> Place(q, r)]
  OBVIOUS
<1>2. Moved(q, u) = [i \in 1..1 |-> Place(q, u[i])]
  BY <1>1 DEF Moved
<1> HIDE DEF u, v
<1>3. \A i \in 1..1 : u[i] = r
  BY <1>1
<1>4. Moved(q, u) = v
  BY <1>1, <1>2, <1>3
<1> QED BY <1>4 DEF u, v

LEMMA MovedTwo == \A q, a, b : Moved(q, <<a, b>>) = <<Place(q, a), Place(q, b)>>
<1> TAKE q, a, b
<1> DEFINE u == <<a, b>>
           v == <<Place(q, a), Place(q, b)>>
<1>1. /\ DOMAIN u = 1..2 /\ u[1] = a /\ u[2] = b
      /\ DOMAIN v = 1..2 /\ v[1] = Place(q, a) /\ v[2] = Place(q, b) /\ v = [i \in 1..2 |-> v[i]]
  OBVIOUS
<1>2. Moved(q, u) = [i \in 1..2 |-> Place(q, u[i])]
  BY <1>1 DEF Moved
<1> HIDE DEF u, v
<1>3. \A i \in 1..2 : Place(q, u[i]) = v[i]
  BY <1>1
<1>4. Moved(q, u) = v
  BY <1>1, <1>2, <1>3
<1> QED BY <1>4 DEF u, v

LEMMA CopyIs ==
  ASSUME NEW q, NEW m, Array(q, m), q < MaxBlocks, NEW s \in 0..q-1
  PROVE  Copied(q, m, s, CopyBlock(m, s))
<1> DEFINE k == CopyBlock(m, s)
           R(b) == Record(b.id, b.op, b.type, Moved(q, b.refs), Moved(q, b.succ), Moved(q, b.pred))
           C(b) == Record(q, b.op, b.type, Moved(q, b.refs), Moved(q, b.succ), Moved(q, b.pred))
<1>1. /\ q \in Nat /\ q >= 2 /\ q - 1 \in 0..q-1 /\ q + 1 \in 2..MaxBlocks
      /\ Qty(m) = q /\ ExitSerial(m) = q - 1
  BY ArrayIs, Bound
<1>2. ASSUME NEW x \in 0..q-1
      PROVE  /\ R(m[x]) \in Blocks(MaxBlocks) /\ Shifted(q, m[x], R(m[x])) /\ R(m[x]).id = m[x].id
             /\ C(m[x]) \in Blocks(MaxBlocks) /\ Shifted(q, m[x], C(m[x])) /\ C(m[x]).id = q
  <2>1. /\ m[x].id \in Nat /\ m[x].type \in Types /\ m[x].op \in Opcodes
        /\ m[x].refs \in Sequences /\ m[x].succ \in Sequences /\ m[x].pred \in Sequences
    BY BlockIs
  <2>2. /\ Moved(q, m[x].refs) \in Sequences /\ Moved(q, m[x].succ) \in Sequences
        /\ Moved(q, m[x].pred) \in Sequences
    BY <1>1, <2>1, MovedIs
  <2> DEFINE a == m[x]
             u == Moved(q, a.refs)
             v == Moved(q, a.succ)
             w == Moved(q, a.pred)
  <2>3. /\ R(a) \in Blocks(MaxBlocks) /\ R(a).id = a.id /\ R(a).op = a.op /\ R(a).type = a.type
        /\ R(a).refs = u /\ R(a).succ = v
    <3>1. R(a) = Record(a.id, a.op, a.type, u, v, w)
      OBVIOUS
    <3> HIDE DEF u, v, w, R
    <3>2. /\ a.id \in Nat /\ a.op \in Opcodes /\ a.type \in Types
          /\ u \in Sequences /\ v \in Sequences /\ w \in Sequences
      BY <2>1, <2>2 DEF u, v, w
    <3> QED BY <3>1, <3>2, RecordIs
  <2>4. /\ C(a) \in Blocks(MaxBlocks) /\ C(a).id = q /\ C(a).op = a.op /\ C(a).type = a.type
        /\ C(a).refs = u /\ C(a).succ = v
    <3>1. C(a) = Record(q, a.op, a.type, u, v, w)
      OBVIOUS
    <3> HIDE DEF u, v, w, C
    <3>2. /\ q \in Nat /\ a.op \in Opcodes /\ a.type \in Types
          /\ u \in Sequences /\ v \in Sequences /\ w \in Sequences
      BY <1>1, <2>1, <2>2 DEF u, v, w
    <3> QED BY <3>1, <3>2, RecordIs
  <2> HIDE DEF R, C
  <2> QED BY <2>3, <2>4 DEF Shifted
<1> DEFINE After(u) == [i \in DOMAIN u |-> IF u[i] = q - 1 THEN q - 1 + 1 ELSE u[i]]
           Renumbered(b) == [b EXCEPT !.refs = After(@), !.succ = After(@), !.pred = After(@)]
<1>3. \A u : After(u) = Moved(q, u)
  BY <1>1 DEF Moved, Place
<1>4. ASSUME NEW x \in 0..q-1
      PROVE  Renumbered(m[x]) = R(m[x]) /\ [Renumbered(m[x]) EXCEPT !.id = q] = C(m[x])
  <2>1. m[x] = Record(m[x].id, m[x].op, m[x].type, m[x].refs, m[x].succ, m[x].pred)
    BY BlockIs
  <2>2. \A i, o, y, r, u, e :
          LET b == Record(i, o, y, r, u, e)
          IN  /\ Renumbered(b) = Record(i, o, y, After(r), After(u), After(e))
              /\ [Renumbered(b) EXCEPT !.id = q] = Record(q, o, y, After(r), After(u), After(e))
    <3> HIDE DEF After
    <3> TAKE i, o, y, r, u, e
    <3> DEFINE b == Record(i, o, y, r, u, e)
               b1 == [b EXCEPT !.refs = After(@)]
               b2 == [b1 EXCEPT !.succ = After(@)]
               b3 == [b2 EXCEPT !.pred = After(@)]
    <3>1. b1 = Record(i, o, y, After(r), u, e)
      BY DEF Record
    <3>2. Renumbered(b) = b3
      OBVIOUS
    <3> HIDE DEF b1
    <3>3. b2 = Record(i, o, y, After(r), After(u), e)
      BY <3>1 DEF Record
    <3> HIDE DEF b2
    <3>4. b3 = Record(i, o, y, After(r), After(u), After(e))
      BY <3>3 DEF Record
    <3> HIDE DEF b3, b, Renumbered
    <3>5. Renumbered(b) = Record(i, o, y, After(r), After(u), After(e))
      BY <3>2, <3>4
    <3>6. [Renumbered(b) EXCEPT !.id = q] = Record(q, o, y, After(r), After(u), After(e))
      BY <3>5 DEF Record
    <3> QED BY <3>5, <3>6 DEF b
  <2> HIDE DEF Renumbered, After
  <2>3. /\ Renumbered(m[x]) = Record(m[x].id, m[x].op, m[x].type, After(m[x].refs),
                                     After(m[x].succ), After(m[x].pred))
        /\ [Renumbered(m[x]) EXCEPT !.id = q] =
              Record(q, m[x].op, m[x].type, After(m[x].refs), After(m[x].succ), After(m[x].pred))
    BY <2>1, <2>2
  <2> QED BY <1>3, <2>3
<1>5. k = [i \in 0..q-1+1 |->
             CASE i < q - 1 -> Renumbered(m[i])
               [] i = q - 1 -> [Renumbered(m[s]) EXCEPT !.id = q]
               [] OTHER -> Renumbered(m[q-1])]
  BY <1>1 DEF CopyBlock
<1> HIDE DEF k, Renumbered, After
<1>6. k = [i \in 0..q |-> IF i < q - 1 THEN R(m[i]) ELSE IF i = q - 1 THEN C(m[s]) ELSE R(m[q-1])]
  <2>1. q - 1 + 1 = q /\ \A i \in 0..q : i < q - 1 => i \in 0..q-1
    BY <1>1
  <2>2. ASSUME NEW i \in 0..q
        PROVE  (CASE i < q - 1 -> Renumbered(m[i])
                  [] i = q - 1 -> [Renumbered(m[s]) EXCEPT !.id = q]
                  [] OTHER -> Renumbered(m[q-1]))
               = IF i < q - 1 THEN R(m[i]) ELSE IF i = q - 1 THEN C(m[s]) ELSE R(m[q-1])
    <3> HIDE DEF R, C
    <3>1. i < q - 1 \/ i = q - 1 \/ i = q
      BY <1>1
    <3>2. CASE i < q - 1
      <4>1. i \in 0..q-1
        BY <2>1, <3>2
      <4>2. Renumbered(m[i]) = R(m[i])
        BY <1>4, <4>1
      <4> QED BY <3>2, <4>2
    <3>3. CASE i = q - 1
      <4>1. ~(i < q - 1)
        BY <1>1, <3>3
      <4>2. [Renumbered(m[s]) EXCEPT !.id = q] = C(m[s])
        BY <1>4
      <4> QED BY <3>3, <4>1, <4>2
    <3>4. CASE i = q
      <4>1. ~(i < q - 1) /\ i # q - 1
        BY <1>1, <3>4
      <4>2. Renumbered(m[q-1]) = R(m[q-1])
        BY <1>1, <1>4
      <4> QED BY <4>1, <4>2
    <3> QED BY <3>1, <3>2, <3>3, <3>4
  <2> HIDE DEF R, C
  <2> QED BY <1>5, <2>1, <2>2
<1>7. /\ DOMAIN k = 0..q
      /\ \A x \in 0..q-1 : x # q - 1 => k[x] = R(m[x])
      /\ k[q-1] = C(m[s]) /\ k[q] = R(m[q-1])
  <2>1. /\ \A x \in 0..q-1 : x # q - 1 => x \in 0..q /\ x < q - 1
        /\ q - 1 \in 0..q /\ ~(q - 1 < q - 1) /\ q \in 0..q /\ ~(q < q - 1) /\ q # q - 1
    BY <1>1
  <2> HIDE DEF R, C
  <2> QED BY <1>6, <2>1
<1>8. Array(q + 1, k)
  <2>1. k = [x \in 0..q |-> k[x]]
    BY <1>6
  <2>2. ASSUME NEW x \in 0..q
        PROVE  k[x] \in Blocks(MaxBlocks)
    <3>1. (x \in 0..q-1 /\ x # q - 1) \/ x = q - 1 \/ x = q
      BY <1>1
    <3> HIDE DEF R, C
    <3> QED BY <1>1, <1>2, <1>7, <3>1
  <2>3. (q + 1) - 1 = q
    BY <1>1
  <2> QED BY <1>1, <2>1, <2>2, <2>3 DEF Array
<1>9. \A x \in 0..q-1 : k[Place(q, x)].id = m[x].id /\ Shifted(q, m[x], k[Place(q, x)])
  <2> SUFFICES ASSUME NEW x \in 0..q-1
               PROVE  k[Place(q, x)].id = m[x].id /\ Shifted(q, m[x], k[Place(q, x)])
    OBVIOUS
  <2>1. k[Place(q, x)] = R(m[x])
    <3> HIDE DEF R, C
    <3> QED BY <1>7 DEF Place
  <2> HIDE DEF R, C
  <2> QED BY <1>2, <2>1
<1>10. k[q-1].id = q /\ Shifted(q, m[s], k[q-1])
  <2> HIDE DEF R, C
  <2> QED BY <1>2, <1>7
<1> QED BY <1>8, <1>9, <1>10 DEF Copied, k

(* The new block is at q - 1.                                                  *)
LEMMA CopiedIs ==
  ASSUME NEW q, NEW m, NEW s, NEW k, Copied(q, m, s, k)
  PROVE  /\ q \in Nat /\ q >= 2 /\ q + 1 <= MaxBlocks /\ q < MaxBlocks
         /\ q - 1 \in 0..q /\ (q + 1) - 1 = q /\ s \in 0..q-1
         /\ Array(q, m) /\ Array(q + 1, k) /\ Qty(m) = q /\ ExitSerial(m) = q - 1
<1>1. Array(q, m) /\ Array(q + 1, k) /\ s \in 0..q-1
  BY DEF Copied
<1> QED BY <1>1, ArrayIs, Bound

LEMMA DetachedIs ==
  ASSUME NEW q, NEW m, Array(q, m), q < MaxBlocks, NEW s \in 0..q-1
  PROVE  \E type, refs :
            Now(q + 1, CopyBlock(m, s), Detached(m, s), q - 1, m[s].op, type, refs, <<>>)
<1> DEFINE k == CopyBlock(m, s)
           a == UnlinkAll(k, q - 1)
           d == [a EXCEPT ![q-1].pred = <<>>]
           type == k[q-1].type
           refs == k[q-1].refs
<1>1. Copied(q, m, s, k)
  BY CopyIs
<1>2. Array(q + 1, k) /\ q - 1 \in 0..(q+1)-1 /\ ExitSerial(m) = q - 1
  BY <1>1, CopiedIs
<1>3. k[q-1].op = m[s].op
  BY <1>1 DEF Copied, Shifted
<1>4. Detached(m, s) = d
  BY <1>2 DEF Detached
<1> HIDE DEF k
<1>5. Now(q + 1, k, k, q - 1, m[s].op, type, refs, k[q-1].succ)
  BY <1>2, <1>3, NowBegins
<1> HIDE DEF type, refs
<1>6. Now(q + 1, k, a, q - 1, m[s].op, type, refs, <<>>)
  BY <1>5, NowUnlinkAll
<1> HIDE DEF a
<1>7. Now(q + 1, k, d, q - 1, m[s].op, type, refs, <<>>)
  <2>1. <<>> \in Sequences
    BY DEF Sequences
  <2>2. Now(q + 1, k, [a EXCEPT ![q-1].pred = <<>>], q - 1, m[s].op, type, refs, <<>>)
    BY <1>6, <2>1, NowNotes
  <2> QED BY <2>2
<1> HIDE DEF d
<1> QED BY <1>4, <1>7 DEF k

LEMMA CreateStandaloneIs ==
  ASSUME NEW q, NEW m, Array(q, m), q < MaxBlocks, NEW s \in 0..q-1, NEW t \in 0..MaxBlocks-1
  PROVE  Now(q + 1, CopyBlock(m, s), CreateStandalone(m, s, t), q - 1,
             "goto", "1WAY", <<t>>, <<t>>)
<1> DEFINE k == CopyBlock(m, s)
           d == Detached(m, s)
           a == [d EXCEPT ![q-1].op = "insn"]
           b == [a EXCEPT ![q-1].refs = <<>>]
           c == MakeOneWay(b, q - 1, t)
           e == Link(c, q - 1, t)
<1>1. PICK type, refs : Now(q + 1, k, d, q - 1, m[s].op, type, refs, <<>>)
  BY DetachedIs
<1>2. CreateStandalone(m, s, t) = e
  <2>1. ExitSerial(m) = q - 1
    BY ArrayIs
  <2> QED BY <2>1 DEF CreateStandalone
<1>3. "insn" \in Opcodes /\ <<>> \in Sequences
  BY DEF Opcodes, Sequences
<1> HIDE DEF k, d
<1>4. Now(q + 1, k, a, q - 1, "insn", type, refs, <<>>)
  BY <1>1, <1>3, NowOp
<1> HIDE DEF a
<1>5. Now(q + 1, k, b, q - 1, "insn", type, <<>>, <<>>)
  BY <1>3, <1>4, NowRefs
<1> HIDE DEF b
<1>6. Now(q + 1, k, c, q - 1, "goto", "1WAY", <<t>>, <<>>)
  BY <1>5, NowMakeOneWay
<1> HIDE DEF c
<1>7. Now(q + 1, k, e, q - 1, "goto", "1WAY", <<t>>, Append(<<>>, t))
  BY <1>6, NowLink
<1>8. Append(<<>>, t) = <<t>>
  OBVIOUS
<1> HIDE DEF e
<1> QED BY <1>2, <1>7, <1>8 DEF k

LEMMA CreateTerminalIs ==
  ASSUME NEW q, NEW m, Array(q, m), q < MaxBlocks, NEW s \in 0..q-1
  PROVE  Now(q + 1, CopyBlock(m, s), CreateTerminal(m, s), q - 1, "insn", "0WAY", <<>>, <<>>)
<1> DEFINE k == CopyBlock(m, s)
           d == Detached(m, s)
           a == [d EXCEPT ![q-1].op = "insn"]
           b == [a EXCEPT ![q-1].refs = <<>>]
           c == [b EXCEPT ![q-1].type = "0WAY"]
<1>1. PICK type, refs : Now(q + 1, k, d, q - 1, m[s].op, type, refs, <<>>)
  BY DetachedIs
<1>2. CreateTerminal(m, s) = c
  <2>1. ExitSerial(m) = q - 1
    BY ArrayIs
  <2> QED BY <2>1 DEF CreateTerminal
<1>3. "insn" \in Opcodes /\ "0WAY" \in Types /\ <<>> \in Sequences
  BY DEF Opcodes, Types, Sequences
<1> HIDE DEF k, d
<1>4. Now(q + 1, k, a, q - 1, "insn", type, refs, <<>>)
  BY <1>1, <1>3, NowOp
<1> HIDE DEF a
<1>5. Now(q + 1, k, b, q - 1, "insn", type, <<>>, <<>>)
  BY <1>3, <1>4, NowRefs
<1> HIDE DEF b
<1>6. Now(q + 1, k, c, q - 1, "insn", "0WAY", <<>>, <<>>)
  BY <1>3, <1>5, NowType
<1> HIDE DEF c
<1> QED BY <1>2, <1>6 DEF k

(* The block before the copy gets a goto to the exit if it falls into it.      *)
LEMMA FencedIs ==
  ASSUME NEW q, NEW w, Array(q + 1, w), q \in Nat, q >= 2, NEW s,
         Len(w[q-2].succ) = 1 /\ w[q-2].op \notin {"goto", "jcond", "ijmp", "ret"}
           => w[q-2].succ = <<q>>
  PROVE  \/ Fenced(w, s, q - 1) = w
         \/ /\ Now(q + 1, w, Fenced(w, s, q - 1), q - 2, "goto", "1WAY", <<q>>, <<q>>)
            /\ w[q-2].succ = <<q>> /\ w[q-2].op # "jcond"
<1> DEFINE c == MakeOneWay(w, q - 2, q)
           bare == DelSucc(c, q - 2, q - 1)
<1>1. /\ (q - 1) - 1 = q - 2 /\ (q - 1) + 1 = q /\ q - 2 \in 0..(q+1)-1 /\ q \in 0..MaxBlocks-1
      /\ q - 1 # q
  <2>1. q + 1 <= MaxBlocks /\ MaxBlocks \in Nat
    BY ArrayIs, Bound
  <2> QED BY <2>1
<1>2. CASE ~(q - 2 # s /\ Nsucc(w, q - 2) = 1 /\ w[q-2].op \notin {"goto", "jcond", "ijmp", "ret"})
  BY <1>1, <1>2 DEF Fenced
<1>3. CASE q - 2 # s /\ Nsucc(w, q - 2) = 1 /\ w[q-2].op \notin {"goto", "jcond", "ijmp", "ret"}
  <2>1. w[q-2].succ = <<q>>
    BY <1>3 DEF Nsucc
  <2>2. Now(q + 1, w, c, q - 2, "goto", "1WAY", <<q>>, <<q>>)
    <3>1. Now(q + 1, w, w, q - 2, w[q-2].op, w[q-2].type, w[q-2].refs, <<q>>)
      BY <1>1, <2>1, NowBegins
    <3> QED BY <1>1, <3>1, NowMakeOneWay
  <2>3. RemoveFirst(<<q>>, q - 1) = <<q>> /\ ToSet(<<q>>) = {q}
    <3> DEFINE u == <<q>>
    <3>1. u \in Seq({q}) /\ ToSet(u) = {q}
      BY OneElement
    <3> HIDE DEF u
    <3>2. q - 1 \notin ToSet(u) /\ u \in Seq({q})
      BY <1>1, <3>1
    <3>3. \A at \in 1..Len(u) : u[at] # q - 1
      BY <3>1, <3>2, Elements
    <3>4. RemoveFirst(u, q - 1) = u
      <4>1. FirstTaken({q}, u, q - 1, RemoveFirst(u, q - 1))
        BY <3>1, Removing
      <4> QED BY <3>3, <4>1 DEF FirstTaken
    <3> QED BY <3>1, <3>4 DEF u
  <2>4. Fenced(w, s, q - 1) = IF q \in ToSet(bare[q-2].succ) THEN bare ELSE AddSucc(bare, q - 2, q)
    BY <1>1, <1>3 DEF Fenced
  <2> HIDE DEF c
  <2>5. Now(q + 1, w, bare, q - 2, "goto", "1WAY", <<q>>, RemoveFirst(<<q>>, q - 1))
    BY <2>2, NowDelSucc
  <2> HIDE DEF bare
  <2>6. Now(q + 1, w, bare, q - 2, "goto", "1WAY", <<q>>, <<q>>)
    BY <2>3, <2>5
  <2>7. bare[q-2].succ = <<q>>
    BY <2>6 DEF Now
  <2>8. Fenced(w, s, q - 1) = bare
    BY <2>3, <2>4, <2>7
  <2> QED BY <1>3, <2>1, <2>6, <2>8
<1> QED BY <1>2, <1>3

-------------------------------------------------------------------------------
(* The invariant.  n is the exit's serial number at the start, q the number of *)
(* blocks there are now: the blocks created stand between the others and the   *)
(* exit, in the order of their identities.                                     *)

IdAt(n, q, x) == IF x < n THEN x ELSE IF x = q - 1 THEN n ELSE x + 1
Leads(n, q, m, x) == {IdAt(n, q, t) : t \in ToSet(m[x].succ)}
Behind(n, q, x) == IF x + 1 = n THEN q - 1 ELSE x + 1

Placed(n, q, m) ==
  Array(q, m) /\ n \in 1..q-1 /\ \A x \in 0..q-1 : m[x].id = IdAt(n, q, x)

Closed(q, m) == \A x \in 0..q-1 : ToSet(m[x].succ) \subseteq 0..q-1

(* Of the blocks that f knows, control goes where f says.                      *)
Flows(n, q, m, f) ==
  /\ DOMAIN f \subseteq 0..q-1
  /\ \A x \in 0..q-1 : IdAt(n, q, x) \in DOMAIN f => f[IdAt(n, q, x)] = Leads(n, q, m, x)

(* A block that branches goes to the next one or to what its jump names.       *)
BranchesTo(n, q, b, x, r) ==
  b.refs = <<r>> /\ (b.succ = <<Behind(n, q, x), r>> \/ b.succ = <<r, Behind(n, q, x)>>)

Branching(n, q, m) ==
  \A x \in 0..n-1 : m[x].op = "jcond" /\ Len(m[x].succ) = 2 =>
    \E r \in 0..q-1 : BranchesTo(n, q, m[x], x, r)

Lives(n, q, m, f) ==
  Placed(n, q, m) /\ Closed(q, m) /\ Flows(n, q, m, f) /\ DOMAIN f = 0..q-1 /\ Branching(n, q, m)

(* As long as blocks are created, of the start graph g no more has changed     *)
(* than the edges into the blocks that were duplicated.                        *)
Fresh(n, q, m, g) ==
  /\ \A x \in 0..n-1 :
        /\ Len(m[x].succ) = Len(g[x].succ)
        /\ m[x].type = "0WAY" => g[x].type = "0WAY"
        /\ q - 1 \in ToSet(m[x].succ) => n \in ToSet(g[x].succ)
        /\ m[x].op = "jcond" /\ Len(m[x].succ) = 2 => m[x].succ[1] # m[x].succ[2]
  /\ Len(m[q-2].succ) = 1 /\ m[q-2].op \notin {"goto", "jcond", "ijmp", "ret"}
        => m[q-2].succ = <<q - 1>>

(* What is known of an edit in the queue, all being the number of blocks the   *)
(* plan creates.                                                               *)
Item(n, all, e) ==
  /\ e.kind \in {"goto", "branch", "convert", "remove", "insert", "split", "duplicate", "copy"}
  /\ e.at \in 0..n-1
  /\ e.kind \in {"goto", "branch", "convert", "remove"} =>
        e.to \in 0..n /\ e.aim = IF e.to = n THEN n + all ELSE e.to
  /\ e.kind \in {"insert", "split", "duplicate"} => e.to \in 0..n-1 /\ e.aim = e.to
  /\ e.kind = "insert" => start[e.to].type # "0WAY"
  /\ e.kind = "split" => e.src \in 0..n-1
  /\ e.kind \in {"duplicate", "copy"} => e.via \in 0..n-1 /\ Len(start[e.at].succ) <= 2
  /\ e.kind = "copy" => n \notin ToSet(start[e.at].succ)
  /\ Creates(e) => e.serial \in Nat /\ e.serial + NewBlocks(start, e) <= n + all

(* What a plain plan may have.                                                 *)
Plainly(m) == {e \in Modifications(m) : ~EndsFunction(m, e)}

All == BlocksBefore(start, plan, Len(plan) + 1)
Edits == {Compiled(start, plan)[i] : i \in DOMAIN plan}

(* The edits that create blocks come first.                                    *)
CreatesFirst(u) == \A k \in 1..Len(u) : Creates(u[k]) => \A j \in 1..k : Creates(u[j])

(* The queue u is about to be applied to the graph m of q blocks, in which     *)
(* control goes where f says.                                                  *)
Waiting(n, q, m, u, f) ==
  /\ Lives(n, q, m, f)
  /\ \A k \in 1..Len(u) : Item(n, All, u[k])
  /\ CreatesFirst(u)
  /\ q - 1 <= n + All
  /\ q + 2 * Len(u) <= n + 1 + 2 * Len(plan)
  /\ Creates(u[1]) => Fresh(n, q, m, start)

Control ==
  /\ start \in Graphs
  /\ Len(plan) \in 1..MaxPlan /\ plan \in [1..Len(plan) -> Plainly(start)]
  /\ queue \in Seq(Edits)
  /\ counted \in Nat /\ Len(queue) + counted <= Len(plan)
  /\ broken \in BOOLEAN /\ restored \in BOOLEAN
  /\ phase \in {"planned", "applying", "done"}
  /\ verdict \in Verdicts
  /\ phase = "done" <=> verdict # "none"

IInv ==
  LET n == ExitSerial(start)
      q == Qty(mba)
  IN  /\ Control
      /\ Placed(n, q, mba)
      /\ phase = "planned" =>
            mba = start /\ queue = <<>> /\ intended = Flow(start) /\ counted = 0 /\ ~broken
      /\ phase # "done" => ~restored
      /\ phase = "applying" /\ queue # <<>> =>
            /\ ~broken
            /\ Waiting(n, q, mba, queue, intended)
      /\ ~broken /\ ~restored /\ verdict # "native_verify" =>
            Closed(q, mba) /\ Flows(n, q, mba, intended)
      /\ broken =>
            /\ queue = <<>> /\ (restored \/ verdict # "ok")
            /\ phase = "applying" => ~Closed(q, mba)
      /\ RestoredIsStart

-------------------------------------------------------------------------------
(* Places and identities                                                       *)

LEMMA IdIs ==
  ASSUME NEW n \in Nat, NEW q \in Nat, 1 <= n, n <= q - 1
  PROVE  /\ \A x \in 0..q-1 : IdAt(n, q, x) \in 0..q-1
         /\ \A x, y \in 0..q-1 : IdAt(n, q, x) = IdAt(n, q, y) => x = y
         /\ \A i \in 0..q-1 : \E x \in 0..q-1 : IdAt(n, q, x) = i
         /\ \A x \in 0..n-1 : IdAt(n, q, x) = x /\ x \in 0..q-1
         /\ IdAt(n, q, q - 1) = n
         /\ \A x \in 0..n-1 : Behind(n, q, x) \in 0..q-1 /\ IdAt(n, q, Behind(n, q, x)) = x + 1
<1>1. \A i \in 0..q-1 : \E x \in 0..q-1 : IdAt(n, q, x) = i
  <2> TAKE i \in 0..q-1
  <2>1. CASE i < n
    BY <2>1 DEF IdAt
  <2>2. CASE i = n
    <3>1. q - 1 \in 0..q-1 /\ IdAt(n, q, q - 1) = i
      BY <2>2 DEF IdAt
    <3> QED BY <3>1
  <2>3. CASE i > n
    <3>1. i - 1 \in 0..q-1 /\ IdAt(n, q, i - 1) = i
      BY <2>3 DEF IdAt
    <3> QED BY <3>1
  <2> QED BY <2>1, <2>2, <2>3
<1> QED BY <1>1 DEF IdAt, Behind

LEMMA IdLow ==
  ASSUME NEW n \in Nat, NEW q \in Nat, 1 <= n, n <= q - 1, NEW x \in 0..n-1
  PROVE  /\ IdAt(n, q, x) = x /\ x \in 0..q-1
         /\ Behind(n, q, x) \in 0..q-1 /\ IdAt(n, q, Behind(n, q, x)) = x + 1
BY DEF IdAt, Behind

(* After a block was created.                                                  *)
LEMMA IdMoves ==
  ASSUME NEW n \in Nat, NEW q \in Nat, 1 <= n, n <= q - 1
  PROVE  /\ \A x \in 0..q-1 : Place(q, x) \in 0..q /\ Place(q, x) # q - 1
         /\ \A x \in 0..q-1 : IdAt(n, q + 1, Place(q, x)) = IdAt(n, q, x)
         /\ \A y \in 0..q : y # q - 1 => \E x \in 0..q-1 : y = Place(q, x)
         /\ \A x \in 0..n-1 : Place(q, x) = x /\ Place(q, Behind(n, q, x)) = Behind(n, q + 1, x)
         /\ \A x \in 0..q-1 : x # q - 1 => Place(q, x) = x
         /\ IdAt(n, q + 1, q - 1) = q
<1>1. \A y \in 0..q : y # q - 1 => \E x \in 0..q-1 : y = Place(q, x)
  <2> TAKE y \in 0..q
  <2>1. CASE y = q
    <3>1. q - 1 \in 0..q-1 /\ y = Place(q, q - 1)
      BY <2>1 DEF Place
    <3> QED BY <3>1
  <2>2. CASE y < q - 1
    <3>1. y \in 0..q-1 /\ y = Place(q, y)
      BY <2>2 DEF Place
    <3> QED BY <3>1
  <2> QED BY <2>1, <2>2
<1>2. /\ \A x \in 0..q-1 : Place(q, x) \in 0..q /\ Place(q, x) # q - 1
      /\ \A x \in 0..q-1 : IdAt(n, q + 1, Place(q, x)) = IdAt(n, q, x)
      /\ IdAt(n, q + 1, q - 1) = q
  BY DEF Place, IdAt
<1>3. /\ \A x \in 0..n-1 : Place(q, x) = x /\ Place(q, Behind(n, q, x)) = Behind(n, q + 1, x)
      /\ \A x \in 0..q-1 : x # q - 1 => Place(q, x) = x
  BY DEF Place, Behind
<1> QED BY <1>1, <1>2, <1>3

LEMMA PlacedIs ==
  ASSUME NEW n, NEW q, NEW m, Placed(n, q, m)
  PROVE  /\ n \in Nat /\ q \in Nat /\ 1 <= n /\ n <= q - 1 /\ q <= MaxBlocks /\ q >= 2
         /\ MaxBlocks \in Nat
         /\ Array(q, m) /\ DOMAIN m = 0..q-1 /\ Qty(m) = q /\ ExitSerial(m) = q - 1
         /\ \A t : Missing(m, t) <=> t \notin 0..q-1
         /\ \A x \in 0..q-1 : m[x].id = IdAt(n, q, x)
<1>1. Array(q, m) /\ n \in 1..q-1 /\ \A x \in 0..q-1 : m[x].id = IdAt(n, q, x)
  BY DEF Placed
<1> QED BY <1>1, ArrayIs, Bound

LEMMA LeadsIs ==
  ASSUME NEW n, NEW q, NEW m, Placed(n, q, m), Closed(q, m), NEW x \in 0..q-1
  PROVE  Leads(n, q, m, x) \subseteq 0..q-1
<1>1. n \in Nat /\ q \in Nat /\ 1 <= n /\ n <= q - 1
  BY PlacedIs
<1>2. \A t \in 0..q-1 : IdAt(n, q, t) \in 0..q-1
  BY <1>1, IdIs
<1>3. ToSet(m[x].succ) \subseteq 0..q-1
  BY DEF Closed
<1> QED BY <1>2, <1>3 DEF Leads

(* Where control goes according to the model's definition.                     *)
LEMMA FlowAt ==
  ASSUME NEW n, NEW q, NEW m, Placed(n, q, m), Closed(q, m)
  PROVE  /\ DOMAIN Flow(m) = 0..q-1
         /\ \A x \in 0..q-1 : Flow(m)[IdAt(n, q, x)] = Leads(n, q, m, x)
<1> DEFINE At(id) == CHOOSE s \in DOMAIN m : m[s].id = id
           Ids == {m[s].id : s \in DOMAIN m}
<1>1. /\ n \in Nat /\ q \in Nat /\ 1 <= n /\ n <= q - 1 /\ DOMAIN m = 0..q-1
      /\ \A x \in 0..q-1 : m[x].id = IdAt(n, q, x)
  BY PlacedIs
<1>2. Flow(m) = [id \in Ids |-> {m[t].id : t \in ToSet(m[At(id)].succ)}]
  BY DEF Flow
<1>3. Ids = 0..q-1
  <2>1. \A x \in 0..q-1 : IdAt(n, q, x) \in 0..q-1
    BY <1>1, IdIs
  <2>2. \A i \in 0..q-1 : \E x \in 0..q-1 : IdAt(n, q, x) = i
    BY <1>1, IdIs
  <2> QED BY <1>1, <2>1, <2>2
<1>4. ASSUME NEW x \in 0..q-1
      PROVE  Flow(m)[IdAt(n, q, x)] = Leads(n, q, m, x)
  <2> DEFINE i == IdAt(n, q, x)
  <2>1. i \in Ids
    BY <1>1
  <2>2. \A s \in 0..q-1 : m[s].id = i => s = x
    <3>1. \A a, b \in 0..q-1 : IdAt(n, q, a) = IdAt(n, q, b) => a = b
      BY <1>1, IdIs
    <3> QED BY <1>1, <3>1
  <2>3. At(i) = x
    BY <1>1, <2>2
  <2>4. Flow(m)[i] = {m[t].id : t \in ToSet(m[x].succ)}
    <3> HIDE DEF i, At, Ids
    <3> QED BY <1>2, <2>1, <2>3
  <2>5. ToSet(m[x].succ) \subseteq 0..q-1
    BY DEF Closed
  <2>6. {m[t].id : t \in ToSet(m[x].succ)} = Leads(n, q, m, x)
    BY <1>1, <2>5 DEF Leads
  <2> QED BY <2>4, <2>6
<1>5. DOMAIN Flow(m) = 0..q-1
  <2> HIDE DEF At, Ids
  <2> QED BY <1>2, <1>3
<1> QED BY <1>4, <1>5

-------------------------------------------------------------------------------
(* Changing a block, creating one                                              *)

LEMMA NowIs ==
  ASSUME NEW q, NEW k, NEW m, NEW s, NEW op, NEW type, NEW refs, NEW succ,
         Now(q, k, m, s, op, type, refs, succ)
  PROVE  /\ Array(q, m) /\ s \in 0..q-1 /\ succ \in Sequences
         /\ \A x \in 0..q-1 : m[x].id = k[x].id
         /\ \A x \in 0..q-1 : x # s =>
               /\ m[x].op = k[x].op /\ m[x].type = k[x].type
               /\ m[x].refs = k[x].refs /\ m[x].succ = k[x].succ
         /\ m[s].op = op /\ m[s].type = type /\ m[s].refs = refs /\ m[s].succ = succ
<1>1. succ \in Sequences
  BY NowTyped
<1> QED BY <1>1 DEF Now, SameTail

LEMMA EditPlaced ==
  ASSUME NEW n, NEW q, NEW m, Placed(n, q, m),
         NEW s, NEW m2, NEW op, NEW type, NEW refs, NEW succ,
         Now(q, m, m2, s, op, type, refs, succ)
  PROVE  Placed(n, q, m2)
<1>1. Array(q, m2) /\ \A x \in 0..q-1 : m2[x].id = m[x].id
  BY NowIs
<1> QED BY <1>1 DEF Placed

(* The block s leads elsewhere.                                                *)
Redirected(n, q, s, succ, f, f2) ==
  /\ DOMAIN f2 = DOMAIN f
  /\ \A i \in DOMAIN f :
        f2[i] = IF i = IdAt(n, q, s) THEN {IdAt(n, q, t) : t \in ToSet(succ)} ELSE f[i]

LEMMA EditFlows ==
  ASSUME NEW n, NEW q, NEW m, NEW f, Placed(n, q, m), Closed(q, m), Flows(n, q, m, f),
         NEW s, NEW m2, NEW op, NEW type, NEW refs, NEW succ,
         Now(q, m, m2, s, op, type, refs, succ), ToSet(succ) \subseteq 0..q-1,
         NEW f2, Redirected(n, q, s, succ, f, f2)
  PROVE  Closed(q, m2) /\ Flows(n, q, m2, f2)
<1>1. /\ n \in Nat /\ q \in Nat /\ 1 <= n /\ n <= q - 1 /\ s \in 0..q-1
      /\ \A x \in 0..q-1 : x # s => m2[x].succ = m[x].succ
      /\ m2[s].succ = succ
  BY PlacedIs, NowIs
<1>2. \A x, y \in 0..q-1 : IdAt(n, q, x) = IdAt(n, q, y) => x = y
  BY <1>1, IdIs
<1>3. Closed(q, m2)
  BY <1>1 DEF Closed
<1>4. ASSUME NEW x \in 0..q-1, IdAt(n, q, x) \in DOMAIN f2
      PROVE  f2[IdAt(n, q, x)] = Leads(n, q, m2, x)
  <2>1. CASE x = s
    BY <1>1, <1>4, <2>1 DEF Leads, Redirected
  <2>2. CASE x # s
    <3>1. IdAt(n, q, x) # IdAt(n, q, s)
      BY <1>1, <1>2, <2>2
    <3>2. f2[IdAt(n, q, x)] = f[IdAt(n, q, x)]
      BY <1>4, <3>1 DEF Redirected
    <3>3. f[IdAt(n, q, x)] = Leads(n, q, m, x)
      BY <1>4 DEF Flows, Redirected
    <3>4. Leads(n, q, m2, x) = Leads(n, q, m, x)
      BY <1>1, <2>2 DEF Leads
    <3> QED BY <3>2, <3>3, <3>4
  <2> QED BY <2>1, <2>2
<1>5. DOMAIN f2 \subseteq 0..q-1
  BY DEF Flows, Redirected
<1> QED BY <1>3, <1>4, <1>5 DEF Flows

LEMMA EditLives ==
  ASSUME NEW n, NEW q, NEW m, NEW f, Lives(n, q, m, f),
         NEW s, NEW m2, NEW op, NEW type, NEW refs, NEW succ,
         Now(q, m, m2, s, op, type, refs, succ), ToSet(succ) \subseteq 0..q-1,
         s < n /\ op = "jcond" /\ Len(succ) = 2 =>
            \E r \in 0..q-1 : BranchesTo(n, q, m2[s], s, r),
         NEW f2, Redirected(n, q, s, succ, f, f2)
  PROVE  Lives(n, q, m2, f2)
<1>1. /\ Placed(n, q, m) /\ Closed(q, m) /\ Flows(n, q, m, f) /\ DOMAIN f = 0..q-1
      /\ Branching(n, q, m)
  BY DEF Lives
<1>2. Placed(n, q, m2)
  BY <1>1, EditPlaced
<1>3. Closed(q, m2) /\ Flows(n, q, m2, f2)
  BY <1>1, EditFlows
<1>4. Branching(n, q, m2)
  <2>1. /\ n \in Nat /\ q \in Nat /\ 1 <= n /\ n <= q - 1
        /\ \A x \in 0..q-1 : x # s =>
               /\ m2[x].op = m[x].op /\ m2[x].refs = m[x].refs /\ m2[x].succ = m[x].succ
        /\ m2[s].op = op /\ m2[s].succ = succ
    BY <1>1, PlacedIs, NowIs
  <2> SUFFICES ASSUME NEW x \in 0..n-1, m2[x].op = "jcond", Len(m2[x].succ) = 2
               PROVE  \E r \in 0..q-1 : BranchesTo(n, q, m2[x], x, r)
    BY DEF Branching
  <2>2. CASE x = s
    BY <2>1, <2>2
  <2>3. CASE x # s
    <3>1. x \in 0..q-1
      BY <2>1
    <3>2. \E r \in 0..q-1 : BranchesTo(n, q, m[x], x, r)
      BY <1>1, <2>1, <2>3, <3>1 DEF Branching
    <3> QED BY <2>1, <2>3, <3>1, <3>2 DEF BranchesTo
  <2> QED BY <2>2, <2>3
<1>5. DOMAIN f2 = 0..q-1
  BY <1>1 DEF Redirected
<1> QED BY <1>2, <1>3, <1>4, <1>5 DEF Lives

LEMMA EditFresh ==
  ASSUME NEW n, NEW q, NEW m, NEW g, Placed(n, q, m), Fresh(n, q, m, g),
         NEW s, NEW m2, NEW op, NEW type, NEW refs, NEW succ,
         Now(q, m, m2, s, op, type, refs, succ),
         s < n => /\ Len(succ) = Len(m[s].succ)
                  /\ type = "0WAY" => m[s].type = "0WAY"
                  /\ q - 1 \in ToSet(succ) => q - 1 \in ToSet(m[s].succ)
                  /\ op = "jcond" /\ Len(succ) = 2 => succ[1] # succ[2],
         s = q - 2 /\ Len(succ) = 1 /\ op \notin {"goto", "jcond", "ijmp", "ret"}
            => succ = <<q - 1>>
  PROVE  Fresh(n, q, m2, g)
<1>1. /\ n \in Nat /\ q \in Nat /\ 1 <= n /\ n <= q - 1 /\ s \in 0..q-1
      /\ \A x \in 0..q-1 : x # s =>
             /\ m2[x].op = m[x].op /\ m2[x].type = m[x].type /\ m2[x].succ = m[x].succ
      /\ m2[s].op = op /\ m2[s].succ = succ /\ m2[s].type = type
  BY PlacedIs, NowIs
<1>2. ASSUME NEW x \in 0..n-1
      PROVE  /\ Len(m2[x].succ) = Len(g[x].succ)
             /\ m2[x].type = "0WAY" => g[x].type = "0WAY"
             /\ q - 1 \in ToSet(m2[x].succ) => n \in ToSet(g[x].succ)
             /\ m2[x].op = "jcond" /\ Len(m2[x].succ) = 2 => m2[x].succ[1] # m2[x].succ[2]
  <2>1. /\ Len(m[x].succ) = Len(g[x].succ)
        /\ m[x].type = "0WAY" => g[x].type = "0WAY"
        /\ q - 1 \in ToSet(m[x].succ) => n \in ToSet(g[x].succ)
        /\ m[x].op = "jcond" /\ Len(m[x].succ) = 2 => m[x].succ[1] # m[x].succ[2]
    BY DEF Fresh
  <2>2. x \in 0..q-1 /\ x < n
    BY <1>1
  <2>3. CASE x = s
    BY <1>1, <2>1, <2>2, <2>3
  <2>4. CASE x # s
    BY <1>1, <2>1, <2>2, <2>4
  <2> QED BY <2>3, <2>4
<1>3. Len(m2[q-2].succ) = 1 /\ m2[q-2].op \notin {"goto", "jcond", "ijmp", "ret"}
         => m2[q-2].succ = <<q - 1>>
  <2>1. Len(m[q-2].succ) = 1 /\ m[q-2].op \notin {"goto", "jcond", "ijmp", "ret"}
           => m[q-2].succ = <<q - 1>>
    BY DEF Fresh
  <2>2. q - 2 \in 0..q-1
    BY <1>1
  <2> QED BY <1>1, <2>1, <2>2
<1> QED BY <1>2, <1>3 DEF Fresh

(* A block was created and the others did not change.                          *)
SameAt(n, q, m, x, m2, y) ==
  /\ y \in 0..q /\ m2[y].op = m[x].op /\ m2[y].type = m[x].type
  /\ m2[y].refs = Moved(q, m[x].refs) /\ m2[y].succ = Moved(q, m[x].succ)
  /\ Len(m2[y].succ) = Len(m[x].succ)
  /\ ToSet(m2[y].succ) = {Place(q, t) : t \in ToSet(m[x].succ)}
  /\ ToSet(m2[y].succ) \subseteq 0..q
  /\ Leads(n, q + 1, m2, y) = Leads(n, q, m, x)

LEMMA GrowsIs ==
  ASSUME NEW n, NEW q, NEW m, Placed(n, q, m), Closed(q, m), NEW s, NEW k, Copied(q, m, s, k),
         NEW m2, NEW op, NEW type, NEW refs, NEW succ,
         Now(q + 1, k, m2, q - 1, op, type, refs, succ)
  PROVE  /\ Placed(n, q + 1, m2)
         /\ \A x \in 0..q-1 : SameAt(n, q, m, x, m2, Place(q, x))
         /\ m2[q-1].op = op /\ m2[q-1].type = type /\ m2[q-1].refs = refs /\ m2[q-1].succ = succ
<1>1. /\ n \in Nat /\ q \in Nat /\ 1 <= n /\ n <= q - 1 /\ q + 1 \in Nat /\ n \in 1..(q+1)-1
      /\ (q + 1) - 1 = q /\ q < MaxBlocks /\ Array(q, m)
      /\ \A x \in 0..q-1 : m[x].id = IdAt(n, q, x)
  BY PlacedIs, CopiedIs
<1>2. /\ Array(q + 1, m2)
      /\ \A x \in 0..q : m2[x].id = k[x].id
      /\ \A x \in 0..q : x # q - 1 =>
            /\ m2[x].op = k[x].op /\ m2[x].type = k[x].type
            /\ m2[x].refs = k[x].refs /\ m2[x].succ = k[x].succ
      /\ m2[q-1].op = op /\ m2[q-1].type = type /\ m2[q-1].refs = refs /\ m2[q-1].succ = succ
  BY <1>1, NowIs
<1>3. /\ \A x \in 0..q-1 : Place(q, x) \in 0..q /\ Place(q, x) # q - 1
      /\ \A x \in 0..q-1 : IdAt(n, q + 1, Place(q, x)) = IdAt(n, q, x)
      /\ \A y \in 0..q : y # q - 1 => \E x \in 0..q-1 : y = Place(q, x)
      /\ IdAt(n, q + 1, q - 1) = q
  BY <1>1, IdMoves
<1>4. /\ \A x \in 0..q-1 : k[Place(q, x)].id = m[x].id /\ Shifted(q, m[x], k[Place(q, x)])
      /\ k[q-1].id = q
  BY DEF Copied
<1>5. Placed(n, q + 1, m2)
  <2>1. ASSUME NEW y \in 0..q
        PROVE  m2[y].id = IdAt(n, q + 1, y)
    <3>1. CASE y = q - 1
      BY <1>2, <1>3, <1>4, <3>1
    <3>2. CASE y # q - 1
      <4>1. PICK x \in 0..q-1 : y = Place(q, x)
        BY <1>3, <3>2
      <4>2. m2[y].id = m[x].id
        BY <1>2, <1>4, <4>1
      <4> QED BY <1>1, <1>3, <4>1, <4>2
    <3> QED BY <3>1, <3>2
  <2> QED BY <1>1, <1>2, <2>1 DEF Placed
<1>6. ASSUME NEW x \in 0..q-1, NEW y, y = Place(q, x)
      PROVE  SameAt(n, q, m, x, m2, y)
  <2>1. y \in 0..q /\ y # q - 1
    BY <1>3, <1>6
  <2>2. /\ k[y].op = m[x].op /\ k[y].type = m[x].type
        /\ k[y].refs = Moved(q, m[x].refs) /\ k[y].succ = Moved(q, m[x].succ)
    BY <1>4, <1>6 DEF Shifted
  <2>3. /\ m2[y].op = m[x].op /\ m2[y].type = m[x].type
        /\ m2[y].refs = Moved(q, m[x].refs) /\ m2[y].succ = Moved(q, m[x].succ)
    BY <1>2, <2>1, <2>2
  <2>4. m[x].succ \in Sequences
    BY <1>1, BlockIs
  <2>5. /\ Len(Moved(q, m[x].succ)) = Len(m[x].succ)
        /\ ToSet(Moved(q, m[x].succ)) = {Place(q, t) : t \in ToSet(m[x].succ)}
    BY <1>1, <2>4, MovedIs
  <2>6. ToSet(m[x].succ) \subseteq 0..q-1
    BY DEF Closed
  <2>7. ToSet(m2[y].succ) \subseteq 0..q
    BY <1>3, <2>3, <2>5, <2>6
  <2>8. Leads(n, q + 1, m2, y) = Leads(n, q, m, x)
    BY <1>3, <2>3, <2>5, <2>6 DEF Leads
  <2> QED BY <2>1, <2>3, <2>5, <2>7, <2>8 DEF SameAt
<1> QED BY <1>2, <1>5, <1>6

LEMMA GrowsLive ==
  ASSUME NEW n, NEW q, NEW m, NEW f, Lives(n, q, m, f), NEW s, NEW k, Copied(q, m, s, k),
         NEW m2, NEW op, NEW type, NEW refs, NEW succ,
         Now(q + 1, k, m2, q - 1, op, type, refs, succ), ToSet(succ) \subseteq 0..q,
         NEW f2, DOMAIN f2 = 0..q, \A i \in 0..q-1 : f2[i] = f[i],
         f2[q] = {IdAt(n, q + 1, t) : t \in ToSet(succ)}
  PROVE  Lives(n, q + 1, m2, f2)
<1>1. /\ Placed(n, q, m) /\ Closed(q, m) /\ Flows(n, q, m, f) /\ DOMAIN f = 0..q-1
      /\ Branching(n, q, m)
  BY DEF Lives
<1>2. /\ n \in Nat /\ q \in Nat /\ 1 <= n /\ n <= q - 1 /\ (q + 1) - 1 = q
  BY <1>1, PlacedIs
<1>3. /\ Placed(n, q + 1, m2)
      /\ \A x \in 0..q-1 : SameAt(n, q, m, x, m2, Place(q, x))
      /\ m2[q-1].op = op /\ m2[q-1].type = type /\ m2[q-1].refs = refs /\ m2[q-1].succ = succ
  BY <1>1, GrowsIs
<1>4. /\ \A x \in 0..q-1 : IdAt(n, q + 1, Place(q, x)) = IdAt(n, q, x)
      /\ \A y \in 0..q : y # q - 1 => \E x \in 0..q-1 : y = Place(q, x)
      /\ IdAt(n, q + 1, q - 1) = q
      /\ \A x \in 0..n-1 : Place(q, x) = x /\ Place(q, Behind(n, q, x)) = Behind(n, q + 1, x)
      /\ \A x \in 0..q-1 : IdAt(n, q, x) \in 0..q-1
      /\ \A x \in 0..n-1 : x \in 0..q-1
      /\ \A x \in 0..q-1 : Place(q, x) \in 0..q
  BY <1>2, IdMoves, IdIs
<1>5. ASSUME NEW y \in 0..q
      PROVE  ToSet(m2[y].succ) \subseteq 0..q /\ f2[IdAt(n, q + 1, y)] = Leads(n, q + 1, m2, y)
  <2>1. CASE y = q - 1
    BY <1>3, <1>4, <2>1 DEF Leads
  <2>2. CASE y # q - 1
    <3>1. PICK x \in 0..q-1 : y = Place(q, x)
      BY <1>4, <2>2
    <3>2. ToSet(m2[y].succ) \subseteq 0..q /\ Leads(n, q + 1, m2, y) = Leads(n, q, m, x)
      BY <1>3, <3>1 DEF SameAt
    <3>3. f[IdAt(n, q, x)] = Leads(n, q, m, x)
      BY <1>1, <1>4 DEF Flows
    <3> QED BY <1>4, <3>1, <3>2, <3>3
  <2> QED BY <2>1, <2>2
<1>6. ASSUME NEW x \in 0..n-1, m2[x].op = "jcond", Len(m2[x].succ) = 2
      PROVE  \E r \in 0..q : BranchesTo(n, q + 1, m2[x], x, r)
  <2>1. x \in 0..q-1 /\ Place(q, x) = x
    BY <1>4
  <2>2. /\ m2[x].op = m[x].op /\ Len(m2[x].succ) = Len(m[x].succ)
        /\ m2[x].refs = Moved(q, m[x].refs) /\ m2[x].succ = Moved(q, m[x].succ)
    BY <1>3, <2>1 DEF SameAt
  <2>3. PICK r \in 0..q-1 : BranchesTo(n, q, m[x], x, r)
    BY <1>1, <1>6, <2>2 DEF Branching
  <2> DEFINE b == Behind(n, q, x)
             c == Place(q, r)
  <2>4. m2[x].refs = <<c>>
    BY <2>2, <2>3, MovedOne DEF BranchesTo
  <2>5. Moved(q, <<b, r>>) = <<Place(q, b), c>> /\ Moved(q, <<r, b>>) = <<c, Place(q, b)>>
    BY MovedTwo
  <2>6. m2[x].succ = <<Behind(n, q + 1, x), c>> \/ m2[x].succ = <<c, Behind(n, q + 1, x)>>
    BY <1>4, <2>2, <2>3, <2>5 DEF BranchesTo
  <2>7. c \in 0..q
    BY <1>4
  <2> HIDE DEF c
  <2>8. BranchesTo(n, q + 1, m2[x], x, c)
    BY <2>4, <2>6 DEF BranchesTo
  <2> QED BY <2>7, <2>8
<1>7. Closed(q + 1, m2)
  BY <1>2, <1>5 DEF Closed
<1>8. Flows(n, q + 1, m2, f2)
  BY <1>2, <1>5 DEF Flows
<1>9. Branching(n, q + 1, m2)
  BY <1>2, <1>6 DEF Branching
<1> QED BY <1>2, <1>3, <1>7, <1>8, <1>9 DEF Lives

LEMMA GrowsFresh ==
  ASSUME NEW n, NEW q, NEW m, NEW g, Placed(n, q, m), Closed(q, m), Fresh(n, q, m, g),
         NEW s, NEW k, Copied(q, m, s, k),
         NEW m2, NEW op, NEW type, NEW refs, NEW succ,
         Now(q + 1, k, m2, q - 1, op, type, refs, succ),
         Len(succ) = 1 /\ op \notin {"goto", "jcond", "ijmp", "ret"} => succ = <<q>>
  PROVE  Fresh(n, q + 1, m2, g)
<1>2. /\ n \in Nat /\ q \in Nat /\ 1 <= n /\ n <= q - 1 /\ (q + 1) - 1 = q /\ (q + 1) - 2 = q - 1
      /\ q < MaxBlocks /\ Array(q, m)
  BY PlacedIs, CopiedIs
<1>3. /\ \A x \in 0..q-1 : SameAt(n, q, m, x, m2, Place(q, x))
      /\ m2[q-1].op = op /\ m2[q-1].succ = succ
  BY GrowsIs
<1>4. ASSUME NEW x \in 0..n-1
      PROVE  /\ Len(m2[x].succ) = Len(g[x].succ)
             /\ m2[x].type = "0WAY" => g[x].type = "0WAY"
             /\ q \in ToSet(m2[x].succ) => n \in ToSet(g[x].succ)
             /\ m2[x].op = "jcond" /\ Len(m2[x].succ) = 2 => m2[x].succ[1] # m2[x].succ[2]
  <2>1. x \in 0..q-1 /\ Place(q, x) = x
    BY <1>2 DEF Place
  <2>2. /\ m2[x].op = m[x].op /\ m2[x].type = m[x].type
        /\ m2[x].succ = Moved(q, m[x].succ)
        /\ Len(m2[x].succ) = Len(m[x].succ)
        /\ ToSet(m2[x].succ) = {Place(q, t) : t \in ToSet(m[x].succ)}
    BY <1>3, <2>1 DEF SameAt
  <2>3. /\ Len(m[x].succ) = Len(g[x].succ)
        /\ m[x].type = "0WAY" => g[x].type = "0WAY"
        /\ q - 1 \in ToSet(m[x].succ) => n \in ToSet(g[x].succ)
        /\ m[x].op = "jcond" /\ Len(m[x].succ) = 2 => m[x].succ[1] # m[x].succ[2]
    BY DEF Fresh
  <2>4. ToSet(m[x].succ) \subseteq 0..q-1
    BY <2>1 DEF Closed
  <2>5. q \in ToSet(m2[x].succ) => q - 1 \in ToSet(m[x].succ)
    BY <1>2, <2>2, <2>4 DEF Place
  <2>6. ASSUME m2[x].op = "jcond", Len(m2[x].succ) = 2
        PROVE  m2[x].succ[1] # m2[x].succ[2]
    <3>1. m[x].succ \in Sequences /\ Len(m[x].succ) = 2 /\ m[x].succ[1] # m[x].succ[2]
      BY <1>2, <2>1, <2>2, <2>3, <2>6, BlockIs
    <3>2. m2[x].succ[1] = Place(q, m[x].succ[1]) /\ m2[x].succ[2] = Place(q, m[x].succ[2])
      BY <1>2, <2>2, <3>1, MovedIs
    <3>3. m[x].succ[1] \in ToSet(m[x].succ) /\ m[x].succ[2] \in ToSet(m[x].succ)
      <4>1. m[x].succ \in Seq(0..MaxBlocks-1)
        BY <3>1 DEF Sequences
      <4>2. ToSet(m[x].succ) = {m[x].succ[i] : i \in 1..Len(m[x].succ)}
        BY <4>1, Elements
      <4> QED BY <3>1, <4>2
    <3> QED BY <1>2, <2>4, <3>1, <3>2, <3>3 DEF Place
  <2> QED BY <2>2, <2>3, <2>5, <2>6
<1> QED BY <1>2, <1>3, <1>4 DEF Fresh

-------------------------------------------------------------------------------
(* Applying an edit                                                            *)

(* The graph an edit is applied to.                                            *)
Ready(n, q, m, f, all, e) ==
  /\ Lives(n, q, m, f) /\ Item(n, all, e)
  /\ all \in Nat /\ q - 1 <= n + all /\ n + all < MaxBlocks /\ q + 2 <= MaxBlocks
  /\ Creates(e) => Fresh(n, q, m, start)

(* How it may end.                                                             *)
EndsAs(n, q, f, e, r, qq) ==
  /\ Placed(n, qq, r.mba)
  /\ r.result = "done" =>
        /\ Lives(n, qq, r.mba, Effect(f, e))
        /\ ~Creates(e) => qq = q
        /\ Creates(e) => /\ Fresh(n, qq, r.mba, start)
                         /\ qq = q + NewBlocks(start, e) /\ e.serial = q - 1
  /\ r.result = "refused" => Closed(qq, r.mba) /\ Flows(n, qq, r.mba, f)
  /\ r.result = "raised" => ~Closed(qq, r.mba)

Applied(n, q, f, e, r) == \E qq \in q..q+2 : EndsAs(n, q, f, e, r, qq)

(* What an edit means, kind by kind.                                           *)
LEMMA EffectIs ==
  ASSUME NEW f, NEW e
  PROVE  LET new == Cardinality(DOMAIN f)
             Sent(g, s, from) == [g EXCEPT ![s] = (@ \ from) \cup {new}]
         IN  /\ e.kind \in {"goto", "convert"} => Effect(f, e) = [f EXCEPT ![e.at] = {e.to}]
             /\ e.kind = "branch" => Effect(f, e) = [f EXCEPT ![e.at] = {e.at + 1, e.to}]
             /\ e.kind = "remove" => Effect(f, e) = [f EXCEPT ![e.at] = f[e.at] \ {e.to}]
             /\ e.kind \in {"insert", "split"} =>
                   Effect(f, e) = Sent(With(f, new, {e.to}), e.at, f[e.at])
             /\ e.kind = "duplicate" => Effect(f, e) = Sent(With(f, new, {e.to}), e.via, {e.at})
             /\ e.kind = "copy" /\ Cardinality(f[e.at]) = 2 =>
                   Effect(f, e) = Sent(With(With(f, new, (f[e.at] \ {e.at + 1}) \cup {new + 1}),
                                            new + 1, {e.at + 1}), e.via, {e.at})
             /\ e.kind = "copy" /\ Cardinality(f[e.at]) # 2 =>
                   Effect(f, e) = Sent(With(f, new, f[e.at]), e.via, {e.at})
<1> DEFINE new == Cardinality(DOMAIN f)
           Sent(g, s, from) == [g EXCEPT ![s] = (@ \ from) \cup {new}]
           v1 == [f EXCEPT ![e.at] = {e.to}]
           v2 == [f EXCEPT ![e.at] = {e.at + 1, e.to}]
           v3 == [f EXCEPT ![e.at] = @ \ {e.to}]
           v4 == Sent(With(f, new, {e.to}), e.at, f[e.at])
           v5 == Sent(With(f, new, {e.to}), e.via, {e.at})
           v6 == Sent(With(With(f, new, (f[e.at] \ {e.at + 1}) \cup {new + 1}),
                           new + 1, {e.at + 1}), e.via, {e.at})
           v7 == Sent(With(f, new, f[e.at]), e.via, {e.at})
           two == e.kind = "copy" /\ Cardinality(f[e.at]) = 2
<1>1. Effect(f, e) =
        CASE e.kind \in {"goto", "convert"} -> v1
          [] e.kind = "branch" -> v2
          [] e.kind = "remove" -> v3
          [] e.kind = "insert" -> v4
          [] e.kind = "split" -> v4
          [] e.kind = "duplicate" -> v5
          [] two -> v6
          [] OTHER -> v7
  BY DEF Effect, With
<1>2. v3 = [f EXCEPT ![e.at] = f[e.at] \ {e.to}]
  OBVIOUS
<1>3. two => e.kind = "copy"
  OBVIOUS
<1> HIDE DEF v1, v2, v3, v4, v5, v6, v7, two
<1>4. e.kind \in {"goto", "convert"} => Effect(f, e) = v1
  BY <1>1, <1>3, Zenon
<1>5. e.kind = "branch" => Effect(f, e) = v2
  BY <1>1, <1>3, Zenon
<1>6. e.kind = "remove" => Effect(f, e) = v3
  BY <1>1, <1>3, Zenon
<1>7. e.kind \in {"insert", "split"} => Effect(f, e) = v4
  BY <1>1, <1>3, Zenon
<1>8. e.kind = "duplicate" => Effect(f, e) = v5
  BY <1>1, <1>3, Zenon
<1>9. two => Effect(f, e) = v6
  BY <1>1, <1>3, Zenon
<1>10. e.kind = "copy" /\ ~two => Effect(f, e) = v7
  BY <1>1, <1>3, Zenon
<1> QED BY <1>2, <1>4, <1>5, <1>6, <1>7, <1>8, <1>9, <1>10 DEF v1, v2, v3, v4, v5, v6, v7, two

LEMMA OutcomeIs == \A m, y : Outcome(m, y).mba = m /\ Outcome(m, y).result = y
BY DEF Outcome

LEMMA ReadyIs ==
  ASSUME NEW n, NEW q, NEW m, NEW f, NEW all, NEW e, Ready(n, q, m, f, all, e)
  PROVE  /\ Lives(n, q, m, f) /\ Placed(n, q, m) /\ Closed(q, m) /\ Flows(n, q, m, f)
         /\ Branching(n, q, m) /\ DOMAIN f = 0..q-1
         /\ n \in Nat /\ q \in Nat /\ 1 <= n /\ n <= q - 1 /\ q >= 2 /\ MaxBlocks \in Nat
         /\ q < MaxBlocks /\ q + 1 < MaxBlocks
         /\ Array(q, m) /\ \A t : Missing(m, t) <=> t \notin 0..q-1
         /\ ExitSerial(m) = q - 1
         /\ e.at \in 0..n-1 /\ e.at \in 0..q-1
<1>1. /\ Lives(n, q, m, f) /\ q + 2 <= MaxBlocks /\ e.at \in 0..n-1
  BY DEF Ready, Item
<1>2. /\ Placed(n, q, m) /\ Closed(q, m) /\ Flows(n, q, m, f)
      /\ Branching(n, q, m) /\ DOMAIN f = 0..q-1
  BY <1>1 DEF Lives
<1>3. /\ n \in Nat /\ q \in Nat /\ 1 <= n /\ n <= q - 1 /\ q >= 2 /\ MaxBlocks \in Nat
      /\ Array(q, m) /\ (\A t : Missing(m, t) <=> t \notin 0..q-1) /\ ExitSerial(m) = q - 1
  BY <1>2, PlacedIs
<1>4. q < MaxBlocks /\ q + 1 < MaxBlocks /\ e.at \in 0..q-1
  BY <1>1, <1>3
<1> QED BY <1>1, <1>2, <1>3, <1>4

(* The serial number an edit aims at is that of the block it means.            *)
LEMMA AimIs ==
  ASSUME NEW n, NEW q, NEW m, NEW f, NEW all, NEW e, Ready(n, q, m, f, all, e), e.kind # "copy"
  PROVE  /\ e.aim \in 0..MaxBlocks-1 /\ e.to \in 0..n
         /\ e.aim \in 0..q-1 => IdAt(n, q, e.aim) = e.to
<1>1. n \in Nat /\ q \in Nat /\ 1 <= n /\ n <= q - 1 /\ MaxBlocks \in Nat
  BY ReadyIs
<1>2. all \in Nat /\ q - 1 <= n + all /\ n + all < MaxBlocks
  BY DEF Ready
<1>3. CASE e.kind \in {"goto", "branch", "convert", "remove"}
  <2>1. e.to \in 0..n /\ e.aim = IF e.to = n THEN n + all ELSE e.to
    BY <1>3 DEF Ready, Item
  <2>2. CASE e.to = n
    BY <1>1, <1>2, <2>1, <2>2 DEF IdAt
  <2>3. CASE e.to # n
    BY <1>1, <1>2, <2>1, <2>3 DEF IdAt
  <2> QED BY <2>2, <2>3
<1>4. CASE e.kind \in {"insert", "split", "duplicate"}
  <2>1. e.to \in 0..n-1 /\ e.aim = e.to
    BY <1>4 DEF Ready, Item
  <2> QED BY <1>1, <1>2, <2>1 DEF IdAt
<1> QED BY <1>3, <1>4 DEF Ready, Item

LEMMA Unchanged ==
  ASSUME NEW n, NEW q, NEW m, NEW f, NEW all, NEW e, Ready(n, q, m, f, all, e),
         NEW r, r = Outcome(m, "refused")
  PROVE  Applied(n, q, f, e, r)
<1>1. r.mba = m /\ r.result = "refused"
  BY OutcomeIs
<1>2. Placed(n, q, m) /\ Closed(q, m) /\ Flows(n, q, m, f) /\ q \in q..q+2
  BY ReadyIs
<1>3. EndsAs(n, q, f, e, r, q)
  BY <1>1, <1>2 DEF EndsAs
<1> QED BY <1>2, <1>3 DEF Applied

LEMMA ExceptIs ==
  ASSUME NEW f, NEW a \in DOMAIN f, NEW v
  PROVE  LET g == [f EXCEPT ![a] = v]
         IN  DOMAIN g = DOMAIN f /\ \A i \in DOMAIN f : g[i] = IF i = a THEN v ELSE f[i]
OBVIOUS

(* The edit changes one of the blocks of the start graph.                      *)
Does(n, q, f, e, m2, op, succ) ==
  /\ ToSet(succ) \subseteq 0..q-1
  /\ op = "jcond" /\ Len(succ) = 2 => \E r \in 0..q-1 : BranchesTo(n, q, m2[e.at], e.at, r)
  /\ Effect(f, e) = [f EXCEPT ![e.at] = {IdAt(n, q, t) : t \in ToSet(succ)}]

LEMMA EditApplied ==
  ASSUME NEW n, NEW q, NEW m, NEW f, NEW all, NEW e, Ready(n, q, m, f, all, e), ~Creates(e),
         NEW m2, NEW op, NEW type, NEW refs, NEW succ,
         Now(q, m, m2, e.at, op, type, refs, succ),
         NEW y, y \in {"done", "raised"},
         y = "raised" => ~(ToSet(succ) \subseteq 0..q-1),
         y = "done" => Does(n, q, f, e, m2, op, succ),
         NEW r, r = Outcome(m2, y)
  PROVE  Applied(n, q, f, e, r)
<1>1. /\ Lives(n, q, m, f) /\ Placed(n, q, m) /\ DOMAIN f = 0..q-1 /\ e.at \in 0..n-1
      /\ n \in Nat /\ q \in Nat /\ 1 <= n /\ n <= q - 1 /\ q \in q..q+2 /\ e.at \in 0..q-1
  BY ReadyIs
<1>2. r.mba = m2 /\ r.result = y
  BY OutcomeIs
<1>3. Placed(n, q, m2)
  BY <1>1, EditPlaced
<1>4. ASSUME y = "raised"
      PROVE  ~Closed(q, m2)
  <2>1. m2[e.at].succ = succ
    BY NowIs
  <2> QED BY <1>1, <1>4, <2>1 DEF Closed
<1>5. ASSUME y = "done"
      PROVE  Lives(n, q, m2, Effect(f, e))
  <2> DEFINE f2 == [f EXCEPT ![e.at] = {IdAt(n, q, t) : t \in ToSet(succ)}]
  <2>1. IdAt(n, q, e.at) = e.at
    BY <1>1, IdIs
  <2>2. Redirected(n, q, e.at, succ, f, f2)
    BY <1>1, <2>1 DEF Redirected
  <2> HIDE DEF f2
  <2>3. Lives(n, q, m2, f2)
    BY <1>1, <1>5, <2>2, EditLives DEF Does
  <2> QED BY <1>5, <2>3 DEF f2, Does
<1>6. EndsAs(n, q, f, e, r, q)
  BY <1>2, <1>3, <1>4, <1>5 DEF EndsAs
<1> QED BY <1>1, <1>6 DEF Applied

LEMMA GotoApplied ==
  ASSUME NEW n, NEW q, NEW m, NEW f, NEW all, NEW e, Ready(n, q, m, f, all, e),
         e.kind = "goto"
  PROVE  Applied(n, q, f, e, GotoChange(m, e))
<1> DEFINE r == GotoChange(m, e)
           y == IF Missing(m, e.aim) THEN "raised" ELSE "done"
           m2 == Change1Way(m, e.at, e.aim)
           succ == <<e.aim>>
<1>1. /\ Array(q, m) /\ e.at \in 0..q-1 /\ \A t : Missing(m, t) <=> t \notin 0..q-1
  BY ReadyIs
<1>2. e.aim \in 0..MaxBlocks-1 /\ (e.aim \in 0..q-1 => IdAt(n, q, e.aim) = e.to)
  BY AimIs
<1>3. CASE ~CanChange1Way(m, e.at)
  <2>1. r = Outcome(m, "refused")
    BY <1>3 DEF GotoChange
  <2> QED BY <2>1, Unchanged
<1>4. CASE CanChange1Way(m, e.at)
  <2>1. r = Outcome(m2, y) /\ Len(m[e.at].succ) = 1
    BY <1>4 DEF GotoChange, CanChange1Way, Nsucc
  <2>2. Now(q, m, m2, e.at, "goto", "1WAY", <<e.aim>>, succ)
    BY <1>1, <1>2, <2>1, Change1WayIs
  <2>3. ToSet(succ) = {e.aim}
    BY <1>2, OneElement
  <2>4. Effect(f, e) = [f EXCEPT ![e.at] = {e.to}]
    BY EffectIs
  <2>5. ~Creates(e)
    BY DEF Creates
  <2> HIDE DEF m2, succ, r
  <2>6. y = "raised" => ~(ToSet(succ) \subseteq 0..q-1)
    BY <1>1, <2>3
  <2>7. y = "done" => Does(n, q, f, e, m2, "goto", succ)
    <3> SUFFICES ASSUME y = "done"
                 PROVE  /\ ToSet(succ) \subseteq 0..q-1
                        /\ Effect(f, e) = [f EXCEPT ![e.at] = {IdAt(n, q, t) : t \in ToSet(succ)}]
      BY DEF Does
    <3>1. e.aim \in 0..q-1
      BY <1>1
    <3>2. {IdAt(n, q, t) : t \in ToSet(succ)} = {e.to}
      BY <1>2, <2>3, <3>1
    <3> QED BY <2>3, <2>4, <3>1, <3>2
  <2>8. y \in {"done", "raised"}
    OBVIOUS
  <2> HIDE DEF y
  <2> QED BY <2>1, <2>2, <2>5, <2>6, <2>7, <2>8, EditApplied DEF r
<1> QED BY <1>3, <1>4 DEF r

LEMMA ConvertApplied ==
  ASSUME NEW n, NEW q, NEW m, NEW f, NEW all, NEW e, Ready(n, q, m, f, all, e),
         e.kind = "convert"
  PROVE  Applied(n, q, f, e, ConvertToGoto(m, e))
<1> DEFINE r == ConvertToGoto(m, e)
           y == IF Missing(m, e.aim) THEN "raised" ELSE "done"
           m2 == Make2WayGoto(m, e.at, e.aim)
           succ == <<e.aim>>
<1>1. /\ Array(q, m) /\ e.at \in 0..q-1 /\ \A t : Missing(m, t) <=> t \notin 0..q-1
  BY ReadyIs
<1>2. e.aim \in 0..MaxBlocks-1 /\ (e.aim \in 0..q-1 => IdAt(n, q, e.aim) = e.to)
  BY AimIs
<1>3. CASE Nsucc(m, e.at) # 2
  <2>1. r = Outcome(m, "refused")
    BY <1>3 DEF ConvertToGoto
  <2> QED BY <2>1, Unchanged
<1>4. CASE Nsucc(m, e.at) = 2
  <2>1. r = Outcome(m2, y)
    BY <1>4 DEF ConvertToGoto
  <2>2. Now(q, m, m2, e.at, "goto", "1WAY", <<e.aim>>, succ)
    BY <1>1, <1>2, Make2WayGotoIs
  <2>3. ToSet(succ) = {e.aim}
    BY <1>2, OneElement
  <2>4. Effect(f, e) = [f EXCEPT ![e.at] = {e.to}]
    BY EffectIs
  <2>5. ~Creates(e)
    BY DEF Creates
  <2> HIDE DEF m2, succ, r
  <2>6. y = "raised" => ~(ToSet(succ) \subseteq 0..q-1)
    BY <1>1, <2>3
  <2>7. y = "done" => Does(n, q, f, e, m2, "goto", succ)
    <3> SUFFICES ASSUME y = "done"
                 PROVE  /\ ToSet(succ) \subseteq 0..q-1
                        /\ Effect(f, e) = [f EXCEPT ![e.at] = {IdAt(n, q, t) : t \in ToSet(succ)}]
      BY DEF Does
    <3>1. e.aim \in 0..q-1
      BY <1>1
    <3>2. {IdAt(n, q, t) : t \in ToSet(succ)} = {e.to}
      BY <1>2, <2>3, <3>1
    <3> QED BY <2>3, <2>4, <3>1, <3>2
  <2>8. y \in {"done", "raised"}
    OBVIOUS
  <2> HIDE DEF y
  <2> QED BY <2>1, <2>2, <2>5, <2>6, <2>7, <2>8, EditApplied DEF r
<1> QED BY <1>3, <1>4 DEF r

(* A block that branches, and what it leads to.                                *)
BranchAs(n, q, m, x, r) ==
  /\ m[x].refs = <<r>> /\ m[x].refs[1] = r
  /\ m[x].succ = <<Behind(n, q, x), r>> \/ m[x].succ = <<r, Behind(n, q, x)>>
  /\ ToSet(m[x].succ) = {Behind(n, q, x), r}
  /\ Leads(n, q, m, x) = {x + 1, IdAt(n, q, r)}
  /\ Behind(n, q, x) \in 0..q-1

LEMMA BranchIs ==
  ASSUME NEW n, NEW q, NEW m, Placed(n, q, m), Branching(n, q, m), NEW x \in 0..n-1,
         m[x].op = "jcond", Len(m[x].succ) = 2
  PROVE  \E r \in 0..q-1 : BranchAs(n, q, m, x, r)
<1>1. n \in Nat /\ q \in Nat /\ 1 <= n /\ n <= q - 1
  BY PlacedIs
<1>2. PICK r \in 0..q-1 : BranchesTo(n, q, m[x], x, r)
  BY DEF Branching
<1> DEFINE b == Behind(n, q, x)
<1>3. b \in 0..q-1 /\ IdAt(n, q, b) = x + 1
  BY <1>1, IdLow
<1>4. /\ m[x].refs = <<r>> /\ m[x].refs[1] = r
      /\ m[x].succ = <<b, r>> \/ m[x].succ = <<r, b>>
  BY <1>2 DEF BranchesTo
<1> HIDE DEF b
<1>5. ToSet(m[x].succ) = {b, r}
  BY <1>4, Pair
<1>6. Leads(n, q, m, x) = {x + 1, IdAt(n, q, r)}
  BY <1>3, <1>5 DEF Leads
<1> QED BY <1>3, <1>4, <1>5, <1>6 DEF b, BranchAs

LEMMA BranchApplied ==
  ASSUME NEW n, NEW q, NEW m, NEW f, NEW all, NEW e, Ready(n, q, m, f, all, e),
         e.kind = "branch"
  PROVE  Applied(n, q, f, e, TargetChange(m, e))
<1> DEFINE r == TargetChange(m, e)
           y == IF Missing(m, e.aim) THEN "raised" ELSE "done"
           m2 == Change2Way(m, e.at, e.aim)
           b == Behind(n, q, e.at)
           succ == <<b, e.aim>>
           refs == <<e.aim>>
<1>1. /\ Array(q, m) /\ e.at \in 0..q-1 /\ \A t : Missing(m, t) <=> t \notin 0..q-1
      /\ n \in Nat /\ q \in Nat /\ 1 <= n /\ n <= q - 1 /\ e.at \in 0..n-1
      /\ Placed(n, q, m) /\ Branching(n, q, m)
  BY ReadyIs
<1>2. e.aim \in 0..MaxBlocks-1 /\ (e.aim \in 0..q-1 => IdAt(n, q, e.aim) = e.to)
  BY AimIs
<1>3. CASE m[e.at].op # "jcond" \/ ~CanChange2Way(m, e.at)
  <2>1. r = Outcome(m, "refused")
    BY <1>3 DEF TargetChange
  <2> QED BY <2>1, Unchanged
<1>4. CASE m[e.at].op = "jcond" /\ CanChange2Way(m, e.at)
  <2>1. r = Outcome(m2, y) /\ Len(m[e.at].succ) = 2 /\ m[e.at].op = "jcond"
    BY <1>4 DEF TargetChange, CanChange2Way, Nsucc
  <2>2. PICK z \in 0..q-1 :
            /\ m[e.at].refs = <<z>>
            /\ m[e.at].succ = <<b, z>> \/ m[e.at].succ = <<z, b>>
    BY <1>1, <2>1, BranchIs DEF BranchAs
  <2>3. b \in 0..q-1 /\ IdAt(n, q, b) = e.at + 1
    BY <1>1, IdLow
  <2> HIDE DEF b
  <2>4. Now(q, m, m2, e.at, m[e.at].op, m[e.at].type, <<e.aim>>, <<b, e.aim>>)
    BY <1>1, <1>2, <2>2, Change2WayIs
  <2>5. ToSet(succ) = {b, e.aim}
    BY Pair
  <2>6. Effect(f, e) = [f EXCEPT ![e.at] = {e.at + 1, e.to}]
    BY EffectIs
  <2>7. ~Creates(e)
    BY DEF Creates
  <2>8. Now(q, m, m2, e.at, "jcond", m[e.at].type, refs, succ)
    BY <2>1, <2>4
  <2>9. m2[e.at].refs = refs /\ m2[e.at].succ = succ
    BY <2>8, NowIs
  <2> HIDE DEF m2, r
  <2>10. y = "raised" => ~(ToSet(succ) \subseteq 0..q-1)
    <3> HIDE DEF succ
    <3> QED BY <1>1, <2>5
  <2>11. y = "done" => Does(n, q, f, e, m2, "jcond", succ)
    <3> SUFFICES ASSUME y = "done"
                 PROVE  Does(n, q, f, e, m2, "jcond", succ)
      OBVIOUS
    <3>1. e.aim \in 0..q-1
      BY <1>1
    <3>2. BranchesTo(n, q, m2[e.at], e.at, e.aim)
      BY <2>9 DEF BranchesTo, b
    <3> HIDE DEF succ
    <3>3. {IdAt(n, q, t) : t \in ToSet(succ)} = {e.at + 1, e.to}
      BY <1>2, <2>3, <2>5, <3>1
    <3>4. ToSet(succ) \subseteq 0..q-1
      BY <2>3, <2>5, <3>1
    <3>5. Effect(f, e) = [f EXCEPT ![e.at] = {IdAt(n, q, t) : t \in ToSet(succ)}]
      BY <2>6, <3>3
    <3> QED BY <3>1, <3>2, <3>4, <3>5 DEF Does
  <2>12. y \in {"done", "raised"}
    OBVIOUS
  <2> HIDE DEF y, succ, refs
  <2> QED BY <2>1, <2>7, <2>8, <2>10, <2>11, <2>12, EditApplied DEF r
<1> QED BY <1>3, <1>4 DEF r

LEMMA RemoveApplied ==
  ASSUME NEW n, NEW q, NEW m, NEW f, NEW all, NEW e, Ready(n, q, m, f, all, e),
         e.kind = "remove"
  PROVE  Applied(n, q, f, e, EdgeRemove(m, e))
<1> DEFINE r == EdgeRemove(m, e)
           m2 == RemoveEdge(m, e.at, e.aim)
<1>1. /\ Array(q, m) /\ e.at \in 0..q-1 /\ Closed(q, m) /\ Flows(n, q, m, f) /\ DOMAIN f = 0..q-1
      /\ n \in Nat /\ q \in Nat /\ 1 <= n /\ n <= q - 1 /\ e.at \in 0..n-1
  BY ReadyIs
<1>2. e.aim \in 0..MaxBlocks-1 /\ (e.aim \in 0..q-1 => IdAt(n, q, e.aim) = e.to)
  BY AimIs
<1>3. CASE ~CanRemoveEdge(m, e.at, e.aim)
  <2>1. r = Outcome(m, "refused")
    BY <1>3 DEF EdgeRemove
  <2> QED BY <2>1, Unchanged
<1>4. CASE CanRemoveEdge(m, e.at, e.aim)
  <2>1. r = Outcome(m2, "done")
    BY <1>4 DEF EdgeRemove
  <2> HIDE DEF r
  <2>2. PICK op, type, refs, succ :
            /\ Now(q, m, m2, e.at, op, type, refs, succ)
            /\ ToSet(succ) = ToSet(m[e.at].succ) \ {e.aim}
            /\ Len(succ) <= 1
            /\ op = "goto" \/ op = "insn" \/ (op = m[e.at].op /\ Len(succ) = 0)
    <3>1. Array(q, m) /\ e.at \in 0..q-1
      BY <1>1
    <3> DEFINE s == e.at
               t == e.aim
    <3>2. Array(q, m) /\ s \in 0..q-1 /\ CanRemoveEdge(m, s, t)
      BY <1>4, <3>1
    <3> HIDE DEF s, t
    <3>3. \E op, type, refs, succ :
            /\ Now(q, m, RemoveEdge(m, s, t), s, op, type, refs, succ)
            /\ ToSet(succ) = ToSet(m[s].succ) \ {t}
            /\ Len(succ) <= 1
            /\ op = "goto" \/ op = "insn" \/ (op = m[s].op /\ Len(succ) = 0)
      BY <3>2, RemoveEdgeIs
    <3> QED BY <3>3 DEF s, t
  <2> HIDE DEF m2
  <2>3. Effect(f, e) = [f EXCEPT ![e.at] = f[e.at] \ {e.to}]
    BY EffectIs
  <2>4. ~Creates(e)
    BY DEF Creates
  <2>5. ToSet(m[e.at].succ) \subseteq 0..q-1
    BY <1>1 DEF Closed
  <2>6. e.aim \in ToSet(m[e.at].succ)
    <3>1. \A a : ToSet(<<a>>) = {a}
      <4> TAKE a
      <4> QED BY OneElement, a \in {a}
    <3> QED BY <1>4, <3>1 DEF CanRemoveEdge
  <2>7. f[e.at] = {IdAt(n, q, t) : t \in ToSet(m[e.at].succ)}
    <3>1. IdAt(n, q, e.at) = e.at
      BY <1>1, IdLow
    <3> QED BY <1>1, <3>1 DEF Flows, Leads
  <2>8. {IdAt(n, q, t) : t \in ToSet(succ)} = f[e.at] \ {e.to}
    <3>1. \A x, y \in 0..q-1 : IdAt(n, q, x) = IdAt(n, q, y) => x = y
      BY <1>1, IdIs
    <3>2. e.aim \in 0..q-1 /\ IdAt(n, q, e.aim) = e.to
      BY <1>2, <2>5, <2>6
    <3> QED BY <2>2, <2>5, <2>7, <3>1, <3>2
  <2>9. Does(n, q, f, e, m2, op, succ)
    <3>1. ToSet(succ) \subseteq 0..q-1
      BY <2>2, <2>5
    <3>2. ~(op = "jcond" /\ Len(succ) = 2)
      <4>1. succ \in Sequences
        BY <2>2, NowIs
      <4>2. Len(succ) \in Nat /\ Len(succ) <= 1
        BY <2>2, <4>1 DEF Sequences
      <4> QED BY <4>2
    <3> QED BY <2>3, <2>8, <3>1, <3>2 DEF Does
  <2> DEFINE y == "done"
  <2>10. y \in {"done", "raised"} /\ y # "raised"
    OBVIOUS
  <2>11. r = Outcome(m2, y)
    BY <2>1
  <2> HIDE DEF y
  <2> QED BY <2>2, <2>4, <2>9, <2>10, <2>11, EditApplied DEF r
<1> QED BY <1>3, <1>4 DEF r

-------------------------------------------------------------------------------
(* Applying an edit that creates blocks                                        *)

LEMMA WithIs ==
  ASSUME NEW q \in Nat, NEW f, DOMAIN f = 0..q-1, NEW T
  PROVE  /\ DOMAIN With(f, q, T) = 0..q /\ With(f, q, T)[q] = T
         /\ \A i \in 0..q-1 : With(f, q, T)[i] = f[i]
         /\ Cardinality(DOMAIN f) = q
<1> DEFINE h == [x \in DOMAIN f \cup {q} |-> IF x = q THEN T ELSE f[x]]
<1>1. With(f, q, T) = h
  BY DEF With
<1>2. DOMAIN h = 0..q
  OBVIOUS
<1>3. h[q] = T /\ \A i \in 0..q-1 : h[i] = f[i]
  OBVIOUS
<1>4. Cardinality(0..q-1) = q
  <2>1. 0 \in Int /\ q - 1 \in Int /\ 0 <= q
    OBVIOUS
  <2> QED BY <2>1, FS_Interval
<1> QED BY <1>1, <1>2, <1>3, <1>4

(* A flow that says less.                                                      *)
LEMMA FlowsLess ==
  ASSUME NEW n, NEW q, NEW m, NEW g, Flows(n, q, m, g), NEW f,
         DOMAIN f \subseteq DOMAIN g, \A i \in DOMAIN f : g[i] = f[i]
  PROVE  Flows(n, q, m, f)
BY DEF Flows

(* The array c is m with the blocks of the edit, to which nothing leads yet.   *)
Created(n, q, m, f, qq, c, g) ==
  /\ qq \in q+1..q+2 /\ Lives(n, qq, c, g) /\ Fresh(n, qq, c, start)
  /\ \A i \in 0..q-1 : g[i] = f[i]
  /\ \A x \in 0..n-1 : m[x].op = "jcond" => c[x].op = "jcond"

LEMMA CreatedOne ==
  ASSUME NEW n, NEW q, NEW m, NEW f, Lives(n, q, m, f), Fresh(n, q, m, start),
         NEW s, NEW k, Copied(q, m, s, k), NEW c, NEW op, NEW type, NEW refs, NEW succ,
         Now(q + 1, k, c, q - 1, op, type, refs, succ), ToSet(succ) \subseteq 0..q,
         Len(succ) = 1 => op = "goto",
         NEW T, T = {IdAt(n, q + 1, t) : t \in ToSet(succ)}
  PROVE  Created(n, q, m, f, q + 1, c, With(f, q, T))
<1> DEFINE g == With(f, q, T)
<1>1. Placed(n, q, m) /\ Closed(q, m) /\ DOMAIN f = 0..q-1
  BY DEF Lives
<1>2. n \in Nat /\ q \in Nat /\ 1 <= n /\ n <= q - 1
  BY <1>1, PlacedIs
<1>3. DOMAIN g = 0..q /\ g[q] = T /\ \A i \in 0..q-1 : g[i] = f[i]
  BY <1>1, <1>2, WithIs
<1> HIDE DEF g
<1>4. Lives(n, q + 1, c, g)
  BY <1>3, GrowsLive
<1>5. Fresh(n, q + 1, c, start)
  <2>1. Len(succ) = 1 /\ op \notin {"goto", "jcond", "ijmp", "ret"} => succ = <<q>>
    OBVIOUS
  <2> QED BY <1>1, <2>1, GrowsFresh
<1>6. ASSUME NEW x \in 0..n-1
      PROVE  c[x].op = m[x].op
  <2>1. x \in 0..q-1 /\ Place(q, x) = x
    BY <1>2 DEF Place
  <2>2. SameAt(n, q, m, x, c, Place(q, x))
    BY <1>1, <2>1, GrowsIs
  <2> QED BY <2>1, <2>2 DEF SameAt
<1>7. q + 1 \in q+1..q+2
  BY <1>2
<1> QED BY <1>3, <1>4, <1>5, <1>6, <1>7 DEF Created, g

(* The edit ends there, or sends the block s to the first of the new blocks.   *)
LEMMA CreatedIs ==
  ASSUME NEW n, NEW q, NEW m, NEW f, NEW all, NEW e, Ready(n, q, m, f, all, e),
         NEW qq, NEW c, NEW g, Created(n, q, m, f, qq, c, g)
  PROVE  /\ qq \in Nat /\ qq \in q+1..q+2 /\ Array(qq, c) /\ DOMAIN g = 0..qq-1
         /\ Placed(n, qq, c) /\ Closed(qq, c) /\ Flows(n, qq, c, g) /\ Branching(n, qq, c)
         /\ Lives(n, qq, c, g) /\ Fresh(n, qq, c, start)
         /\ n \in Nat /\ q \in Nat /\ 1 <= n /\ n <= q - 1 /\ n <= qq - 1
         /\ q - 1 \in 0..qq-1 /\ q - 1 # qq - 1 /\ IdAt(n, qq, q - 1) = q
         /\ q - 1 \in 0..MaxBlocks-1 /\ qq <= MaxBlocks
         /\ Fresh(n, q, m, start) \/ ~Creates(e)
         /\ \A i \in 0..q-1 : g[i] = f[i]
<1>1. qq \in q+1..q+2 /\ Lives(n, qq, c, g) /\ Fresh(n, qq, c, start)
      /\ \A i \in 0..q-1 : g[i] = f[i]
  BY DEF Created
<1>2. /\ Placed(n, qq, c) /\ Closed(qq, c) /\ Flows(n, qq, c, g) /\ DOMAIN g = 0..qq-1
      /\ Branching(n, qq, c)
  BY <1>1 DEF Lives
<1>3. n \in Nat /\ q \in Nat /\ 1 <= n /\ n <= q - 1 /\ q + 2 <= MaxBlocks
  BY ReadyIs DEF Ready
<1>4. Array(qq, c) /\ qq <= MaxBlocks /\ MaxBlocks \in Nat
  BY <1>2, PlacedIs
<1>5. /\ qq \in Nat /\ n <= qq - 1 /\ q - 1 \in 0..qq-1 /\ q - 1 # qq - 1
      /\ q - 1 \in 0..MaxBlocks-1
  BY <1>1, <1>3, <1>4
<1>6. IdAt(n, qq, q - 1) = q
  BY <1>3, <1>5 DEF IdAt
<1>7. Fresh(n, q, m, start) \/ ~Creates(e)
  BY DEF Ready
<1> QED BY <1>1, <1>2, <1>3, <1>4, <1>5, <1>6, <1>7

LEMMA CreatedRefused ==
  ASSUME NEW n, NEW q, NEW m, NEW f, NEW all, NEW e, Ready(n, q, m, f, all, e),
         NEW qq, NEW c, NEW g, Created(n, q, m, f, qq, c, g),
         NEW r, r = Outcome(c, "refused")
  PROVE  Applied(n, q, f, e, r)
<1>1. r.mba = c /\ r.result = "refused"
  BY OutcomeIs
<1>2. /\ qq \in q+1..q+2 /\ Placed(n, qq, c) /\ Closed(qq, c) /\ Flows(n, qq, c, g)
      /\ DOMAIN g = 0..qq-1 /\ q \in Nat /\ qq \in Nat /\ \A i \in 0..q-1 : g[i] = f[i]
  BY CreatedIs
<1>3. DOMAIN f = 0..q-1
  BY ReadyIs
<1>4. Flows(n, qq, c, f)
  <2>1. DOMAIN f \subseteq DOMAIN g /\ \A i \in DOMAIN f : g[i] = f[i]
    BY <1>2, <1>3
  <2> QED BY <1>2, <2>1, FlowsLess
<1>5. EndsAs(n, q, f, e, r, qq)
  BY <1>1, <1>2, <1>4 DEF EndsAs
<1>6. qq \in q..q+2
  BY <1>2
<1> QED BY <1>5, <1>6 DEF Applied

LEMMA CreatedSent ==
  ASSUME NEW n, NEW q, NEW m, NEW f, NEW all, NEW e, Ready(n, q, m, f, all, e),
         NEW qq, NEW c, NEW g, Created(n, q, m, f, qq, c, g), Creates(e),
         qq = q + NewBlocks(start, e), e.serial = q - 1,
         NEW s \in 0..n-1, NEW m2, NEW op, NEW type, NEW refs, NEW succ,
         Now(qq, c, m2, s, op, type, refs, succ),
         Len(succ) = Len(c[s].succ), type = "0WAY" => c[s].type = "0WAY",
         \/ succ = <<q - 1>> /\ op = "goto"
         \/ /\ succ = <<Behind(n, qq, s), q - 1>> /\ refs = <<q - 1>>
            /\ Behind(n, qq, s) \in ToSet(c[s].succ),
         Effect(f, e) = [g EXCEPT ![s] = {IdAt(n, qq, t) : t \in ToSet(succ)}],
         NEW r, r = Outcome(m2, "done")
  PROVE  Applied(n, q, f, e, r)
<1>1. r.mba = m2 /\ r.result = "done"
  BY OutcomeIs
<1>2. /\ qq \in q+1..q+2 /\ Placed(n, qq, c) /\ Lives(n, qq, c, g) /\ Fresh(n, qq, c, start)
      /\ Closed(qq, c)
      /\ DOMAIN g = 0..qq-1 /\ q \in Nat /\ qq \in Nat /\ n \in Nat /\ 1 <= n /\ n <= q - 1
      /\ n <= qq - 1 /\ q - 1 \in 0..qq-1 /\ q - 1 # qq - 1
  BY CreatedIs
<1> DEFINE b == Behind(n, qq, s)
           one == <<q - 1>>
           two == <<b, q - 1>>
<1>3. /\ s \in 0..qq-1 /\ IdAt(n, qq, s) = s /\ b \in 0..qq-1 /\ b # q - 1
      /\ s < n /\ s # qq - 2
  BY <1>2 DEF IdAt, Behind
<1>4. /\ ToSet(one) = {q - 1} /\ Len(one) = 1
      /\ ToSet(two) = {b, q - 1} /\ Len(two) = 2 /\ two[1] = b /\ two[2] = q - 1
  BY <1>2, Pair, OneElement
<1>5. (succ = one /\ op = "goto") \/ (succ = two /\ refs = one /\ b \in ToSet(c[s].succ))
  OBVIOUS
<1> HIDE DEF b, two
<1>6. ToSet(succ) \subseteq 0..qq-1
  BY <1>2, <1>3, <1>4, <1>5
<1>7. Placed(n, qq, m2)
  BY <1>2, EditPlaced
<1>8. m2[s].succ = succ /\ m2[s].refs = refs
  BY NowIs
<1>9. s < n /\ op = "jcond" /\ Len(succ) = 2 => \E z \in 0..qq-1 : BranchesTo(n, qq, m2[s], s, z)
  <2> SUFFICES ASSUME op = "jcond"
               PROVE  BranchesTo(n, qq, m2[s], s, q - 1)
    BY <1>2
  <2>1. succ = two /\ refs = one
    BY <1>5
  <2> QED BY <1>8, <2>1 DEF BranchesTo, b, two
<1> DEFINE h == [g EXCEPT ![s] = {IdAt(n, qq, t) : t \in ToSet(succ)}]
<1>10. Redirected(n, qq, s, succ, g, h)
  BY <1>2, <1>3 DEF Redirected
<1>11. Effect(f, e) = h
  OBVIOUS
<1> HIDE DEF h, one
<1>12. Lives(n, qq, m2, h)
  BY <1>2, <1>6, <1>9, <1>10, EditLives
<1>13. Fresh(n, qq, m2, start)
  <2>1. qq - 1 \in ToSet(succ) => qq - 1 \in ToSet(c[s].succ)
    BY <1>2, <1>4, <1>5
  <2>2. op = "jcond" /\ Len(succ) = 2 => succ[1] # succ[2]
    BY <1>3, <1>4, <1>5
  <2>3. s = qq - 2 /\ Len(succ) = 1 /\ op \notin {"goto", "jcond", "ijmp", "ret"}
            => succ = <<qq - 1>>
    BY <1>3
  <2>4. s < n => /\ Len(succ) = Len(c[s].succ)
                 /\ type = "0WAY" => c[s].type = "0WAY"
                 /\ qq - 1 \in ToSet(succ) => qq - 1 \in ToSet(c[s].succ)
                 /\ op = "jcond" /\ Len(succ) = 2 => succ[1] # succ[2]
    BY <2>1, <2>2
  <2> QED BY <1>2, <2>3, <2>4, EditFresh
<1>14. EndsAs(n, q, f, e, r, qq)
  BY <1>1, <1>7, <1>11, <1>12, <1>13 DEF EndsAs
<1>15. qq \in q..q+2
  BY <1>2
<1> QED BY <1>14, <1>15 DEF Applied

LEMMA SentApplied ==
  ASSUME NEW n, NEW q, NEW m, NEW f, NEW all, NEW e, Ready(n, q, m, f, all, e),
         NEW qq, NEW c, NEW g, Created(n, q, m, f, qq, c, g), Creates(e),
         qq = q + NewBlocks(start, e), NEW s \in 0..n-1,
         Len(c[s].succ) = 1 => Effect(f, e) = [g EXCEPT ![s] = {q}],
         NEW r, r = SentToNew(c, s, q - 1, e)
  PROVE  Applied(n, q, f, e, r)
<1>1. CASE ~(q - 1 = e.serial /\ CanChange1Way(c, s))
  <2>1. r = Outcome(c, "refused")
    BY <1>1 DEF SentToNew
  <2> QED BY <2>1, CreatedRefused
<1>2. CASE q - 1 = e.serial /\ CanChange1Way(c, s)
  <2> DEFINE m2 == Change1Way(c, s, q - 1)
             succ == <<q - 1>>
             y == "done"
  <2>1. r = Outcome(m2, y) /\ Len(c[s].succ) = 1 /\ e.serial = q - 1
    BY <1>2 DEF SentToNew, CanChange1Way, Nsucc
  <2>2. /\ Array(qq, c) /\ q - 1 \in 0..MaxBlocks-1 /\ IdAt(n, qq, q - 1) = q
        /\ n \in Nat /\ qq \in Nat /\ n <= qq - 1 /\ q \in Nat
    BY CreatedIs
  <2>3. s \in 0..qq-1
    BY <2>2
  <2>4. Now(qq, c, m2, s, "goto", "1WAY", <<q - 1>>, succ)
    BY <2>1, <2>2, <2>3, Change1WayIs
  <2>5. ToSet(succ) = {q - 1} /\ Len(succ) = 1
    BY <2>2, OneElement
  <2>6. {IdAt(n, qq, t) : t \in ToSet(succ)} = {q}
    <3> HIDE DEF succ
    <3> QED BY <2>2, <2>5
  <2>7. Effect(f, e) = [g EXCEPT ![s] = {IdAt(n, qq, t) : t \in ToSet(succ)}]
    <3> HIDE DEF succ
    <3> QED BY <2>1, <2>6
  <2>8. Len(succ) = Len(c[s].succ)
    BY <2>1, <2>5
  <2>9. succ = <<q - 1>>
    OBVIOUS
  <2> DEFINE op == "goto"
             type == "1WAY"
             refs == <<q - 1>>
  <2>10. /\ Now(qq, c, m2, s, op, type, refs, succ) /\ op = "goto"
         /\ type = "0WAY" => c[s].type = "0WAY"
    BY <2>4
  <2> HIDE DEF m2, succ, op, type, refs
  <2>11. r = Outcome(m2, "done")
    BY <2>1
  <2> QED BY <2>1, <2>7, <2>8, <2>9, <2>10, <2>11, CreatedSent
<1> QED BY <1>1, <1>2

LEMMA StandaloneGrown ==
  ASSUME NEW n, NEW q, NEW m, NEW f, Lives(n, q, m, f), Fresh(n, q, m, start), q < MaxBlocks,
         NEW s \in 0..q-1, NEW t \in 0..q-1, t # q - 1
  PROVE  Created(n, q, m, f, q + 1, CreateStandalone(m, s, t), With(f, q, {IdAt(n, q, t)}))
<1> DEFINE k == CopyBlock(m, s)
           c == CreateStandalone(m, s, t)
           succ == <<t>>
           T == {IdAt(n, q, t)}
<1>1. /\ Lives(n, q, m, f) /\ Array(q, m) /\ q < MaxBlocks
      /\ n \in Nat /\ q \in Nat /\ 1 <= n /\ n <= q - 1 /\ MaxBlocks \in Nat
  BY PlacedIs DEF Lives
<1>2. Fresh(n, q, m, start)
  OBVIOUS
<1>3. Copied(q, m, s, k)
  BY <1>1, CopyIs
<1>4. t \in 0..MaxBlocks-1 /\ t \in 0..q /\ IdAt(n, q + 1, t) = IdAt(n, q, t)
  BY <1>1 DEF IdAt
<1>5. Now(q + 1, k, c, q - 1, "goto", "1WAY", <<t>>, succ)
  BY <1>1, <1>4, CreateStandaloneIs
<1>6. ToSet(succ) = {t}
  BY OneElement
<1> DEFINE op == "goto"
           type == "1WAY"
           refs == <<t>>
<1>7. Now(q + 1, k, c, q - 1, op, type, refs, succ) /\ (Len(succ) = 1 => op = "goto")
  BY <1>5
<1> HIDE DEF k, c, succ, op, type, refs
<1>8. ToSet(succ) \subseteq 0..q /\ T = {IdAt(n, q + 1, z) : z \in ToSet(succ)}
  BY <1>4, <1>6
<1> HIDE DEF T
<1>9. Created(n, q, m, f, q + 1, c, With(f, q, T))
  BY <1>1, <1>2, <1>3, <1>7, <1>8, CreatedOne
<1> QED BY <1>9 DEF c, T

LEMMA StandaloneCreated ==
  ASSUME NEW n, NEW q, NEW m, NEW f, NEW all, NEW e, Ready(n, q, m, f, all, e), Creates(e),
         NEW s \in 0..q-1, NEW t \in 0..q-1, t # q - 1
  PROVE  Created(n, q, m, f, q + 1, CreateStandalone(m, s, t), With(f, q, {IdAt(n, q, t)}))
<1>1. Lives(n, q, m, f) /\ q < MaxBlocks
  BY ReadyIs
<1>2. Fresh(n, q, m, start)
  BY DEF Ready
<1> QED BY <1>1, <1>2, StandaloneGrown

LEMMA KindsCreate ==
  ASSUME NEW e
  PROVE  /\ e.kind \in {"insert", "copy", "duplicate", "split"} <=> Creates(e)
         /\ e.kind \in {"insert", "duplicate", "split"} => NewBlocks(start, e) = 1
         /\ e.kind = "copy" /\ Len(start[e.at].succ) = 2 => NewBlocks(start, e) = 2
         /\ e.kind = "copy" /\ Len(start[e.at].succ) # 2 => NewBlocks(start, e) = 1
<1>1. e.kind \in {"insert", "copy", "duplicate", "split"} <=> Creates(e)
  BY DEF Creates
<1> DEFINE p == ~Creates(e)
           two == e.kind = "copy" /\ Nsucc(start, e.at) = 2
<1>2. NewBlocks(start, e) = CASE p -> 0 [] two -> 2 [] OTHER -> 1
  BY DEF NewBlocks
<1>3. e.kind \in {"insert", "duplicate", "split"} => ~p /\ ~two
  BY <1>1
<1>4. e.kind = "copy" /\ Len(start[e.at].succ) = 2 => ~p /\ two
  BY <1>1 DEF Nsucc
<1>5. e.kind = "copy" /\ Len(start[e.at].succ) # 2 => ~p /\ ~two
  BY <1>1 DEF Nsucc
<1> HIDE DEF p, two
<1>6. ~p /\ ~two => NewBlocks(start, e) = 1
  BY <1>2
<1>7. ~p /\ two => NewBlocks(start, e) = 2
  BY <1>2
<1> QED BY <1>1, <1>3, <1>4, <1>5, <1>6, <1>7

(* The edits that put one block before a block they name.                      *)
LEMMA DetourApplied ==
  ASSUME NEW n, NEW q, NEW m, NEW f, NEW all, NEW e, Ready(n, q, m, f, all, e),
         e.kind \in {"insert", "split"}, NEW s \in 0..q-1,
         NEW r, r = SentToNew(CreateStandalone(m, s, e.aim), e.at, q - 1, e)
  PROVE  Applied(n, q, f, e, r)
<1> DEFINE c == CreateStandalone(m, s, e.aim)
           g == With(f, q, {e.to})
<1>1. /\ n \in Nat /\ q \in Nat /\ 1 <= n /\ n <= q - 1 /\ DOMAIN f = 0..q-1
      /\ e.at \in 0..n-1 /\ e.at \in 0..q-1
  BY ReadyIs
<1>2. Creates(e) /\ NewBlocks(start, e) = 1
  BY KindsCreate
<1>3. e.to \in 0..n-1 /\ e.aim = e.to
  BY DEF Ready, Item
<1>4. e.aim \in 0..q-1 /\ e.aim # q - 1 /\ IdAt(n, q, e.aim) = e.to
  BY <1>1, <1>3 DEF IdAt
<1>5. Created(n, q, m, f, q + 1, c, g)
  <2>1. Created(n, q, m, f, q + 1, c, With(f, q, {IdAt(n, q, e.aim)}))
    BY <1>2, <1>4, StandaloneCreated
  <2> QED BY <1>4, <2>1
<1>6. g[e.at] = f[e.at] /\ Cardinality(DOMAIN f) = q
  <2> DEFINE T == {e.to}
  <2> HIDE DEF T
  <2>1. (\A i \in 0..q-1 : With(f, q, T)[i] = f[i]) /\ Cardinality(DOMAIN f) = q
    BY <1>1, WithIs
  <2> QED BY <1>1, <2>1 DEF T
<1>7. Effect(f, e) = [g EXCEPT ![e.at] = {q}]
  <2>1. Effect(f, e) = [g EXCEPT ![e.at] = (@ \ f[e.at]) \cup {q}]
    BY <1>6, EffectIs
  <2> HIDE DEF g
  <2>2. (g[e.at] \ f[e.at]) \cup {q} = {q}
    BY <1>6
  <2> QED BY <2>1, <2>2
<1> HIDE DEF c, g
<1>8. r = SentToNew(c, e.at, q - 1, e)
  BY DEF c
<1> DEFINE qq == q + 1
           s2 == e.at
<1>9. /\ qq = q + NewBlocks(start, e) /\ Created(n, q, m, f, qq, c, g) /\ s2 \in 0..n-1
      /\ r = SentToNew(c, s2, q - 1, e)
      /\ Len(c[s2].succ) = 1 => Effect(f, e) = [g EXCEPT ![s2] = {q}]
  BY <1>1, <1>2, <1>5, <1>7, <1>8
<1> HIDE DEF qq, s2
<1> QED BY <1>2, <1>9, SentApplied

LEMMA InsertApplied ==
  ASSUME NEW n, NEW q, NEW m, NEW f, NEW all, NEW e, Ready(n, q, m, f, all, e),
         e.kind = "insert"
  PROVE  Applied(n, q, f, e, CreateAndRedirect(m, e))
<1>1. /\ n \in Nat /\ q \in Nat /\ 1 <= n /\ n <= q - 1 /\ ExitSerial(m) = q - 1
  BY ReadyIs
<1>2. /\ e.to \in 0..n-1 /\ e.aim = e.to /\ start[e.to].type # "0WAY"
      /\ Creates(e) => Fresh(n, q, m, start)
  BY DEF Ready, Item
<1>3. m[e.aim].type # "0WAY"
  <2>1. Fresh(n, q, m, start)
    BY <1>2, KindsCreate
  <2> QED BY <1>2, <2>1 DEF Fresh
<1>4. CreateAndRedirect(m, e)
        = SentToNew(CreateStandalone(m, (q - 1) - 1, e.aim), e.at, q - 1, e)
  BY <1>1, <1>3 DEF CreateAndRedirect
<1>5. (q - 1) - 1 \in 0..q-1
  BY <1>1
<1> QED BY <1>4, <1>5, DetourApplied

LEMMA SplitApplied ==
  ASSUME NEW n, NEW q, NEW m, NEW f, NEW all, NEW e, Ready(n, q, m, f, all, e),
         e.kind = "split"
  PROVE  Applied(n, q, f, e, EdgeSplit(m, e))
<1>1. /\ n \in Nat /\ q \in Nat /\ 1 <= n /\ n <= q - 1 /\ ExitSerial(m) = q - 1
  BY ReadyIs
<1>2. e.src \in 0..n-1
  BY DEF Ready, Item
<1>3. e.src \in 0..q-1
  BY <1>1, <1>2
<1>4. EdgeSplit(m, e) = SentToNew(CreateStandalone(m, e.src, e.aim), e.at, q - 1, e)
  BY <1>1 DEF EdgeSplit
<1> QED BY <1>3, <1>4, DetourApplied

(* The predecessor via is sent to the copy of the block at.                    *)
LEMMA RedirectApplied ==
  ASSUME NEW n, NEW q, NEW m, NEW f, NEW all, NEW e, Ready(n, q, m, f, all, e),
         e.kind \in {"copy", "duplicate"}, Reaches(m, e),
         NEW qq, NEW c, NEW g, Created(n, q, m, f, qq, c, g), qq = q + NewBlocks(start, e),
         Effect(f, e) = [g EXCEPT ![e.via] = (@ \ {e.at}) \cup {q}],
         c = Clone(m, e)
  PROVE  Applied(n, q, f, e, DuplicateAndRedirect(m, e))
<1> DEFINE r == DuplicateAndRedirect(m, e)
           via == e.via
<1>1. /\ n \in Nat /\ q \in Nat /\ 1 <= n /\ n <= q - 1 /\ ExitSerial(m) = q - 1
      /\ DOMAIN f = 0..q-1 /\ Flows(n, q, m, f) /\ e.at \in 0..n-1 /\ e.at \in 0..q-1
      /\ Array(q, m)
  BY ReadyIs
<1>2. Creates(e)
  BY KindsCreate
<1>3. via \in 0..n-1 /\ Fresh(n, q, m, start)
  BY <1>2 DEF Ready, Item
<1>4. /\ qq \in Nat /\ Array(qq, c) /\ DOMAIN g = 0..qq-1 /\ Placed(n, qq, c)
      /\ Flows(n, qq, c, g) /\ Branching(n, qq, c) /\ Fresh(n, qq, c, start)
      /\ n <= qq - 1 /\ IdAt(n, qq, q - 1) = q /\ q - 1 \in 0..MaxBlocks-1
      /\ \A i \in 0..q-1 : g[i] = f[i]
  BY CreatedIs
<1>5. /\ via \in 0..q-1 /\ via \in 0..qq-1 /\ IdAt(n, q, via) = via /\ IdAt(n, qq, via) = via
      /\ IdAt(n, q, e.at) = e.at /\ IdAt(n, qq, e.at) = e.at /\ e.at \in 0..qq-1
  BY <1>1, <1>3, <1>4 DEF IdAt
<1>6. Len(c[via].succ) = Len(m[via].succ)
  <2>1. Len(c[via].succ) = Len(start[via].succ)
    BY <1>3, <1>4 DEF Fresh
  <2>2. Len(m[via].succ) = Len(start[via].succ)
    BY <1>3 DEF Fresh
  <2> QED BY <2>1, <2>2
<1>7. f[via] = Leads(n, q, m, via) /\ g[via] = Leads(n, qq, c, via)
  BY <1>1, <1>4, <1>5 DEF Flows
<1>8. CASE Nsucc(c, via) = 1
  <2>1. r = SentToNew(c, via, q - 1, e)
    BY <1>1, <1>8 DEF DuplicateAndRedirect
  <2>2. m[via].succ = <<e.at>>
    BY <1>6, <1>8 DEF Reaches, Nsucc
  <2>3. f[via] = {e.at}
    <3>1. ToSet(m[via].succ) = {e.at}
      <4>1. ToSet(<<e.at>>) = {e.at}
        BY <1>1, OneElement
      <4> QED BY <2>2, <4>1
    <3> QED BY <1>5, <1>7, <3>1 DEF Leads
  <2>4. Effect(f, e) = [g EXCEPT ![via] = {q}]
    <3>1. (g[via] \ {e.at}) \cup {q} = {q}
      BY <1>4, <1>5, <2>3
    <3> QED BY <3>1
  <2> HIDE DEF r, via
  <2>5. Applied(n, q, f, e, r)
    BY <1>2, <1>3, <2>1, <2>4, SentApplied
  <2> QED BY <2>5 DEF r
<1>9. CASE Nsucc(c, via) # 1 /\ ~(q - 1 = e.serial /\ c[via].refs = <<e.at>>)
  <2>1. r = Outcome(c, "refused")
    BY <1>1, <1>9 DEF DuplicateAndRedirect
  <2> HIDE DEF r
  <2>2. Applied(n, q, f, e, r)
    BY <2>1, CreatedRefused
  <2> QED BY <2>2 DEF r
<1>10. CASE Nsucc(c, via) # 1 /\ q - 1 = e.serial /\ c[via].refs = <<e.at>>
  <2> DEFINE m2 == Change2Way(c, via, q - 1)
             b == Behind(n, qq, via)
             refs == <<q - 1>>
             succ == <<b, q - 1>>
  <2>1. r = Outcome(m2, "done")
    BY <1>1, <1>10 DEF DuplicateAndRedirect
  <2>2. m[via].op = "jcond" /\ Len(m[via].succ) = 2
    BY <1>6, <1>10 DEF Reaches, Nsucc
  <2>3. c[via].op = "jcond" /\ Len(c[via].succ) = 2
    BY <1>3, <1>6, <2>2 DEF Created
  <2>4. PICK z \in 0..qq-1 :
            /\ c[via].refs = <<z>> /\ c[via].refs[1] = z
            /\ c[via].succ = <<b, z>> \/ c[via].succ = <<z, b>>
            /\ ToSet(c[via].succ) = {b, z}
            /\ Leads(n, qq, c, via) = {via + 1, IdAt(n, qq, z)}
            /\ b \in 0..qq-1
    <3> DEFINE x == via
    <3>1. x \in 0..n-1 /\ c[x].op = "jcond" /\ Len(c[x].succ) = 2
      BY <1>3, <2>3
    <3>3. Placed(n, qq, c) /\ Branching(n, qq, c)
      BY <1>4
    <3> HIDE DEF x
    <3>2. \E z \in 0..qq-1 : BranchAs(n, qq, c, x, z)
      BY <3>1, <3>3, BranchIs
    <3> QED BY <3>2 DEF BranchAs, x
  <2>5. z = e.at
    <3>1. \A x : <<x>>[1] = x
      OBVIOUS
    <3> QED BY <1>10, <2>4, <3>1
  <2>6. b # e.at
    <3>1. c[via].succ[1] # c[via].succ[2]
      BY <1>3, <1>4, <2>3 DEF Fresh
    <3> HIDE DEF b
    <3> QED BY <2>4, <2>5, <3>1, Pair
  <2>7. via + 1 # e.at
    <3>1. IdAt(n, qq, b) = via + 1
      BY <1>1, <1>3, <1>4, IdLow
    <3>2. \A x, y \in 0..qq-1 : IdAt(n, qq, x) = IdAt(n, qq, y) => x = y
      BY <1>1, <1>4, IdIs
    <3> HIDE DEF b
    <3> QED BY <1>5, <2>4, <2>6, <3>1, <3>2
  <2>8. Now(qq, c, m2, via, c[via].op, c[via].type, <<q - 1>>, <<b, q - 1>>)
    <3> HIDE DEF b
    <3>1. Array(qq, c) /\ via \in 0..qq-1 /\ q - 1 \in 0..MaxBlocks-1 /\ c[via].refs = <<z>>
          /\ (c[via].succ = <<b, z>> \/ c[via].succ = <<z, b>>)
      BY <1>4, <1>5, <2>4
    <3> QED BY <3>1, Change2WayIs
  <2>9. ToSet(succ) = {b, q - 1} /\ Len(succ) = 2
    BY Pair
  <2>10. {IdAt(n, qq, t) : t \in ToSet(succ)} = {via + 1, q}
    <3>1. IdAt(n, qq, b) = via + 1
      BY <1>1, <1>3, <1>4, IdLow
    <3> HIDE DEF b, succ
    <3> QED BY <1>4, <2>9, <3>1
  <2>11. (g[via] \ {e.at}) \cup {q} = {via + 1, q}
    <3>1. g[via] = {via + 1, e.at}
      BY <1>5, <1>7, <2>4, <2>5
    <3> QED BY <2>7, <3>1
  <2>12. Effect(f, e) = [g EXCEPT ![via] = {IdAt(n, qq, t) : t \in ToSet(succ)}]
    <3> HIDE DEF succ
    <3> QED BY <2>10, <2>11
  <2> DEFINE op == c[via].op
             type == c[via].type
  <2>13. /\ Now(qq, c, m2, via, op, type, refs, succ)
         /\ Len(succ) = Len(c[via].succ) /\ (type = "0WAY" => c[via].type = "0WAY")
         /\ \/ succ = <<q - 1>> /\ op = "goto"
            \/ /\ succ = <<Behind(n, qq, via), q - 1>> /\ refs = <<q - 1>>
               /\ Behind(n, qq, via) \in ToSet(c[via].succ)
         /\ e.serial = q - 1
    <3>1. b \in ToSet(c[via].succ)
      BY <2>4
    <3>2. Len(succ) = Len(c[via].succ)
      BY <2>3, <2>9
    <3> QED BY <1>10, <2>8, <3>1, <3>2
  <2> HIDE DEF r, via, m2, succ, refs, op, type
  <2>14. Applied(n, q, f, e, r)
    BY <1>2, <1>3, <2>1, <2>12, <2>13, CreatedSent
  <2> QED BY <2>14 DEF r
<1> QED BY <1>8, <1>9, <1>10 DEF r

-------------------------------------------------------------------------------
(* Duplicating a block                                                         *)

LEMMA CountIs ==
  /\ Cardinality({}) = 0
  /\ \A a : Cardinality({a}) = 1
  /\ \A a, b : a # b => Cardinality({a, b}) = 2
<1>1. /\ Cardinality({}) = 0 /\ \A a : IsFiniteSet({a}) /\ Cardinality({a}) = 1
  BY FS_EmptySet, FS_Singleton
<1>2. ASSUME NEW a, NEW b, a # b
      PROVE  Cardinality({a, b}) = 2
  <2> DEFINE S == {a}
  <2>1. IsFiniteSet(S) /\ Cardinality(S) = 1 /\ b \notin S
    BY <1>1, <1>2
  <2>2. {a, b} = S \cup {b}
    OBVIOUS
  <2> HIDE DEF S
  <2>3. Cardinality(S \cup {b}) = 2
    BY <2>1, FS_AddElement
  <2> QED BY <2>2, <2>3
<1> QED BY <1>1, <1>2

(* The block the copy is made of: it is as it was at the start but for where   *)
(* it leads.                                                                   *)
LEMMA TemplateIs ==
  ASSUME NEW n, NEW q, NEW m, NEW f, NEW all, NEW e, Ready(n, q, m, f, all, e),
         e.kind \in {"copy", "duplicate"}
  PROVE  /\ Creates(e) /\ Fresh(n, q, m, start) /\ e.via \in 0..n-1
         /\ m[e.at].succ \in Seq(0..q-1) /\ Len(m[e.at].succ) \in 0..2
         /\ Len(m[e.at].succ) = Len(start[e.at].succ)
         /\ f[e.at] = {IdAt(n, q, t) : t \in ToSet(m[e.at].succ)}
         /\ e.kind = "copy" => q - 1 \notin ToSet(m[e.at].succ)
<1>1. Creates(e)
  BY KindsCreate
<1>2. /\ n \in Nat /\ q \in Nat /\ n <= q - 1 /\ e.at \in 0..n-1 /\ e.at \in 0..q-1 /\ Array(q, m)
      /\ Closed(q, m) /\ Flows(n, q, m, f) /\ DOMAIN f = 0..q-1
  BY ReadyIs
<1>3. /\ Fresh(n, q, m, start) /\ e.via \in 0..n-1 /\ Len(start[e.at].succ) <= 2
      /\ e.kind = "copy" => n \notin ToSet(start[e.at].succ)
  BY <1>1 DEF Ready, Item
<1>4. /\ Len(m[e.at].succ) = Len(start[e.at].succ)
      /\ q - 1 \in ToSet(m[e.at].succ) => n \in ToSet(start[e.at].succ)
  BY <1>2, <1>3 DEF Fresh
<1>5. m[e.at].succ \in Sequences /\ ToSet(m[e.at].succ) \subseteq 0..q-1
  BY <1>2, BlockIs DEF Closed
<1>6. m[e.at].succ \in Seq(0..q-1) /\ Len(m[e.at].succ) \in Nat
  <2> DEFINE u == m[e.at].succ
  <2>1. u \in Seq(0..MaxBlocks-1) /\ ToSet(u) \subseteq 0..q-1
    BY <1>5 DEF Sequences
  <2> HIDE DEF u
  <2>2. ToSet(u) = {u[i] : i \in 1..Len(u)}
    BY <2>1, Elements
  <2>3. u \in [1..Len(u) -> 0..q-1] /\ Len(u) \in Nat
    BY <2>1, <2>2
  <2>4. u \in Seq(0..q-1)
    BY <2>3, SequenceIs
  <2> QED BY <2>3, <2>4 DEF u
<1>7. f[e.at] = Leads(n, q, m, e.at)
  <2>1. IdAt(n, q, e.at) = e.at
    BY <1>2 DEF IdAt
  <2> QED BY <1>2, <2>1 DEF Flows
<1>8. f[e.at] = {IdAt(n, q, t) : t \in ToSet(m[e.at].succ)}
  BY <1>7 DEF Leads
<1>9. Len(m[e.at].succ) \in 0..2
  <2> DEFINE len == Len(m[e.at].succ)
  <2>1. len \in Nat /\ len <= 2
    BY <1>3, <1>4, <1>6
  <2> HIDE DEF len
  <2>2. len \in 0..2
    BY <2>1
  <2> QED BY <2>2 DEF len
<1>10. e.kind = "copy" => q - 1 \notin ToSet(m[e.at].succ)
  BY <1>3, <1>4
<1> QED BY <1>1, <1>3, <1>4, <1>6, <1>8, <1>9, <1>10

LEMMA CloneIs ==
  ASSUME NEW m, NEW e, e.kind \in {"copy", "duplicate"}
  PROVE  /\ Len(m[e.at].succ) = 2 => Clone(m, e) = ConditionalClone(m, e.at)
         /\ Len(m[e.at].succ) # 2 /\ e.kind = "duplicate" =>
               Clone(m, e) = CreateStandalone(m, e.at, e.aim)
         /\ Len(m[e.at].succ) = 1 /\ e.kind = "copy" =>
               Clone(m, e) = CreateStandalone(m, e.at, m[e.at].succ[1])
         /\ Len(m[e.at].succ) \notin {1, 2} /\ e.kind = "copy" =>
               Clone(m, e) = [CreateTerminal(m, e.at) EXCEPT ![ExitSerial(m)].op = m[e.at].op]
<1> DEFINE A == Nsucc(m, e.at) = 2
           B == Nsucc(m, e.at) # 2 /\ e.kind = "duplicate"
           C == Nsucc(m, e.at) = 1 /\ e.kind = "copy"
           a == ConditionalClone(m, e.at)
           b == CreateStandalone(m, e.at, e.aim)
           c == CreateStandalone(m, e.at, m[e.at].succ[1])
           d == [CreateTerminal(m, e.at) EXCEPT ![ExitSerial(m)].op = m[e.at].op]
<1>1. Clone(m, e) = CASE A -> a [] B -> b [] C -> c [] OTHER -> d
  BY DEF Clone
<1>2. /\ Len(m[e.at].succ) = 2 => A /\ ~B /\ ~C
      /\ Len(m[e.at].succ) # 2 /\ e.kind = "duplicate" => ~A /\ B /\ ~C
      /\ Len(m[e.at].succ) = 1 /\ e.kind = "copy" => ~A /\ ~B /\ C
      /\ Len(m[e.at].succ) \notin {1, 2} /\ e.kind = "copy" => ~A /\ ~B /\ ~C
  BY DEF Nsucc
<1> HIDE DEF A, B, C, a, b, c, d
<1>3. /\ A /\ ~B /\ ~C => Clone(m, e) = a
      /\ ~A /\ B /\ ~C => Clone(m, e) = b
      /\ ~A /\ ~B /\ C => Clone(m, e) = c
      /\ ~A /\ ~B /\ ~C => Clone(m, e) = d
  BY <1>1
<1> QED BY <1>2, <1>3 DEF a, b, c, d

LEMMA DuplicateApplied ==
  ASSUME NEW n, NEW q, NEW m, NEW f, NEW all, NEW e, Ready(n, q, m, f, all, e),
         e.kind = "duplicate", Reaches(m, e), Len(m[e.at].succ) # 2
  PROVE  Applied(n, q, f, e, DuplicateAndRedirect(m, e))
<1> DEFINE c == Clone(m, e)
           T == {e.to}
           g == With(f, q, T)
           qq == q + 1
<1>1. /\ n \in Nat /\ q \in Nat /\ 1 <= n /\ n <= q - 1 /\ DOMAIN f = 0..q-1
      /\ e.at \in 0..q-1
  BY ReadyIs
<1>2. Creates(e) /\ NewBlocks(start, e) = 1
  BY KindsCreate
<1>3. e.to \in 0..n-1 /\ e.aim = e.to
  BY DEF Ready, Item
<1>4. e.aim \in 0..q-1 /\ e.aim # q - 1 /\ IdAt(n, q, e.aim) = e.to
  BY <1>1, <1>3 DEF IdAt
<1>5. c = CreateStandalone(m, e.at, e.aim)
  BY CloneIs
<1> HIDE DEF c
<1>6. Created(n, q, m, f, q + 1, c, g)
  <2>1. Created(n, q, m, f, q + 1, CreateStandalone(m, e.at, e.aim),
                With(f, q, {IdAt(n, q, e.aim)}))
    BY <1>1, <1>2, <1>4, StandaloneCreated
  <2> QED BY <1>4, <1>5, <2>1
<1>7. Cardinality(DOMAIN f) = q
  <2> HIDE DEF T
  <2> QED BY <1>1, WithIs
<1>8. Effect(f, e) = [g EXCEPT ![e.via] = (@ \ {e.at}) \cup {q}]
  BY <1>7, EffectIs
<1> HIDE DEF g, T
<1>9. Created(n, q, m, f, qq, c, g) /\ qq = q + NewBlocks(start, e)
  BY <1>2, <1>6
<1> HIDE DEF qq
<1>10. c = Clone(m, e) /\ e.kind \in {"copy", "duplicate"}
  BY DEF c
<1> QED BY <1>8, <1>9, <1>10, RedirectApplied

(* A block that ends the function, or leads to one block.                      *)
LEMMA PlainCopyApplied ==
  ASSUME NEW n, NEW q, NEW m, NEW f, NEW all, NEW e, Ready(n, q, m, f, all, e),
         e.kind = "copy", Reaches(m, e), Len(m[e.at].succ) # 2
  PROVE  Applied(n, q, f, e, DuplicateAndRedirect(m, e))
<1> DEFINE c == Clone(m, e)
           T == f[e.at]
           g == With(f, q, T)
           qq == q + 1
<1>1. /\ n \in Nat /\ q \in Nat /\ 1 <= n /\ n <= q - 1 /\ DOMAIN f = 0..q-1
      /\ e.at \in 0..q-1 /\ Array(q, m) /\ q < MaxBlocks /\ ExitSerial(m) = q - 1
      /\ Lives(n, q, m, f)
  BY ReadyIs
<1>2. /\ Creates(e) /\ Fresh(n, q, m, start)
      /\ m[e.at].succ \in Seq(0..q-1) /\ Len(m[e.at].succ) \in 0..2
      /\ Len(m[e.at].succ) = Len(start[e.at].succ)
      /\ f[e.at] = {IdAt(n, q, t) : t \in ToSet(m[e.at].succ)}
      /\ q - 1 \notin ToSet(m[e.at].succ)
  BY TemplateIs
<1>3. NewBlocks(start, e) = 1
  BY <1>2, KindsCreate
<1>4. ASSUME Len(m[e.at].succ) = 1
      PROVE  Cardinality(T) # 2 /\ Created(n, q, m, f, q + 1, c, g)
  <2> DEFINE t == m[e.at].succ[1]
  <2>1. m[e.at].succ = <<t>> /\ t \in 0..q-1
    BY <1>2, <1>4, LengthOne
  <2>2. ToSet(m[e.at].succ) = {t}
    <3> HIDE DEF t
    <3>1. ToSet(<<t>>) = {t}
      BY <2>1, OneElement
    <3> QED BY <2>1, <3>1
  <2>3. t # q - 1 /\ T = {IdAt(n, q, t)} /\ Cardinality(T) # 2
    <3> HIDE DEF t
    <3>1. f[e.at] = {IdAt(n, q, t)}
      BY <1>2, <2>2
    <3>2. t # q - 1
      BY <1>2, <2>2
    <3>3. Cardinality({IdAt(n, q, t)}) = 1
      BY CountIs
    <3> QED BY <3>1, <3>2, <3>3
  <2>4. c = CreateStandalone(m, e.at, t)
    BY <1>4, CloneIs
  <2> HIDE DEF c, t, T
  <2>5. Created(n, q, m, f, q + 1, CreateStandalone(m, e.at, t), With(f, q, {IdAt(n, q, t)}))
    BY <1>1, <1>2, <2>1, <2>3, StandaloneCreated
  <2>6. Created(n, q, m, f, q + 1, c, g)
    BY <2>3, <2>4, <2>5
  <2> QED BY <2>3, <2>6
<1>5. ASSUME Len(m[e.at].succ) = 0
      PROVE  Cardinality(T) # 2 /\ Created(n, q, m, f, q + 1, c, g)
  <2> DEFINE k == CopyBlock(m, e.at)
             d == CreateTerminal(m, e.at)
             s == e.at
             op == m[e.at].op
             type == "0WAY"
             none == <<>>
  <2>1. ToSet(m[e.at].succ) = {} /\ ToSet(none) = {} /\ Len(none) = 0
    <3>1. m[e.at].succ = <<>>
      BY <1>2, <1>5
    <3>2. \A z : z \notin ToSet(<<>>)
      BY DEF ToSet
    <3> QED BY <3>1, <3>2
  <2>2. T = {} /\ Cardinality(T) # 2
    <3>1. T = {}
      BY <1>2, <2>1
    <3> QED BY <3>1, CountIs
  <2>3. c = [d EXCEPT ![q-1].op = op]
    BY <1>1, <1>5, CloneIs
  <2>4. Copied(q, m, s, k)
    BY <1>1, CopyIs
  <2>5. Now(q + 1, k, d, q - 1, "insn", type, none, none)
    BY <1>1, CreateTerminalIs
  <2>6. op \in Opcodes
    BY <1>1, BlockIs
  <2> HIDE DEF c, k, d, s, op, type, none, T
  <2>7. Now(q + 1, k, c, q - 1, op, type, none, none)
    BY <2>3, <2>5, <2>6, NowOp
  <2>8. ToSet(none) \subseteq 0..q /\ T = {IdAt(n, q + 1, t) : t \in ToSet(none)}
        /\ (Len(none) = 1 => op = "goto")
    BY <2>1, <2>2
  <2>9. Created(n, q, m, f, q + 1, c, g)
    BY <1>1, <1>2, <2>4, <2>7, <2>8, CreatedOne
  <2> QED BY <2>2, <2>9
<1>6. Cardinality(T) # 2 /\ Created(n, q, m, f, q + 1, c, g)
  <2>1. Len(m[e.at].succ) = 1 \/ Len(m[e.at].succ) = 0
    BY <1>2
  <2> QED BY <1>4, <1>5, <2>1
<1>7. Cardinality(DOMAIN f) = q
  <2> HIDE DEF T
  <2> QED BY <1>1, WithIs
<1>8. Effect(f, e) = [g EXCEPT ![e.via] = (@ \ {e.at}) \cup {q}]
  BY <1>6, <1>7, EffectIs
<1> HIDE DEF g, T, c
<1>9. Created(n, q, m, f, qq, c, g) /\ qq = q + NewBlocks(start, e)
  BY <1>3, <1>6
<1> HIDE DEF qq
<1>10. c = Clone(m, e) /\ e.kind \in {"copy", "duplicate"}
  BY DEF c
<1> QED BY <1>8, <1>9, <1>10, RedirectApplied

(* A conditional block: its copy, the block before the copy kept from falling  *)
(* into it, and a block of its own for the copy to fall into.                  *)
LEMMA CopyCreated ==
  ASSUME NEW n, NEW q, NEW m, NEW f, Lives(n, q, m, f), Fresh(n, q, m, start), q < MaxBlocks,
         NEW s \in 0..n-1, Len(m[s].succ) = 2, NEW w,
         w = [CopyBlock(m, s) EXCEPT ![q-1].pred = <<>>]
  PROVE  /\ Created(n, q, m, f, q + 1, w, With(f, q, Leads(n, q, m, s)))
         /\ Len(w[q-2].succ) = 1 /\ w[q-2].op \notin {"goto", "jcond", "ijmp", "ret"}
               => w[q-2].succ = <<q>>
<1> DEFINE k == CopyBlock(m, s)
           op == m[s].op
           type == m[s].type
           refs == Moved(q, m[s].refs)
           succ == Moved(q, m[s].succ)
           T == Leads(n, q, m, s)
<1>1. /\ n \in Nat /\ q \in Nat /\ 1 <= n /\ n <= q - 1 /\ s \in 0..q-1 /\ Array(q, m)
      /\ q - 1 \in 0..(q+1)-1 /\ Closed(q, m)
  BY PlacedIs DEF Lives
<1>2. Copied(q, m, s, k)
  BY <1>1, CopyIs
<1>3. Array(q + 1, k) /\ Shifted(q, m[s], k[q-1])
  BY <1>2 DEF Copied
<1>4. k[q-1].op = op /\ k[q-1].type = type /\ k[q-1].refs = refs /\ k[q-1].succ = succ
  BY <1>3 DEF Shifted
<1>5. Now(q + 1, k, k, q - 1, k[q-1].op, k[q-1].type, k[q-1].refs, k[q-1].succ)
  BY <1>1, <1>3, NowBegins
<1>6. Len(succ) = 2 /\ ToSet(succ) = {Place(q, t) : t \in ToSet(m[s].succ)}
  <2> DEFINE u == m[s].succ
  <2>1. u \in Sequences /\ Len(u) = 2
    BY <1>1, BlockIs
  <2> HIDE DEF u
  <2>2. Len(Moved(q, u)) = 2 /\ ToSet(Moved(q, u)) = {Place(q, t) : t \in ToSet(u)}
    BY <1>1, <2>1, MovedIs
  <2> QED BY <2>2 DEF u
<1>7. ToSet(m[s].succ) \subseteq 0..q-1
  BY <1>1 DEF Closed
<1>8. \A x \in 0..q-1 : Place(q, x) \in 0..q /\ IdAt(n, q + 1, Place(q, x)) = IdAt(n, q, x)
  BY <1>1, IdMoves
<1>9. ToSet(succ) \subseteq 0..q /\ T = {IdAt(n, q + 1, t) : t \in ToSet(succ)}
  <2> HIDE DEF succ
  <2>1. ToSet(succ) \subseteq 0..q
    BY <1>6, <1>7, <1>8
  <2>2. {IdAt(n, q + 1, t) : t \in ToSet(succ)}
          = {IdAt(n, q + 1, Place(q, t)) : t \in ToSet(m[s].succ)}
    BY <1>6
  <2>3. {IdAt(n, q + 1, Place(q, t)) : t \in ToSet(m[s].succ)}
          = {IdAt(n, q, t) : t \in ToSet(m[s].succ)}
    BY <1>7, <1>8
  <2> QED BY <2>1, <2>2, <2>3 DEF Leads
<1>10. <<>> \in Sequences /\ w = [k EXCEPT ![q-1].pred = <<>>]
  BY DEF Sequences
<1> HIDE DEF k, op, type, refs, succ, T
<1>11. Now(q + 1, k, k, q - 1, op, type, refs, succ)
  BY <1>4, <1>5
<1>12. Now(q + 1, k, w, q - 1, op, type, refs, succ)
  <2> DEFINE t == q - 1
             p == <<>>
             qq == q + 1
  <2>1. Now(qq, k, k, t, op, type, refs, succ) /\ p \in Sequences /\ w = [k EXCEPT ![t].pred = p]
    BY <1>10, <1>11
  <2> HIDE DEF t, p, qq
  <2>2. Now(qq, k, [k EXCEPT ![t].pred = p], t, op, type, refs, succ)
    BY <2>1, NowNotes
  <2> QED BY <2>1, <2>2 DEF t, qq
<1>13. Len(succ) = 1 => op = "goto"
  BY <1>6
<1>14. Created(n, q, m, f, q + 1, w, With(f, q, T))
  BY <1>2, <1>9, <1>12, <1>13, CreatedOne
<1>15. Len(w[q-2].succ) = 1 /\ w[q-2].op \notin {"goto", "jcond", "ijmp", "ret"}
          => w[q-2].succ = <<q>>
  <2> DEFINE z == q - 2
  <2>1. z \in 0..q-1 /\ Place(q, z) = z /\ Place(q, q - 1) = q
    BY <1>1 DEF Place
  <2>2. Placed(n, q, m)
    BY DEF Lives
  <2>3. Len(m[z].succ) = 1 /\ m[z].op \notin {"goto", "jcond", "ijmp", "ret"} => m[z].succ = <<q - 1>>
    BY DEF Fresh
  <2> HIDE DEF z
  <2>4. SameAt(n, q, m, z, w, Place(q, z))
    BY <1>1, <1>2, <1>12, <2>1, <2>2, GrowsIs
  <2>5. w[z].op = m[z].op /\ w[z].succ = Moved(q, m[z].succ) /\ Len(w[z].succ) = Len(m[z].succ)
    BY <2>1, <2>4 DEF SameAt
  <2>6. Moved(q, <<q - 1>>) = <<q>>
    BY <2>1, MovedOne
  <2>7. Len(w[z].succ) = 1 /\ w[z].op \notin {"goto", "jcond", "ijmp", "ret"} => w[z].succ = <<q>>
    BY <2>3, <2>5, <2>6
  <2> QED BY <2>7 DEF z
<1> QED BY <1>14, <1>15 DEF T

LEMMA FencedCreated ==
  ASSUME NEW n, NEW q, NEW m, NEW f, Lives(n, q, m, f), Fresh(n, q, m, start),
         NEW w, NEW g, Created(n, q, m, f, q + 1, w, g), NEW s,
         Len(w[q-2].succ) = 1 /\ w[q-2].op \notin {"goto", "jcond", "ijmp", "ret"}
           => w[q-2].succ = <<q>>,
         NEW c, c = Fenced(w, s, q - 1)
  PROVE  Created(n, q, m, f, q + 1, c, g)
<1>1. /\ n \in Nat /\ q \in Nat /\ 1 <= n /\ n <= q - 1 /\ q >= 2
  BY PlacedIs DEF Lives
<1>2. /\ q + 1 \in q+1..q+2 /\ Lives(n, q + 1, w, g) /\ Fresh(n, q + 1, w, start)
      /\ \A i \in 0..q-1 : g[i] = f[i]
      /\ \A x \in 0..n-1 : m[x].op = "jcond" => w[x].op = "jcond"
  BY DEF Created
<1>3. /\ Placed(n, q + 1, w) /\ Closed(q + 1, w) /\ Flows(n, q + 1, w, g) /\ DOMAIN g = 0..(q+1)-1
      /\ Array(q + 1, w)
  BY <1>2, PlacedIs DEF Lives
<1>4. CASE c = w
  BY <1>4
<1>5. CASE /\ Now(q + 1, w, c, q - 2, "goto", "1WAY", <<q>>, <<q>>)
           /\ w[q-2].succ = <<q>> /\ w[q-2].op # "jcond"
  <2> DEFINE op == "goto"
             type == "1WAY"
             succ == <<q>>
             qq == q + 1
             z == q - 2
  <2>1. /\ ToSet(succ) = {q} /\ Len(succ) = 1 /\ q \in 0..qq-1 /\ qq \in Nat /\ z \in 0..qq-1
        /\ z # qq - 2
    <3>1. ToSet(succ) = {q} /\ Len(succ) = 1
      BY <1>1, OneElement
    <3> QED BY <1>1, <3>1
  <2>2. /\ Now(qq, w, c, z, op, type, succ, succ) /\ w[z].succ = succ /\ w[z].op # "jcond"
        /\ op # "jcond" /\ type # "0WAY"
    BY <1>5
  <2>3. /\ Lives(n, qq, w, g) /\ Fresh(n, qq, w, start) /\ Placed(n, qq, w)
        /\ Flows(n, qq, w, g) /\ DOMAIN g = 0..qq-1
    BY <1>2, <1>3
  <2> HIDE DEF op, type, succ, qq, z
  <2>4. Redirected(n, qq, z, succ, g, g)
    <3> DEFINE i == IdAt(n, qq, z)
    <3>1. i \in DOMAIN g => g[i] = Leads(n, qq, w, z)
      BY <2>1, <2>3 DEF Flows
    <3>2. Leads(n, qq, w, z) = {IdAt(n, qq, t) : t \in ToSet(succ)}
      BY <2>2 DEF Leads
    <3> HIDE DEF i
    <3> QED BY <3>1, <3>2 DEF Redirected, i
  <2>5. ToSet(succ) \subseteq 0..qq-1
    BY <2>1
  <2>6. Lives(n, qq, c, g)
    BY <2>2, <2>3, <2>4, <2>5, EditLives
  <2>7. Fresh(n, qq, c, start)
    <3>1. z < n => /\ Len(succ) = Len(w[z].succ)
                   /\ type = "0WAY" => w[z].type = "0WAY"
                   /\ qq - 1 \in ToSet(succ) => qq - 1 \in ToSet(w[z].succ)
                   /\ op = "jcond" /\ Len(succ) = 2 => succ[1] # succ[2]
      BY <2>2
    <3>2. z = qq - 2 /\ Len(succ) = 1 /\ op \notin {"goto", "jcond", "ijmp", "ret"}
             => succ = <<qq - 1>>
      BY <2>1
    <3> QED BY <2>2, <2>3, <3>1, <3>2, EditFresh
  <2>8. ASSUME NEW x \in 0..n-1, m[x].op = "jcond"
        PROVE  c[x].op = "jcond"
    <3>1. w[x].op = "jcond" /\ x # z
      BY <1>2, <2>2, <2>8
    <3>2. x \in 0..qq-1
      BY <1>1 DEF qq
    <3> QED BY <2>2, <3>1, <3>2, NowIs
  <2>9. qq \in q+1..q+2
    BY <1>2 DEF qq
  <2>10. Created(n, q, m, f, qq, c, g)
    BY <1>2, <2>6, <2>7, <2>8, <2>9 DEF Created
  <2> QED BY <2>10 DEF qq
<1>6. c = w \/ (/\ Now(q + 1, w, c, q - 2, "goto", "1WAY", <<q>>, <<q>>)
                /\ w[q-2].succ = <<q>> /\ w[q-2].op # "jcond")
  BY <1>1, <1>3, FencedIs
<1> QED BY <1>4, <1>5, <1>6

LEMMA ConditionalCreated ==
  ASSUME NEW n, NEW q, NEW m, NEW f, Lives(n, q, m, f), Fresh(n, q, m, start),
         q + 1 < MaxBlocks, NEW s \in 0..n-1, m[s].op = "jcond", Len(m[s].succ) = 2,
         q - 1 \notin ToSet(m[s].succ)
  PROVE  /\ Cardinality(f[s]) = 2
         /\ Created(n, q, m, f, q + 2, ConditionalClone(m, s),
                    With(With(f, q, (f[s] \ {s + 1}) \cup {q + 1}), q + 1, {s + 1}))
<1> DEFINE b == Behind(n, q, s)
           w == [CopyBlock(m, s) EXCEPT ![q-1].pred = <<>>]
           copy == Fenced(w, s, q - 1)
           default == CreateStandalone(copy, s, b)
           T1 == Leads(n, q, m, s)
           g1 == With(f, q, T1)
           g2 == With(g1, q + 1, {s + 1})
           p == q + 1
           pp == q + 2
           new == q - 1
<1>1. /\ n \in Nat /\ q \in Nat /\ 1 <= n /\ n <= q - 1 /\ q >= 2 /\ Array(q, m) /\ MaxBlocks \in Nat
      /\ Placed(n, q, m) /\ Closed(q, m) /\ Flows(n, q, m, f) /\ Branching(n, q, m)
      /\ DOMAIN f = 0..q-1 /\ s \in 0..q-1 /\ ExitSerial(m) = q - 1
  BY PlacedIs DEF Lives
<1>2. PICK r \in 0..q-1 : BranchAs(n, q, m, s, r)
  BY <1>1, BranchIs
<1> DEFINE to == IdAt(n, q, r)
<1>3. /\ m[s].refs = <<r>> /\ m[s].refs[1] = r
      /\ m[s].succ = <<b, r>> \/ m[s].succ = <<r, b>>
      /\ ToSet(m[s].succ) = {b, r}
      /\ T1 = {s + 1, to} /\ b \in 0..q-1
  BY <1>2 DEF BranchAs
<1>4. r # q - 1 /\ b # q - 1 /\ r # b
  <2>1. m[s].succ[1] # m[s].succ[2]
    BY DEF Fresh
  <2> HIDE DEF b
  <2> QED BY <1>3, <2>1, Pair
<1>5. Remaining(m, s, r) = b
  <2> HIDE DEF b
  <2> QED BY <1>3, <1>4, Pair DEF Remaining
<1>6. /\ IdAt(n, q, b) = s + 1 /\ IdAt(n, q, s) = s /\ to # s + 1
      /\ IdAt(n, p, b) = s + 1 /\ b \in 0..p-1 /\ b # p - 1
      /\ IdAt(n, pp, q) = q + 1 /\ IdAt(n, pp, r) = to /\ IdAt(n, pp, new) = q
      /\ r \in 0..pp-1 /\ q \in 0..pp-1 /\ new \in 0..pp-1 /\ s \in 0..p-1
  <2>1. IdAt(n, q, b) = s + 1 /\ IdAt(n, q, s) = s
    BY <1>1, IdLow
  <2>2. to # s + 1
    <3>1. \A x, y \in 0..q-1 : IdAt(n, q, x) = IdAt(n, q, y) => x = y
      BY <1>1, IdIs
    <3> HIDE DEF b
    <3> QED BY <1>3, <1>4, <2>1, <3>1
  <2>3. IdAt(n, p, b) = IdAt(n, q, b) /\ b \in 0..p-1 /\ b # p - 1
    <3>1. b \in 0..q-1
      BY <1>3
    <3>2. b # q - 1
      BY <1>4
    <3> HIDE DEF b, to, T1
    <3> QED BY <1>1, <3>1, <3>2 DEF IdAt
  <2>4. IdAt(n, pp, r) = to
    BY <1>1, <1>4 DEF IdAt
  <2>5. IdAt(n, pp, q) = q + 1 /\ IdAt(n, pp, new) = q
    BY <1>1 DEF IdAt
  <2> QED BY <1>1, <2>1, <2>2, <2>3, <2>4, <2>5
<1>7. f[s] = {s + 1, to} /\ Cardinality(f[s]) = 2
  <2>1. f[s] = T1
    BY <1>1, <1>6 DEF Flows
  <2>2. T1 = {s + 1, to} /\ to # s + 1
    BY <1>3, <1>6
  <2> HIDE DEF T1, to
  <2>3. Cardinality({s + 1, to}) = 2
    BY <2>2, CountIs
  <2> QED BY <2>1, <2>2, <2>3
<1>8. /\ Created(n, q, m, f, q + 1, w, g1)
      /\ Len(w[q-2].succ) = 1 /\ w[q-2].op \notin {"goto", "jcond", "ijmp", "ret"}
            => w[q-2].succ = <<q>>
  BY <1>1, CopyCreated
<1> HIDE DEF w, g1, b
<1>9. Created(n, q, m, f, q + 1, copy, g1)
  BY <1>8, FencedCreated
<1> HIDE DEF copy
<1>10. /\ Lives(n, p, copy, g1) /\ Fresh(n, p, copy, start) /\ \A i \in 0..q-1 : g1[i] = f[i]
       /\ \A x \in 0..n-1 : m[x].op = "jcond" => copy[x].op = "jcond"
  BY <1>9 DEF Created
<1>11. Created(n, p, copy, g1, p + 1, default, With(g1, p, {IdAt(n, p, b)}))
  <2>1. p < MaxBlocks
    BY <1>1
  <2> HIDE DEF p, default
  <2> QED BY <1>6, <1>10, <2>1, StandaloneGrown DEF default
<1>12. /\ Lives(n, pp, default, g2) /\ Fresh(n, pp, default, start)
       /\ \A i \in 0..p-1 : g2[i] = g1[i]
       /\ \A x \in 0..n-1 : copy[x].op = "jcond" => default[x].op = "jcond"
  <2>1. p + 1 = pp /\ With(g1, p, {IdAt(n, p, b)}) = g2
    <3>1. p + 1 = pp
      BY <1>1
    <3>2. IdAt(n, p, b) = s + 1
      BY <1>6
    <3> DEFINE T == {IdAt(n, p, b)}
    <3>3. T = {s + 1}
      BY <3>2
    <3> HIDE DEF T
    <3>4. With(g1, p, T) = g2
      BY <3>3
    <3> QED BY <3>1, <3>4 DEF T
  <2> HIDE DEF g2, default
  <2> QED BY <1>11, <2>1 DEF Created
<1>13. /\ DOMAIN g1 = 0..q /\ DOMAIN g2 = 0..q+1 /\ g2[q+1] = {s + 1}
       /\ \A i \in 0..q-1 : g2[i] = f[i]
  <2>1. DOMAIN g1 = 0..p-1 /\ p \in Nat
    BY <1>1, <1>10 DEF Lives
  <2> DEFINE T == {s + 1}
  <2> HIDE DEF T, p
  <2>2. DOMAIN With(g1, p, T) = 0..p /\ With(g1, p, T)[p] = T
    BY <2>1, WithIs
  <2> HIDE DEF g2
  <2>3. DOMAIN g2 = 0..p /\ g2[p] = T
    BY <2>2 DEF g2, p, T
  <2>4. \A i \in 0..q-1 : g2[i] = f[i]
    BY <1>1, <1>10, <1>12 DEF p
  <2> QED BY <1>1, <2>1, <2>3, <2>4 DEF p, T
<1> DEFINE k == default
           d1 == UnlinkAll(k, new)
           d2 == [d1 EXCEPT ![new].refs = <<r>>]
           d3 == AddEdge(d2, new, q)
           d4 == AddEdge(d3, new, r)
           op == k[new].op
           type == k[new].type
           refs == <<r>>
           succ == <<q, r>>
<1> HIDE DEF g2, default, T1, to
<1>14. Now(pp, k, d4, new, op, type, refs, succ)
  <2>1. Array(pp, k) /\ q \in 0..MaxBlocks-1 /\ r \in 0..MaxBlocks-1 /\ refs \in Sequences
    <3>1. Array(pp, k)
      BY <1>12, PlacedIs DEF Lives
    <3>2. q \in 0..MaxBlocks-1 /\ r \in 0..MaxBlocks-1
      BY <1>1
    <3>3. <<r>> \in Seq(0..MaxBlocks-1)
      BY <3>2, OneElement
    <3> QED BY <3>1, <3>2, <3>3 DEF Sequences
  <2>2. new \in 0..pp-1
    BY <1>6
  <2> DEFINE old == k[new].refs
             olds == k[new].succ
  <2> HIDE DEF pp, new, refs
  <2>3. Now(pp, k, k, new, op, type, old, olds)
    BY <2>1, <2>2, NowBegins
  <2> HIDE DEF k, op, type, old, olds
  <2>4. Now(pp, k, d1, new, op, type, old, <<>>)
    BY <2>3, NowUnlinkAll
  <2>5. d2 = [d1 EXCEPT ![new].refs = refs]
    BY DEF refs
  <2> HIDE DEF d1, d2
  <2>6. Now(pp, k, d2, new, op, type, refs, <<>>)
    BY <2>1, <2>4, <2>5, NowRefs
  <2>7. Now(pp, k, d3, new, op, type, refs, Append(<<>>, q))
    BY <2>1, <2>6, NowAddEdge
  <2>8. Append(<<>>, q) = <<q>> /\ Append(<<q>>, r) = <<q, r>>
    BY <2>1, AppendedOne
  <2> HIDE DEF d3
  <2>9. Now(pp, k, d4, new, op, type, refs, Append(<<q>>, r))
    BY <2>1, <2>7, <2>8, NowAddEdge
  <2> QED BY <2>8, <2>9
<1>15. ConditionalClone(m, s) = d4
  <2>1. new + 1 = q
    BY <1>1
  <2> QED BY <1>1, <1>3, <1>5, <2>1 DEF ConditionalClone, default, copy, w
<1> HIDE DEF k, d4, op, type, refs
<1> DEFINE T2 == (f[s] \ {s + 1}) \cup {q + 1}
           f1 == With(f, q, T2)
           f2 == With(f1, q + 1, {s + 1})
<1>16. T2 = {to, q + 1}
  BY <1>6, <1>7
<1>17. /\ DOMAIN f2 = 0..q+1 /\ f2[q] = T2 /\ f2[q+1] = {s + 1}
       /\ \A i \in 0..q-1 : f2[i] = f[i]
  <2> HIDE DEF T2
  <2>1. DOMAIN f1 = 0..q /\ f1[q] = T2 /\ \A i \in 0..q-1 : f1[i] = f[i]
    BY <1>1, WithIs
  <2> DEFINE T == {s + 1}
  <2> HIDE DEF f1, T
  <2>2. DOMAIN f1 = 0..p-1 /\ p \in Nat
    BY <1>1, <2>1
  <2> HIDE DEF p
  <2>3. /\ DOMAIN With(f1, p, T) = 0..p /\ With(f1, p, T)[p] = T
        /\ \A i \in 0..p-1 : With(f1, p, T)[i] = f1[i]
    BY <2>2, WithIs
  <2>4. f2 = With(f1, p, T)
    BY DEF p, T
  <2> HIDE DEF f2
  <2>5. DOMAIN f2 = 0..p /\ f2[p] = T /\ \A i \in 0..p-1 : f2[i] = f1[i]
    BY <2>3, <2>4
  <2> QED BY <1>1, <2>1, <2>5 DEF p, T
<1> HIDE DEF f2, T2
<1>18. ToSet(succ) = {q, r} /\ Len(succ) = 2
  BY Pair
<1>19. Redirected(n, pp, new, succ, g2, f2)
  <2>1. {IdAt(n, pp, t) : t \in ToSet(succ)} = {q + 1, to}
    <3> HIDE DEF succ
    <3> QED BY <1>6, <1>18
  <2>2. IdAt(n, pp, new) = q
    BY <1>6
  <2>3. \A i \in 0..q+1 : i \in 0..q-1 \/ i = q \/ i = q + 1
    BY <1>1
  <2>4. q # q + 1 /\ \A i \in 0..q-1 : i # q /\ i # q + 1
    BY <1>1
  <2> HIDE DEF succ, pp, new
  <2>5. f2[q] = {IdAt(n, pp, t) : t \in ToSet(succ)}
    BY <1>16, <1>17, <2>1
  <2>6. \A i \in 0..q+1 : f2[i] = IF i = q THEN f2[q] ELSE g2[i]
    BY <1>13, <1>17, <2>3, <2>4
  <2> QED BY <1>13, <1>17, <2>2, <2>5, <2>6 DEF Redirected
<1>20. Lives(n, pp, d4, f2)
  <2>1. ToSet(succ) \subseteq 0..pp-1
    BY <1>6, <1>18
  <2>2. ~(new < n)
    BY <1>1
  <2> HIDE DEF succ, pp, new
  <2> QED BY <1>12, <1>14, <1>19, <2>1, <2>2, EditLives DEF k
<1>21. Fresh(n, pp, d4, start)
  <2>1. ~(new < n) /\ new # pp - 2
    BY <1>1
  <2>2. Placed(n, pp, k)
    BY <1>12 DEF Lives, k
  <2> HIDE DEF succ, pp, new
  <2> QED BY <1>12, <1>14, <2>1, <2>2, EditFresh DEF k
<1>22. ASSUME NEW x \in 0..n-1, m[x].op = "jcond"
       PROVE  d4[x].op = "jcond"
  <2>1. k[x].op = "jcond"
    BY <1>10, <1>12, <1>22 DEF k
  <2>2. x # new /\ x \in 0..pp-1
    BY <1>1
  <2> HIDE DEF pp, new, succ
  <2> QED BY <1>14, <2>1, <2>2, NowIs
<1>23. pp \in q+1..q+2
  BY <1>1
<1>24. Created(n, q, m, f, pp, d4, f2)
  BY <1>17, <1>20, <1>21, <1>22, <1>23 DEF Created
<1> QED BY <1>7, <1>15, <1>24 DEF f2, T2

LEMMA ConditionalCopyApplied ==
  ASSUME NEW n, NEW q, NEW m, NEW f, NEW all, NEW e, Ready(n, q, m, f, all, e),
         e.kind = "copy", Reaches(m, e), Len(m[e.at].succ) = 2, m[e.at].op = "jcond"
  PROVE  Applied(n, q, f, e, DuplicateAndRedirect(m, e))
<1> DEFINE c == Clone(m, e)
           T2 == (f[e.at] \ {e.at + 1}) \cup {q + 1}
           f1 == With(f, q, T2)
           g == With(f1, q + 1, {e.at + 1})
           qq == q + 2
<1>1. /\ n \in Nat /\ q \in Nat /\ 1 <= n /\ n <= q - 1 /\ DOMAIN f = 0..q-1
      /\ e.at \in 0..n-1 /\ q + 1 < MaxBlocks /\ Lives(n, q, m, f)
  BY ReadyIs
<1>2. /\ Fresh(n, q, m, start) /\ Len(start[e.at].succ) = 2 /\ q - 1 \notin ToSet(m[e.at].succ)
  BY TemplateIs
<1>3. NewBlocks(start, e) = 2
  BY <1>2, KindsCreate
<1>4. Cardinality(f[e.at]) = 2 /\ Created(n, q, m, f, qq, ConditionalClone(m, e.at), g)
  <2> DEFINE s == e.at
  <2>1. s \in 0..n-1 /\ m[s].op = "jcond" /\ Len(m[s].succ) = 2 /\ q - 1 \notin ToSet(m[s].succ)
    BY <1>1, <1>2
  <2> HIDE DEF s
  <2>2. /\ Cardinality(f[s]) = 2
        /\ Created(n, q, m, f, q + 2, ConditionalClone(m, s),
                   With(With(f, q, (f[s] \ {s + 1}) \cup {q + 1}), q + 1, {s + 1}))
    BY <1>1, <1>2, <2>1, ConditionalCreated
  <2> QED BY <2>2 DEF s
<1>5. c = ConditionalClone(m, e.at)
  BY CloneIs
<1>6. Cardinality(DOMAIN f) = q
  <2> HIDE DEF T2
  <2> QED BY <1>1, WithIs
<1>7. Effect(f, e) = [g EXCEPT ![e.via] = (@ \ {e.at}) \cup {q}]
  <2> DEFINE x == Cardinality(DOMAIN f)
             h == With(With(f, x, (f[e.at] \ {e.at + 1}) \cup {x + 1}), x + 1, {e.at + 1})
  <2>1. Effect(f, e) = [h EXCEPT ![e.via] = (@ \ {e.at}) \cup {x}]
    BY <1>4, EffectIs
  <2>2. x = q
    BY <1>6
  <2>3. h = g
    <3> HIDE DEF x
    <3> QED BY <2>2
  <2> HIDE DEF h, x, g
  <2> QED BY <2>1, <2>2, <2>3
<1> HIDE DEF g, c
<1>8. Created(n, q, m, f, qq, c, g) /\ qq = q + NewBlocks(start, e)
  BY <1>3, <1>4, <1>5
<1> HIDE DEF qq
<1>9. c = Clone(m, e) /\ e.kind \in {"copy", "duplicate"}
  BY DEF c
<1> QED BY <1>7, <1>8, <1>9, RedirectApplied

LEMMA PreconditionsAre ==
  ASSUME NEW m, NEW e
  PROVE  /\ e.kind = "insert" =>
              (Preconditions(m, e) <=> ~Missing(m, e.aim) /\ e.at # 0 /\ Nsucc(m, e.at) = 1)
         /\ e.kind = "copy" =>
              (Preconditions(m, e) <=>
                 (Nsucc(m, e.at) = 2 => m[e.at].op = "jcond") /\ Reaches(m, e))
         /\ e.kind = "duplicate" =>
              (Preconditions(m, e) <=>
                 ~Missing(m, e.aim) /\ Nsucc(m, e.at) # 2 /\ Reaches(m, e))
         /\ e.kind = "split" => (Preconditions(m, e) => ~Missing(m, e.aim))
<1> DEFINE A == ~Missing(m, e.aim) /\ e.at # 0 /\ Nsucc(m, e.at) = 1
           B == (Nsucc(m, e.at) = 2 => m[e.at].op = "jcond") /\ Reaches(m, e)
           C == ~Missing(m, e.aim) /\ Nsucc(m, e.at) # 2 /\ Reaches(m, e)
           D == /\ ~Missing(m, e.aim)
                /\ m[e.src].op = "goto"
                /\ Nsucc(m, e.src) = 1
                /\ m[e.at].succ = <<e.src>>
                /\ m[e.src].succ = <<e.was>>
           a == e.kind = "insert"
           b == e.kind = "copy"
           c == e.kind = "duplicate"
           d == e.kind = "split"
<1>1. Preconditions(m, e) = CASE a -> A [] b -> B [] c -> C [] d -> D [] OTHER -> TRUE
  BY DEF Preconditions
<1>2. /\ a => ~b /\ ~c /\ ~d
      /\ b => ~a /\ ~c /\ ~d
      /\ c => ~a /\ ~b /\ ~d
      /\ d => ~a /\ ~b /\ ~c
  OBVIOUS
<1>3. D => ~Missing(m, e.aim)
  OBVIOUS
<1> HIDE DEF a, b, c, d, A, B, C, D
<1>4. /\ a /\ ~b /\ ~c /\ ~d => (Preconditions(m, e) <=> A)
      /\ ~a /\ b /\ ~c /\ ~d => (Preconditions(m, e) <=> B)
      /\ ~a /\ ~b /\ c /\ ~d => (Preconditions(m, e) <=> C)
      /\ ~a /\ ~b /\ ~c /\ d => (Preconditions(m, e) <=> D)
  BY <1>1
<1> QED BY <1>2, <1>3, <1>4 DEF a, b, c, d, A, B, C

LEMMA ApplySingleIs ==
  ASSUME NEW m, NEW e
  PROVE  /\ ~Preconditions(m, e) => ApplySingle(m, e) = Outcome(m, "refused")
         /\ Preconditions(m, e) =>
              /\ e.kind = "goto" => ApplySingle(m, e) = GotoChange(m, e)
              /\ e.kind = "branch" => ApplySingle(m, e) = TargetChange(m, e)
              /\ e.kind = "convert" => ApplySingle(m, e) = ConvertToGoto(m, e)
              /\ e.kind = "remove" => ApplySingle(m, e) = EdgeRemove(m, e)
              /\ e.kind = "insert" => ApplySingle(m, e) = CreateAndRedirect(m, e)
              /\ e.kind = "split" => ApplySingle(m, e) = EdgeSplit(m, e)
              /\ e.kind \in {"copy", "duplicate"} =>
                    ApplySingle(m, e) = DuplicateAndRedirect(m, e)
<1> DEFINE P == Preconditions(m, e)
           a == e.kind = "goto"
           b == e.kind = "branch"
           c == e.kind = "convert"
           d == e.kind = "remove"
           i == e.kind = "insert"
           s == e.kind = "split"
           other == e.kind \in {"copy", "duplicate"}
           A == GotoChange(m, e)
           B == TargetChange(m, e)
           C == ConvertToGoto(m, e)
           D == EdgeRemove(m, e)
           I == CreateAndRedirect(m, e)
           S == EdgeSplit(m, e)
           X == DuplicateAndRedirect(m, e)
           N == Outcome(m, "refused")
           v == ApplySingle(m, e)
<1>1. v = IF ~P THEN N ELSE CASE a -> A [] b -> B [] c -> C [] d -> D [] i -> I [] s -> S
                               [] OTHER -> X
  BY DEF ApplySingle
<1>2. /\ a => ~b /\ ~c /\ ~d /\ ~i /\ ~s
      /\ b => ~a /\ ~c /\ ~d /\ ~i /\ ~s
      /\ c => ~a /\ ~b /\ ~d /\ ~i /\ ~s
      /\ d => ~a /\ ~b /\ ~c /\ ~i /\ ~s
      /\ i => ~a /\ ~b /\ ~c /\ ~d /\ ~s
      /\ s => ~a /\ ~b /\ ~c /\ ~d /\ ~i
      /\ other => ~a /\ ~b /\ ~c /\ ~d /\ ~i /\ ~s
  OBVIOUS
<1> HIDE DEF P, a, b, c, d, i, s, other, A, B, C, D, I, S, X, N, v
<1>3. ~P => v = N
  BY <1>1
<1>4. P => v = CASE a -> A [] b -> B [] c -> C [] d -> D [] i -> I [] s -> S [] OTHER -> X
  BY <1>1
<1>5. ASSUME P
      PROVE  /\ a => v = A
             /\ b => v = B
             /\ c => v = C
             /\ d => v = D
             /\ i => v = I
             /\ s => v = S
             /\ other => v = X
  <2>1. v = CASE a -> A [] b -> B [] c -> C [] d -> D [] i -> I [] s -> S [] OTHER -> X
    BY <1>4, <1>5
  <2>2. CASE a
    BY <1>2, <2>1, <2>2
  <2>3. CASE b
    BY <1>2, <2>1, <2>3
  <2>4. CASE c
    BY <1>2, <2>1, <2>4
  <2>5. CASE d
    BY <1>2, <2>1, <2>5
  <2>6. CASE i
    BY <1>2, <2>1, <2>6
  <2>7. CASE s
    BY <1>2, <2>1, <2>7
  <2>8. CASE other
    BY <1>2, <2>1, <2>8
  <2> QED BY <2>2, <2>3, <2>4, <2>5, <2>6, <2>7, <2>8
<1> QED BY <1>3, <1>5 DEF P, a, b, c, d, i, s, other, A, B, C, D, I, S, X, N, v

LEMMA ApplyIs ==
  ASSUME NEW n, NEW q, NEW m, NEW f, NEW all, NEW e, Ready(n, q, m, f, all, e)
  PROVE  Applied(n, q, f, e, ApplySingle(m, e))
<1>1. CASE ~Preconditions(m, e)
  <2>1. ApplySingle(m, e) = Outcome(m, "refused")
    BY <1>1, ApplySingleIs
  <2> QED BY <2>1, Unchanged
<1>2. CASE Preconditions(m, e) /\ e.kind = "goto"
  <2>1. ApplySingle(m, e) = GotoChange(m, e)
    BY <1>2, ApplySingleIs
  <2> QED BY <1>2, <2>1, GotoApplied
<1>3. CASE Preconditions(m, e) /\ e.kind = "branch"
  <2>1. ApplySingle(m, e) = TargetChange(m, e)
    BY <1>3, ApplySingleIs
  <2> QED BY <1>3, <2>1, BranchApplied
<1>4. CASE Preconditions(m, e) /\ e.kind = "convert"
  <2>1. ApplySingle(m, e) = ConvertToGoto(m, e)
    BY <1>4, ApplySingleIs
  <2> QED BY <1>4, <2>1, ConvertApplied
<1>5. CASE Preconditions(m, e) /\ e.kind = "remove"
  <2>1. ApplySingle(m, e) = EdgeRemove(m, e)
    BY <1>5, ApplySingleIs
  <2> QED BY <1>5, <2>1, RemoveApplied
<1>6. CASE Preconditions(m, e) /\ e.kind = "insert"
  <2>1. ApplySingle(m, e) = CreateAndRedirect(m, e)
    BY <1>6, ApplySingleIs
  <2> QED BY <1>6, <2>1, InsertApplied
<1>7. CASE Preconditions(m, e) /\ e.kind = "split"
  <2>1. ApplySingle(m, e) = EdgeSplit(m, e)
    BY <1>7, ApplySingleIs
  <2> QED BY <1>7, <2>1, SplitApplied
<1>8. CASE Preconditions(m, e) /\ e.kind = "duplicate"
  <2>1. ApplySingle(m, e) = DuplicateAndRedirect(m, e)
    BY <1>8, ApplySingleIs
  <2>2. Reaches(m, e) /\ Len(m[e.at].succ) # 2
    BY <1>8, PreconditionsAre DEF Nsucc
  <2> QED BY <1>8, <2>1, <2>2, DuplicateApplied
<1>9. CASE Preconditions(m, e) /\ e.kind = "copy"
  <2>1. ApplySingle(m, e) = DuplicateAndRedirect(m, e)
    BY <1>9, ApplySingleIs
  <2>2. Reaches(m, e) /\ (Len(m[e.at].succ) = 2 => m[e.at].op = "jcond")
    BY <1>9, PreconditionsAre DEF Nsucc
  <2>3. CASE Len(m[e.at].succ) = 2
    BY <1>9, <2>1, <2>2, <2>3, ConditionalCopyApplied
  <2>4. CASE Len(m[e.at].succ) # 2
    BY <1>9, <2>1, <2>2, <2>4, PlainCopyApplied
  <2> QED BY <2>3, <2>4
<1>10. e.kind \in {"goto", "branch", "convert", "remove", "insert", "split", "duplicate", "copy"}
  BY DEF Ready, Item
<1> QED BY <1>1, <1>2, <1>3, <1>4, <1>5, <1>6, <1>7, <1>8, <1>9, <1>10

(* The edit is taken back: control goes where it went.                         *)
LEMMA ReturnedLives ==
  ASSUME NEW n, NEW q, NEW m, NEW f, NEW all, NEW e, Ready(n, q, m, f, all, e),
         NEW g, NEW m1, Lives(n, q, m1, g), \A i \in 0..q-1 : i # e.at => g[i] = f[i],
         NEW m2, NEW op, NEW type, NEW refs, NEW succ,
         Now(q, m1, m2, e.at, op, type, refs, succ),
         ToSet(succ) = ToSet(m[e.at].succ),
         op = "jcond" => \E r \in 0..q-1 : BranchesTo(n, q, m2[e.at], e.at, r)
  PROVE  Lives(n, q, m2, f)
<1>1. /\ n \in Nat /\ q \in Nat /\ n <= q - 1 /\ e.at \in 0..n-1 /\ e.at \in 0..q-1
      /\ Closed(q, m) /\ Flows(n, q, m, f) /\ DOMAIN f = 0..q-1
  BY ReadyIs
<1>2. DOMAIN g = 0..q-1
  BY DEF Lives
<1>3. ToSet(succ) \subseteq 0..q-1
  BY <1>1 DEF Closed
<1>4. IdAt(n, q, e.at) = e.at
  BY <1>1 DEF IdAt
<1>5. f[e.at] = Leads(n, q, m, e.at)
  BY <1>1, <1>4 DEF Flows
<1>6. f[e.at] = {IdAt(n, q, t) : t \in ToSet(succ)}
  BY <1>5 DEF Leads
<1>7. Redirected(n, q, e.at, succ, g, f)
  BY <1>1, <1>2, <1>4, <1>6 DEF Redirected
<1> DEFINE s == e.at
<1>8. /\ Now(q, m1, m2, s, op, type, refs, succ) /\ Redirected(n, q, s, succ, g, f)
      /\ s < n /\ op = "jcond" /\ Len(succ) = 2 => \E r \in 0..q-1 : BranchesTo(n, q, m2[s], s, r)
  BY <1>7
<1> HIDE DEF s
<1> QED BY <1>3, <1>8, EditLives

LEMMA RolledBackIs ==
  ASSUME NEW n, NEW q, NEW m, NEW f, NEW all, NEW e, Ready(n, q, m, f, all, e),
         HasRollback(e), NEW r, r = ApplySingle(m, e), r.result = "done"
  PROVE  Lives(n, q, RolledBack(r.mba, e, m), f)
<1> DEFINE m1 == r.mba
           g == Effect(f, e)
<1>1. /\ n \in Nat /\ q \in Nat /\ 1 <= n /\ n <= q - 1 /\ e.at \in 0..n-1 /\ e.at \in 0..q-1
      /\ Array(q, m) /\ Closed(q, m) /\ Placed(n, q, m) /\ Branching(n, q, m) /\ DOMAIN f = 0..q-1
      /\ MaxBlocks \in Nat /\ q < MaxBlocks
  BY ReadyIs
<1>2. e.kind = "goto" \/ e.kind = "branch"
  BY DEF HasRollback
<1>3. ~Creates(e)
  BY <1>2 DEF Creates
<1>4. Lives(n, q, m1, g)
  <2>1. PICK qq \in q..q+2 : EndsAs(n, q, f, e, r, qq)
    BY ApplyIs DEF Applied
  <2> QED BY <1>3, <2>1 DEF EndsAs
<1>5. \A i \in 0..q-1 : i # e.at => g[i] = f[i]
  <2>1. CASE e.kind = "goto"
    <3>1. g = [f EXCEPT ![e.at] = {e.to}]
      BY <2>1, EffectIs
    <3> QED BY <1>1, <3>1
  <2>2. CASE e.kind = "branch"
    <3>1. g = [f EXCEPT ![e.at] = {e.at + 1, e.to}]
      BY <2>2, EffectIs
    <3> QED BY <1>1, <3>1
  <2> QED BY <1>2, <2>1, <2>2
<1>6. Preconditions(m, e)
  <2> SUFFICES ASSUME ~Preconditions(m, e)
               PROVE  FALSE
    OBVIOUS
  <2>1. r = Outcome(m, "refused")
    BY ApplySingleIs
  <2> QED BY <2>1, OutcomeIs
<1>7. e.aim \in 0..MaxBlocks-1
  <2>1. e.kind # "copy"
    BY <1>2
  <2> QED BY <2>1, AimIs
<1>8. Array(q, m1)
  BY <1>4, PlacedIs DEF Lives
<1>9. CASE e.kind = "goto"
  <2> DEFINE t == m[e.at].succ[1]
             back == Change1Way(m1, e.at, t)
             succ == <<t>>
             aims == <<e.aim>>
  <2>1. r = GotoChange(m, e)
    BY <1>6, <1>9, ApplySingleIs
  <2>2. m1 = Change1Way(m, e.at, e.aim) /\ Len(m[e.at].succ) = 1
    BY <2>1, OutcomeIs DEF GotoChange, CanChange1Way, Nsucc
  <2>3. Now(q, m, m1, e.at, "goto", "1WAY", aims, aims)
    BY <1>1, <1>7, <2>2, Change1WayIs
  <2>4. Len(m1[e.at].succ) = 1
    <3>1. m1[e.at].succ = aims /\ Len(aims) = 1
      BY <2>3 DEF Now
    <3> QED BY <3>1
  <2>5. m[e.at].succ = <<t>> /\ t \in 0..MaxBlocks-1
    <3>1. m[e.at].succ \in Seq(0..MaxBlocks-1)
      BY <1>1, BlockIs DEF Sequences
    <3> QED BY <2>2, <3>1, LengthOne
  <2> HIDE DEF t, m1
  <2>6. Now(q, m1, back, e.at, "goto", "1WAY", <<t>>, succ)
    BY <1>1, <1>8, <2>4, <2>5, Change1WayIs
  <2> DEFINE op == "goto"
             type == "1WAY"
             refs == <<t>>
  <2>7. /\ Now(q, m1, back, e.at, op, type, refs, succ) /\ op # "jcond"
        /\ ToSet(succ) = ToSet(m[e.at].succ)
    BY <2>5, <2>6
  <2>8. RolledBack(r.mba, e, m) = back
    BY <1>9 DEF RolledBack, t, m1
  <2> HIDE DEF op, type, refs, succ, back, g
  <2>9. Lives(n, q, back, f)
    BY <1>4, <1>5, <2>7, ReturnedLives
  <2> QED BY <2>8, <2>9
<1>10. CASE e.kind = "branch"
  <2> DEFINE s == e.at
             b == Behind(n, q, s)
             op == m[s].op
             type == m[s].type
  <2>1. r = TargetChange(m, e)
    BY <1>6, <1>10, ApplySingleIs
  <2>2. m1 = Change2Way(m, s, e.aim) /\ Len(m[s].succ) = 2 /\ m[s].op = "jcond"
    BY <2>1, OutcomeIs DEF TargetChange, CanChange2Way, Nsucc
  <2>3. PICK z \in 0..q-1 : BranchAs(n, q, m, s, z)
    <3>1. s \in 0..n-1
      BY <1>1
    <3> HIDE DEF s
    <3> QED BY <1>1, <2>2, <3>1, BranchIs
  <2> DEFINE back == Change2Way(m1, s, z)
             succ == <<b, z>>
             refs == <<z>>
  <2>4. /\ m[s].refs = <<z>> /\ m[s].refs[1] = z
        /\ (m[s].succ = <<b, z>> \/ m[s].succ = <<z, b>>)
        /\ ToSet(m[s].succ) = {b, z} /\ s \in 0..q-1
    BY <1>1, <2>3 DEF BranchAs
  <2> HIDE DEF b, s, m1
  <2>5. Now(q, m, m1, s, op, type, <<e.aim>>, <<b, e.aim>>)
    BY <1>1, <1>7, <2>2, <2>4, Change2WayIs
  <2>6. /\ m1[s].refs = <<e.aim>> /\ m1[s].succ = <<b, e.aim>> /\ m1[s].op = op /\ m1[s].type = type
    BY <2>5 DEF Now
  <2>7. z \in 0..MaxBlocks-1
    BY <1>1
  <2>8. Now(q, m1, back, s, m1[s].op, m1[s].type, <<z>>, <<b, z>>)
    BY <1>8, <2>4, <2>6, <2>7, Change2WayIs
  <2>9. Now(q, m1, back, s, op, type, refs, succ)
    BY <2>6, <2>8
  <2>10. BranchesTo(n, q, back[s], s, z)
    <3>1. back[s].refs = refs /\ back[s].succ = succ
      BY <2>9 DEF Now
    <3> QED BY <3>1 DEF BranchesTo, b
  <2>11. ToSet(succ) = ToSet(m[s].succ)
    BY <2>4, Pair
  <2>12. RolledBack(r.mba, e, m) = back
    <3>1. e.kind # "goto"
      BY <1>10
    <3> QED BY <2>4, <3>1 DEF RolledBack, s, m1
  <2> HIDE DEF op, type, refs, succ, back, g
  <2>13. Lives(n, q, back, f)
    BY <1>4, <1>5, <2>9, <2>10, <2>11, ReturnedLives DEF s
  <2> QED BY <2>12, <2>13
<1> QED BY <1>2, <1>9, <1>10

-------------------------------------------------------------------------------
(* The graph the decompiler hands over                                         *)

LEMMA OutsAre ==
  ASSUME NEW m, NEW s
  PROVE  /\ m[s].op \in {"jtbl", "goto"} => Outs(m, s) = m[s].refs
         /\ m[s].op = "jcond" =>
              Outs(m, s) = IF m[s].refs = <<s + 1>> THEN m[s].refs ELSE <<s + 1>> \o m[s].refs
         /\ m[s].op \in {"ijmp", "ret"} => Outs(m, s) = <<>>
         /\ m[s].op \notin {"jtbl", "goto", "jcond", "ijmp", "ret"} =>
              Outs(m, s) = IF m[s].type \in {"0WAY", "STOP"} THEN <<>> ELSE <<s + 1>>
<1> DEFINE a == m[s].op = "jtbl"
           b == m[s].op = "goto"
           c == m[s].op = "jcond"
           d == m[s].op \in {"ijmp", "ret"}
           C == IF m[s].refs = <<s + 1>> THEN m[s].refs ELSE <<s + 1>> \o m[s].refs
           D == IF m[s].type \in {"0WAY", "STOP"} THEN <<>> ELSE <<s + 1>>
           R == m[s].refs
           N == <<>>
           v == Outs(m, s)
<1>1. v = CASE a -> R [] b -> R [] c -> C [] d -> N [] OTHER -> D
  BY DEF Outs
<1>2. /\ a => ~b /\ ~c /\ ~d
      /\ b => ~a /\ ~c /\ ~d
      /\ c => ~a /\ ~b /\ ~d
      /\ d => ~a /\ ~b /\ ~c
  OBVIOUS
<1>3. /\ m[s].op \in {"jtbl", "goto"} => a \/ b
      /\ m[s].op \notin {"jtbl", "goto", "jcond", "ijmp", "ret"} => ~a /\ ~b /\ ~c /\ ~d
  OBVIOUS
<1> HIDE DEF a, b, c, d, C, D, R, N, v
<1>4. a => v = R
  BY <1>1, <1>2
<1>5. b => v = R
  BY <1>1, <1>2
<1>6. c => v = C
  BY <1>1, <1>2
<1>7. d => v = N
  BY <1>1, <1>2
<1>8. ~a /\ ~b /\ ~c /\ ~d => v = D
  BY <1>1
<1> QED BY <1>3, <1>4, <1>5, <1>6, <1>7, <1>8 DEF a, b, c, d, C, D, R, N, v

LEMMA Widening ==
  ASSUME NEW k \in Nat, k <= MaxBlocks
  PROVE  Blocks(k) \subseteq Blocks(MaxBlocks)
<1>1. MaxBlocks \in Nat
  BY Bound
<1>2. 0..k-1 \subseteq 0..MaxBlocks-1
  BY <1>1
<1>3. \A u \in Seq(0..k-1) : u \in Seq(0..MaxBlocks-1)
  <2> TAKE u \in Seq(0..k-1)
  <2>1. u \in [1..Len(u) -> 0..MaxBlocks-1] /\ Len(u) \in Nat
    BY <1>2
  <2> QED BY <2>1, SequenceIs
<1> DEFINE A == Seq(0..k-1)
           B == Seq(0..MaxBlocks-1)
<1>4. A \subseteq B
  BY <1>3
<1> HIDE DEF A, B
<1>5. [id : Nat, type : Types, op : Opcodes, refs : A, succ : A, pred : A]
        \subseteq [id : Nat, type : Types, op : Opcodes, refs : B, succ : B, pred : B]
  BY <1>4
<1> QED BY <1>5 DEF Blocks, A, B

MadeAs(k, m) ==
  /\ DOMAIN m = 0..k-1
  /\ m \in [0..k-1 -> Blocks(k)]
  /\ \A s \in 0..k-1 :
        /\ m[s].id = s
        /\ m[s].op \in {"goto", "jcond"} => Len(m[s].refs) = 1
        /\ m[s].op = "jcond" => m[s].type = "2WAY"
        /\ m[s].op = "jtbl" => m[s].refs # <<>>
  /\ m[k-1].type = "STOP" /\ m[k-1].op = "none"
  /\ WellFormed(m)

LEMMA GraphIs ==
  ASSUME NEW m \in Graphs
  PROVE  LET n == ExitSerial(m)
         IN  /\ n \in Nat /\ n >= 1 /\ n + 1 <= MaxBlocks - 2 * MaxPlan /\ n + 1 <= MaxBlocks
             /\ MadeAs(n + 1, m) /\ Array(n + 1, m) /\ EndsPlainly(m)
             /\ Placed(n, n + 1, m) /\ Closed(n + 1, m)
<1>1. /\ MaxPlan \in Nat /\ MaxBlocks \in Nat
      /\ Made(m, MaxBlocks - 2 * MaxPlan) /\ EndsPlainly(m)
  BY GraphModifierConstants
<1>2. PICK k \in 2..(MaxBlocks - 2 * MaxPlan) : MadeAs(k, m)
  BY <1>1 DEF Made, MadeAs
<1> DEFINE n == ExitSerial(m)
<1>3. k \in Nat /\ k >= 2 /\ k <= MaxBlocks - 2 * MaxPlan /\ k <= MaxBlocks
  BY <1>1
<1>4. DOMAIN m = 0..k-1 /\ m \in [0..k-1 -> Blocks(k)] /\ \A s \in 0..k-1 : m[s].id = s
  BY <1>2 DEF MadeAs
<1>5. Array(k, m)
  <2>1. k \in 2..MaxBlocks
    BY <1>1, <1>3
  <2>2. Blocks(k) \subseteq Blocks(MaxBlocks)
    BY <1>3, Widening
  <2>3. m \in [0..k-1 -> Blocks(MaxBlocks)]
    BY <1>4, <2>2
  <2> QED BY <2>1, <2>3 DEF Array
<1>6. n = k - 1
  BY <1>5, ArrayIs
<1> HIDE DEF n
<1>7. k = n + 1 /\ n \in Nat /\ n >= 1
  BY <1>3, <1>6
<1>8. Placed(n, n + 1, m)
  <2>1. \A s \in 0..(n+1)-1 : IdAt(n, n + 1, s) = s
    BY <1>7 DEF IdAt
  <2>2. n \in 1..(n+1)-1
    BY <1>7
  <2> QED BY <1>4, <1>5, <1>7, <2>1, <2>2 DEF Placed
<1>9. Closed(n + 1, m)
  <2>1. \A s \in DOMAIN m : \A t \in ToSet(m[s].succ) : t \in DOMAIN m
    BY <1>2 DEF MadeAs, WellFormed, EdgesAgree
  <2> QED BY <1>4, <1>7, <2>1 DEF Closed
<1>10. /\ n + 1 <= MaxBlocks - 2 * MaxPlan /\ n + 1 <= MaxBlocks
       /\ MadeAs(n + 1, m) /\ Array(n + 1, m)
  BY <1>2, <1>3, <1>5, <1>7
<1> QED BY <1>1, <1>7, <1>8, <1>9, <1>10 DEF n

LEMMA MadeBlock ==
  ASSUME NEW k, NEW m, MadeAs(k, m), NEW s \in 0..k-1
  PROVE  /\ m[s].succ = Outs(m, s) /\ Len(m[s].succ) = SuccessorCount(m, s)
         /\ m[s].op \in {"goto", "jcond"} => Len(m[s].refs) = 1
         /\ m[s].op = "jcond" => m[s].type = "2WAY"
         /\ m[s].op = "jtbl" => m[s].refs # <<>>
         /\ m[s].type = "NWAY" <=> m[s].op = "jtbl"
         /\ m[s].type = "2WAY" => m[s].op = "jcond"
BY DEF MadeAs, WellFormed, SuccMatchesTail, TypeMatchesTail, Nsucc

(* A conditional block of it goes to the next block or to another.             *)
LEMMA MadeBranch ==
  ASSUME NEW n \in Nat, NEW m, MadeAs(n + 1, m), Array(n + 1, m), Closed(n + 1, m),
         NEW s \in 0..n-1, m[s].op = "jcond"
  PROVE  \E r \in 0..n : r # s + 1 /\ m[s].refs = <<r>> /\ m[s].succ = <<s + 1, r>>
<1>1. s \in 0..(n+1)-1
  OBVIOUS
<1>2. /\ m[s].succ = Outs(m, s) /\ Len(m[s].succ) = SuccessorCount(m, s)
      /\ Len(m[s].refs) = 1 /\ m[s].type = "2WAY"
  BY <1>1, MadeBlock
<1>3. SuccessorCount(m, s) = 2
  BY <1>2 DEF SuccessorCount
<1>4. m[s].refs \in Seq(0..MaxBlocks-1) /\ m[s].succ \in Seq(0..MaxBlocks-1)
  BY <1>1, BlockIs DEF Sequences
<1> DEFINE r == m[s].refs[1]
<1>5. m[s].refs = <<r>> /\ r \in 0..MaxBlocks-1
  BY <1>2, <1>4, LengthOne
<1>6. m[s].refs # <<s + 1>>
  <2> SUFFICES ASSUME m[s].refs = <<s + 1>>
               PROVE  FALSE
    OBVIOUS
  <2>1. m[s].succ = <<s + 1>>
    BY <1>2, OutsAre
  <2>2. Len(<<s + 1>>) = 1
    BY OneElement
  <2> QED BY <1>2, <1>3, <2>1, <2>2
<1>7. m[s].succ = <<s + 1, r>>
  <2>1. m[s].succ = <<s + 1>> \o m[s].refs
    BY <1>2, <1>6, OutsAre
  <2> HIDE DEF r
  <2>2. s + 1 \in Nat /\ r \in Nat
    BY <1>5
  <2>3. <<s + 1>> \o <<r>> = <<s + 1, r>>
    BY <2>2, JoinedOnes
  <2> QED BY <1>5, <2>1, <2>3
<1>8. r \in 0..n
  <2> HIDE DEF r
  <2>1. r \in ToSet(m[s].succ)
    BY <1>7, Pair
  <2> QED BY <1>1, <2>1 DEF Closed
<1> QED BY <1>5, <1>6, <1>7, <1>8

LEMMA StartLives ==
  ASSUME NEW m \in Graphs, NEW n, n = ExitSerial(m)
  PROVE  Lives(n, n + 1, m, Flow(m)) /\ Fresh(n, n + 1, m, m)
<1>1. /\ n \in Nat /\ n >= 1 /\ MadeAs(n + 1, m) /\ Array(n + 1, m) /\ EndsPlainly(m)
      /\ Placed(n, n + 1, m) /\ Closed(n + 1, m)
  BY GraphIs
<1>2. DOMAIN Flow(m) = 0..(n+1)-1 /\ Flows(n, n + 1, m, Flow(m))
  <2>1. /\ DOMAIN Flow(m) = 0..(n+1)-1
        /\ \A x \in 0..(n+1)-1 : Flow(m)[IdAt(n, n + 1, x)] = Leads(n, n + 1, m, x)
    BY <1>1, FlowAt
  <2> QED BY <2>1 DEF Flows
<1>3. Branching(n, n + 1, m)
  <2> SUFFICES ASSUME NEW x \in 0..n-1, m[x].op = "jcond"
               PROVE  \E r \in 0..(n+1)-1 : BranchesTo(n, n + 1, m[x], x, r)
    BY DEF Branching
  <2>1. PICK r \in 0..n : r # x + 1 /\ m[x].refs = <<r>> /\ m[x].succ = <<x + 1, r>>
    BY <1>1, MadeBranch
  <2>2. Behind(n, n + 1, x) = x + 1
    BY <1>1 DEF Behind
  <2>3. BranchesTo(n, n + 1, m[x], x, r) /\ r \in 0..(n+1)-1
    BY <1>1, <2>1, <2>2 DEF BranchesTo
  <2> QED BY <2>3
<1>4. ASSUME NEW x \in 0..n-1, m[x].op = "jcond"
      PROVE  m[x].succ[1] # m[x].succ[2]
  <2>1. PICK r \in 0..n : r # x + 1 /\ m[x].refs = <<r>> /\ m[x].succ = <<x + 1, r>>
    BY <1>1, <1>4, MadeBranch
  <2> QED BY <2>1, Pair
<1>5. ASSUME Len(m[n-1].succ) = 1, m[n-1].op \notin {"goto", "jcond", "ijmp", "ret"}
      PROVE  m[n-1].succ = <<n>>
  <2> DEFINE s == n - 1
  <2>1. s \in 0..(n+1)-1 /\ s + 1 = n
    BY <1>1
  <2>2. m[s].succ = Outs(m, s)
    BY <1>1, <2>1, MadeBlock
  <2>3. CASE m[s].op = "jtbl"
    BY <1>1, <1>5, <2>1, <2>3 DEF EndsPlainly, Nsucc
  <2>4. CASE m[s].op # "jtbl"
    <3>1. m[s].succ = IF m[s].type \in {"0WAY", "STOP"} THEN <<>> ELSE <<s + 1>>
      BY <1>5, <2>2, <2>4, OutsAre
    <3>2. Len(<<>>) = 0
      OBVIOUS
    <3> QED BY <1>5, <2>1, <3>1, <3>2
  <2> QED BY <2>3, <2>4
<1>6. Fresh(n, n + 1, m, m)
  <2>1. (n + 1) - 1 = n /\ (n + 1) - 2 = n - 1
    BY <1>1
  <2> QED BY <1>4, <1>5, <2>1 DEF Fresh
<1> QED BY <1>1, <1>2, <1>3, <1>6 DEF Lives

-------------------------------------------------------------------------------
(* Parts of a sequence                                                         *)

LEMMA Narrow ==
  ASSUME NEW S, NEW u \in Seq(S), NEW T, ToSet(u) \subseteq T
  PROVE  u \in Seq(T)
<1>1. ToSet(u) = {u[i] : i \in 1..Len(u)} /\ Len(u) \in Nat
  BY Elements
<1>2. u \in [1..Len(u) -> T]
  BY <1>1
<1> QED BY <1>1, <1>2, SequenceIs

Keeping(q, places, u) ==
  u = [i \in 0..Len(q) |->
         IF i = 0 THEN <<>>
         ELSE IF i \in places THEN Append(u[i-1], q[i]) ELSE u[i-1]]

(* The same, step by step.                                                     *)
Keeps(q, places, u) ==
  /\ u[0] = <<>>
  /\ \A i \in Nat : i < Len(q) =>
        u[i+1] = IF i + 1 \in places THEN Append(u[i], q[i+1]) ELSE u[i]

LEMMA KeepingExists ==
  ASSUME NEW q, NEW places, Len(q) \in Nat
  PROVE  \E u : Keeping(q, places, u)
<1> DEFINE Step(g, i) == IF i = 0 THEN <<>>
                         ELSE IF i \in places THEN Append(g[i-1], q[i]) ELSE g[i-1]
           Upto(k, g) == g = [i \in 0..k |-> Step(g, i)]
           S == {k \in Nat : \E g : Upto(k, g)}
<1>1. 0 \in S
  <2>1. Upto(0, [i \in 0..0 |-> <<>>])
    OBVIOUS
  <2> QED BY <2>1
<1>2. ASSUME NEW k \in Nat, k \in S
      PROVE  k + 1 \in S
  <2>1. PICK g : Upto(k, g)
    BY <1>2
  <2> DEFINE h == [i \in 0..k+1 |-> Step(g, i)]
  <2>2. \A i \in 0..k : g[i] = h[i]
    <3> HIDE DEF Step
    <3> QED BY <2>1
  <2>3. \A i \in 0..k+1 : i # 0 => i - 1 \in 0..k
    OBVIOUS
  <2>4. \A i \in 0..k+1 : h[i] = Step(g, i)
    <3> HIDE DEF Step
    <3> QED OBVIOUS
  <2>5. \A i \in 0..k+1 : Step(h, i) = Step(g, i)
    <3> HIDE DEF h
    <3> QED BY <2>2, <2>3
  <2>6. h = [i \in 0..k+1 |-> h[i]]
    OBVIOUS
  <2> HIDE DEF h, Step
  <2>7. Upto(k + 1, h)
    BY <2>4, <2>5, <2>6
  <2> QED BY <2>7
<1>3. Nat \subseteq S
  <2> HIDE DEF S
  <2> QED BY <1>1, <1>2, Induction
<1> QED BY <1>3 DEF Keeping

LEMMA KeepsIs ==
  ASSUME NEW q, NEW places, Len(q) \in Nat
  PROVE  \E u : Keeps(q, places, u) /\ Kept(q, places) = u[Len(q)]
<1>1. PICK u : Keeping(q, places, u) /\ Kept(q, places) = u[Len(q)]
  <2>1. Kept(q, places) = (CHOOSE u : Keeping(q, places, u))[Len(q)]
    BY DEF Kept, Keeping
  <2>2. \E u : Keeping(q, places, u)
    BY KeepingExists
  <2> QED BY <2>1, <2>2
<1>2. 0 \in 0..Len(q) /\ \A i \in Nat : i < Len(q) => i + 1 \in 0..Len(q) /\ i + 1 # 0 /\ (i + 1) - 1 = i
  OBVIOUS
<1>3. u[0] = <<>>
  BY <1>1, <1>2 DEF Keeping
<1>4. ASSUME NEW i \in Nat, i < Len(q)
      PROVE  u[i+1] = IF i + 1 \in places THEN Append(u[i], q[i+1]) ELSE u[i]
  BY <1>1, <1>2, <1>4 DEF Keeping
<1> QED BY <1>1, <1>3, <1>4 DEF Keeps

(* What the first i items leave.                                               *)
KeptUpto(S, q, places, u, i) ==
  /\ u[i] \in Seq(S) /\ Len(u[i]) <= i
  /\ ToSet(u[i]) = {q[j] : j \in (1..i) \cap places}

LEMMA KeptElements ==
  ASSUME NEW S, NEW q \in Seq(S), NEW places, NEW u, Keeps(q, places, u)
  PROVE  \A i \in Nat : i <= Len(q) => KeptUpto(S, q, places, u, i)
<1> DEFINE Z == {i \in Nat : i <= Len(q) => KeptUpto(S, q, places, u, i)}
<1>1. 0 \in Z
  <2>1. u[0] = <<>>
    BY DEF Keeps
  <2>2. <<>> \in Seq(S) /\ Len(<<>>) <= 0 /\ ToSet(<<>>) = {} /\ (1..0) = {}
    BY DEF ToSet
  <2> QED BY <2>1, <2>2 DEF KeptUpto
<1>2. ASSUME NEW i \in Nat, i \in Z
      PROVE  i + 1 \in Z
  <2> SUFFICES ASSUME i + 1 <= Len(q)
               PROVE  KeptUpto(S, q, places, u, i + 1)
    OBVIOUS
  <2>1. i < Len(q) /\ i <= Len(q) /\ i + 1 \in 1..Len(q) /\ (1..i+1) = (1..i) \cup {i + 1}
    OBVIOUS
  <2>2. u[i+1] = IF i + 1 \in places THEN Append(u[i], q[i+1]) ELSE u[i]
    BY <2>1 DEF Keeps
  <2>3. u[i] \in Seq(S) /\ Len(u[i]) <= i /\ ToSet(u[i]) = {q[j] : j \in (1..i) \cap places}
        /\ Len(u[i]) \in Nat
    BY <1>2, <2>1 DEF KeptUpto
  <2>4. q[i+1] \in S
    BY <2>1, ElementIn
  <2>5. CASE i + 1 \in places
    <3> DEFINE v == u[i]
               e == q[i+1]
    <3>1. v \in Seq(S) /\ e \in S
      BY <2>3, <2>4
    <3> HIDE DEF v, e
    <3>2. /\ Append(v, e) \in Seq(S) /\ Len(Append(v, e)) = Len(v) + 1
          /\ ToSet(Append(v, e)) = ToSet(v) \cup {e}
      BY <3>1, Appending
    <3>3. {q[j] : j \in (1..i+1) \cap places} = {q[j] : j \in (1..i) \cap places} \cup {e}
      BY <2>1, <2>5 DEF e
    <3>4. u[i+1] = Append(v, e)
      BY <2>2, <2>5 DEF v, e
    <3>5. ToSet(u[i+1]) = {q[j] : j \in (1..i+1) \cap places}
      BY <2>3, <3>2, <3>3, <3>4 DEF v
    <3>6. Len(v) + 1 <= i + 1
      BY <2>3 DEF v
    <3> QED BY <3>2, <3>4, <3>5, <3>6 DEF KeptUpto
  <2>6. CASE i + 1 \notin places
    <3>1. (1..i+1) \cap places = (1..i) \cap places
      BY <2>1, <2>6
    <3>2. u[i+1] = u[i] /\ Len(u[i]) <= i + 1
      BY <2>2, <2>3, <2>6
    <3> QED BY <2>3, <3>1, <3>2 DEF KeptUpto
  <2> QED BY <2>5, <2>6
<1>3. Nat \subseteq Z
  <2> HIDE DEF Z
  <2> QED BY <1>1, <1>2, Induction
<1> QED BY <1>3

LEMMA KeptIs ==
  ASSUME NEW S, NEW q \in Seq(S), NEW places
  PROVE  /\ Kept(q, places) \in Seq(S) /\ Len(Kept(q, places)) <= Len(q)
         /\ ToSet(Kept(q, places)) = {q[j] : j \in (1..Len(q)) \cap places}
         /\ Kept(q, places) \in Seq({q[j] : j \in (1..Len(q)) \cap places})
<1>1. Len(q) \in Nat
  OBVIOUS
<1>2. PICK u : Keeps(q, places, u) /\ Kept(q, places) = u[Len(q)]
  BY <1>1, KeepsIs
<1> DEFINE k == u[Len(q)]
           T == {q[j] : j \in (1..Len(q)) \cap places}
<1>3. k \in Seq(S) /\ Len(k) <= Len(q) /\ ToSet(k) = T
  <2>1. KeptUpto(S, q, places, u, Len(q))
    BY <1>1, <1>2, KeptElements
  <2> QED BY <2>1 DEF KeptUpto
<1> HIDE DEF k, T
<1>4. k \in Seq(T)
  BY <1>3, Narrow
<1> QED BY <1>2, <1>3, <1>4 DEF k, T

(* The places of four lists do not overlap.                                    *)
LEMMA FourKept ==
  ASSUME NEW S, NEW q \in Seq(S), NEW A, NEW B, NEW C, NEW D,
         \A i : /\ i \in A => i \notin B /\ i \notin C /\ i \notin D
                /\ i \in B => i \notin C /\ i \notin D
                /\ i \in C => i \notin D
  PROVE  Len(Kept(q, A)) + Len(Kept(q, B)) + Len(Kept(q, C)) + Len(Kept(q, D)) <= Len(q)
<1>1. Len(q) \in Nat
  OBVIOUS
<1>2. PICK a : Keeps(q, A, a) /\ Kept(q, A) = a[Len(q)]
  BY <1>1, KeepsIs
<1>3. PICK b : Keeps(q, B, b) /\ Kept(q, B) = b[Len(q)]
  BY <1>1, KeepsIs
<1>4. PICK c : Keeps(q, C, c) /\ Kept(q, C) = c[Len(q)]
  BY <1>1, KeepsIs
<1>5. PICK d : Keeps(q, D, d) /\ Kept(q, D) = d[Len(q)]
  BY <1>1, KeepsIs
<1> DEFINE Sum(i) == Len(a[i]) + Len(b[i]) + Len(c[i]) + Len(d[i])
           Z == {i \in Nat : i <= Len(q) => Sum(i) <= i}
<1>6. 0 \in Z
  <2>1. a[0] = <<>> /\ b[0] = <<>> /\ c[0] = <<>> /\ d[0] = <<>>
    BY <1>2, <1>3, <1>4, <1>5 DEF Keeps
  <2>2. Len(<<>>) = 0
    OBVIOUS
  <2>3. Len(a[0]) = 0 /\ Len(b[0]) = 0 /\ Len(c[0]) = 0 /\ Len(d[0]) = 0
    BY <2>1, <2>2
  <2>4. Sum(0) = 0
    BY <2>3
  <2> HIDE DEF Sum
  <2> QED BY <2>4
<1>7. ASSUME NEW i \in Nat, i \in Z
      PROVE  i + 1 \in Z
  <2> SUFFICES ASSUME i + 1 <= Len(q)
               PROVE  Sum(i + 1) <= i + 1
    <3> HIDE DEF Sum
    <3> QED OBVIOUS
  <2>1. i < Len(q) /\ i <= Len(q) /\ i + 1 \in 1..Len(q)
    BY <1>1
  <2>2. Sum(i) <= i
    <3> HIDE DEF Sum
    <3> QED BY <1>7, <2>1
  <2>3. a[i] \in Seq(S) /\ b[i] \in Seq(S) /\ c[i] \in Seq(S) /\ d[i] \in Seq(S)
    BY <1>2, <1>3, <1>4, <1>5, <2>1, KeptElements DEF KeptUpto
  <2>4. q[i+1] \in S
    BY <2>1, ElementIn
  <2>5. \A u \in Seq(S) : Len(u) \in Nat /\ Len(Append(u, q[i+1])) = Len(u) + 1
    BY <2>4, Appending
  <2>6. /\ a[i+1] = IF i + 1 \in A THEN Append(a[i], q[i+1]) ELSE a[i]
        /\ b[i+1] = IF i + 1 \in B THEN Append(b[i], q[i+1]) ELSE b[i]
        /\ c[i+1] = IF i + 1 \in C THEN Append(c[i], q[i+1]) ELSE c[i]
        /\ d[i+1] = IF i + 1 \in D THEN Append(d[i], q[i+1]) ELSE d[i]
    BY <1>2, <1>3, <1>4, <1>5, <2>1 DEF Keeps
  <2> DEFINE la == Len(a[i])
             lb == Len(b[i])
             lc == Len(c[i])
             ld == Len(d[i])
  <2>7. /\ Len(a[i+1]) = IF i + 1 \in A THEN la + 1 ELSE la
        /\ Len(b[i+1]) = IF i + 1 \in B THEN lb + 1 ELSE lb
        /\ Len(c[i+1]) = IF i + 1 \in C THEN lc + 1 ELSE lc
        /\ Len(d[i+1]) = IF i + 1 \in D THEN ld + 1 ELSE ld
    BY <2>3, <2>5, <2>6
  <2>8. la \in Nat /\ lb \in Nat /\ lc \in Nat /\ ld \in Nat /\ la + lb + lc + ld <= i
    <3>1. la \in Nat /\ lb \in Nat /\ lc \in Nat /\ ld \in Nat
      BY <2>3, <2>5
    <3>2. la + lb + lc + ld <= i
      BY <2>2
    <3> QED BY <3>1, <3>2
  <2> HIDE DEF la, lb, lc, ld
  <2>9. CASE i + 1 \in A
    BY <2>7, <2>8, <2>9
  <2>10. CASE i + 1 \in B
    BY <2>7, <2>8, <2>10
  <2>11. CASE i + 1 \in C
    BY <2>7, <2>8, <2>11
  <2>12. CASE i + 1 \notin A /\ i + 1 \notin B /\ i + 1 \notin C
    <3>1. CASE i + 1 \in D
      BY <2>7, <2>8, <2>12, <3>1
    <3>2. CASE i + 1 \notin D
      BY <2>7, <2>8, <2>12, <3>2
    <3> QED BY <3>1, <3>2
  <2> QED BY <2>9, <2>10, <2>11, <2>12
<1>8. Nat \subseteq Z
  <2> HIDE DEF Z
  <2> QED BY <1>6, <1>7, Induction
<1>9. Sum(Len(q)) <= Len(q)
  <2> HIDE DEF Sum
  <2> QED BY <1>1, <1>8
<1> QED BY <1>2, <1>3, <1>4, <1>5, <1>9

LEMMA KeptFirst ==
  ASSUME NEW S, NEW q \in Seq(S), NEW places, CreatesFirst(q)
  PROVE  CreatesFirst(Kept(q, places))
<1>1. Len(q) \in Nat
  OBVIOUS
<1>2. PICK u : Keeps(q, places, u) /\ Kept(q, places) = u[Len(q)]
  BY <1>1, KeepsIs
<1> DEFINE Z == {i \in Nat : i <= Len(q) => CreatesFirst(u[i])}
<1>3. 0 \in Z
  <2>1. u[0] = <<>> /\ Len(<<>>) = 0
    BY <1>2 DEF Keeps
  <2> QED BY <2>1 DEF CreatesFirst
<1>4. ASSUME NEW i \in Nat, i \in Z
      PROVE  i + 1 \in Z
  <2> SUFFICES ASSUME i + 1 <= Len(q)
               PROVE  CreatesFirst(u[i+1])
    OBVIOUS
  <2>1. i < Len(q) /\ i <= Len(q) /\ i + 1 \in 1..Len(q)
    BY <1>1
  <2>2. u[i+1] = IF i + 1 \in places THEN Append(u[i], q[i+1]) ELSE u[i]
    BY <1>2, <2>1 DEF Keeps
  <2>3. CreatesFirst(u[i])
    BY <1>4, <2>1
  <2> DEFINE v == u[i]
             e == q[i+1]
             w == Append(v, e)
  <2>4. v \in Seq(S) /\ ToSet(v) = {q[j] : j \in (1..i) \cap places}
    <3>1. KeptUpto(S, q, places, u, i)
      BY <1>2, <2>1, KeptElements
    <3> QED BY <3>1 DEF KeptUpto
  <2>5. e \in S
    BY <2>1, ElementIn
  <2>6. CASE i + 1 \notin places
    BY <2>2, <2>3, <2>6
  <2>7. CASE i + 1 \in places
    <3> HIDE DEF v, e
    <3>1. /\ Len(w) = Len(v) + 1 /\ Len(v) \in Nat /\ w[Len(v) + 1] = e
          /\ \A x \in 1..Len(v) : w[x] = v[x]
      BY <2>4, <2>5, Appending
    <3>2. u[i+1] = w
      BY <2>2, <2>7 DEF v, e
    <3> HIDE DEF w
    <3>3. ASSUME NEW k \in 1..Len(w), Creates(w[k]), NEW j \in 1..k
          PROVE  Creates(w[j])
      <4>1. CASE k <= Len(v)
        <5>1. k \in 1..Len(v) /\ j \in 1..Len(v)
          BY <3>1, <4>1
        <5>2. Creates(v[k])
          BY <3>1, <3>3, <5>1
        <5>3. Creates(v[j])
          BY <2>3, <5>1, <5>2 DEF CreatesFirst, v
        <5> QED BY <3>1, <5>1, <5>3
      <4>2. CASE k = Len(v) + 1
        <5>1. Creates(e)
          BY <3>1, <3>3, <4>2
        <5>2. \A x \in 1..i+1 : Creates(q[x])
          BY <2>1, <5>1 DEF CreatesFirst, e
        <5>3. CASE j = Len(v) + 1
          BY <3>1, <5>1, <5>3
        <5>4. CASE j \in 1..Len(v)
          <6>1. w[j] = v[j] /\ v[j] \in ToSet(v)
            <7>1. ToSet(v) = {v[x] : x \in 1..Len(v)}
              BY <2>4, Elements
            <7> QED BY <3>1, <5>4, <7>1
          <6>2. \A x \in (1..i) \cap places : Creates(q[x])
            BY <5>2
          <6> QED BY <2>4, <6>1, <6>2
        <5>5. j \in 1..Len(v) \/ j = Len(v) + 1
          BY <3>1, <4>2
        <5> QED BY <5>3, <5>4, <5>5
      <4>3. k <= Len(v) \/ k = Len(v) + 1
        BY <3>1
      <4> QED BY <4>1, <4>2, <4>3
    <3> QED BY <3>2, <3>3 DEF CreatesFirst
  <2> QED BY <2>6, <2>7
<1>5. Nat \subseteq Z
  <2> HIDE DEF Z
  <2> QED BY <1>3, <1>4, Induction
<1> QED BY <1>1, <1>2, <1>5

LEMMA Joined ==
  ASSUME NEW S, NEW u \in Seq(S), NEW v \in Seq(S)
  PROVE  /\ u \o v \in Seq(S) /\ Len(u \o v) = Len(u) + Len(v)
         /\ Len(u) \in Nat /\ Len(v) \in Nat
         /\ \A i \in 1..Len(u) : (u \o v)[i] = u[i]
         /\ \A i \in 1..Len(u) + Len(v) : i > Len(u) =>
               i - Len(u) \in 1..Len(v) /\ (u \o v)[i] = v[i - Len(u)]
<1>1. u \o v \in Seq(S) /\ Len(u \o v) = Len(u) + Len(v)
  OBVIOUS
<1>2. \A i \in 1..Len(u) : (u \o v)[i] = u[i]
  OBVIOUS
<1>3. \A i \in 1..Len(u) + Len(v) : i > Len(u) => (u \o v)[i] = v[i - Len(u)]
  OBVIOUS
<1>4. Len(u) \in Nat /\ Len(v) \in Nat
  OBVIOUS
<1>5. \A i \in 1..Len(u) + Len(v) : i > Len(u) => i - Len(u) \in 1..Len(v)
  BY <1>4
<1> QED BY <1>1, <1>2, <1>3, <1>4, <1>5

LEMMA JoinedFirst ==
  ASSUME NEW S, NEW u \in Seq(S), NEW v \in Seq(S), CreatesFirst(u),
         \A i \in 1..Len(v) : ~Creates(v[i])
  PROVE  CreatesFirst(u \o v)
<1> DEFINE w == u \o v
<1>1. /\ Len(w) = Len(u) + Len(v) /\ Len(u) \in Nat /\ Len(v) \in Nat
      /\ \A i \in 1..Len(u) : w[i] = u[i]
      /\ \A i \in 1..Len(u) + Len(v) : i > Len(u) =>
            i - Len(u) \in 1..Len(v) /\ w[i] = v[i - Len(u)]
  BY Joined
<1> HIDE DEF w
<1>2. ASSUME NEW k \in 1..Len(w), Creates(w[k]), NEW j \in 1..k
      PROVE  Creates(w[j])
  <2>1. k <= Len(u)
    <3> SUFFICES ASSUME k > Len(u)
                 PROVE  FALSE
      BY <1>1
    <3>1. k - Len(u) \in 1..Len(v) /\ w[k] = v[k - Len(u)]
      BY <1>1
    <3> QED BY <1>2, <3>1
  <2>2. k \in 1..Len(u) /\ j \in 1..Len(u)
    BY <1>1, <2>1
  <2>3. Creates(u[k])
    BY <1>1, <1>2, <2>2
  <2>4. Creates(u[j])
    BY <2>2, <2>3 DEF CreatesFirst
  <2> QED BY <1>1, <2>2, <2>4
<1> QED BY <1>2 DEF CreatesFirst, w

-------------------------------------------------------------------------------
(* The serial numbers given out when the plan is compiled                      *)

LEMMA NewBlocksIs ==
  ASSUME NEW m, NEW e
  PROVE  NewBlocks(m, e) \in 0..2 /\ (Creates(e) => NewBlocks(m, e) >= 1)
<1> DEFINE p == ~Creates(e)
           two == e.kind = "copy" /\ Nsucc(m, e.at) = 2
<1>1. NewBlocks(m, e) = CASE p -> 0 [] two -> 2 [] OTHER -> 1
  BY DEF NewBlocks
<1>2. two => ~p
  BY DEF Creates
<1> HIDE DEF p, two
<1>3. p /\ ~two => NewBlocks(m, e) = 0
  BY <1>1
<1>4. ~p /\ two => NewBlocks(m, e) = 2
  BY <1>1
<1>5. ~p /\ ~two => NewBlocks(m, e) = 1
  BY <1>1
<1> QED BY <1>2, <1>3, <1>4, <1>5 DEF p

Summing(m, p, s) ==
  s = [j \in 0..Len(p) |-> IF j = 0 THEN 0 ELSE s[j-1] + NewBlocks(m, p[j])]

LEMMA SummingExists ==
  ASSUME NEW m, NEW p, Len(p) \in Nat
  PROVE  \E s : Summing(m, p, s)
<1> DEFINE Step(g, j) == IF j = 0 THEN 0 ELSE g[j-1] + NewBlocks(m, p[j])
           Upto(k, g) == g = [j \in 0..k |-> Step(g, j)]
           S == {k \in Nat : \E g : Upto(k, g)}
<1>1. 0 \in S
  <2>1. Upto(0, [j \in 0..0 |-> 0])
    OBVIOUS
  <2> QED BY <2>1
<1>2. ASSUME NEW k \in Nat, k \in S
      PROVE  k + 1 \in S
  <2>1. PICK g : Upto(k, g)
    BY <1>2
  <2> DEFINE h == [j \in 0..k+1 |-> Step(g, j)]
  <2>2. \A j \in 0..k : g[j] = h[j]
    <3> HIDE DEF Step
    <3> QED BY <2>1
  <2>3. \A j \in 0..k+1 : j # 0 => j - 1 \in 0..k
    OBVIOUS
  <2>4. \A j \in 0..k+1 : h[j] = Step(g, j)
    <3> HIDE DEF Step
    <3> QED OBVIOUS
  <2>5. \A j \in 0..k+1 : Step(h, j) = Step(g, j)
    <3> HIDE DEF h
    <3> QED BY <2>2, <2>3
  <2>6. h = [j \in 0..k+1 |-> h[j]]
    OBVIOUS
  <2> HIDE DEF h, Step
  <2>7. Upto(k + 1, h)
    BY <2>4, <2>5, <2>6
  <2> QED BY <2>7
<1>3. Nat \subseteq S
  <2> HIDE DEF S
  <2> QED BY <1>1, <1>2, Induction
<1> QED BY <1>3 DEF Summing

LEMMA NumberedIs ==
  ASSUME NEW m, NEW p, Len(p) \in Nat
  PROVE  /\ \A i \in 1..Len(p) :
               /\ BlocksBefore(m, p, i) \in Nat
               /\ BlocksBefore(m, p, i) + NewBlocks(m, p[i]) <= BlocksBefore(m, p, Len(p) + 1)
         /\ BlocksBefore(m, p, Len(p) + 1) \in Nat
         /\ BlocksBefore(m, p, Len(p) + 1) <= 2 * Len(p)
<1>1. PICK s : Summing(m, p, s) /\ \A i : BlocksBefore(m, p, i) = s[i-1]
  <2>1. \A i : BlocksBefore(m, p, i) = (CHOOSE s : Summing(m, p, s))[i-1]
    BY DEF BlocksBefore, Summing
  <2>2. \E s : Summing(m, p, s)
    BY SummingExists
  <2> QED BY <2>1, <2>2
<1>2. 0 \in 0..Len(p)
      /\ \A i \in Nat : i < Len(p) => i + 1 \in 0..Len(p) /\ i + 1 # 0 /\ (i + 1) - 1 = i
  OBVIOUS
<1>3. s[0] = 0
  BY <1>1, <1>2 DEF Summing
<1>4. ASSUME NEW i \in Nat, i < Len(p)
      PROVE  s[i+1] = s[i] + NewBlocks(m, p[i+1])
  BY <1>1, <1>2, <1>4 DEF Summing
<1>5. \A i : NewBlocks(m, p[i]) \in 0..2
  BY NewBlocksIs
<1> DEFINE Z == {k \in Nat : k <= Len(p) =>
                   /\ s[k] \in Nat /\ s[k] <= 2 * k
                   /\ \A i \in 0..k : s[i] \in Nat /\ s[i] <= s[k]}
<1>6. 0 \in Z
  BY <1>3
<1>7. ASSUME NEW k \in Nat, k \in Z
      PROVE  k + 1 \in Z
  <2> SUFFICES ASSUME k + 1 <= Len(p)
               PROVE  /\ s[k+1] \in Nat /\ s[k+1] <= 2 * (k + 1)
                      /\ \A i \in 0..k+1 : s[i] \in Nat /\ s[i] <= s[k+1]
    OBVIOUS
  <2>1. k < Len(p) /\ k <= Len(p)
    OBVIOUS
  <2>2. s[k] \in Nat /\ s[k] <= 2 * k /\ \A i \in 0..k : s[i] \in Nat /\ s[i] <= s[k]
    BY <1>7, <2>1
  <2>3. s[k+1] = s[k] + NewBlocks(m, p[k+1]) /\ NewBlocks(m, p[k+1]) \in 0..2
    BY <1>4, <1>5, <2>1
  <2> DEFINE x == NewBlocks(m, p[k+1])
  <2> HIDE DEF x
  <2>4. s[k+1] = s[k] + x /\ x \in 0..2
    BY <2>3 DEF x
  <2>5. s[k+1] \in Nat /\ s[k+1] <= 2 * (k + 1) /\ s[k] <= s[k+1]
    BY <2>2, <2>4
  <2>6. ASSUME NEW i \in 0..k+1
        PROVE  s[i] \in Nat /\ s[i] <= s[k+1]
    <3>1. CASE i = k + 1
      BY <2>5, <3>1
    <3>2. CASE i \in 0..k
      BY <2>2, <2>5, <3>2
    <3> QED BY <3>1, <3>2
  <2> QED BY <2>5, <2>6
<1>8. Nat \subseteq Z
  <2> HIDE DEF Z
  <2> QED BY <1>6, <1>7, Induction
<1>9. /\ s[Len(p)] \in Nat /\ s[Len(p)] <= 2 * Len(p)
      /\ \A i \in 0..Len(p) : s[i] \in Nat /\ s[i] <= s[Len(p)]
  <2>1. Len(p) \in Z
    <3> HIDE DEF Z
    <3> QED BY <1>8
  <2> QED BY <2>1
<1>10. BlocksBefore(m, p, Len(p) + 1) = s[Len(p)]
  <2>1. (Len(p) + 1) - 1 = Len(p)
    OBVIOUS
  <2> QED BY <1>1, <2>1
<1>11. ASSUME NEW i \in 1..Len(p)
       PROVE  /\ BlocksBefore(m, p, i) \in Nat
              /\ BlocksBefore(m, p, i) + NewBlocks(m, p[i]) <= BlocksBefore(m, p, Len(p) + 1)
  <2>1. i - 1 \in Nat /\ i - 1 < Len(p) /\ (i - 1) + 1 = i /\ i - 1 \in 0..Len(p) /\ i \in 0..Len(p)
    OBVIOUS
  <2>2. s[i] = s[i-1] + NewBlocks(m, p[i])
    BY <1>4, <2>1
  <2>3. BlocksBefore(m, p, i) = s[i-1]
    BY <1>1
  <2> QED BY <1>9, <1>10, <2>1, <2>2, <2>3
<1> QED BY <1>9, <1>10, <1>11

-------------------------------------------------------------------------------
(* The plan, and the queue it becomes                                          *)

LEMMA ExitEnds ==
  ASSUME NEW m \in Graphs
  PROVE  ToSet(m[ExitSerial(m)].succ) = {}
<1> DEFINE n == ExitSerial(m)
           u == m[n].succ
<1>1. n \in Nat /\ MadeAs(n + 1, m) /\ Array(n + 1, m)
  BY GraphIs
<1>2. n \in 0..(n+1)-1 /\ m[n].type = "STOP"
  BY <1>1 DEF MadeAs
<1>3. Len(u) = SuccessorCount(m, n)
  BY <1>1, <1>2, MadeBlock
<1>4. SuccessorCount(m, n) = 0
  BY <1>2 DEF SuccessorCount
<1>5. u \in Seq(0..MaxBlocks-1)
  BY <1>1, <1>2, BlockIs DEF Sequences
<1> HIDE DEF u
<1>6. ToSet(u) = {u[i] : i \in 1..Len(u)}
  BY <1>5, Elements
<1>7. Len(u) = 0
  BY <1>3, <1>4
<1>8. (1..0) = {}
  OBVIOUS
<1>9. ToSet(u) = {}
  BY <1>6, <1>7, <1>8
<1> QED BY <1>9 DEF u

(* What a modification of a plain plan may be.                                 *)
Modifies(n, m, x) ==
  /\ x.kind \in {"goto", "branch", "convert", "remove", "insert", "split", "duplicate", "copy"}
  /\ {"kind", "at"} \subseteq DOMAIN x
  /\ "serial" \notin DOMAIN x /\ "aim" \notin DOMAIN x /\ "was" \notin DOMAIN x
  /\ x.at \in 0..n-1
  /\ x.kind # "copy" => "to" \in DOMAIN x /\ x.to \in 0..n
  /\ x.kind = "insert" => m[x.to].type # "0WAY"
  /\ x.kind = "split" => "src" \in DOMAIN x /\ x.src \in 0..n-1
  /\ x.kind \in {"duplicate", "copy"} => "via" \in DOMAIN x /\ x.via \in 0..n-1
  /\ x.kind = "copy" => n \notin ToSet(m[x.at].succ)

LEMMA ModificationIs ==
  ASSUME NEW m \in Graphs, NEW x \in Plainly(m)
  PROVE  Modifies(ExitSerial(m), m, x)
<1> DEFINE n == ExitSerial(m)
           Inner == DOMAIN m \ {0, n}
           Targets == DOMAIN m \ {0}
           OneWay == {s \in Inner : Nsucc(m, s) = 1}
           Edges == {y \in (DOMAIN m) \X Inner : y[2] \in ToSet(m[y[1]].succ)}
           A == [kind : {"goto"}, at : OneWay, to : Targets]
           B == [kind : {"branch", "convert"}, at : {s \in Inner : m[s].op = "jcond"}, to : Targets]
           C == {[kind |-> "remove", at |-> y[1], to |-> y[2]] : y \in {z \in Edges : z[1] # 0}}
           D == {[kind |-> "insert", at |-> s, to |-> m[s].succ[1]] : s \in OneWay}
           E == {[kind |-> "copy", at |-> y[2], via |-> y[1]] : y \in Edges}
           F == {[kind |-> "duplicate", at |-> y[2], via |-> y[1], to |-> t] :
                   y \in Edges, t \in Targets}
           G == {[kind |-> "split", at |-> y[1], src |-> y[2], from |-> m[y[2]].succ[1], to |-> t] :
                   y \in {z \in Edges : Nsucc(m, z[1]) = 1 /\ m[z[2]].op = "goto"}, t \in Targets}
<1>1. /\ n \in Nat /\ DOMAIN m = 0..n /\ Closed(n + 1, m) /\ Array(n + 1, m)
      /\ ToSet(m[n].succ) = {}
  <2>1. n \in Nat /\ Closed(n + 1, m) /\ Array(n + 1, m)
    BY GraphIs
  <2>2. DOMAIN m = 0..(n+1)-1
    BY <2>1, ArrayIs
  <2>3. ToSet(m[n].succ) = {}
    BY ExitEnds
  <2> HIDE DEF n
  <2> QED BY <2>1, <2>2, <2>3
<1>2. (x \in A \/ x \in B \/ x \in C \/ x \in D \/ x \in E \/ x \in F \/ x \in G)
      /\ ~EndsFunction(m, x)
  BY DEF Plainly, Modifications
<1>3. ~(x.kind = "insert" /\ m[x.to].type = "0WAY")
      /\ ~(x.kind = "copy" /\ n \in ToSet(m[x.at].succ))
  BY <1>2 DEF EndsFunction
<1> HIDE DEF n
<1>4. \A s \in Inner : s \in 0..n-1
  BY <1>1
<1>5. \A s \in Targets : s \in 0..n
  BY <1>1
<1>6. \A y \in Edges : y[1] \in 0..n-1 /\ y[2] \in 0..n-1
  <2> SUFFICES ASSUME NEW y \in Edges
               PROVE  y[1] \in 0..n-1 /\ y[2] \in 0..n-1
    OBVIOUS
  <2>1. y[1] \in 0..n /\ y[2] \in Inner /\ y[2] \in ToSet(m[y[1]].succ)
    BY <1>1
  <2>2. y[1] # n
    BY <1>1, <2>1
  <2> QED BY <1>1, <1>4, <2>1, <2>2
<1>7. \A s \in OneWay : s \in 0..n-1 /\ m[s].succ[1] \in 0..n
  <2> SUFFICES ASSUME NEW s \in OneWay
               PROVE  s \in 0..n-1 /\ m[s].succ[1] \in 0..n
    OBVIOUS
  <2>1. s \in 0..n-1 /\ Len(m[s].succ) = 1
    BY <1>4 DEF Nsucc
  <2>2. s \in 0..(n+1)-1
    BY <1>1, <2>1
  <2> DEFINE u == m[s].succ
  <2>3. u \in Seq(0..MaxBlocks-1) /\ Len(u) = 1 /\ ToSet(u) \subseteq 0..(n+1)-1
    BY <1>1, <2>1, <2>2, BlockIs DEF Sequences, Closed
  <2> HIDE DEF u
  <2>4. u[1] \in ToSet(u)
    <3>1. ToSet(u) = {u[i] : i \in 1..Len(u)}
      BY <2>3, Elements
    <3> QED BY <2>3, <3>1
  <2>5. u[1] \in 0..n
    BY <1>1, <2>3, <2>4
  <2> QED BY <2>1, <2>5 DEF u
<1> HIDE DEF Edges, OneWay, Inner, Targets
<1>8. CASE x \in A
  <2>1. x.kind = "goto" /\ DOMAIN x = {"kind", "at", "to"} /\ x.at \in OneWay /\ x.to \in Targets
    BY <1>8
  <2> QED BY <1>5, <1>7, <2>1 DEF Modifies, n
<1>9. CASE x \in B
  <2>1. /\ x.kind \in {"branch", "convert"} /\ DOMAIN x = {"kind", "at", "to"} /\ x.at \in Inner
        /\ x.to \in Targets
    BY <1>9
  <2> QED BY <1>4, <1>5, <2>1 DEF Modifies, n
<1>10. CASE x \in C
  <2>1. PICK y \in Edges : x = [kind |-> "remove", at |-> y[1], to |-> y[2]]
    BY <1>10
  <2>2. x.kind = "remove" /\ DOMAIN x = {"kind", "at", "to"} /\ x.at = y[1] /\ x.to = y[2]
    BY <2>1
  <2>3. y[1] \in 0..n-1 /\ y[2] \in 0..n-1 /\ y[2] \in 0..n
    BY <1>1, <1>6
  <2> QED BY <2>2, <2>3 DEF Modifies, n
<1>11. CASE x \in D
  <2>1. PICK s \in OneWay : x = [kind |-> "insert", at |-> s, to |-> m[s].succ[1]]
    BY <1>11
  <2>2. x.kind = "insert" /\ DOMAIN x = {"kind", "at", "to"} /\ x.at = s /\ x.to = m[s].succ[1]
    BY <2>1
  <2> QED BY <1>3, <1>7, <2>2 DEF Modifies, n
<1>12. CASE x \in E
  <2>1. PICK y \in Edges : x = [kind |-> "copy", at |-> y[2], via |-> y[1]]
    BY <1>12
  <2>2. x.kind = "copy" /\ DOMAIN x = {"kind", "at", "via"} /\ x.at = y[2] /\ x.via = y[1]
    BY <2>1
  <2> QED BY <1>3, <1>6, <2>2 DEF Modifies, n
<1>13. CASE x \in F
  <2>1. PICK y \in Edges, t \in Targets :
            x = [kind |-> "duplicate", at |-> y[2], via |-> y[1], to |-> t]
    BY <1>13
  <2>2. /\ x.kind = "duplicate" /\ DOMAIN x = {"kind", "at", "via", "to"}
        /\ x.at = y[2] /\ x.via = y[1] /\ x.to = t
    BY <2>1
  <2> QED BY <1>5, <1>6, <2>2 DEF Modifies, n
<1>14. CASE x \in G
  <2>1. PICK y \in Edges, t \in Targets :
            x = [kind |-> "split", at |-> y[1], src |-> y[2], from |-> m[y[2]].succ[1], to |-> t]
    BY <1>14
  <2>2. /\ x.kind = "split" /\ DOMAIN x = {"kind", "at", "src", "from", "to"}
        /\ x.at = y[1] /\ x.src = y[2] /\ x.to = t
    BY <2>1
  <2> QED BY <1>5, <1>6, <2>2 DEF Modifies, n
<1> QED BY <1>2, <1>8, <1>9, <1>10, <1>11, <1>12, <1>13, <1>14

(* An edit of the compiled plan.                                               *)
CompiledFrom(m, p, x, before, e) ==
  /\ e.kind = x.kind /\ e.at = x.at
  /\ e.serial = ExitSerial(m) + before
  /\ e.kind # "copy" => e.to = x.to /\ e.aim = Relocated(m, p, x.to)
  /\ e.kind = "split" => e.src = x.src
  /\ e.kind \in {"duplicate", "copy"} => e.via = x.via

LEMMA CompiledIs ==
  ASSUME NEW n, NEW m, NEW p, DOMAIN p = 1..Len(p),
         NEW i \in 1..Len(p), Modifies(n, m, p[i]), NEW e, e = Compiled(m, p)[i]
  PROVE  CompiledFrom(m, p, p[i], BlocksBefore(m, p, i), e)
<1> DEFINE a == p[i]
           aim == IF a.kind = "copy" THEN 0 ELSE Relocated(m, p, a.to)
           was == IF a.kind = "split" THEN Relocated(m, p, a.from) ELSE 0
           serial == ExitSerial(m) + BlocksBefore(m, p, i)
           b == [serial |-> serial, aim |-> aim, was |-> was]
           j == [x \in DOMAIN a \cup DOMAIN b |-> IF x \in DOMAIN a THEN a[x] ELSE b[x]]
<1>1. DOMAIN p = 1..Len(p)
  OBVIOUS
<1>2. Compiled(m, p)[i] = j
  BY <1>1 DEF Compiled
<1>3. /\ DOMAIN b = {"serial", "aim", "was"} /\ b["serial"] = serial /\ b["aim"] = aim
  BY Zenon
<1>4. e = j
  BY <1>2
<1> HIDE DEF b
<1>5. /\ \A x \in DOMAIN a : j[x] = a[x]
      /\ \A x \in DOMAIN b : x \notin DOMAIN a => j[x] = b[x]
  OBVIOUS
<1> HIDE DEF j, serial, aim, a
<1>6. /\ {"kind", "at"} \subseteq DOMAIN a /\ "serial" \notin DOMAIN a /\ "aim" \notin DOMAIN a
      /\ a.kind # "copy" => "to" \in DOMAIN a
      /\ a.kind = "split" => "src" \in DOMAIN a
      /\ a.kind \in {"duplicate", "copy"} => "via" \in DOMAIN a
  BY DEF Modifies, a
<1>7. j["kind"] = a["kind"] /\ j["at"] = a["at"] /\ j["serial"] = serial /\ j["aim"] = aim
  BY <1>3, <1>5, <1>6
<1>8. /\ a.kind # "copy" => j["to"] = a["to"]
      /\ a.kind = "split" => j["src"] = a["src"]
      /\ a.kind \in {"duplicate", "copy"} => j["via"] = a["via"]
  BY <1>5, <1>6
<1> QED BY <1>4, <1>7, <1>8 DEF a, serial, aim, CompiledFrom

(* What is known of it, once it was checked against the start graph.           *)
LEMMA ItemIs ==
  ASSUME start \in Graphs, Len(plan) \in Nat, plan \in [1..Len(plan) -> Plainly(start)],
         NEW i \in 1..Len(plan), ~Unsupported(start, plan[i]),
         NEW e, e = Compiled(start, plan)[i], Preconditions(start, e)
  PROVE  Item(ExitSerial(start), All, e)
<1> DEFINE n == ExitSerial(start)
           x == plan[i]
<1>1. n \in Nat /\ Array(n + 1, start)
  BY GraphIs
<1>2. Modifies(n, start, x)
  <2>1. x \in Plainly(start)
    OBVIOUS
  <2> QED BY <2>1, ModificationIs
<1>3. /\ e.kind = x.kind /\ e.at = x.at
      /\ e.serial = n + BlocksBefore(start, plan, i)
      /\ e.kind # "copy" => e.to = x.to /\ e.aim = Relocated(start, plan, x.to)
      /\ e.kind = "split" => e.src = x.src
      /\ e.kind \in {"duplicate", "copy"} => e.via = x.via
  <2>1. DOMAIN plan = 1..Len(plan)
    OBVIOUS
  <2>2. CompiledFrom(start, plan, plan[i], BlocksBefore(start, plan, i), e)
    <3> HIDE DEF n
    <3> QED BY <1>2, <2>1, CompiledIs
  <2> QED BY <2>2 DEF CompiledFrom
<1>4. NewBlocks(start, e) = NewBlocks(start, x) /\ (Creates(e) <=> Creates(x))
  BY <1>3 DEF NewBlocks, Creates
<1>5. /\ BlocksBefore(start, plan, i) \in Nat /\ All \in Nat
      /\ BlocksBefore(start, plan, i) + NewBlocks(start, x) <= All
  BY NumberedIs DEF All
<1>6. NewBlocks(start, x) \in 0..2 /\ (Creates(x) => NewBlocks(start, x) >= 1)
  BY NewBlocksIs
<1>7. Creates(e) => All >= 1 /\ e.serial \in Nat /\ e.serial + NewBlocks(start, e) <= n + All
  <2> DEFINE before == BlocksBefore(start, plan, i)
             new == NewBlocks(start, x)
  <2>1. before \in Nat /\ All \in Nat /\ before + new <= All /\ new \in 0..2
        /\ (Creates(e) => new >= 1) /\ e.serial = n + before /\ NewBlocks(start, e) = new
    BY <1>3, <1>4, <1>5, <1>6
  <2> HIDE DEF before, new, n
  <2> QED BY <1>1, <2>1
<1>8. e.kind # "copy" => e.aim = IF e.to = n THEN n + All ELSE e.to
  BY <1>3 DEF Relocated, All
<1>9. \A t : Missing(start, t) <=> t \notin 0..n
  <2>1. \A t : Missing(start, t) <=> t \notin 0..(n+1)-1
    BY <1>1, ArrayIs
  <2> HIDE DEF n
  <2> QED BY <1>1, <2>1
<1>10. e.kind \in {"insert", "split", "duplicate"} => ~Missing(start, e.aim)
  BY PreconditionsAre
<1>11. ~Unsupported(start, x)
  OBVIOUS
<1> HIDE DEF n, x
<1>12. /\ e.kind \in {"goto", "branch", "convert", "remove", "insert", "split", "duplicate", "copy"}
       /\ e.at \in 0..n-1
       /\ e.kind # "copy" => e.to \in 0..n
       /\ e.kind = "insert" => start[e.to].type # "0WAY"
       /\ e.kind = "split" => e.src \in 0..n-1
       /\ e.kind \in {"duplicate", "copy"} => e.via \in 0..n-1
       /\ e.kind = "copy" => n \notin ToSet(start[e.at].succ)
  BY <1>2, <1>3 DEF Modifies
<1>13. e.kind \in {"insert", "split", "duplicate"} => e.to \in 0..n-1 /\ e.aim = e.to
  <2> SUFFICES ASSUME e.kind \in {"insert", "split", "duplicate"}
               PROVE  e.to \in 0..n-1 /\ e.aim = e.to
    OBVIOUS
  <2>1. Creates(e) /\ e.kind # "copy"
    BY DEF Creates
  <2>2. e.aim \in 0..n /\ e.to \in 0..n /\ All \in Nat /\ All >= 1
    BY <1>5, <1>7, <1>9, <1>10, <1>12, <2>1
  <2>3. e.to # n
    BY <1>1, <1>8, <2>1, <2>2
  <2> QED BY <1>1, <1>8, <2>1, <2>2, <2>3
<1>14. e.kind \in {"duplicate", "copy"} => Len(start[e.at].succ) <= 2
  <2> SUFFICES ASSUME e.kind \in {"duplicate", "copy"}
               PROVE  Len(start[e.at].succ) <= 2
    OBVIOUS
  <2>1. ~(Nsucc(start, x.at) > 2)
    BY <1>3, <1>11 DEF Unsupported
  <2>2. start[e.at].succ \in Seq(0..MaxBlocks-1)
    <3>1. e.at \in 0..(n+1)-1
      BY <1>1, <1>12
    <3> QED BY <1>1, <3>1, BlockIs DEF Sequences
  <2>3. Len(start[e.at].succ) \in Nat
    BY <2>2
  <2> QED BY <1>3, <2>1, <2>3 DEF Nsucc
<1>15. e.kind \in {"goto", "branch", "convert", "remove"} =>
          e.to \in 0..n /\ e.aim = IF e.to = n THEN n + All ELSE e.to
  BY <1>8, <1>12
<1>16. Item(n, All, e)
  BY <1>7, <1>12, <1>13, <1>14, <1>15 DEF Item
<1> QED BY <1>16 DEF n

LEMMA PriorityIs ==
  ASSUME NEW e
  PROVE  Priority(e) \in {5, 10, 15, 20} /\ (Creates(e) <=> Priority(e) = 5)
<1> DEFINE c == Creates(e)
           r == e.kind = "remove"
           v == e.kind = "convert"
<1>1. Priority(e) = CASE c -> 5 [] r -> 15 [] v -> 20 [] OTHER -> 10
  BY DEF Priority
<1>2. (c => ~r /\ ~v) /\ (r => ~v)
  BY DEF Creates
<1> HIDE DEF c, r, v
<1>3. CASE c /\ ~r /\ ~v
  BY <1>1, <1>3 DEF c
<1>4. CASE ~c /\ r /\ ~v
  BY <1>1, <1>4 DEF c
<1>5. CASE ~c /\ ~r /\ v
  BY <1>1, <1>5 DEF c
<1>6. CASE ~c /\ ~r /\ ~v
  BY <1>1, <1>6 DEF c
<1> QED BY <1>2, <1>3, <1>4, <1>5, <1>6

LEMMA OfPriority ==
  ASSUME NEW S, NEW q \in Seq(S), NEW p \in {5, 10, 15, 20}, NEW places,
         \A i \in places : i \in 1..Len(q) /\ Priority(q[i]) = p, NEW u, u = Kept(q, places)
  PROVE  /\ u \in Seq(S)
         /\ \A i \in 1..Len(u) : Creates(u[i]) <=> p = 5
<1>1. /\ u \in Seq(S) /\ u \in Seq({q[j] : j \in (1..Len(q)) \cap places})
  BY KeptIs
<1>2. ASSUME NEW i \in 1..Len(u)
      PROVE  Creates(u[i]) <=> p = 5
  <2>1. u[i] \in {q[j] : j \in (1..Len(q)) \cap places}
    BY <1>1, ElementIn
  <2>2. PICK j \in places : u[i] = q[j]
    BY <2>1
  <2>3. Priority(u[i]) = p
    BY <2>2
  <2> QED BY <2>3, PriorityIs
<1> QED BY <1>1, <1>2

LEMMA CoalescedIs ==
  ASSUME NEW S, NEW q \in Seq(S), NEW u, u = Coalesced(q)
  PROVE  u \in Seq(S) /\ Len(u) <= Len(q) /\ CreatesFirst(u)
<1> DEFINE At(p) == {i \in DOMAIN q : Survives(q, i) /\ Priority(q[i]) = p}
           A == At(5)
           B == At(10)
           C == At(15)
           D == At(20)
           a == Kept(q, A)
           b == Kept(q, B)
           c == Kept(q, C)
           d == Kept(q, D)
<1>1. u = ((a \o b) \o c) \o d
  BY DEF Coalesced
<1>2. DOMAIN q = 1..Len(q)
  OBVIOUS
<1>3. /\ \A i \in A : i \in 1..Len(q) /\ Priority(q[i]) = 5
      /\ \A i \in B : i \in 1..Len(q) /\ Priority(q[i]) = 10
      /\ \A i \in C : i \in 1..Len(q) /\ Priority(q[i]) = 15
      /\ \A i \in D : i \in 1..Len(q) /\ Priority(q[i]) = 20
  BY <1>2
<1> HIDE DEF A, B, C, D
<1>4. \A i : /\ i \in A => i \notin B /\ i \notin C /\ i \notin D
             /\ i \in B => i \notin C /\ i \notin D
             /\ i \in C => i \notin D
  BY <1>3
<1>5. Len(a) + Len(b) + Len(c) + Len(d) <= Len(q)
  BY <1>4, FourKept
<1>6. 5 \in {5, 10, 15, 20} /\ 10 \in {5, 10, 15, 20} /\ 15 \in {5, 10, 15, 20} /\ 20 \in {5, 10, 15, 20}
      /\ 10 # 5 /\ 15 # 5 /\ 20 # 5
  OBVIOUS
<1>7. a \in Seq(S) /\ \A i \in 1..Len(a) : Creates(a[i])
  BY <1>3, <1>6, OfPriority
<1>8. b \in Seq(S) /\ \A i \in 1..Len(b) : ~Creates(b[i])
  BY <1>3, <1>6, OfPriority
<1>9. c \in Seq(S) /\ \A i \in 1..Len(c) : ~Creates(c[i])
  BY <1>3, <1>6, OfPriority
<1>10. d \in Seq(S) /\ \A i \in 1..Len(d) : ~Creates(d[i])
  BY <1>3, <1>6, OfPriority
<1> HIDE DEF a, b, c, d
<1>11. CreatesFirst(a)
  <2>1. Len(a) \in Nat
    BY <1>7
  <2>2. \A k \in 1..Len(a) : \A j \in 1..k : j \in 1..Len(a)
    BY <2>1
  <2> QED BY <1>7, <2>2 DEF CreatesFirst
<1> DEFINE v == a \o b
           w == v \o c
           x == w \o d
<1>12. v \in Seq(S) /\ Len(v) = Len(a) + Len(b) /\ CreatesFirst(v)
  BY <1>7, <1>8, <1>11, Joined, JoinedFirst
<1> HIDE DEF v
<1>13. w \in Seq(S) /\ Len(w) = Len(v) + Len(c) /\ CreatesFirst(w)
  BY <1>9, <1>12, Joined, JoinedFirst
<1> HIDE DEF w
<1>14. x \in Seq(S) /\ Len(x) = Len(w) + Len(d) /\ CreatesFirst(x)
  BY <1>10, <1>13, Joined, JoinedFirst
<1>15. u = x
  BY <1>1 DEF x, w, v
<1> HIDE DEF x
<1>16. Len(x) <= Len(q)
  BY <1>5, <1>12, <1>13, <1>14
<1> QED BY <1>14, <1>15, <1>16

LEMMA PreRejectedIs ==
  ASSUME NEW S, NEW q \in Seq(S), CreatesFirst(q), NEW u, u = PreRejected(q)
  PROVE  /\ u \in Seq(S) /\ Len(u) <= Len(q) /\ CreatesFirst(u)
         /\ \A k \in 1..Len(u) : u[k] \in S /\ Preconditions(start, u[k])
<1> DEFINE P == {i \in DOMAIN q : Preconditions(start, q[i])}
<1>1. u = Kept(q, P)
  BY DEF PreRejected
<1>2. \A i \in P : Preconditions(start, q[i])
  OBVIOUS
<1> HIDE DEF P
<1>3. /\ u \in Seq(S) /\ Len(u) <= Len(q)
      /\ u \in Seq({q[j] : j \in (1..Len(q)) \cap P})
  BY <1>1, KeptIs
<1>4. CreatesFirst(u)
  BY <1>1, KeptFirst
<1>5. ASSUME NEW k \in 1..Len(u)
      PROVE  u[k] \in S /\ Preconditions(start, u[k])
  <2>1. u[k] \in {q[j] : j \in (1..Len(q)) \cap P} /\ u[k] \in S
    BY <1>3, ElementIn
  <2>2. PICK j \in P : u[k] = q[j]
    BY <2>1
  <2> QED BY <1>2, <2>1, <2>2
<1> QED BY <1>3, <1>4, <1>5

(* The queue a plan becomes.                                                   *)
LEMMA LoweredIs ==
  ASSUME start \in Graphs, Len(plan) \in Nat, plan \in [1..Len(plan) -> Plainly(start)],
         \A i \in DOMAIN plan : ~Unsupported(start, plan[i]),
         NEW u, u = PreRejected(Coalesced(Compiled(start, plan)))
  PROVE  /\ u \in Seq({Compiled(start, plan)[i] : i \in DOMAIN plan})
         /\ Len(u) <= Len(plan) /\ Len(u) \in Nat /\ CreatesFirst(u)
         /\ \A k \in 1..Len(u) : Item(ExitSerial(start), All, u[k])
<1> DEFINE q == Compiled(start, plan)
           S == {q[i] : i \in DOMAIN plan}
           v == Coalesced(q)
<1>1. DOMAIN plan = 1..Len(plan)
  OBVIOUS
<1>2. DOMAIN q = DOMAIN plan /\ q = [i \in DOMAIN q |-> q[i]]
  BY DEF Compiled
<1> HIDE DEF q
<1>3. q \in [1..Len(plan) -> S]
  BY <1>1, <1>2
<1>4. q \in Seq(S) /\ Len(q) = Len(plan)
  <2> HIDE DEF S
  <2> QED BY <1>3, SequenceIs
<1> HIDE DEF S
<1>5. v \in Seq(S) /\ Len(v) <= Len(q) /\ CreatesFirst(v)
  BY <1>4, CoalescedIs
<1>6. u = PreRejected(v)
  BY DEF q
<1> HIDE DEF v
<1>7. /\ u \in Seq(S) /\ Len(u) <= Len(v) /\ CreatesFirst(u)
      /\ \A k \in 1..Len(u) : u[k] \in S /\ Preconditions(start, u[k])
  BY <1>5, <1>6, PreRejectedIs
<1>8. ASSUME NEW k \in 1..Len(u)
      PROVE  Item(ExitSerial(start), All, u[k])
  <2>1. u[k] \in S /\ Preconditions(start, u[k])
    BY <1>7
  <2>2. PICK i \in DOMAIN plan : u[k] = q[i]
    BY <2>1 DEF S
  <2>3. i \in 1..Len(plan) /\ ~Unsupported(start, plan[i])
    BY <1>1, <2>2
  <2>4. u[k] = Compiled(start, plan)[i]
    BY <2>2 DEF q
  <2> QED BY <2>1, <2>3, <2>4, ItemIs
<1>9. Len(u) \in Nat /\ Len(v) \in Nat /\ Len(u) <= Len(plan)
  BY <1>4, <1>5, <1>7
<1> QED BY <1>7, <1>8, <1>9 DEF S, q

-------------------------------------------------------------------------------
(* Taking the items at some places out of a sequence, one by one               *)

(* What is kept of the first items comes first.                                *)
LEMMA KeepsPrefix ==
  ASSUME NEW S, NEW q \in Seq(S), NEW places, NEW u, Keeps(q, places, u),
         NEW i \in Nat, i <= Len(q)
  PROVE  Len(u[i]) <= Len(u[Len(q)]) /\ \A j \in 1..Len(u[i]) : u[Len(q)][j] = u[i][j]
<1>1. Len(q) \in Nat
  OBVIOUS
<1> DEFINE P(d) == Len(u[i]) <= Len(u[i+d]) /\ \A j \in 1..Len(u[i]) : u[i+d][j] = u[i][j]
           Z == {d \in Nat : i + d <= Len(q) => P(d)}
<1>2. \A k \in Nat : k <= Len(q) => u[k] \in Seq(S) /\ Len(u[k]) \in Nat
  <2> SUFFICES ASSUME NEW k \in Nat, k <= Len(q)
               PROVE  u[k] \in Seq(S) /\ Len(u[k]) \in Nat
    OBVIOUS
  <2>1. u[k] \in Seq(S)
    BY KeptElements DEF KeptUpto
  <2> QED BY <2>1
<1>3. 0 \in Z
  <2>1. i + 0 = i
    OBVIOUS
  <2> QED BY <1>2, <2>1
<1>4. ASSUME NEW d \in Nat, d \in Z
      PROVE  d + 1 \in Z
  <2> SUFFICES ASSUME i + (d + 1) <= Len(q)
               PROVE  P(d + 1)
    OBVIOUS
  <2> DEFINE k == i + d
  <2>1. k \in Nat /\ k < Len(q) /\ k <= Len(q) /\ k + 1 = i + (d + 1) /\ k + 1 \in 1..Len(q)
    BY <1>1
  <2>2. P(d)
    BY <1>4, <2>1
  <2>3. Len(u[i]) <= Len(u[k]) /\ \A j \in 1..Len(u[i]) : u[k][j] = u[i][j]
    BY <2>2
  <2> HIDE DEF k
  <2>4. u[k+1] = IF k + 1 \in places THEN Append(u[k], q[k+1]) ELSE u[k]
    BY <2>1 DEF Keeps
  <2>5. u[k] \in Seq(S) /\ q[k+1] \in S /\ Len(u[k]) \in Nat /\ Len(u[i]) \in Nat
    BY <1>1, <1>2, <2>1, ElementIn
  <2> DEFINE v == u[k]
             e == q[k+1]
             a == Append(v, e)
  <2>6. Len(a) = Len(v) + 1 /\ \A j \in 1..Len(v) : a[j] = v[j]
    BY <2>5, Appending
  <2> HIDE DEF a
  <2>7. u[k+1] = a \/ u[k+1] = v
    BY <2>4 DEF a
  <2>8. Len(u[i]) <= Len(u[k+1]) /\ \A j \in 1..Len(u[i]) : u[k+1][j] = u[i][j]
    <3>1. \A j \in 1..Len(u[i]) : j \in 1..Len(v)
      BY <2>3, <2>5
    <3>2. CASE u[k+1] = a
      BY <2>3, <2>5, <2>6, <3>1, <3>2
    <3>3. CASE u[k+1] = v
      BY <2>3, <3>3
    <3> QED BY <2>7, <3>2, <3>3
  <2> QED BY <2>1, <2>8
<1>5. Nat \subseteq Z
  <2> HIDE DEF Z
  <2> QED BY <1>3, <1>4, Induction
<1>6. P(Len(q) - i)
  <2>1. Len(q) - i \in Nat /\ i + (Len(q) - i) <= Len(q)
    BY <1>1
  <2>2. Len(q) - i \in Z
    <3> HIDE DEF Z
    <3> QED BY <1>5, <2>1
  <2> HIDE DEF P
  <2> QED BY <2>1, <2>2
<1>7. i + (Len(q) - i) = Len(q)
  BY <1>1
<1> QED BY <1>6, <1>7

LEMMA AppendedRest ==
  ASSUME NEW S, NEW g \in Seq(S), NEW s \in Seq(S), NEW i \in Nat, i < Len(s)
  PROVE  Append(g, s[i+1]) \o SubSeq(s, i + 2, Len(s)) = g \o SubSeq(s, i + 1, Len(s))
<1> DEFINE a == SubSeq(s, i + 1, Len(s))
           b == SubSeq(s, i + 2, Len(s))
           e == s[i+1]
           h == Append(g, e)
           v == h \o b
           w == g \o a
<1>1. Len(s) \in Nat /\ Len(g) \in Nat /\ i + 1 \in Nat /\ i + 1 <= Len(s) /\ (i + 1) + 1 = i + 2
      /\ i + 1 \in 1..Len(s) /\ i <= Len(s)
  OBVIOUS
<1>2. a \in Seq(S) /\ Len(a) = Len(s) - i /\ \A j \in 1..Len(s)-i : a[j] = s[j+i]
  BY <1>1, Rest
<1>3. /\ b \in Seq(S) /\ Len(b) = Len(s) - (i + 1)
      /\ \A j \in 1..Len(s)-(i+1) : b[j] = s[j+(i+1)]
  <2>1. /\ SubSeq(s, (i + 1) + 1, Len(s)) \in Seq(S)
        /\ Len(SubSeq(s, (i + 1) + 1, Len(s))) = Len(s) - (i + 1)
        /\ \A j \in 1..Len(s)-(i+1) : SubSeq(s, (i + 1) + 1, Len(s))[j] = s[j+(i+1)]
    BY <1>1, Rest
  <2> QED BY <1>1, <2>1
<1> HIDE DEF a, b
<1>4. e \in S
  BY <1>1, ElementIn
<1> HIDE DEF e
<1>5. /\ h \in Seq(S) /\ Len(h) = Len(g) + 1
      /\ \A j \in 1..Len(g) : h[j] = g[j]
      /\ h[Len(g) + 1] = e
  BY <1>4, Appending
<1> HIDE DEF h
<1>6. /\ v \in Seq(S) /\ Len(v) = Len(h) + Len(b)
      /\ \A j \in 1..Len(h) : v[j] = h[j]
      /\ \A j \in 1..Len(h) + Len(b) : j > Len(h) => v[j] = b[j - Len(h)] /\ j - Len(h) \in 1..Len(b)
  BY <1>3, <1>5, Joined
<1>7. /\ w \in Seq(S) /\ Len(w) = Len(g) + Len(a)
      /\ \A j \in 1..Len(g) : w[j] = g[j]
      /\ \A j \in 1..Len(g) + Len(a) : j > Len(g) => w[j] = a[j - Len(g)] /\ j - Len(g) \in 1..Len(a)
  BY <1>2, Joined
<1> HIDE DEF v, w
<1>8. Len(v) = Len(w)
  BY <1>1, <1>2, <1>3, <1>5, <1>6, <1>7
<1>9. ASSUME NEW j \in 1..Len(w)
      PROVE  v[j] = w[j]
  <2>1. CASE j <= Len(g)
    <3>1. j \in 1..Len(g) /\ j \in 1..Len(h)
      BY <1>1, <1>5, <2>1
    <3> QED BY <1>5, <1>6, <1>7, <3>1
  <2>2. CASE j = Len(g) + 1
    <3>1. v[j] = e
      <4>1. j \in 1..Len(h)
        BY <1>1, <1>5, <2>2
      <4> QED BY <1>5, <1>6, <2>2, <4>1
    <3>2. w[j] = e
      <4>1. j \in 1..Len(g) + Len(a) /\ j > Len(g) /\ j - Len(g) = 1 /\ 1 \in 1..Len(s)-i /\ 1 + i = i + 1
        BY <1>1, <1>2, <1>7, <2>2
      <4>2. w[j] = a[1] /\ a[1] = s[i+1]
        BY <1>2, <1>7, <4>1
      <4> QED BY <4>2 DEF e
    <3> QED BY <3>1, <3>2
  <2>3. CASE j > Len(g) + 1
    <3>1. /\ j \in 1..Len(h) + Len(b) /\ j > Len(h) /\ j - Len(h) \in 1..Len(s)-(i+1)
          /\ (j - Len(h)) + (i + 1) = j - Len(g) + i
      BY <1>1, <1>2, <1>3, <1>5, <1>7, <2>3
    <3>2. /\ j \in 1..Len(g) + Len(a) /\ j > Len(g) /\ j - Len(g) \in 1..Len(s)-i
      BY <1>1, <1>2, <1>7, <2>3
    <3>3. v[j] = s[j - Len(g) + i]
      BY <1>3, <1>6, <3>1
    <3>4. w[j] = s[j - Len(g) + i]
      BY <1>2, <1>7, <3>2
    <3> QED BY <3>3, <3>4
  <2> QED BY <1>1, <1>7, <2>1, <2>2, <2>3
<1>10. v = w
  BY <1>6, <1>7, <1>8, <1>9
<1> QED BY <1>1, <1>10 DEF v, w, h, a, b, e

(* From c[0] on, the items of a list are taken out one by one.                 *)
Takes(c, lost) == \A i \in Nat : i < Len(lost) => c[i+1] = RemoveFirst(c[i], lost[i+1])

LEMMA TakenOut ==
  ASSUME NEW S, NEW q \in Seq(S), NEW L,
         \A i, j \in 1..Len(q) : i \in L /\ j \notin L => q[i] # q[j],
         NEW c, c[0] = q, Takes(c, Kept(q, L))
  PROVE  c[Len(Kept(q, L))] = Kept(q, (1..Len(q)) \ L)
<1> DEFINE R == (1..Len(q)) \ L
           n == Len(q)
           rest(i) == SubSeq(q, i + 1, n)
<1>1. n \in Nat
  OBVIOUS
<1>2. PICK u : Keeps(q, L, u) /\ Kept(q, L) = u[n]
  BY <1>1, KeepsIs
<1>3. PICK g : Keeps(q, R, g) /\ Kept(q, R) = g[n]
  BY <1>1, KeepsIs
<1>4. \A i \in 1..n : i \in R <=> i \notin L
  OBVIOUS
<1> HIDE DEF R
<1>5. \A i \in Nat : i < Len(u[n]) => c[i+1] = RemoveFirst(c[i], u[n][i+1])
  BY <1>2 DEF Takes
<1> DEFINE Z == {i \in Nat : i <= n => c[Len(u[i])] = g[i] \o rest(i)}
           P(i) == c[Len(u[i])] = g[i] \o rest(i)
<1>6. 0 \in Z
  <2>1. u[0] = <<>> /\ g[0] = <<>>
    BY <1>2, <1>3 DEF Keeps
  <2>2. Len(<<>>) = 0 /\ rest(0) = q /\ <<>> \o q = q
    <3>1. rest(0) = q
      OBVIOUS
    <3>2. \A z \in Seq(S) : <<>> \o z = z
      OBVIOUS
    <3>3. Len(<<>>) = 0
      OBVIOUS
    <3> QED BY <3>1, <3>2, <3>3
  <2>3. c[Len(u[0])] = g[0] \o rest(0)
    BY <2>1, <2>2
  <2> QED BY <2>3
<1>7. ASSUME NEW i \in Nat, i \in Z
      PROVE  i + 1 \in Z
  <2> SUFFICES ASSUME i + 1 <= n
               PROVE  P(i+1)
    <3>1. i + 1 \in Nat
      OBVIOUS
    <3>2. Z = {j \in Nat : j <= n => P(j)}
      BY DEF P
    <3> HIDE DEF Z, n
    <3> QED BY <3>1, <3>2
  <2>1. i < n /\ i <= n /\ i + 1 \in 1..n /\ (i + 1) + 1 = i + 2
    BY <1>1
  <2>2. c[Len(u[i])] = g[i] \o rest(i)
    BY <1>7, <2>1
  <2>3. /\ u[i+1] = IF i + 1 \in L THEN Append(u[i], q[i+1]) ELSE u[i]
        /\ g[i+1] = IF i + 1 \in R THEN Append(g[i], q[i+1]) ELSE g[i]
    BY <1>2, <1>3, <2>1 DEF Keeps
  <2>4. /\ u[i] \in Seq(S) /\ g[i] \in Seq(S)
        /\ ToSet(g[i]) = {q[j] : j \in (1..i) \cap R}
    <3>1. i <= Len(q)
      BY <2>1
    <3>2. KeptUpto(S, q, L, u, i)
      BY <1>2, <3>1, KeptElements
    <3>3. KeptUpto(S, q, R, g, i)
      BY <1>3, <3>1, KeptElements
    <3> QED BY <3>2, <3>3 DEF KeptUpto
  <2>5. q[i+1] \in S /\ Len(u[i]) \in Nat
    BY <2>1, <2>4, ElementIn
  <2>6. CASE i + 1 \in L
    <3> DEFINE l == Len(u[i])
    <3>1. u[i+1] = Append(u[i], q[i+1]) /\ g[i+1] = g[i]
      BY <1>4, <2>1, <2>3, <2>6
    <3>2. Len(u[i+1]) = l + 1 /\ u[i+1][l+1] = q[i+1]
      <4> DEFINE v == u[i]
                 e == q[i+1]
      <4> HIDE DEF v, e
      <4>1. v \in Seq(S) /\ e \in S
        BY <2>4, <2>5 DEF v, e
      <4>2. Len(Append(v, e)) = Len(v) + 1 /\ Append(v, e)[Len(v) + 1] = e
        BY <4>1, Appending
      <4> QED BY <3>1, <4>2 DEF v, e
    <3>3. l + 1 <= Len(u[n]) /\ u[n][l+1] = q[i+1]
      <4>1. Len(u[i+1]) <= Len(u[n]) /\ \A j \in 1..Len(u[i+1]) : u[n][j] = u[i+1][j]
        BY <1>2, KeepsPrefix
      <4>2. l + 1 \in 1..Len(u[i+1])
        BY <2>5, <3>2
      <4> QED BY <3>2, <4>1, <4>2
    <3> HIDE DEF l
    <3>4. l \in Nat /\ Len(u[n]) \in Nat
      <4>1. n <= Len(q)
        BY <1>1
      <4>2. u[n] \in Seq(S)
        BY <1>1, <1>2, <4>1, KeptElements DEF KeptUpto
      <4> QED BY <2>5, <4>2 DEF l
    <3>5. c[l+1] = RemoveFirst(c[l], q[i+1])
      BY <1>5, <3>3, <3>4
    <3>6. q[i+1] \notin ToSet(g[i])
      <4> SUFFICES ASSUME NEW j \in (1..i) \cap R, q[j] = q[i+1]
                   PROVE  FALSE
        BY <2>4
      <4>1. j \in 1..n /\ j \notin L
        BY <1>1, <1>4, <2>1
      <4> QED BY <2>1, <2>6, <4>1
    <3>7. RemoveFirst(g[i] \o SubSeq(q, i + 1, Len(q)), q[i+1]) = g[i] \o SubSeq(q, i + 2, Len(q))
      BY <2>1, <2>4, <3>6, RemovedBehind
    <3>8. c[l] = g[i] \o SubSeq(q, i + 1, Len(q)) /\ rest(i+1) = SubSeq(q, i + 2, Len(q))
      BY <2>1, <2>2 DEF l
    <3>9. c[l+1] = g[i] \o rest(i+1)
      BY <3>5, <3>7, <3>8
    <3> QED BY <3>1, <3>2, <3>9
  <2>7. CASE i + 1 \notin L
    <3>1. u[i+1] = u[i] /\ g[i+1] = Append(g[i], q[i+1])
      BY <1>4, <2>1, <2>3, <2>7
    <3>2. Append(g[i], q[i+1]) \o SubSeq(q, i + 2, Len(q)) = g[i] \o SubSeq(q, i + 1, Len(q))
      BY <2>1, <2>4, AppendedRest
    <3>3. rest(i) = SubSeq(q, i + 1, Len(q)) /\ rest(i+1) = SubSeq(q, i + 2, Len(q))
      BY <2>1
    <3> QED BY <2>2, <3>1, <3>2, <3>3
  <2> QED BY <2>6, <2>7
<1>8. Nat \subseteq Z
  <2> HIDE DEF Z
  <2> QED BY <1>6, <1>7, Induction
<1>9. c[Len(u[n])] = g[n] \o rest(n)
  <2>1. n \in Z
    <3> HIDE DEF Z
    <3> QED BY <1>1, <1>8
  <2> QED BY <1>1, <2>1
<1>10. g[n] \o rest(n) = g[n]
  <2>1. n <= Len(q)
    BY <1>1
  <2>2. g[n] \in Seq(S)
    BY <1>1, <1>3, <2>1, KeptElements DEF KeptUpto
  <2>3. rest(n) = <<>>
    BY <1>1
  <2> HIDE DEF rest
  <2>4. \A z \in Seq(S) : z \o <<>> = z
    OBVIOUS
  <2> QED BY <2>2, <2>3, <2>4
<1> QED BY <1>2, <1>3, <1>9, <1>10 DEF R

(* Items are appended one by one.                                              *)
LEMMA AppendedAll ==
  ASSUME NEW S, NEW v \in Seq(S), NEW b, b[0] \in Seq(S),
         \A i \in Nat : i < Len(v) => b[i+1] = Append(b[i], v[i+1])
  PROVE  b[Len(v)] \in Seq(S) /\ ToSet(b[Len(v)]) = ToSet(b[0]) \cup ToSet(v)
<1>1. Len(v) \in Nat /\ ToSet(v) = {v[i] : i \in 1..Len(v)}
  BY Elements
<1> DEFINE Z == {i \in Nat : i <= Len(v) =>
                   b[i] \in Seq(S) /\ ToSet(b[i]) = ToSet(b[0]) \cup {v[j] : j \in 1..i}}
<1>2. 0 \in Z
  <2>1. (1..0) = {}
    OBVIOUS
  <2> QED BY <2>1
<1>3. ASSUME NEW i \in Nat, i \in Z
      PROVE  i + 1 \in Z
  <2> SUFFICES ASSUME i + 1 <= Len(v)
               PROVE  b[i+1] \in Seq(S) /\ ToSet(b[i+1]) = ToSet(b[0]) \cup {v[j] : j \in 1..i+1}
    OBVIOUS
  <2>1. i < Len(v) /\ i <= Len(v) /\ i + 1 \in 1..Len(v) /\ (1..i+1) = (1..i) \cup {i + 1}
    BY <1>1
  <2>2. b[i] \in Seq(S) /\ ToSet(b[i]) = ToSet(b[0]) \cup {v[j] : j \in 1..i}
    BY <1>3, <2>1
  <2>3. v[i+1] \in S /\ b[i+1] = Append(b[i], v[i+1])
    BY <2>1, ElementIn
  <2> DEFINE x == b[i]
             e == v[i+1]
  <2> HIDE DEF x, e
  <2>4. x \in Seq(S) /\ e \in S
    BY <2>2, <2>3 DEF x, e
  <2>5. Append(x, e) \in Seq(S) /\ ToSet(Append(x, e)) = ToSet(x) \cup {e}
    BY <2>4, Appending
  <2>6. {v[j] : j \in 1..i+1} = {v[j] : j \in 1..i} \cup {e}
    BY <2>1 DEF e
  <2>7. b[i+1] = Append(x, e)
    BY <2>3 DEF x, e
  <2>8. ToSet(x) = ToSet(b[0]) \cup {v[j] : j \in 1..i}
    BY <2>2 DEF x
  <2> QED BY <2>5, <2>6, <2>7, <2>8
<1>4. Nat \subseteq Z
  <2> HIDE DEF Z
  <2> QED BY <1>2, <1>3, Induction
<1>5. Len(v) \in Z
  <2> HIDE DEF Z
  <2> QED BY <1>1, <1>4
<1> QED BY <1>1, <1>5

-------------------------------------------------------------------------------
(* The graph restored from the snapshot                                        *)

Adding(m, s, v, back) ==
  back = [i \in 0..Len(v) |-> IF i = 0 THEN m ELSE AddEdge(back[i-1], s, v[i])]

LEMMA AddingExists ==
  ASSUME NEW m, NEW s, NEW v, Len(v) \in Nat
  PROVE  \E back : Adding(m, s, v, back)
<1> DEFINE Upto(k, g) == g = [i \in 0..k |-> IF i = 0 THEN m ELSE AddEdge(g[i-1], s, v[i])]
           S == {k \in Nat : \E g : Upto(k, g)}
<1>1. 0 \in S
  <2>1. Upto(0, [i \in 0..0 |-> m])
    OBVIOUS
  <2> QED BY <2>1
<1>2. ASSUME NEW k \in Nat, k \in S
      PROVE  k + 1 \in S
  <2>1. PICK g : Upto(k, g)
    BY <1>2
  <2> DEFINE h == [i \in 0..k+1 |-> IF i = 0 THEN m ELSE AddEdge(g[i-1], s, v[i])]
  <2>2. \A i \in 0..k : g[i] = h[i]
    BY <2>1
  <2>3. \A i \in 0..k+1 : i # 0 => i - 1 \in 0..k
    OBVIOUS
  <2>4. \A i \in 0..k+1 : h[i] = IF i = 0 THEN m ELSE AddEdge(h[i-1], s, v[i])
    BY <2>2, <2>3
  <2>5. h = [i \in 0..k+1 |-> h[i]]
    OBVIOUS
  <2> HIDE DEF h
  <2>6. Upto(k + 1, h)
    BY <2>4, <2>5
  <2> QED BY <2>6
<1>3. Nat \subseteq S
  <2> HIDE DEF S
  <2> QED BY <1>1, <1>2, Induction
<1> QED BY <1>3 DEF Adding

LEMMA AddingAre ==
  ASSUME NEW m, NEW s, NEW v, Len(v) \in Nat, NEW back, Adding(m, s, v, back)
  PROVE  /\ back[0] = m
         /\ \A i \in Nat : i < Len(v) => back[i+1] = AddEdge(back[i], s, v[i+1])
<1>1. 0 \in 0..Len(v) /\ \A i \in Nat : i < Len(v) => i + 1 \in 0..Len(v) /\ i + 1 # 0 /\ (i + 1) - 1 = i
  OBVIOUS
<1>2. back[0] = m
  BY <1>1 DEF Adding
<1>3. ASSUME NEW i \in Nat, i < Len(v)
      PROVE  back[i+1] = AddEdge(back[i], s, v[i+1])
  BY <1>1, <1>3 DEF Adding
<1> QED BY <1>2, <1>3

(* The block s loses edges.                                                    *)
LEMMA NowCut ==
  ASSUME NEW q, NEW k, NEW m, NEW s, NEW op, NEW type, NEW refs, NEW succ,
         Now(q, k, m, s, op, type, refs, succ),
         NEW lost, Len(lost) \in Nat, NEW cut, Unlinkings(m, s, lost, cut)
  PROVE  \E c : /\ c[0] = succ /\ Takes(c, lost)
                /\ Now(q, k, cut[Len(lost)], s, op, type, refs, c[Len(lost)])
<1>1. /\ cut[0] = m
      /\ \A i \in Nat : i < Len(lost) => cut[i+1] = Unlink(cut[i], s, lost[i+1])
  BY UnlinkingsAre
<1> DEFINE c == [i \in Nat |-> cut[i][s].succ]
           Z == {i \in Nat : i <= Len(lost) => Now(q, k, cut[i], s, op, type, refs, c[i])}
<1>2. c[0] = succ
  <2>1. m[s].succ = succ
    BY DEF Now
  <2> QED BY <1>1, <2>1
<1>3. \A i \in Nat : c[i] = cut[i][s].succ
  OBVIOUS
<1> HIDE DEF c
<1>4. 0 \in Z
  BY <1>1, <1>2
<1>5. ASSUME NEW i \in Nat, i < Len(lost), Now(q, k, cut[i], s, op, type, refs, c[i])
      PROVE  /\ Now(q, k, cut[i+1], s, op, type, refs, c[i+1])
             /\ c[i+1] = RemoveFirst(c[i], lost[i+1])
  <2>1. cut[i+1] = Unlink(cut[i], s, lost[i+1])
    BY <1>1, <1>5
  <2>2. Now(q, k, cut[i+1], s, op, type, refs, RemoveFirst(c[i], lost[i+1]))
    BY <1>5, <2>1, NowUnlink
  <2>3. cut[i+1][s].succ = RemoveFirst(c[i], lost[i+1])
    BY <2>2 DEF Now
  <2>4. c[i+1] = RemoveFirst(c[i], lost[i+1])
    BY <1>3, <2>3
  <2> QED BY <2>2, <2>4
<1>6. ASSUME NEW i \in Nat, i \in Z
      PROVE  i + 1 \in Z
  <2> SUFFICES ASSUME i + 1 <= Len(lost)
               PROVE  Now(q, k, cut[i+1], s, op, type, refs, c[i+1])
    OBVIOUS
  <2>1. i < Len(lost) /\ i <= Len(lost)
    OBVIOUS
  <2> QED BY <1>5, <1>6, <2>1
<1>7. Nat \subseteq Z
  <2> HIDE DEF Z
  <2> QED BY <1>4, <1>6, Induction
<1>8. \A i \in Nat : i <= Len(lost) => Now(q, k, cut[i], s, op, type, refs, c[i])
  BY <1>7
<1>9. Takes(c, lost)
  <2> SUFFICES ASSUME NEW i \in Nat, i < Len(lost)
               PROVE  c[i+1] = RemoveFirst(c[i], lost[i+1])
    BY DEF Takes
  <2> QED BY <1>5, <1>8
<1>10. Now(q, k, cut[Len(lost)], s, op, type, refs, c[Len(lost)])
  BY <1>8
<1> QED BY <1>2, <1>9, <1>10

(* The block s gets edges.                                                     *)
LEMMA NowBack ==
  ASSUME NEW q, NEW k, NEW m, NEW s, NEW op, NEW type, NEW refs, NEW succ,
         Now(q, k, m, s, op, type, refs, succ),
         NEW v \in Sequences, NEW back, Adding(m, s, v, back)
  PROVE  \E succ2 : /\ Now(q, k, back[Len(v)], s, op, type, refs, succ2)
                    /\ ToSet(succ2) = ToSet(succ) \cup ToSet(v)
<1> DEFINE S == 0..MaxBlocks-1
<1>1. v \in Seq(S) /\ Len(v) \in Nat
  BY DEF Sequences
<1>2. /\ back[0] = m
      /\ \A i \in Nat : i < Len(v) => back[i+1] = AddEdge(back[i], s, v[i+1])
  BY <1>1, AddingAre
<1> DEFINE b == [i \in Nat |-> back[i][s].succ]
           Z == {i \in Nat : i <= Len(v) => Now(q, k, back[i], s, op, type, refs, b[i])}
<1>3. b[0] = succ /\ b[0] \in Seq(S)
  <2>1. m[s].succ = succ
    BY DEF Now
  <2>2. succ \in Seq(S)
    BY NowTyped DEF Sequences
  <2> QED BY <1>2, <2>1, <2>2
<1>4. \A i \in Nat : b[i] = back[i][s].succ
  OBVIOUS
<1> HIDE DEF b
<1>5. 0 \in Z
  BY <1>2, <1>3
<1>6. ASSUME NEW i \in Nat, i < Len(v), Now(q, k, back[i], s, op, type, refs, b[i])
      PROVE  /\ Now(q, k, back[i+1], s, op, type, refs, b[i+1])
             /\ b[i+1] = Append(b[i], v[i+1])
  <2>1. back[i+1] = AddEdge(back[i], s, v[i+1])
    BY <1>2, <1>6
  <2>2. v[i+1] \in 0..MaxBlocks-1
    <3>1. i + 1 \in 1..Len(v)
      BY <1>1, <1>6
    <3> QED BY <1>1, <3>1, ElementIn
  <2>3. Now(q, k, back[i+1], s, op, type, refs, Append(b[i], v[i+1]))
    BY <1>6, <2>1, <2>2, NowAddEdge
  <2>4. back[i+1][s].succ = Append(b[i], v[i+1])
    BY <2>3 DEF Now
  <2>5. b[i+1] = Append(b[i], v[i+1])
    BY <1>4, <2>4
  <2> QED BY <2>3, <2>5
<1>7. ASSUME NEW i \in Nat, i \in Z
      PROVE  i + 1 \in Z
  <2> SUFFICES ASSUME i + 1 <= Len(v)
               PROVE  Now(q, k, back[i+1], s, op, type, refs, b[i+1])
    OBVIOUS
  <2>1. i < Len(v) /\ i <= Len(v)
    BY <1>1
  <2> QED BY <1>6, <1>7, <2>1
<1>8. Nat \subseteq Z
  <2> HIDE DEF Z
  <2> QED BY <1>5, <1>7, Induction
<1>9. \A i \in Nat : i <= Len(v) => Now(q, k, back[i], s, op, type, refs, b[i])
  BY <1>8
<1>10. \A i \in Nat : i < Len(v) => b[i+1] = Append(b[i], v[i+1])
  <2> SUFFICES ASSUME NEW i \in Nat, i < Len(v)
               PROVE  b[i+1] = Append(b[i], v[i+1])
    OBVIOUS
  <2> QED BY <1>1, <1>6, <1>9
<1>11. ToSet(b[Len(v)]) = ToSet(b[0]) \cup ToSet(v)
  <2> HIDE DEF S
  <2> QED BY <1>1, <1>3, <1>10, AppendedAll
<1>12. Now(q, k, back[Len(v)], s, op, type, refs, b[Len(v)])
  BY <1>1, <1>9
<1> QED BY <1>3, <1>11, <1>12

(* One block is given its type and edges back.                                 *)
LEMMA RestoredBlockIs ==
  ASSUME start \in Graphs, NEW q, NEW m, Array(q, m), NEW n, n = ExitSerial(start),
         NEW s \in 0..n, s \in 0..q-1
  PROVE  \E succ : /\ Now(q, m, RestoredBlock(m, s), s, m[s].op, start[s].type, m[s].refs, succ)
                   /\ ToSet(m[s].succ) \subseteq 0..q-1 => ToSet(succ) = ToSet(start[s].succ)
<1> DEFINE now == m[s].succ
           goal == start[s].succ
           L == {i \in DOMAIN now : now[i] \notin ToSet(goal) /\ ~Missing(m, now[i])}
           N == {i \in DOMAIN goal : goal[i] \notin ToSet(now)}
           lost == Kept(now, L)
           new == Kept(goal, N)
           m0 == [m EXCEPT ![s].type = start[s].type]
           back == RestoredBlock(m, s)
           type == start[s].type
           S == 0..MaxBlocks-1
<1>1. now \in Seq(S) /\ now \in Sequences /\ Len(now) \in Nat /\ DOMAIN now = 1..Len(now)
      /\ ToSet(now) = {now[i] : i \in 1..Len(now)}
  <2>1. now \in Seq(S) /\ now \in Sequences
    BY BlockIs DEF Sequences
  <2>2. \A z \in Seq(S) : Len(z) \in Nat /\ DOMAIN z = 1..Len(z)
    OBVIOUS
  <2> HIDE DEF now, S
  <2> QED BY <2>1, <2>2, Elements
<1>2. goal \in Seq(S) /\ Len(goal) \in Nat /\ DOMAIN goal = 1..Len(goal) /\ type \in Types
      /\ ToSet(goal) = {goal[i] : i \in 1..Len(goal)}
  <2>1. Array(n + 1, start) /\ s \in 0..(n+1)-1
    BY GraphIs
  <2>2. goal \in Seq(S) /\ type \in Types
    BY <2>1, BlockIs DEF Sequences
  <2>3. \A z \in Seq(S) : Len(z) \in Nat /\ DOMAIN z = 1..Len(z)
    OBVIOUS
  <2> HIDE DEF goal, S, type
  <2> QED BY <2>2, <2>3, Elements
<1>3. Now(q, m, m0, s, m[s].op, type, m[s].refs, now)
  <2>1. Now(q, m, m, s, m[s].op, m[s].type, m[s].refs, m[s].succ)
    BY NowBegins
  <2> QED BY <1>2, <2>1, NowType
<1>4. lost \in Seq(S) /\ Len(lost) \in Nat
  <2> HIDE DEF L, now, S
  <2>1. lost \in Seq(S)
    BY <1>1, KeptIs
  <2> HIDE DEF lost
  <2> QED BY <2>1
<1>5. /\ new \in Seq(S) /\ new \in Sequences /\ Len(new) \in Nat
      /\ ToSet(new) = {goal[j] : j \in (1..Len(goal)) \cap N}
  <2>1. new \in Seq(S) /\ ToSet(new) = {goal[j] : j \in (1..Len(goal)) \cap N}
    <3> HIDE DEF N, goal, S
    <3> QED BY <1>2, KeptIs
  <2> HIDE DEF new
  <2> QED BY <2>1 DEF Sequences
<1>6. PICK cut : Unlinkings(m0, s, lost, cut) /\ \E add : Adding(cut[Len(lost)], s, new, add)
                                                       /\ back = add[Len(new)]
  <2> DEFINE cut == CHOOSE x : Unlinkings(m0, s, lost, x)
             add == CHOOSE x : Adding(cut[Len(lost)], s, new, x)
  <2>1. back = add[Len(new)]
    BY DEF RestoredBlock, Unlinkings, Adding
  <2>2. Unlinkings(m0, s, lost, cut)
    <3> HIDE DEF m0, lost
    <3> QED BY <1>4, UnlinkingsExist
  <2>3. Adding(cut[Len(lost)], s, new, add)
    <3> HIDE DEF cut, lost, new
    <3> QED BY <1>5, AddingExists
  <2> HIDE DEF cut, add, back, m0, lost, new
  <2> QED BY <2>1, <2>2, <2>3
<1>7. PICK add : Adding(cut[Len(lost)], s, new, add) /\ back = add[Len(new)]
  BY <1>6
<1> HIDE DEF m0, lost, new, back, now, goal, L, N, S, type
<1>8. PICK c : /\ c[0] = now /\ Takes(c, lost)
               /\ Now(q, m, cut[Len(lost)], s, m[s].op, type, m[s].refs, c[Len(lost)])
  BY <1>3, <1>4, <1>6, NowCut
<1>9. PICK succ : /\ Now(q, m, back, s, m[s].op, type, m[s].refs, succ)
                  /\ ToSet(succ) = ToSet(c[Len(lost)]) \cup ToSet(new)
  <2> DEFINE x == c[Len(lost)]
             y == cut[Len(lost)]
             op == m[s].op
             refs == m[s].refs
  <2>1. Now(q, m, y, s, op, type, refs, x) /\ Adding(y, s, new, add) /\ new \in Sequences
    BY <1>5, <1>7, <1>8
  <2> HIDE DEF x, y, op, refs
  <2>2. \E succ2 : Now(q, m, add[Len(new)], s, op, type, refs, succ2)
                   /\ ToSet(succ2) = ToSet(x) \cup ToSet(new)
    BY <2>1, NowBack
  <2> QED BY <1>7, <2>2 DEF x, op, refs
<1>10. ASSUME ToSet(now) \subseteq 0..q-1
       PROVE  ToSet(succ) = ToSet(goal)
  <2>1. \A i \in 1..Len(now) : now[i] \in 0..q-1 /\ ~Missing(m, now[i])
    BY <1>1, <1>10, ArrayIs
  <2>2. \A i : i \in L <=> i \in 1..Len(now) /\ now[i] \notin ToSet(goal)
    BY <1>1, <2>1 DEF L
  <2>3. \A i, j \in 1..Len(now) : i \in L /\ j \notin L => now[i] # now[j]
    BY <2>2
  <2>4. c[Len(lost)] = Kept(now, (1..Len(now)) \ L)
    BY <1>1, <1>8, <2>3, TakenOut DEF lost
  <2> DEFINE R == (1..Len(now)) \ L
  <2>5. \A i : i \in R <=> i \in 1..Len(now) /\ now[i] \in ToSet(goal)
    BY <2>2
  <2>6. c[Len(lost)] = Kept(now, R)
    BY <2>4
  <2> HIDE DEF R
  <2>7. ToSet(c[Len(lost)]) = {now[j] : j \in (1..Len(now)) \cap R}
    BY <1>1, <2>6, KeptIs
  <2>8. ToSet(c[Len(lost)]) = ToSet(now) \cap ToSet(goal)
    BY <1>1, <2>5, <2>7
  <2>9. \A i : i \in N <=> i \in 1..Len(goal) /\ goal[i] \notin ToSet(now)
    BY <1>2 DEF N
  <2>10. ToSet(new) = ToSet(goal) \ ToSet(now)
    BY <1>2, <1>5, <2>9
  <2> QED BY <1>9, <2>8, <2>10
<1> QED BY <1>9, <1>10 DEF back, now, goal, type

Dangling(m, s) == \E t \in ToSet(m[s].succ) : Missing(m, t)

Restoring(m, upto) ==
  upto = [i \in 0..Qty(start) |->
            IF i = 0 THEN [mba |-> m, stopped |-> FALSE]
            ELSE IF upto[i-1].stopped THEN upto[i-1]
            ELSE [mba |-> RestoredBlock(upto[i-1].mba, i - 1),
                  stopped |-> Dangling(upto[i-1].mba, i - 1)]]

LEMMA RestoringExists ==
  ASSUME NEW m, Qty(start) \in Nat
  PROVE  \E upto : Restoring(m, upto)
<1> DEFINE Step(g, i) ==
             IF i = 0 THEN [mba |-> m, stopped |-> FALSE]
             ELSE IF g[i-1].stopped THEN g[i-1]
             ELSE [mba |-> RestoredBlock(g[i-1].mba, i - 1),
                   stopped |-> Dangling(g[i-1].mba, i - 1)]
           Upto(k, g) == g = [i \in 0..k |-> Step(g, i)]
           S == {k \in Nat : \E g : Upto(k, g)}
<1>1. 0 \in S
  <2>1. Upto(0, [i \in 0..0 |-> [mba |-> m, stopped |-> FALSE]])
    OBVIOUS
  <2> QED BY <2>1
<1>2. ASSUME NEW k \in Nat, k \in S
      PROVE  k + 1 \in S
  <2>1. PICK g : Upto(k, g)
    BY <1>2
  <2> DEFINE h == [i \in 0..k+1 |-> Step(g, i)]
  <2>2. \A i \in 0..k : g[i] = h[i]
    <3> HIDE DEF Step
    <3> QED BY <2>1
  <2>3. \A i \in 0..k+1 : i # 0 => i - 1 \in 0..k
    OBVIOUS
  <2>4. \A i \in 0..k+1 : h[i] = Step(g, i)
    <3> HIDE DEF Step
    <3> QED OBVIOUS
  <2>5. \A i \in 0..k+1 : Step(h, i) = Step(g, i)
    <3> SUFFICES ASSUME NEW i \in 0..k+1
                 PROVE  Step(h, i) = Step(g, i)
      OBVIOUS
    <3>1. CASE i = 0
      BY <3>1
    <3>2. CASE i # 0
      <4>1. h[i-1] = g[i-1]
        <5> HIDE DEF h
        <5> QED BY <2>2, <2>3, <3>2
      <4> HIDE DEF h
      <4> QED BY <4>1, Zenon
    <3> QED BY <3>1, <3>2
  <2>6. h = [i \in 0..k+1 |-> h[i]]
    OBVIOUS
  <2> HIDE DEF h, Step
  <2>7. Upto(k + 1, h)
    BY <2>4, <2>5, <2>6
  <2> QED BY <2>7
<1>3. Nat \subseteq S
  <2> HIDE DEF S
  <2> QED BY <1>1, <1>2, Induction
<1> QED BY <1>3 DEF Restoring

(* The snapshot written back, unless the writing stops.                        *)
RestoredTo(n, q, m, i, r) ==
  /\ Placed(n, q, r.mba)
  /\ ~r.stopped => \A x \in 0..n : x < i => ToSet(r.mba[x].succ) = ToSet(start[x].succ)

LEMMA RestoredStep ==
  ASSUME start \in Graphs, NEW n, n = ExitSerial(start), NEW q, NEW m, NEW i \in 0..n,
         NEW r, NEW r2, RestoredTo(n, q, m, i, r), ~r.stopped,
         r2 = [mba |-> RestoredBlock(r.mba, i), stopped |-> Dangling(r.mba, i)]
  PROVE  RestoredTo(n, q, m, i + 1, r2)
<1> DEFINE k == r.mba
           k2 == RestoredBlock(k, i)
<1>1. /\ Placed(n, q, k) /\ \A x \in 0..n : x < i => ToSet(k[x].succ) = ToSet(start[x].succ)
  BY DEF RestoredTo
<1>2. /\ n \in Nat /\ q \in Nat /\ n <= q - 1 /\ Array(q, k)
      /\ \A t : Missing(k, t) <=> t \notin 0..q-1
  BY <1>1, PlacedIs
<1>3. r2.mba = k2 /\ r2.stopped = Dangling(k, i)
  OBVIOUS
<1>4. i \in 0..q-1
  BY <1>2
<1> HIDE DEF k, k2
<1>5. PICK succ : /\ Now(q, k, k2, i, k[i].op, start[i].type, k[i].refs, succ)
                  /\ ToSet(k[i].succ) \subseteq 0..q-1 => ToSet(succ) = ToSet(start[i].succ)
  BY <1>2, <1>4, RestoredBlockIs DEF k2
<1>6. Placed(n, q, k2)
  BY <1>1, <1>5, EditPlaced
<1>7. ASSUME ~Dangling(k, i), NEW x \in 0..n, x < i + 1
      PROVE  ToSet(k2[x].succ) = ToSet(start[x].succ)
  <2>1. ToSet(k[i].succ) \subseteq 0..q-1
    BY <1>2, <1>7 DEF Dangling
  <2>2. k2[i].succ = succ /\ \A y \in 0..q-1 : y # i => k2[y].succ = k[y].succ
    BY <1>5, NowIs
  <2>3. CASE x = i
    BY <1>5, <2>1, <2>2, <2>3
  <2>4. CASE x # i
    <3>1. x < i /\ x \in 0..q-1
      BY <1>2, <1>7, <2>4
    <3> QED BY <1>1, <2>2, <2>4, <3>1
  <2> QED BY <2>3, <2>4
<1> QED BY <1>3, <1>6, <1>7 DEF RestoredTo

LEMMA RestoredIs ==
  ASSUME start \in Graphs, NEW n, n = ExitSerial(start), NEW q, NEW m, Placed(n, q, m),
         NEW r, r = RestoredSnapshot(m)
  PROVE  /\ Placed(n, q, r.mba)
         /\ ~r.stopped => \A x \in 0..n : ToSet(r.mba[x].succ) = ToSet(start[x].succ)
<1>1. n \in Nat /\ Qty(start) = n + 1
  <2>1. n \in Nat /\ Array(n + 1, start)
    BY GraphIs
  <2> QED BY <2>1, ArrayIs
<1>2. PICK upto : Restoring(m, upto) /\ r = upto[n+1]
  <2>1. RestoredSnapshot(m) = (CHOOSE upto : Restoring(m, upto))[Qty(start)]
    BY DEF RestoredSnapshot, Restoring, Dangling
  <2>2. \E upto : Restoring(m, upto)
    BY <1>1, RestoringExists
  <2> QED BY <1>1, <2>1, <2>2
<1>3. /\ 0 \in 0..Qty(start)
      /\ \A i \in 0..n : i + 1 \in 0..Qty(start) /\ i + 1 # 0 /\ (i + 1) - 1 = i
  BY <1>1
<1>4. upto[0] = [mba |-> m, stopped |-> FALSE]
  BY <1>2, <1>3 DEF Restoring
<1>5. ASSUME NEW i \in 0..n
      PROVE  upto[i+1] = IF upto[i].stopped THEN upto[i]
                         ELSE [mba |-> RestoredBlock(upto[i].mba, i),
                               stopped |-> Dangling(upto[i].mba, i)]
  BY <1>2, <1>3 DEF Restoring
<1> DEFINE Z == {i \in Nat : i <= n + 1 => RestoredTo(n, q, m, i, upto[i])}
<1>6. 0 \in Z
  <2>1. upto[0].mba = m
    BY <1>4
  <2>2. \A x \in 0..n : ~(x < 0)
    BY <1>1
  <2> QED BY <2>1, <2>2 DEF RestoredTo
<1>7. ASSUME NEW i \in Nat, i \in Z
      PROVE  i + 1 \in Z
  <2> SUFFICES ASSUME i + 1 <= n + 1
               PROVE  RestoredTo(n, q, m, i + 1, upto[i+1])
    OBVIOUS
  <2>1. i \in 0..n /\ RestoredTo(n, q, m, i, upto[i])
    BY <1>1, <1>7
  <2>2. CASE upto[i].stopped
    <3>1. upto[i+1] = upto[i]
      BY <1>5, <2>1, <2>2
    <3> QED BY <2>1, <2>2, <3>1 DEF RestoredTo
  <2>3. CASE ~upto[i].stopped
    <3>1. upto[i+1] = [mba |-> RestoredBlock(upto[i].mba, i),
                       stopped |-> Dangling(upto[i].mba, i)]
      BY <1>5, <2>1, <2>3
    <3> QED BY <2>1, <2>3, <3>1, RestoredStep
  <2> QED BY <2>2, <2>3
<1>8. Nat \subseteq Z
  <2> HIDE DEF Z
  <2> QED BY <1>6, <1>7, Induction
<1>9. RestoredTo(n, q, m, n + 1, r)
  <2>1. n + 1 \in Z
    <3> HIDE DEF Z
    <3> QED BY <1>1, <1>8
  <2> QED BY <1>1, <1>2, <2>1
<1>10. \A x \in 0..n : x < n + 1
  BY <1>1
<1> QED BY <1>9, <1>10 DEF RestoredTo

-------------------------------------------------------------------------------
(* The cleaning of simple gotos keeps every block in its place                 *)

LEMMA Change2WayPlaced ==
  ASSUME NEW n, NEW q, NEW m, Placed(n, q, m), NEW s \in 0..q-1, NEW t \in 0..MaxBlocks-1
  PROVE  Placed(n, q, Change2Way(m, s, t))
<1> DEFINE old == m[s].refs[1]
           a == [m EXCEPT ![s].refs = <<t>>]
           b == Unlink(a, s, old)
           c == RemoveFirst(m[s].succ, old)
<1>1. Array(q, m)
  BY PlacedIs
<1>2. Now(q, m, a, s, m[s].op, m[s].type, <<t>>, m[s].succ)
  <2>1. <<t>> \in Sequences
    BY DEF Sequences
  <2> QED BY <1>1, <2>1, NowBegins, NowRefs
<1> HIDE DEF a, old
<1>3. Now(q, m, b, s, m[s].op, m[s].type, <<t>>, c)
  BY <1>2, NowUnlink
<1> HIDE DEF b, c
<1>4. Now(q, m, Link(b, s, t), s, m[s].op, m[s].type, <<t>>, Append(c, t))
  BY <1>3, NowLink
<1>5. Placed(n, q, Link(b, s, t))
  BY <1>4, EditPlaced
<1> QED BY <1>5 DEF Change2Way, a, b, old

LEMMA MistakePlaced ==
  ASSUME NEW n, NEW q, NEW m, Placed(n, q, m), NEW s \in 0..q-1, NEW t \in 0..MaxBlocks-1,
         NEW guess
  PROVE  Placed(n, q, MistakeSwitch(m, s, guess, t))
<1> DEFINE b == Unlink(m, s, guess)
           c == RemoveFirst(m[s].succ, guess)
<1>1. Now(q, m, m, s, m[s].op, m[s].type, m[s].refs, m[s].succ)
  BY PlacedIs, NowBegins
<1>2. Now(q, m, b, s, m[s].op, m[s].type, m[s].refs, c)
  BY <1>1, NowUnlink
<1> HIDE DEF b, c
<1>3. Now(q, m, Link(b, s, t), s, m[s].op, m[s].type, m[s].refs, Append(c, t))
  BY <1>2, NowLink
<1>4. Placed(n, q, Link(b, s, t))
  BY <1>3, EditPlaced
<1> QED BY <1>4 DEF MistakeSwitch, b

LEMMA UpdatePlaced ==
  ASSUME NEW n, NEW q, NEW m, Placed(n, q, m), NEW s, NEW old, NEW t \in 0..MaxBlocks-1,
         NEW guess
  PROVE  Placed(n, q, UpdateSuccessor(m, s, old, t, guess).mba)
<1> DEFINE r == UpdateSuccessor(m, s, old, t, guess)
<1>1. \A k : Verified(m, s, k).mba = k /\ Begun(m).mba = m
  BY DEF Verified, Begun
<1>2. CASE Missing(m, s)
  BY <1>2 DEF UpdateSuccessor
<1>3. CASE ~Missing(m, s)
  <2>1. s \in 0..q-1 /\ Array(q, m)
    BY <1>3, PlacedIs
  <2>2. CASE CanChange1Way(m, s)
    <3>1. Len(m[s].succ) = 1
      BY <2>2 DEF CanChange1Way, Nsucc
    <3>2. Placed(n, q, Change1Way(m, s, t))
      BY <2>1, <3>1, Change1WayIs, EditPlaced
    <3>3. ~CanChange2Way(m, s)
      BY <3>1 DEF CanChange2Way, Nsucc
    <3>4. r = Verified(m, s, Change1Way(m, s, t))
      BY <1>3, <2>2, <3>3 DEF UpdateSuccessor
    <3> QED BY <1>1, <3>2, <3>4
  <2>3. CASE ~CanChange1Way(m, s) /\ CanChange2Way(m, s) /\ old # s + 1 /\ JumpsTo(m, s, "jcond")
    <3>1. r = Verified(m, s, Change2Way(m, s, t))
      BY <1>3, <2>3 DEF UpdateSuccessor
    <3> QED BY <1>1, <2>1, <3>1, Change2WayPlaced
  <2>4. CASE ~CanChange1Way(m, s) /\ CanChange2Way(m, s) /\ old # s + 1 /\ ~JumpsTo(m, s, "jcond")
    <3>1. r = Verified(m, s, MistakeSwitch(m, s, guess, t))
      BY <1>3, <2>4 DEF UpdateSuccessor
    <3> QED BY <1>1, <2>1, <3>1, MistakePlaced
  <2>5. CASE ~CanChange1Way(m, s) /\ ~(CanChange2Way(m, s) /\ old # s + 1)
    <3>1. r = Begun(m)
      BY <1>3, <2>5 DEF UpdateSuccessor
    <3> QED BY <1>1, <3>1
  <2> QED BY <2>2, <2>3, <2>4, <2>5
<1> QED BY <1>2, <1>3

(* The fathers of one block, one after the other.                              *)
SentNext(run, f, s, new, guess) ==
  IF run.refused # {} THEN run ELSE UpdateSuccessor(run.mba, f, s, new, guess)
Sent(m, s, guess, sent) ==
  sent = [i \in 0..Len(m[s].pred) |->
            IF i = 0 THEN Begun(m) ELSE SentNext(sent[i-1], m[s].pred[i], s, m[s].refs[1], guess)]

LEMMA SentExists ==
  ASSUME NEW m, NEW s, NEW guess, Len(m[s].pred) \in Nat
  PROVE  \E sent : Sent(m, s, guess, sent) /\ Bypass(m, s, guess) = sent[Len(m[s].pred)]
<1> DEFINE p == m[s].pred
           Step(run, i) == SentNext(run, p[i], s, m[s].refs[1], guess)
           Upto(k, g) == g = [i \in 0..k |-> IF i = 0 THEN Begun(m) ELSE Step(g[i-1], i)]
           S == {k \in Nat : \E g : Upto(k, g)}
<1>1. 0 \in S
  <2>1. Upto(0, [i \in 0..0 |-> Begun(m)])
    OBVIOUS
  <2> QED BY <2>1
<1>2. ASSUME NEW k \in Nat, k \in S
      PROVE  k + 1 \in S
  <2>1. PICK g : Upto(k, g)
    BY <1>2
  <2> HIDE DEF Step
  <2> DEFINE h == [i \in 0..k+1 |-> IF i = 0 THEN Begun(m) ELSE Step(g[i-1], i)]
  <2>2. \A i \in 0..k : g[i] = h[i]
    BY <2>1
  <2>3. \A i \in 0..k+1 : i # 0 => i - 1 \in 0..k
    OBVIOUS
  <2>4. \A i \in 0..k+1 : h[i] = IF i = 0 THEN Begun(m) ELSE Step(h[i-1], i)
    BY <2>2, <2>3
  <2>5. h = [i \in 0..k+1 |-> h[i]]
    OBVIOUS
  <2> HIDE DEF h
  <2>6. Upto(k + 1, h)
    BY <2>4, <2>5
  <2> QED BY <2>6
<1>3. Nat \subseteq S
  <2> HIDE DEF S
  <2> QED BY <1>1, <1>2, Induction
<1>4. \E sent : Sent(m, s, guess, sent)
  BY <1>3 DEF Sent
<1>5. Bypass(m, s, guess) = (CHOOSE sent : Sent(m, s, guess, sent))[Len(p)]
  BY DEF Bypass, Sent, SentNext
<1> QED BY <1>4, <1>5

LEMMA BypassPlaced ==
  ASSUME NEW n, NEW q, NEW m, Placed(n, q, m), NEW s \in 0..q-1, Len(m[s].refs) = 1, NEW guess
  PROVE  Placed(n, q, Bypass(m, s, guess).mba)
<1>1. m[s].refs \in Seq(0..MaxBlocks-1) /\ m[s].pred \in Seq(0..MaxBlocks-1)
  BY PlacedIs, BlockIs DEF Sequences
<1>2. m[s].refs[1] \in 0..MaxBlocks-1 /\ Len(m[s].pred) \in Nat
  <2> DEFINE u == m[s].refs
  <2>1. u \in Seq(0..MaxBlocks-1) /\ 1 \in 1..Len(u)
    BY <1>1
  <2> HIDE DEF u
  <2>2. u[1] \in 0..MaxBlocks-1
    BY <2>1, ElementIn
  <2> QED BY <1>1, <2>2 DEF u
<1>3. PICK sent : Sent(m, s, guess, sent) /\ Bypass(m, s, guess) = sent[Len(m[s].pred)]
  BY <1>2, SentExists
<1> DEFINE p == m[s].pred
           t == m[s].refs[1]
           S == {i \in Nat : i <= Len(p) => Placed(n, q, sent[i].mba)}
<1>4. 0 \in S
  <2>1. sent[0] = Begun(m) /\ Begun(m).mba = m
    BY <1>2, <1>3 DEF Sent, Begun
  <2> QED BY <2>1
<1>5. ASSUME NEW i \in Nat, i \in S
      PROVE  i + 1 \in S
  <2> SUFFICES ASSUME i + 1 <= Len(p)
               PROVE  Placed(n, q, sent[i+1].mba)
    OBVIOUS
  <2>1. i + 1 \in 0..Len(p) /\ i + 1 # 0 /\ (i + 1) - 1 = i /\ i <= Len(p)
    BY <1>2
  <2>2. sent[i+1] = SentNext(sent[i], p[i+1], s, t, guess)
    BY <1>3, <2>1 DEF Sent
  <2>3. Placed(n, q, sent[i].mba)
    BY <1>5, <2>1
  <2>4. Placed(n, q, UpdateSuccessor(sent[i].mba, p[i+1], s, t, guess).mba)
    BY <1>2, <2>3, UpdatePlaced
  <2> QED BY <2>2, <2>3, <2>4 DEF SentNext
<1>6. Nat \subseteq S
  <2> HIDE DEF S
  <2> QED BY <1>4, <1>5, Induction
<1> QED BY <1>2, <1>3, <1>6

(* The blocks, one after the other.                                            *)
PastNext(run, i, guess) ==
  IF run.refused # {} \/ ~JumpsTo(run.mba, i, "goto") THEN run ELSE Bypass(run.mba, i, guess)
Past(m, guess, past) ==
  past = [i \in 0..ExitSerial(m) |-> IF i = 0 THEN Begun(m) ELSE PastNext(past[i-1], i - 1, guess)]

LEMMA PastExists ==
  ASSUME NEW m, NEW guess, ExitSerial(m) \in Nat
  PROVE  \E past : Past(m, guess, past) /\ BypassAll(m, guess) = past[ExitSerial(m)]
<1> DEFINE Step(run, i) == PastNext(run, i - 1, guess)
           Upto(k, g) == g = [i \in 0..k |-> IF i = 0 THEN Begun(m) ELSE Step(g[i-1], i)]
           S == {k \in Nat : \E g : Upto(k, g)}
<1>1. 0 \in S
  <2>1. Upto(0, [i \in 0..0 |-> Begun(m)])
    OBVIOUS
  <2> QED BY <2>1
<1>2. ASSUME NEW k \in Nat, k \in S
      PROVE  k + 1 \in S
  <2>1. PICK g : Upto(k, g)
    BY <1>2
  <2> HIDE DEF Step
  <2> DEFINE h == [i \in 0..k+1 |-> IF i = 0 THEN Begun(m) ELSE Step(g[i-1], i)]
  <2>2. \A i \in 0..k : g[i] = h[i]
    BY <2>1
  <2>3. \A i \in 0..k+1 : i # 0 => i - 1 \in 0..k
    OBVIOUS
  <2>4. \A i \in 0..k+1 : h[i] = IF i = 0 THEN Begun(m) ELSE Step(h[i-1], i)
    BY <2>2, <2>3
  <2>5. h = [i \in 0..k+1 |-> h[i]]
    OBVIOUS
  <2> HIDE DEF h
  <2>6. Upto(k + 1, h)
    BY <2>4, <2>5
  <2> QED BY <2>6
<1>3. Nat \subseteq S
  <2> HIDE DEF S
  <2> QED BY <1>1, <1>2, Induction
<1>4. \E past : Past(m, guess, past)
  BY <1>3 DEF Past
<1>5. BypassAll(m, guess) = (CHOOSE past : Past(m, guess, past))[ExitSerial(m)]
  BY DEF BypassAll, Past, PastNext
<1> QED BY <1>4, <1>5

LEMMA CleaningPlaced ==
  ASSUME NEW n, NEW q, NEW m, Placed(n, q, m), NEW run \in Cleanings(m)
  PROVE  Placed(n, q, run.mba)
<1>1. PICK guess : run = BypassAll(m, guess)
  BY DEF Cleanings
<1>2. ExitSerial(m) = q - 1 /\ q \in Nat /\ q >= 2 /\ ExitSerial(m) \in Nat
  BY PlacedIs
<1>3. PICK past : Past(m, guess, past) /\ run = past[ExitSerial(m)]
  BY <1>1, <1>2, PastExists
<1> DEFINE S == {i \in Nat : i <= q - 1 => Placed(n, q, past[i].mba)}
<1>4. 0 \in S
  <2>1. past[0] = Begun(m) /\ Begun(m).mba = m
    BY <1>2, <1>3 DEF Past, Begun
  <2> QED BY <2>1
<1>5. ASSUME NEW i \in Nat, i \in S
      PROVE  i + 1 \in S
  <2> SUFFICES ASSUME i + 1 <= q - 1
               PROVE  Placed(n, q, past[i+1].mba)
    OBVIOUS
  <2>1. i + 1 \in 0..q-1 /\ i + 1 # 0 /\ (i + 1) - 1 = i /\ i <= q - 1 /\ i \in 0..q-1
    BY <1>2
  <2>2. past[i+1] = PastNext(past[i], i, guess)
    BY <1>2, <1>3, <2>1 DEF Past
  <2>3. Placed(n, q, past[i].mba)
    BY <1>5, <2>1
  <2>4. JumpsTo(past[i].mba, i, "goto") => Placed(n, q, Bypass(past[i].mba, i, guess).mba)
    BY <2>1, <2>3, BypassPlaced DEF JumpsTo
  <2> QED BY <2>2, <2>3, <2>4 DEF PastNext
<1>6. Nat \subseteq S
  <2> HIDE DEF S
  <2> QED BY <1>4, <1>5, Induction
<1> QED BY <1>2, <1>3, <1>6

-------------------------------------------------------------------------------
(* The invariant is one                                                        *)

(* The plan and the graph it is made for stay.                                 *)
LEMMA SameStart ==
  ASSUME start' = start, plan' = plan
  PROVE  /\ All' = All /\ Edits' = Edits /\ ExitSerial(start)' = ExitSerial(start)
         /\ \A n, q, m, u, f : Waiting(n, q, m, u, f)' <=> Waiting(n, q, m, u, f)
<1>1. All' = All
  BY DEF All
<1>2. Edits' = Edits
  BY DEF Edits
<1>3. \A n, all, e : Item(n, all, e)' <=> Item(n, all, e)
  BY DEF Item
<1>4. \A n, q, m, u, f : Waiting(n, q, m, u, f)' <=> Waiting(n, q, m, u, f)
  BY <1>1, <1>3 DEF Waiting
<1> QED BY <1>1, <1>2, <1>4

(* How many blocks there may be.                                               *)
LEMMA AllIs ==
  ASSUME Control, NEW n, n = ExitSerial(start)
  PROVE  /\ n \in Nat /\ n >= 1 /\ All \in Nat /\ MaxBlocks \in Nat /\ MaxPlan \in Nat
         /\ Len(plan) \in Nat /\ Len(plan) <= MaxPlan /\ All <= 2 * Len(plan)
         /\ n + 1 <= MaxBlocks - 2 * MaxPlan /\ n + All < MaxBlocks
         /\ start \in Graphs
<1>1. Len(plan) \in 1..MaxPlan /\ start \in Graphs
  BY DEF Control
<1>2. MaxBlocks \in Nat /\ MaxPlan \in Nat
  BY Bound
<1>3. n \in Nat /\ n >= 1 /\ n + 1 <= MaxBlocks - 2 * MaxPlan
  BY <1>1, GraphIs
<1>4. Len(plan) \in Nat /\ Len(plan) <= MaxPlan
  BY <1>1, <1>2
<1>5. All \in Nat /\ All <= 2 * Len(plan)
  BY <1>4, NumberedIs DEF All
<1> QED BY <1>1, <1>2, <1>3, <1>4, <1>5

LEMMA WaitingReady ==
  ASSUME Control, NEW n, n = ExitSerial(start), NEW S, NEW u \in Seq(S), u # <<>>,
         NEW q, NEW m, NEW f, Waiting(n, q, m, u, f)
  PROVE  Ready(n, q, m, f, All, u[1])
<1>1. /\ n \in Nat /\ All \in Nat /\ MaxBlocks \in Nat /\ MaxPlan \in Nat
      /\ Len(plan) \in Nat /\ Len(plan) <= MaxPlan
      /\ n + 1 <= MaxBlocks - 2 * MaxPlan /\ n + All < MaxBlocks
  BY AllIs
<1>2. Len(u) \in Nat /\ Len(u) >= 1
  <2>1. Len(u) \in Nat /\ Len(u) # 0
    OBVIOUS
  <2> QED BY <2>1
<1>3. /\ Lives(n, q, m, f) /\ Item(n, All, u[1])
      /\ q - 1 <= n + All /\ q + 2 * Len(u) <= n + 1 + 2 * Len(plan)
      /\ Creates(u[1]) => Fresh(n, q, m, start)
  <2>1. 1 \in 1..Len(u)
    BY <1>2
  <2> QED BY <2>1 DEF Waiting
<1>4. q \in Nat
  BY <1>3, PlacedIs DEF Lives
<1>5. q + 2 <= MaxBlocks
  <2> DEFINE p == Len(plan)
             l == Len(u)
  <2>1. p \in Nat /\ l \in Nat /\ l >= 1 /\ p <= MaxPlan /\ q + 2 * l <= n + 1 + 2 * p
    BY <1>1, <1>2, <1>3
  <2> HIDE DEF p, l
  <2> QED BY <1>1, <1>4, <2>1
<1> QED BY <1>1, <1>3, <1>5 DEF Ready

LEMMA TailIs ==
  ASSUME NEW S, NEW u \in Seq(S), u # <<>>
  PROVE  /\ Tail(u) \in Seq(S) /\ Len(Tail(u)) \in Nat /\ Len(u) \in Nat
         /\ Len(Tail(u)) = Len(u) - 1 /\ Head(u) = u[1]
         /\ \A k \in 1..Len(u)-1 : Tail(u)[k] = u[k+1]
         /\ Tail(u) # <<>> => Len(u) >= 2
OBVIOUS

(* An edit was taken from the queue.                                           *)
LEMMA TailWaits ==
  ASSUME Control, NEW n, n = ExitSerial(start), NEW S, NEW u \in Seq(S), u # <<>>,
         NEW q, NEW m, NEW f, Waiting(n, q, m, u, f), Tail(u) # <<>>,
         NEW qq \in q..q+2, NEW m2, NEW f2, Lives(n, qq, m2, f2), qq - 1 <= n + All,
         Creates(u[1]) => Fresh(n, qq, m2, start)
  PROVE  Waiting(n, qq, m2, Tail(u), f2)
<1> DEFINE v == Tail(u)
           l == Len(u)
<1>1. /\ v \in Seq(S) /\ l \in Nat /\ Len(v) = l - 1 /\ l >= 2
      /\ \A k \in 1..l-1 : v[k] = u[k+1]
  BY TailIs
<1> HIDE DEF v
<1>2. /\ \A k \in 1..l : Item(n, All, u[k])
      /\ CreatesFirst(u) /\ q + 2 * l <= n + 1 + 2 * Len(plan) /\ Lives(n, q, m, f)
  BY DEF Waiting
<1>3. \A k \in 1..l-1 : Creates(v[k]) => \A j \in 1..k+1 : Creates(u[j])
  <2>1. \A k \in 1..l-1 : k + 1 \in 1..l
    BY <1>1
  <2> QED BY <1>1, <1>2, <2>1 DEF CreatesFirst
<1>4. CreatesFirst(v)
  <2> SUFFICES ASSUME NEW k \in 1..l-1, Creates(v[k]), NEW j \in 1..k
               PROVE  Creates(v[j])
    BY <1>1 DEF CreatesFirst
  <2>1. j + 1 \in 1..k+1 /\ j \in 1..l-1
    BY <1>1
  <2>2. Creates(u[j+1])
    BY <1>3, <2>1
  <2> QED BY <1>1, <2>1, <2>2
<1>5. \A k \in 1..Len(v) : Item(n, All, v[k])
  <2>1. \A k \in 1..l-1 : k + 1 \in 1..l
    BY <1>1
  <2> QED BY <1>1, <1>2, <2>1
<1>6. Creates(v[1]) => Fresh(n, qq, m2, start)
  <2> SUFFICES ASSUME Creates(v[1])
               PROVE  Creates(u[1])
    OBVIOUS
  <2>1. 1 \in 1..l-1 /\ 1 \in 1..1+1
    BY <1>1
  <2> QED BY <1>3, <2>1
<1>7. qq + 2 * Len(v) <= n + 1 + 2 * Len(plan)
  <2>1. q \in Nat /\ qq \in Nat /\ qq <= q + 2
    <3>1. q \in Nat
      BY <1>2, PlacedIs DEF Lives
    <3> QED BY <3>1
  <2>2. n \in Nat /\ Len(plan) \in Nat
    BY AllIs
  <2> DEFINE p == Len(plan)
  <2>3. p \in Nat /\ q + 2 * l <= n + 1 + 2 * p
    BY <1>2, <2>2
  <2> HIDE DEF p, l
  <2>4. qq + 2 * (l - 1) <= n + 1 + 2 * p
    BY <1>1, <2>1, <2>2, <2>3
  <2> QED BY <1>1, <2>4 DEF p
<1> QED BY <1>4, <1>5, <1>6, <1>7 DEF Waiting, v

(* How the invariant is restored.                                              *)
LEMMA Rebuilt ==
  ASSUME start' = start, plan' = plan, NEW n, n = ExitSerial(start), NEW qq,
         Control', phase' # "planned", Placed(n, qq, mba'),
         phase' # "done" => ~restored',
         phase' = "applying" /\ queue' # <<>> =>
            ~broken' /\ Waiting(n, qq, mba', queue', intended'),
         ~broken' /\ ~restored' /\ verdict' # "native_verify" =>
            Closed(qq, mba') /\ Flows(n, qq, mba', intended'),
         broken' => /\ queue' = <<>> /\ (restored' \/ verdict' # "ok")
                    /\ phase' = "applying" => ~Closed(qq, mba'),
         RestoredIsStart'
  PROVE  IInv'
<1>1. ExitSerial(start)' = n /\ \A q, m, u, f : Waiting(n, q, m, u, f)' <=> Waiting(n, q, m, u, f)
  BY SameStart
<1>2. Qty(mba)' = qq
  BY PlacedIs
<1>3. Placed(ExitSerial(start), Qty(mba), mba)'
  BY <1>1, <1>2
<1>4. phase' = "applying" /\ queue' # <<>> =>
        ~broken' /\ Waiting(ExitSerial(start), Qty(mba), mba, queue, intended)'
  BY <1>1, <1>2
<1>5. ~broken' /\ ~restored' /\ verdict' # "native_verify" =>
        Closed(Qty(mba), mba)' /\ Flows(ExitSerial(start), Qty(mba), mba, intended)'
  BY <1>1, <1>2
<1>6. broken' => queue' = <<>> /\ (restored' \/ verdict' # "ok")
                 /\ (phase' = "applying" => ~Closed(Qty(mba), mba)')
  BY <1>2
<1> QED BY <1>3, <1>4, <1>5, <1>6 DEF IInv

LEMMA InvariantIs ==
  ASSUME IInv, NEW n, NEW q, n = ExitSerial(start), q = Qty(mba)
  PROVE  /\ Control /\ Placed(n, q, mba) /\ n \in Nat /\ q \in Nat /\ n <= q - 1
         /\ phase = "planned" =>
              mba = start /\ queue = <<>> /\ intended = Flow(start) /\ counted = 0 /\ ~broken
         /\ phase # "done" => ~restored /\ verdict = "none"
         /\ phase = "applying" /\ queue # <<>> =>
              ~broken /\ Waiting(n, q, mba, queue, intended)
         /\ ~broken /\ ~restored /\ verdict # "native_verify" =>
              Closed(q, mba) /\ Flows(n, q, mba, intended)
         /\ broken => /\ queue = <<>> /\ (restored \/ verdict # "ok")
                      /\ phase = "applying" => ~Closed(q, mba)
<1>1. Placed(n, q, mba)
  BY DEF IInv
<1>2. n \in Nat /\ q \in Nat /\ n <= q - 1
  BY <1>1, PlacedIs
<1> QED BY <1>1, <1>2 DEF IInv, Control

LEMMA EndsKeepsControl ==
  ASSUME Control, NEW v \in Verdicts \ {"none"}, Ends(v),
         UNCHANGED <<start, plan, queue, counted, broken>>, restored' \in BOOLEAN
  PROVE  Control' /\ phase' = "done" /\ verdict' = v
<1>1. Edits' = Edits
  BY SameStart
<1> QED BY <1>1 DEF Control, Ends, Verdicts

LEMMA AllVerdicts ==
  /\ \A v \in {"projected_contract", "live_pre_check"} : v \in Verdicts \ {"none"} /\ v # "ok"
  /\ {"lowering", "ok", "backend_apply", "native_verify"} \subseteq Verdicts \ {"none"}
BY DEF Verdicts

(* The batch ends, the graph stays.                                            *)
LEMMA EndsInv ==
  ASSUME IInv, phase # "done", NEW v \in Verdicts \ {"none"}, Ends(v),
         UNCHANGED <<start, plan, mba, queue, intended, counted, broken, restored>>,
         v = "ok" => ~broken
  PROVE  IInv'
<1>1. PICK n, q : n = ExitSerial(start) /\ q = Qty(mba)
  OBVIOUS
<1>2. /\ Control /\ Placed(n, q, mba) /\ ~restored /\ verdict = "none"
      /\ ~broken /\ ~restored => Closed(q, mba) /\ Flows(n, q, mba, intended)
      /\ broken => queue = <<>>
  BY <1>1, InvariantIs
<1>3. restored' \in BOOLEAN
  BY <1>2 DEF Control
<1>4. Control' /\ phase' = "done" /\ verdict' = v
  BY <1>2, <1>3, EndsKeepsControl
<1>5. RestoredIsStart'
  BY <1>2 DEF RestoredIsStart
<1>6. /\ ~broken' /\ ~restored' => Closed(q, mba') /\ Flows(n, q, mba', intended')
      /\ broken' => queue' = <<>> /\ verdict' # "ok"
      /\ Placed(n, q, mba')
  BY <1>2, <1>4
<1> QED BY <1>1, <1>4, <1>5, <1>6, Rebuilt

LEMMA RejectPlanInv ==
  ASSUME IInv, RejectPlan
  PROVE  IInv'
<1>1. PICK v \in {"projected_contract", "live_pre_check"} : Ends(v)
  BY DEF RejectPlan
<1>2. v \in Verdicts \ {"none"} /\ v # "ok"
  BY AllVerdicts
<1>3. phase # "done" /\ UNCHANGED <<start, plan, mba, queue, intended, counted, broken, restored>>
  BY DEF RejectPlan
<1> QED BY <1>1, <1>2, <1>3, EndsInv

LEMMA CannotLowerInv ==
  ASSUME IInv, CannotLower
  PROVE  IInv'
<1>1. /\ phase # "done" /\ UNCHANGED <<start, plan, mba, queue, intended, counted, broken, restored>>
      /\ Ends("lowering")
  BY DEF CannotLower
<1>2. "lowering" \in Verdicts \ {"none"} /\ "lowering" # "ok"
  BY AllVerdicts
<1> QED BY <1>1, <1>2, EndsInv

LEMMA NothingAppliedInv ==
  ASSUME IInv, NothingApplied
  PROVE  IInv'
<1>1. /\ phase # "done" /\ UNCHANGED <<start, plan, mba, queue, intended, counted, broken, restored>>
      /\ Ends("backend_apply")
  BY DEF NothingApplied
<1>2. "backend_apply" \in Verdicts \ {"none"} /\ "backend_apply" # "ok"
  BY AllVerdicts
<1> QED BY <1>1, <1>2, EndsInv

(* A graph that is well formed has no edge to a block that is not there.       *)
LEMMA WellFormedClosed ==
  ASSUME NEW q, NEW m, Array(q, m), WellFormed(m)
  PROVE  Closed(q, m)
<1>1. DOMAIN m = 0..q-1
  BY ArrayIs
<1>2. \A s \in DOMAIN m : \A t \in ToSet(m[s].succ) : t \in DOMAIN m
  BY DEF WellFormed, EdgesAgree
<1> QED BY <1>1, <1>2 DEF Closed

LEMMA SucceedInv ==
  ASSUME IInv, Succeed
  PROVE  IInv'
<1>1. /\ phase = "applying" /\ WellFormed(mba) /\ Ends("ok")
      /\ UNCHANGED <<start, plan, mba, queue, intended, counted, broken, restored>>
  BY DEF Succeed
<1>2. "ok" \in Verdicts \ {"none"}
  BY AllVerdicts
<1>3. ~broken
  <2>1. PICK n, q : n = ExitSerial(start) /\ q = Qty(mba)
    OBVIOUS
  <2>2. Placed(n, q, mba) /\ (broken => ~Closed(q, mba))
    BY <1>1, <2>1, InvariantIs
  <2>3. Closed(q, mba)
    BY <1>1, <2>2, PlacedIs, WellFormedClosed
  <2> QED BY <2>2, <2>3
<1>4. phase # "done"
  BY <1>1
<1> QED BY <1>1, <1>2, <1>3, <1>4, EndsInv

LEMMA LowerInv ==
  ASSUME IInv, Lower
  PROVE  IInv'
<1>1. /\ phase = "planned" /\ \A i \in DOMAIN plan : ~Unsupported(start, plan[i])
      /\ queue' = PreRejected(Coalesced(Compiled(start, plan)))
      /\ phase' = "applying"
      /\ UNCHANGED <<start, plan, mba, intended, counted, broken, restored, verdict>>
  BY DEF Lower
<1>2. PICK n, q : n = ExitSerial(start) /\ q = Qty(mba)
  OBVIOUS
<1>3. /\ Control /\ Placed(n, q, mba) /\ ~restored /\ verdict = "none"
      /\ mba = start /\ intended = Flow(start) /\ counted = 0 /\ ~broken
      /\ ~broken /\ ~restored => Closed(q, mba) /\ Flows(n, q, mba, intended)
  BY <1>1, <1>2, InvariantIs
<1>4. /\ start \in Graphs /\ Len(plan) \in Nat /\ plan \in [1..Len(plan) -> Plainly(start)]
      /\ n \in Nat /\ All \in Nat
  BY <1>2, <1>3, AllIs DEF Control
<1>5. q = n + 1
  <2>1. Array(n + 1, start)
    BY <1>2, <1>4, GraphIs
  <2> QED BY <1>2, <1>3, <2>1, ArrayIs
<1> DEFINE u == queue'
<1>6. /\ u \in Seq(Edits)
      /\ Len(u) <= Len(plan) /\ Len(u) \in Nat /\ CreatesFirst(u)
      /\ \A k \in 1..Len(u) : Item(n, All, u[k])
  <2> DEFINE w == PreRejected(Coalesced(Compiled(start, plan)))
  <2>1. w = PreRejected(Coalesced(Compiled(start, plan))) /\ u = w
    BY <1>1
  <2> HIDE DEF w
  <2>2. /\ w \in Seq({Compiled(start, plan)[i] : i \in DOMAIN plan})
        /\ Len(w) <= Len(plan) /\ Len(w) \in Nat /\ CreatesFirst(w)
        /\ \A k \in 1..Len(w) : Item(ExitSerial(start), All, w[k])
    BY <1>1, <1>4, <2>1, LoweredIs
  <2> HIDE DEF u
  <2> QED BY <1>2, <2>1, <2>2 DEF Edits
<1>7. Lives(n, q, mba, intended) /\ Fresh(n, q, mba, start)
  <2>1. Lives(n, n + 1, start, Flow(start)) /\ Fresh(n, n + 1, start, start)
    BY <1>2, <1>4, StartLives
  <2> QED BY <1>3, <1>5, <2>1
<1> HIDE DEF u
<1>8. Waiting(n, q, mba, u, intended)
  <2>1. q - 1 <= n + All
    BY <1>4, <1>5
  <2>2. q + 2 * Len(u) <= n + 1 + 2 * Len(plan)
    BY <1>4, <1>5, <1>6
  <2> QED BY <1>6, <1>7, <2>1, <2>2 DEF Waiting
<1>9. Control'
  <2>1. Edits' = Edits
    BY <1>1, SameStart
  <2>2. queue' \in Seq(Edits) /\ Len(queue') + counted <= Len(plan)
    BY <1>3, <1>6 DEF u
  <2> QED BY <1>1, <1>3, <2>1, <2>2 DEF Control
<1>10. RestoredIsStart'
  BY <1>1, <1>3 DEF RestoredIsStart
<1>11. Waiting(n, q, mba', queue', intended')
  BY <1>1, <1>8 DEF u
<1>12. /\ ~broken' /\ ~restored' => Closed(q, mba') /\ Flows(n, q, mba', intended')
       /\ ~broken' /\ ~restored' /\ Placed(n, q, mba') /\ phase' # "planned" /\ phase' # "done"
  BY <1>1, <1>3
<1> QED BY <1>1, <1>2, <1>9, <1>10, <1>11, <1>12, Rebuilt

(* The edit at the head of the queue, and how applying it may end.             *)
LEMMA HeadIs ==
  ASSUME IInv, phase = "applying", queue # <<>>, NEW n, NEW q, n = ExitSerial(start), q = Qty(mba),
         NEW e, e = Head(queue)
  PROVE  /\ Control /\ ~broken /\ ~restored /\ verdict = "none"
         /\ queue \in Seq(Edits) /\ e = queue[1]
         /\ Waiting(n, q, mba, queue, intended) /\ Ready(n, q, mba, intended, All, e)
         /\ \E qq \in q..q+2 : EndsAs(n, q, intended, e, ApplySingle(mba, e), qq)
         /\ n \in Nat /\ q \in Nat /\ All \in Nat
<1>1. /\ Control /\ ~broken /\ ~restored /\ verdict = "none"
      /\ Waiting(n, q, mba, queue, intended)
      /\ n \in Nat /\ q \in Nat
  BY InvariantIs
<1>2. queue \in Seq(Edits)
  BY <1>1 DEF Control
<1>3. e = queue[1]
  BY <1>2, TailIs
<1>4. Ready(n, q, mba, intended, All, e)
  BY <1>1, <1>2, <1>3, WaitingReady
<1>5. Applied(n, q, intended, e, ApplySingle(mba, e))
  BY <1>4, ApplyIs
<1> QED BY <1>1, <1>2, <1>3, <1>4, <1>5, AllIs DEF Applied

(* The batch goes on behind an edit.                                           *)
LEMMA ControlGoesOn ==
  ASSUME Control, queue # <<>>, phase = "applying", verdict = "none",
         start' = start, plan' = plan, restored' = restored, verdict' = verdict, phase' = phase,
         broken' \in BOOLEAN,
         \/ queue' = Tail(queue) /\ counted' \in {counted, counted + 1}
         \/ queue' = <<>> /\ counted' = counted
  PROVE  Control'
<1>1. Edits' = Edits
  BY SameStart
<1>2. queue \in Seq(Edits) /\ counted \in Nat /\ Len(queue) + counted <= Len(plan)
  BY DEF Control
<1>3. Len(plan) \in Nat
  <2>1. ExitSerial(start) = ExitSerial(start)
    OBVIOUS
  <2> QED BY <2>1, AllIs
<1>4. /\ Tail(queue) \in Seq(Edits) /\ Len(Tail(queue)) = Len(queue) - 1 /\ Len(queue) \in Nat
      /\ <<>> \in Seq(Edits) /\ Len(<<>>) = 0
  <2>1. Tail(queue) \in Seq(Edits) /\ Len(Tail(queue)) = Len(queue) - 1 /\ Len(queue) \in Nat
    BY <1>2, TailIs
  <2>2. <<>> \in Seq(Edits) /\ Len(<<>>) = 0
    OBVIOUS
  <2> QED BY <2>1, <2>2
<1>5. queue' \in Seq(Edits) /\ counted' \in Nat /\ Len(queue') + counted' <= Len(plan)
  <2>1. CASE queue' = Tail(queue) /\ counted' \in {counted, counted + 1}
    BY <1>2, <1>3, <1>4, <2>1
  <2>2. CASE queue' = <<>> /\ counted' = counted
    BY <1>2, <1>3, <1>4, <2>2
  <2> QED BY <2>1, <2>2
<1> QED BY <1>1, <1>5 DEF Control

LEMMA ApplyEditInv ==
  ASSUME IInv, ApplyEdit
  PROVE  IInv'
<1>1. PICK n, q, e, m, f, r : n = ExitSerial(start) /\ q = Qty(mba) /\ e = Head(queue)
                              /\ m = mba /\ f = intended /\ r = ApplySingle(mba, e)
  OBVIOUS
<1>2. /\ phase = "applying" /\ queue # <<>> /\ r.result = "done"
      /\ mba' = r.mba /\ counted' = counted + 1 /\ intended' = Effect(f, e)
      /\ queue' = Tail(queue)
      /\ UNCHANGED <<start, plan, broken, restored, phase, verdict>>
  BY <1>1 DEF ApplyEdit, Applying, Edited
<1>3. /\ Control /\ ~broken /\ ~restored /\ verdict = "none"
      /\ queue \in Seq(Edits) /\ e = queue[1]
      /\ Waiting(n, q, m, queue, f) /\ Ready(n, q, m, f, All, e)
      /\ \E qq \in q..q+2 : EndsAs(n, q, f, e, r, qq)
      /\ n \in Nat /\ q \in Nat /\ All \in Nat
  BY <1>1, <1>2, HeadIs
<1>4. PICK qq \in q..q+2 : EndsAs(n, q, f, e, r, qq)
  BY <1>3
<1> DEFINE m2 == r.mba
           f2 == Effect(f, e)
<1> HIDE DEF m2, f2
<1>5. /\ Placed(n, qq, m2) /\ Lives(n, qq, m2, f2)
      /\ ~Creates(e) => qq = q
      /\ Creates(e) => /\ Fresh(n, qq, m2, start)
                       /\ qq = q + NewBlocks(start, e) /\ e.serial = q - 1
  BY <1>2, <1>4 DEF EndsAs, m2, f2
<1>6. qq - 1 <= n + All
  <2>1. q - 1 <= n + All
    BY <1>3 DEF Ready
  <2>2. CASE ~Creates(e)
    BY <1>5, <2>1, <2>2
  <2>3. CASE Creates(e)
    <3> DEFINE new == NewBlocks(start, e)
    <3>1. e.serial + new <= n + All /\ new \in 0..2 /\ e.serial = q - 1 /\ qq = q + new
      BY <1>3, <1>5, <2>3, NewBlocksIs DEF Ready, Item
    <3> HIDE DEF new
    <3> QED BY <1>3, <3>1
  <2> QED BY <2>2, <2>3
<1>7. Tail(queue) # <<>> => Waiting(n, qq, m2, Tail(queue), f2)
  <2> SUFFICES ASSUME Tail(queue) # <<>>
               PROVE  Waiting(n, qq, m2, Tail(queue), f2)
    OBVIOUS
  <2>1. PICK u, S : u = queue /\ S = Edits
    OBVIOUS
  <2>2. /\ u \in Seq(S) /\ u # <<>> /\ Waiting(n, q, m, u, f) /\ Tail(u) # <<>>
        /\ Creates(u[1]) => Fresh(n, qq, m2, start)
    BY <1>2, <1>3, <1>5, <2>1
  <2>3. Waiting(n, qq, m2, Tail(u), f2)
    BY <1>1, <1>3, <1>4, <1>5, <1>6, <2>2, TailWaits
  <2> QED BY <2>1, <2>3
<1>8. mba' = m2 /\ intended' = f2
  BY <1>2 DEF m2, f2
<1>9. Control'
  <2>1. broken' \in BOOLEAN
    BY <1>2, <1>3 DEF Control
  <2> QED BY <1>2, <1>3, <2>1, ControlGoesOn
<1>10. RestoredIsStart'
  BY <1>2, <1>3 DEF RestoredIsStart
<1>11. Closed(qq, mba') /\ Flows(n, qq, mba', intended') /\ Placed(n, qq, mba')
  BY <1>5, <1>8 DEF Lives
<1>12. queue' # <<>> => Waiting(n, qq, mba', queue', intended')
  BY <1>2, <1>7, <1>8
<1>13. ~broken' /\ ~restored' /\ phase' = "applying"
  BY <1>2, <1>3
<1> QED BY <1>1, <1>2, <1>9, <1>10, <1>11, <1>12, <1>13, Rebuilt

LEMMA RollBackEditInv ==
  ASSUME IInv, RollBackEdit
  PROVE  IInv'
<1>1. PICK n, q, e, m, f, r : n = ExitSerial(start) /\ q = Qty(mba) /\ e = Head(queue)
                              /\ m = mba /\ f = intended /\ r = ApplySingle(mba, e)
  OBVIOUS
<1>2. /\ phase = "applying" /\ queue # <<>> /\ r.result = "done" /\ HasRollback(e)
      /\ mba' = RolledBack(r.mba, e, m) /\ queue' = Tail(queue)
      /\ UNCHANGED <<start, plan, intended, counted, broken, restored, phase, verdict>>
  BY <1>1 DEF RollBackEdit, Applying, Edited
<1>3. /\ Control /\ ~broken /\ ~restored /\ verdict = "none"
      /\ queue \in Seq(Edits) /\ e = queue[1]
      /\ Waiting(n, q, m, queue, f) /\ Ready(n, q, m, f, All, e)
      /\ n \in Nat /\ q \in Nat /\ All \in Nat
  BY <1>1, <1>2, HeadIs
<1> DEFINE m2 == RolledBack(r.mba, e, m)
<1>4. Lives(n, q, m2, f)
  BY <1>1, <1>2, <1>3, RolledBackIs
<1>5. ~Creates(e)
  BY <1>2 DEF HasRollback, Creates
<1> HIDE DEF m2
<1>6. Tail(queue) # <<>> => Waiting(n, q, m2, Tail(queue), f)
  <2> SUFFICES ASSUME Tail(queue) # <<>>
               PROVE  Waiting(n, q, m2, Tail(queue), f)
    OBVIOUS
  <2>1. PICK u, S : u = queue /\ S = Edits
    OBVIOUS
  <2>2. /\ u \in Seq(S) /\ u # <<>> /\ Waiting(n, q, m, u, f) /\ Tail(u) # <<>>
        /\ ~Creates(u[1]) /\ q \in q..q+2 /\ q - 1 <= n + All
    BY <1>2, <1>3, <1>5, <2>1 DEF Ready
  <2>3. Waiting(n, q, m2, Tail(u), f)
    BY <1>1, <1>3, <1>4, <2>2, TailWaits
  <2> QED BY <2>1, <2>3
<1>7. mba' = m2 /\ intended' = f
  BY <1>1, <1>2 DEF m2
<1>8. Control'
  <2>1. broken' \in BOOLEAN
    BY <1>2, <1>3 DEF Control
  <2> QED BY <1>2, <1>3, <2>1, ControlGoesOn
<1>9. RestoredIsStart'
  BY <1>2, <1>3 DEF RestoredIsStart
<1>10. Closed(q, mba') /\ Flows(n, q, mba', intended') /\ Placed(n, q, mba')
  BY <1>4, <1>7 DEF Lives
<1>11. queue' # <<>> => Waiting(n, q, mba', queue', intended')
  BY <1>2, <1>6, <1>7
<1>12. ~broken' /\ ~restored' /\ phase' = "applying"
  BY <1>2, <1>3
<1> QED BY <1>1, <1>2, <1>8, <1>9, <1>10, <1>11, <1>12, Rebuilt

LEMMA AbandonBatchInv ==
  ASSUME IInv, AbandonBatch
  PROVE  IInv'
<1>1. PICK n, q, e, r : n = ExitSerial(start) /\ q = Qty(mba) /\ e = Head(queue)
                        /\ r = ApplySingle(mba, e)
  OBVIOUS
<1>2. /\ phase = "applying" /\ queue # <<>> /\ mba' = r.mba /\ Ends("native_verify")
      /\ UNCHANGED <<start, plan, queue, intended, counted, broken, restored>>
  BY <1>1 DEF AbandonBatch, Applying, Edited
<1>3. /\ Control /\ ~broken /\ ~restored
      /\ \E qq \in q..q+2 : EndsAs(n, q, intended, e, r, qq)
  BY <1>1, <1>2, HeadIs
<1>4. PICK qq \in q..q+2 : Placed(n, qq, mba')
  BY <1>2, <1>3 DEF EndsAs
<1>5. Control' /\ phase' = "done" /\ verdict' = "native_verify"
  <2>1. restored' \in BOOLEAN
    BY <1>2, <1>3 DEF Control
  <2> QED BY <1>2, <1>3, <2>1, AllVerdicts, EndsKeepsControl
<1>6. RestoredIsStart'
  BY <1>2, <1>3 DEF RestoredIsStart
<1>7. ~broken' /\ ~restored'
  BY <1>2, <1>3
<1> QED BY <1>1, <1>2, <1>4, <1>5, <1>6, <1>7, Rebuilt

LEMMA RefuseEditInv ==
  ASSUME IInv, RefuseEdit
  PROVE  IInv'
<1>1. PICK n, q, e, r, f : n = ExitSerial(start) /\ q = Qty(mba) /\ e = Head(queue)
                           /\ r = ApplySingle(mba, e) /\ f = intended
  OBVIOUS
<1>2. /\ phase = "applying" /\ queue # <<>> /\ r.result = "refused"
      /\ mba' = r.mba /\ queue' = <<>>
      /\ UNCHANGED <<start, plan, intended, counted, broken, restored, phase, verdict>>
  BY <1>1 DEF RefuseEdit, Applying, Edited
<1>3. /\ Control /\ ~broken /\ ~restored /\ verdict = "none"
      /\ \E qq \in q..q+2 : EndsAs(n, q, f, e, r, qq)
  BY <1>1, <1>2, HeadIs
<1>4. PICK qq \in q..q+2 : Placed(n, qq, r.mba) /\ Closed(qq, r.mba) /\ Flows(n, qq, r.mba, f)
  BY <1>2, <1>3 DEF EndsAs
<1>5. Placed(n, qq, mba') /\ Closed(qq, mba') /\ Flows(n, qq, mba', intended')
  BY <1>1, <1>2, <1>4
<1>6. Control'
  <2>1. broken' \in BOOLEAN
    BY <1>2, <1>3 DEF Control
  <2> QED BY <1>2, <1>3, <2>1, ControlGoesOn
<1>7. RestoredIsStart'
  BY <1>2, <1>3 DEF RestoredIsStart
<1>8. ~broken' /\ ~restored' /\ phase' = "applying" /\ queue' = <<>>
  BY <1>2, <1>3
<1> QED BY <1>1, <1>2, <1>5, <1>6, <1>7, <1>8, Rebuilt

LEMMA EditRaisesInv ==
  ASSUME IInv, EditRaises
  PROVE  IInv'
<1>1. PICK n, q, e, r : n = ExitSerial(start) /\ q = Qty(mba) /\ e = Head(queue)
                        /\ r = ApplySingle(mba, e)
  OBVIOUS
<1>2. /\ phase = "applying" /\ queue # <<>> /\ r.result = "raised"
      /\ mba' = r.mba /\ queue' = <<>> /\ broken' = TRUE
      /\ UNCHANGED <<start, plan, intended, counted, restored, phase, verdict>>
  BY <1>1 DEF EditRaises, Applying, Edited
<1>3. /\ Control /\ ~broken /\ ~restored /\ verdict = "none"
      /\ \E qq \in q..q+2 : EndsAs(n, q, intended, e, r, qq)
  BY <1>1, <1>2, HeadIs
<1>4. PICK qq \in q..q+2 : Placed(n, qq, r.mba) /\ ~Closed(qq, r.mba)
  BY <1>2, <1>3 DEF EndsAs
<1>5. Placed(n, qq, mba') /\ ~Closed(qq, mba')
  BY <1>2, <1>4
<1>6. Control'
  <2>1. broken' \in BOOLEAN
    BY <1>2
  <2> QED BY <1>2, <1>3, <2>1, ControlGoesOn
<1>7. RestoredIsStart'
  BY <1>2, <1>3 DEF RestoredIsStart
<1>8. broken' /\ ~restored' /\ phase' = "applying" /\ queue' = <<>> /\ verdict' # "ok"
  BY <1>2, <1>3
<1> QED BY <1>1, <1>2, <1>5, <1>6, <1>7, <1>8, Rebuilt

(* The identities are the serial numbers as long as no block was created.      *)
LEMMA SameFlow ==
  ASSUME NEW n, NEW a, NEW b, Placed(n, n + 1, a), Placed(n, n + 1, b),
         Closed(n + 1, a), Closed(n + 1, b),
         \A x \in 0..n : ToSet(a[x].succ) = ToSet(b[x].succ)
  PROVE  \A id \in DOMAIN Flow(b) : Flow(a)[id] = Flow(b)[id]
<1>1. n \in Nat /\ n >= 1
  BY PlacedIs
<1> DEFINE q == n + 1
<1>2. q \in Nat /\ n <= q - 1 /\ 1 <= n /\ \A x \in 0..q-1 : x \in 0..n
  BY <1>1
<1>3. Placed(n, q, a) /\ Placed(n, q, b) /\ Closed(q, a) /\ Closed(q, b)
  OBVIOUS
<1> HIDE DEF q
<1>4. /\ DOMAIN Flow(b) = 0..q-1
      /\ \A x \in 0..q-1 : Flow(a)[IdAt(n, q, x)] = Leads(n, q, a, x)
      /\ \A x \in 0..q-1 : Flow(b)[IdAt(n, q, x)] = Leads(n, q, b, x)
  BY <1>3, FlowAt
<1>5. \A id \in 0..q-1 : \E x \in 0..q-1 : IdAt(n, q, x) = id
  BY <1>1, <1>2, IdIs
<1>6. \A x \in 0..q-1 : Leads(n, q, a, x) = Leads(n, q, b, x)
  BY <1>2 DEF Leads
<1> QED BY <1>4, <1>5, <1>6

(* What the batches that came this far have in common, whatever was restored.  *)
LEMMA Undoing ==
  ASSUME IInv, phase = "applying", queue = <<>>,
         NEW n, NEW q, NEW back, n = ExitSerial(start), q = Qty(mba), back = RestoredSnapshot(mba)
  PROVE  /\ Control /\ n \in Nat /\ q \in Nat /\ ~restored /\ verdict = "none"
         /\ start \in Graphs /\ Array(n + 1, start) /\ Placed(n, n + 1, start)
         /\ Closed(n + 1, start) /\ Placed(n, q, back.mba)
         /\ ~back.stopped => \A x \in 0..n : ToSet(back.mba[x].succ) = ToSet(start[x].succ)
<1>1. Control /\ Placed(n, q, mba) /\ n \in Nat /\ q \in Nat /\ ~restored /\ verdict = "none"
  BY InvariantIs
<1>2. start \in Graphs /\ Array(n + 1, start) /\ Placed(n, n + 1, start) /\ Closed(n + 1, start)
  BY <1>1, GraphIs DEF Control
<1> QED BY <1>1, <1>2, RestoredIs

(* The batch ends, with the graph m, written back or given up.                 *)
LEMMA GivenUp ==
  ASSUME IInv, NEW v \in Verdicts \ {"none"}, Ends(v), NEW n, NEW q, n = ExitSerial(start),
         queue = <<>>, UNCHANGED <<start, plan, queue, intended, counted>>,
         restored' \in BOOLEAN, broken' \in BOOLEAN, Placed(n, q, mba'),
         restored' \/ v = "native_verify" \/ (broken' /\ v # "ok"),
         RestoredIsStart'
  PROVE  IInv'
<1>1. Control
  BY DEF IInv
<1>2. Control' /\ phase' = "done" /\ verdict' = v
  <2>1. Edits' = Edits
    BY SameStart
  <2> QED BY <1>1, <2>1 DEF Control, Ends, Verdicts
<1>3. broken' => queue' = <<>> /\ (restored' \/ verdict' # "ok")
  BY <1>2
<1>4. ~(~broken' /\ ~restored' /\ verdict' # "native_verify")
  BY <1>2
<1> QED BY <1>2, <1>3, <1>4, Rebuilt

LEMMA UndoBatchInv ==
  ASSUME IInv, UndoBatch
  PROVE  IInv'
<1>1. PICK n, q, r : n = ExitSerial(start) /\ q = Qty(mba) /\ r = RestoredSnapshot(mba)
  OBVIOUS
<1>2. /\ phase = "applying" /\ queue = <<>> /\ mba' = r.mba /\ restored' = TRUE
      /\ ~r.stopped /\ WellFormed(r.mba)
      /\ Ends("backend_apply")
      /\ UNCHANGED <<start, plan, queue, intended, counted, broken>>
  BY <1>1 DEF UndoBatch, Restorable
<1>3. /\ Control /\ n \in Nat /\ q \in Nat
      /\ start \in Graphs /\ Array(n + 1, start) /\ Placed(n, n + 1, start)
      /\ Closed(n + 1, start) /\ Placed(n, q, r.mba)
      /\ \A x \in 0..n : ToSet(r.mba[x].succ) = ToSet(start[x].succ)
  BY <1>1, <1>2, Undoing
<1>4. RestoredIsStart'
  <2> SUFFICES /\ \A s \in DOMAIN start' : ToSet(Outs(mba', s)) = ToSet(start'[s].succ)
               /\ Qty(mba') = Qty(start') =>
                    \A id \in DOMAIN Flow(start') : Flow(mba')[id] = Flow(start')[id]
    BY DEF RestoredIsStart
  <2> DEFINE m2 == r.mba
  <2>1. start' = start /\ mba' = m2 /\ WellFormed(m2) /\ Placed(n, q, m2)
        /\ \A x \in 0..n : ToSet(m2[x].succ) = ToSet(start[x].succ)
    BY <1>2, <1>3
  <2> HIDE DEF m2
  <2>2. DOMAIN m2 = 0..q-1 /\ Qty(m2) = q /\ n <= q - 1 /\ Closed(q, m2)
    BY <2>1, PlacedIs, WellFormedClosed
  <2>3. DOMAIN start = 0..n /\ Qty(start) = n + 1
    <3>1. DOMAIN start = 0..(n+1)-1 /\ Qty(start) = n + 1
      BY <1>3, ArrayIs
    <3> QED BY <1>3, <3>1
  <2>4. ASSUME NEW s \in DOMAIN start
        PROVE  ToSet(Outs(m2, s)) = ToSet(start[s].succ)
    <3>1. s \in 0..n /\ s \in DOMAIN m2
      BY <1>3, <2>2, <2>3
    <3>2. m2[s].succ = Outs(m2, s)
      BY <2>1, <3>1 DEF WellFormed, SuccMatchesTail
    <3> QED BY <2>1, <3>1, <3>2
  <2>5. ASSUME Qty(m2) = Qty(start)
        PROVE  \A id \in DOMAIN Flow(start) : Flow(m2)[id] = Flow(start)[id]
    <3>1. q = n + 1
      BY <2>2, <2>3, <2>5
    <3>2. Placed(n, n + 1, m2) /\ Closed(n + 1, m2)
      BY <2>1, <2>2, <3>1
    <3>3. Placed(n, n + 1, start) /\ Closed(n + 1, start)
      BY <1>3
    <3>4. \A x \in 0..n : ToSet(m2[x].succ) = ToSet(start[x].succ)
      BY <2>1
    <3>5. \A id \in DOMAIN Flow(start) : Flow(m2)[id] = Flow(start)[id]
      BY <3>2, <3>3, <3>4, SameFlow
    <3> QED BY <3>5
  <2> QED BY <2>1, <2>4, <2>5
<1>5. "backend_apply" \in Verdicts \ {"none"} /\ restored' \in BOOLEAN /\ broken' \in BOOLEAN
      /\ Placed(n, q, mba')
  BY <1>2, <1>3, AllVerdicts DEF Control
<1> QED BY <1>1, <1>2, <1>4, <1>5, GivenUp

LEMMA LeaveBatchInv ==
  ASSUME IInv, LeaveBatch
  PROVE  IInv'
<1>1. PICK n, q, r : n = ExitSerial(start) /\ q = Qty(mba) /\ r = RestoredSnapshot(mba)
  OBVIOUS
<1>2. /\ phase = "applying" /\ queue = <<>> /\ mba' = r.mba
      /\ Ends("native_verify")
      /\ UNCHANGED <<start, plan, queue, intended, counted, broken, restored>>
  BY <1>1 DEF LeaveBatch
<1>3. Control /\ ~restored /\ Placed(n, q, r.mba)
  BY <1>1, <1>2, Undoing
<1>4. RestoredIsStart'
  BY <1>2, <1>3 DEF RestoredIsStart
<1>5. "native_verify" \in Verdicts \ {"none"} /\ restored' \in BOOLEAN /\ broken' \in BOOLEAN
      /\ Placed(n, q, mba')
  BY <1>2, <1>3, AllVerdicts DEF Control
<1> QED BY <1>1, <1>2, <1>4, <1>5, GivenUp

LEMMA RecoverBatchInv ==
  ASSUME IInv, RecoverBatch
  PROVE  IInv'
<1>1. PICK n, q, r : n = ExitSerial(start) /\ q = Qty(mba) /\ r = RestoredSnapshot(mba)
  OBVIOUS
<1>2. /\ phase = "applying" /\ queue = <<>>
      /\ UNCHANGED <<start, plan, queue, intended, counted>>
  BY DEF RecoverBatch
<1>3. PICK run \in Cleanings(r.mba) :
        /\ mba' = run.mba
        /\ \/ restored' = TRUE /\ Ends("ok") /\ UNCHANGED broken
           \/ Ends("native_verify") /\ UNCHANGED <<broken, restored>>
           \/ broken' = TRUE /\ Ends("backend_apply") /\ UNCHANGED restored
  BY <1>1 DEF RecoverBatch
<1>4. Control /\ ~restored /\ Placed(n, q, r.mba)
  BY <1>1, <1>2, Undoing
<1>5. Placed(n, q, mba')
  BY <1>3, <1>4, CleaningPlaced
<1>6. restored' \in BOOLEAN /\ broken' \in BOOLEAN
  BY <1>3, <1>4 DEF Control
<1>7. {"ok", "native_verify", "backend_apply"} \subseteq Verdicts \ {"none"}
  BY AllVerdicts
<1>8. CASE restored' = TRUE /\ Ends("ok")
  <2>1. RestoredIsStart'
    BY <1>8 DEF RestoredIsStart, Ends
  <2> QED BY <1>1, <1>2, <1>5, <1>6, <1>7, <1>8, <2>1, GivenUp
<1>9. CASE Ends("native_verify") /\ UNCHANGED restored
  <2>1. RestoredIsStart'
    BY <1>4, <1>9 DEF RestoredIsStart
  <2> QED BY <1>1, <1>2, <1>5, <1>6, <1>7, <1>9, <2>1, GivenUp
<1>10. CASE broken' = TRUE /\ Ends("backend_apply") /\ UNCHANGED restored
  <2>1. RestoredIsStart'
    BY <1>4, <1>10 DEF RestoredIsStart
  <2> QED BY <1>1, <1>2, <1>5, <1>6, <1>7, <1>10, <2>1, GivenUp
<1> QED BY <1>3, <1>8, <1>9, <1>10

LEMMA InitInv ==
  ASSUME Init, PlainPlan
  PROVE  IInv
<1>1. /\ start \in Graphs /\ mba = start /\ queue = <<>> /\ intended = Flow(start) /\ counted = 0
      /\ ~broken /\ ~restored /\ broken \in BOOLEAN /\ restored \in BOOLEAN
      /\ phase = "planned" /\ verdict = "none"
      /\ plan \in UNION {[1..k -> Modifications(start)] : k \in 1..MaxPlan}
  BY DEF Init
<1>2. Len(plan) \in 1..MaxPlan /\ plan \in [1..Len(plan) -> Plainly(start)]
  <2>1. PICK k \in 1..MaxPlan : plan \in [1..k -> Modifications(start)]
    BY <1>1
  <2>2. k \in Nat /\ plan \in [1..k -> Plainly(start)]
    BY <2>1, Bound DEF PlainPlan, Plainly
  <2>3. Len(plan) = k
    BY <2>2, SequenceIs
  <2> QED BY <2>2, <2>3
<1> DEFINE n == ExitSerial(start)
<1>3. /\ n \in Nat /\ Array(n + 1, start) /\ Placed(n, n + 1, start) /\ Closed(n + 1, start)
      /\ Lives(n, n + 1, start, Flow(start))
  BY <1>1, GraphIs, StartLives
<1>4. Qty(mba) = n + 1
  BY <1>1, <1>3, ArrayIs
<1>5. queue \in Seq(Edits) /\ Len(queue) + counted <= Len(plan) /\ counted \in Nat
  <2>1. Len(queue) = 0 /\ queue \in Seq(Edits)
    BY <1>1
  <2> QED BY <1>1, <1>2, <2>1
<1>6. Control
  BY <1>1, <1>2, <1>5 DEF Control, Verdicts
<1>7. RestoredIsStart
  BY <1>1 DEF RestoredIsStart
<1> HIDE DEF n
<1>8. Placed(n, Qty(mba), mba) /\ Closed(Qty(mba), mba) /\ Flows(n, Qty(mba), mba, intended)
  BY <1>1, <1>3, <1>4 DEF Lives
<1> QED BY <1>1, <1>6, <1>7, <1>8 DEF IInv, n

LEMMA StutterInv ==
  ASSUME IInv, UNCHANGED vars
  PROVE  IInv'
<1>1. PICK n, q : n = ExitSerial(start) /\ q = Qty(mba)
  OBVIOUS
<1>2. UNCHANGED <<start, plan, mba, queue, intended, counted, broken, restored, phase, verdict>>
  BY DEF vars
<1> QED BY <1>2 DEF IInv, Control, Edits, Waiting, All, Item, RestoredIsStart

LEMMA Inductive ==
  ASSUME IInv, [Next]_vars
  PROVE  IInv'
<1>1. CASE RejectPlan
  BY <1>1, RejectPlanInv
<1>2. CASE CannotLower
  BY <1>2, CannotLowerInv
<1>3. CASE Lower
  BY <1>3, LowerInv
<1>4. CASE ApplyEdit
  BY <1>4, ApplyEditInv
<1>5. CASE RollBackEdit
  BY <1>5, RollBackEditInv
<1>6. CASE AbandonBatch
  BY <1>6, AbandonBatchInv
<1>7. CASE RefuseEdit
  BY <1>7, RefuseEditInv
<1>8. CASE EditRaises
  BY <1>8, EditRaisesInv
<1>9. CASE NothingApplied
  BY <1>9, NothingAppliedInv
<1>10. CASE Succeed
  BY <1>10, SucceedInv
<1>11. CASE UndoBatch
  BY <1>11, UndoBatchInv
<1>12. CASE LeaveBatch
  BY <1>12, LeaveBatchInv
<1>13. CASE RecoverBatch
  BY <1>13, RecoverBatchInv
<1>14. CASE UNCHANGED vars
  BY <1>14, StutterInv
<1> QED BY <1>1, <1>2, <1>3, <1>4, <1>5, <1>6, <1>7, <1>8, <1>9, <1>10, <1>11, <1>12, <1>13, <1>14
        DEF Next

(* The plan is what it was.                                                    *)
LEMMA PlanStays ==
  ASSUME [Next]_vars
  PROVE  PlainPlan' <=> PlainPlan
<1>1. start' = start /\ plan' = plan
  BY DEF Next, RejectPlan, CannotLower, Lower, ApplyEdit, RollBackEdit, AbandonBatch, RefuseEdit,
         EditRaises, NothingApplied, Succeed, UndoBatch, LeaveBatch, RecoverBatch, vars
<1> QED BY <1>1 DEF PlainPlan

LEMMA Invariance == Spec => [](PlainPlan => IInv)
<1>1. Init => (PlainPlan => IInv)
  BY InitInv
<1>2. (PlainPlan => IInv) /\ [Next]_vars => (PlainPlan => IInv)'
  BY Inductive, PlanStays
<1> QED BY <1>1, <1>2, PTL DEF Spec

-------------------------------------------------------------------------------
(* The theorems                                                                *)

(* Under a plain plan, however the edits end and whatever the cleaning makes   *)
(* of a graph that was not restored, it is an array of blocks whose identities *)
(* are told apart, the entry first, the exit last, of no more blocks than the  *)
(* plan may create, and no more edits are counted than the plan has.           *)
THEOREM GraphModifierTypes == Spec => [](PlainPlan => TypeOK)
<1>1. IInv => TypeOK
  <2> SUFFICES ASSUME IInv
               PROVE  TypeOK
    OBVIOUS
  <2>1. PICK n, q : n = ExitSerial(start) /\ q = Qty(mba)
    OBVIOUS
  <2>2. Control /\ Placed(n, q, mba)
    BY <2>1, InvariantIs
  <2>3. /\ n \in Nat /\ q \in Nat /\ 1 <= n /\ n <= q - 1 /\ Array(q, mba) /\ DOMAIN mba = 0..q-1
        /\ \A x \in 0..q-1 : mba[x].id = IdAt(n, q, x)
    BY <2>2, PlacedIs
  <2>4. \E k \in 2..MaxBlocks : DOMAIN mba = 0..k-1
    BY <2>3 DEF Array
  <2>5. \A s \in DOMAIN mba : mba[s] \in Blocks(MaxBlocks)
    BY <2>3 DEF Array
  <2>6. \A s, t \in DOMAIN mba : mba[s].id = mba[t].id => s = t
    <3>1. \A x, y \in 0..q-1 : IdAt(n, q, x) = IdAt(n, q, y) => x = y
      BY <2>3, IdIs
    <3> QED BY <2>3, <3>1
  <2>7. counted \in 0..MaxPlan
    <3>1. Len(plan) \in Nat /\ Len(plan) <= MaxPlan /\ MaxPlan \in Nat
      BY <2>1, <2>2, AllIs
    <3>2. Len(queue) \in Nat
      <4>1. queue \in Seq(Edits)
        BY <2>2 DEF Control
      <4> QED BY <4>1
    <3>3. counted \in Nat /\ Len(queue) + counted <= Len(plan)
      BY <2>2 DEF Control
    <3> QED BY <3>1, <3>2, <3>3
  <2> QED BY <2>2, <2>4, <2>5, <2>6, <2>7 DEF TypeOK, Control
<1> QED BY <1>1, Invariance, PTL

(* After any number of edits of a plain plan, control goes from every block    *)
(* where it went at the start, changed by the edits counted and by nothing     *)
(* else, although the exit block moves while serial numbers given out before   *)
(* still wait in the queue: as long as the verifier takes the batch as it is.  *)
THEOREM FlowFollowsEdits == Spec => []FlowIsAsCounted
<1>1. (PlainPlan => IInv) => FlowIsAsCounted
  <2> SUFFICES ASSUME IInv, verdict # "native_verify", ~restored, broken => verdict = "ok",
                      NEW id \in DOMAIN intended
               PROVE  Flow(mba)[id] = intended[id]
    BY DEF FlowIsAsCounted
  <2>1. PICK n, q : n = ExitSerial(start) /\ q = Qty(mba)
    OBVIOUS
  <2>2. /\ Placed(n, q, mba)
        /\ ~broken => Closed(q, mba) /\ Flows(n, q, mba, intended)
        /\ broken => restored \/ verdict # "ok"
    BY <2>1, InvariantIs
  <2>3. Closed(q, mba) /\ Flows(n, q, mba, intended)
    BY <2>2
  <2>4. /\ n \in Nat /\ q \in Nat /\ 1 <= n /\ n <= q - 1
    BY <2>2, PlacedIs
  <2>5. id \in 0..q-1
    BY <2>3 DEF Flows
  <2>6. PICK x \in 0..q-1 : IdAt(n, q, x) = id
    BY <2>4, <2>5, IdIs
  <2>7. intended[id] = Leads(n, q, mba, x)
    BY <2>3, <2>6 DEF Flows
  <2>8. Flow(mba)[IdAt(n, q, x)] = Leads(n, q, mba, x)
    BY <2>2, <2>3, FlowAt
  <2> QED BY <2>6, <2>7, <2>8
<1> QED BY <1>1, Invariance, PTL

(* A batch of a plain plan that was undone and verified leaves at every serial *)
(* number of the start graph an instruction that leads where the block there   *)
(* led then (_restore_from_snapshot writes by serial number); and if no block  *)
(* was created, control goes where it went.                                    *)
THEOREM RestoredGraph == Spec => [](PlainPlan => RestoredIsStart)
<1>1. IInv => RestoredIsStart
  BY DEF IInv
<1> QED BY <1>1, Invariance, PTL
===============================================================================
