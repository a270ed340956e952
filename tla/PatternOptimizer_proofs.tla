----------------------- MODULE PatternOptimizer_proofs -----------------------
(***************************************************************************)
(* What the storages find and what a replacement is made of, for every set *)
(* of rules, instructions and positions.                                   *)
(***************************************************************************)
EXTENDS PatternOptimizer, FiniteSetTheorems, TLAPS

-----------------------------------------------------------------------------
(* The storages                                                            *)

\* What having the shape of an instruction means at one place.
LEMMA ShapeAt ==
  ASSUME NEW s, NEW t, HasShape(s, t), NEW p \in Positions
  PROVE  /\ s[p] \in Opcodes => t[p] = s[p]
         /\ s[p] = "C" => t[p] = "C"
         /\ s[p] = "L" => t[p] # "N"
<1>1. CASE s[p] \in Opcodes
  <2>1. s[p] # "C" /\ s[p] # "L"
    BY <1>1, OpcodesAssumption DEF Wildcards
  <2> QED
    BY <1>1, <2>1 DEF HasShape
<1>2. CASE s[p] \notin Opcodes
  BY <1>2 DEF HasShape
<1> QED
  BY <1>1, <1>2

\* A pattern that has an instruction leaf for leaf puts the same operators
\* and leaves at the same places.
LEMMA SamePlaces ==
  ASSUME NEW s \in Trees, NEW t \in Trees, HasShape(s, t), LeafForLeaf(s, t)
  PROVE  /\ Walk(s) = Walk(t)
         /\ Nodes(s) = Nodes(t)
         /\ Leaves(s) = Leaves(t)
         /\ Constants(s) \subseteq Constants(t)
<1>1. \A p \in Positions : OpcodeAt(s, p) = OpcodeAt(t, p)
  BY ShapeAt DEF LeafForLeaf, OpcodeAt
<1>2. Walk(s) = Walk(t)
  BY <1>1, PositionsAssumption DEF Walk
<1>3. Nodes(s) = Nodes(t)
  BY DEF LeafForLeaf, Nodes
<1>4. \A p \in Positions : s[p] \in {"L", "C"} <=> t[p] \in {"L", "C"}
  BY OpcodesAssumption DEF LeafForLeaf, Trees, Labels, Wildcards
<1>5. Leaves(s) = Leaves(t)
  BY <1>4 DEF Leaves
<1>6. Constants(s) \subseteq Constants(t)
  BY ShapeAt DEF Constants
<1> QED
  BY <1>2, <1>3, <1>5, <1>6

\* The fingerprint of the indexed storage never rejects such a pattern.
THEOREM IndexFindsLeafMatches ==
  ASSUME NEW stored, NEW s \in stored, s \in Trees, NEW t \in Trees,
         HasShape(s, t), LeafForLeaf(s, t)
  PROVE  s \in IndexedCandidates(stored, t)
<1>1. /\ Walk(s) = Walk(t) /\ Nodes(s) = Nodes(t) /\ Leaves(s) = Leaves(t)
      /\ Constants(s) \subseteq Constants(t)
  BY SamePlaces
<1>2. RootOpcode(s) = RootOpcode(t)
  BY PositionsAssumption, ShapeAt DEF RootOpcode, OpcodeAt, LeafForLeaf
<1>3. OpcodeHash(s) = OpcodeHash(t)
  BY <1>1 DEF OpcodeHash
<1>4. Depth(s) = Depth(t)
  BY <1>1 DEF Depth
<1>5. Cardinality(Constants(s)) <= Cardinality(Constants(t))
  <2>1. IsFiniteSet(Constants(t))
    BY PositionsAssumption, FS_Subset DEF Constants
  <2> QED
    BY <1>1, <2>1, FS_Subset
<1>6. /\ Cardinality(Nodes(s)) <= Cardinality(Nodes(s))
      /\ CompatibleWith(s, t)
  <2>1. IsFiniteSet(Nodes(s))
    BY PositionsAssumption, FS_Subset DEF Nodes
  <2> QED
    BY <1>1, <1>3, <1>4, <1>5, <2>1, FS_CardinalityType DEF CompatibleWith
<1> QED
  BY <1>2, <1>6 DEF IndexedCandidates

\* The layered storage compares every key of a layer or only generates the
\* variations of the instruction.  Comparing keys never misses a pattern of
\* the right shape, whatever its leaves stand for.
THEOREM ScanMissesNothing ==
  ASSUME NEW s \in Trees, NEW t \in Trees, HasShape(s, t), NEW d \in Depths
  PROVE  Compatible(Signature(t, d), Signature(s, d))
<1>1. SUFFICES ASSUME NEW p \in Positions
               PROVE  s[p] \in Wildcards \/ s[p] = t[p]
  BY <1>1 DEF Compatible, Signature
<1> QED
  BY ShapeAt DEF Trees, Labels

\* Either way, a pattern that has the instruction leaf for leaf is found.
THEOREM LayersFindLeafMatches ==
  ASSUME NEW stored, NEW s \in stored, s \in Trees, NEW t \in Trees,
         HasShape(s, t), LeafForLeaf(s, t)
  PROVE  s \in LegacyCandidates(stored, t)
<1>1. SUFFICES ASSUME NEW d \in Depths
               PROVE  ExploreOneLevel(stored, s, t, d)
  BY <1>1 DEF LegacyCandidates
<1>2. Compatible(Signature(t, d), Signature(s, d))
  BY ScanMissesNothing
<1>3. VariationOf(Signature(s, d), Signature(t, d))
  <2>1. SUFFICES ASSUME NEW p \in Positions
                 PROVE  s[p] = t[p] \/ (s[p] = "L" /\ t[p] \notin {"L", "N"})
    BY <2>1 DEF VariationOf, Signature
  <2> QED
    BY ShapeAt DEF LeafForLeaf, Trees, Labels, Wildcards
<1> QED
  BY <1>2, <1>3 DEF ExploreOneLevel

\* Whichever storage the flags choose.
LEMMA CandidatesHoldLeafMatches ==
  ASSUME NEW stored, NEW s \in stored, s \in Trees, NEW t \in Trees, NEW fl,
         HasShape(s, t), LeafForLeaf(s, t)
  PROVE  s \in GetCandidates(stored, t, fl)
BY IndexFindsLeafMatches, LayersFindLeafMatches DEF GetCandidates

-----------------------------------------------------------------------------
(* Types                                                                   *)

\* A pattern names a rule, and its tree is one of labels, whatever it holds.
LEMMA PatternTypes ==
  ASSUME NEW pat \in Patterns
  PROVE  /\ pat.rule \in Rules
         /\ \A p \in Positions :
              TreeOf[pat][p] \in Opcodes \cup VarNames \cup ConstNames \cup {"N"}
<1>1. pat.rule \in Rules
  BY DEF Patterns
<1>2. SUFFICES ASSUME NEW p \in Positions
               PROVE  TreeOf[pat][p] \in Opcodes \cup VarNames \cup ConstNames \cup {"N"}
  BY <1>1, <1>2
<1>3. Unswapped(p, pat.swapped) \in Positions
  BY SwapAssumption
<1> QED
  BY <1>1, <1>3, RulesAssumption DEF TreeOf

LEMMA LabelTypes ==
  ASSUME NEW token \in Opcodes \cup VarNames \cup ConstNames \cup {"N"}
  PROVE  /\ LabelOf(token) \in Labels
         /\ LabelOf(token) = "L" <=> token \in VarNames
         /\ LabelOf(token) = "C" <=> token \in ConstNames
<1>1. CASE token \in VarNames
  <2>1. token \notin ConstNames
    BY <1>1, RulesAssumption
  <2>2. LabelOf(token) = "L"
    BY <1>1, <2>1 DEF LabelOf
  <2> QED
    BY <1>1, <2>1, <2>2 DEF Labels, Wildcards
<1>2. CASE token \in ConstNames
  <2>1. token \notin VarNames
    BY <1>2, RulesAssumption
  <2>2. LabelOf(token) = "C"
    BY <1>2, <2>1 DEF LabelOf
  <2> QED
    BY <1>2, <2>1, <2>2 DEF Labels, Wildcards
<1>3. CASE token \notin VarNames \cup ConstNames
  <2>1. LabelOf(token) = token
    BY <1>3 DEF LabelOf
  <2>2. token \in Opcodes \cup {"N"}
    BY <1>3
  <2> QED
    BY <1>3, <2>1, <2>2, OpcodesAssumption DEF Labels, Wildcards
<1> QED
  BY <1>1, <1>2, <1>3

LEMMA ShapeTypes ==
  ASSUME NEW pat \in Patterns
  PROVE  /\ ShapeOf[pat] \in Trees
         /\ ShapeNow(pat) \in Trees
<1>1. \A p \in Positions : LabelOf(TreeOf[pat][p]) \in Labels
  BY PatternTypes, LabelTypes
<1>2. "C" \in Labels
  BY DEF Labels, Wildcards
<1> QED
  BY <1>1, <1>2 DEF ShapeOf, ShapeNow, Trees

\* The leaves of a pattern are its variables and its constants.
LEMMA LeafTypes ==
  ASSUME NEW pat \in Patterns
  PROVE  /\ ConstantsOf[pat] = {p \in Positions : TreeOf[pat][p] \in ConstNames}
         /\ LeavesOf[pat] = {p \in Positions : TreeOf[pat][p] \in VarNames \cup ConstNames}
<1>1. \A p \in Positions :
         /\ ShapeOf[pat][p] = LabelOf(TreeOf[pat][p])
         /\ ShapeOf[pat][p] = "L" <=> TreeOf[pat][p] \in VarNames
         /\ ShapeOf[pat][p] = "C" <=> TreeOf[pat][p] \in ConstNames
  BY PatternTypes, LabelTypes DEF ShapeOf
<1> QED
  BY <1>1 DEF ConstantsOf, LeavesOf, Constants, Leaves

-----------------------------------------------------------------------------
(* One match                                                               *)

\* A literal is never unpinned.
LiteralsPinned ==
  \A pat \in Patterns : \A p \in ConstantsOf[pat] :
    Literal[TreeOf[pat][p]] # NoValue => pinned[pat][p] = Literal[TreeOf[pat][p]]

\* Every constant of the pattern has been compared with one.
Pinned(pat) == \A p \in ConstantsOf[pat] : pinned[pat][p] # NoValue

\* What a computed leaf of a replacement holds is what some pattern of the
\* rule is pinned to.
FromPins(rule, n, value) ==
  \E pat \in {x \in Patterns : x.rule = rule} :
    Pinned(pat) /\ value = Compute(rule, n, PinnedConstants(pat))

ComputedPinned ==
  \A r \in Rules : \A n \in ReplacementOf[r] \cap ComputedOf[r] :
    cached[r][n] # NoValue => FromPins(r, n, cached[r][n])

\* A match says of the instruction what a pattern never used would: a pin
\* only ever excludes more.
LEMMA MatchIsFresh ==
  ASSUME LiteralsPinned, NEW pattern \in Patterns, NEW subject,
         MatchesNow(pattern, subject)
  PROVE  AcceptsAfresh(pattern, subject)
<1>1. \A p \in Positions : ~Mismatch(pattern, subject, p)
  BY DEF MatchesNow
<1>2. \A p \in Positions : ShapeOf[pattern][p] = LabelOf(TreeOf[pattern][p])
  BY DEF ShapeOf
<1>3. HasShape(ShapeOf[pattern], subject.shape)
  BY <1>1, <1>2 DEF Mismatch, HasShape
<1>4. ASSUME NEW p \in ConstantsOf[pattern]
      PROVE  Literal[TreeOf[pattern][p]] \in {NoValue, subject.value[p]}
  <2>1. p \in Positions /\ LabelOf(TreeOf[pattern][p]) = "C"
    BY <1>2 DEF ConstantsOf, Constants
  <2>2. pinned[pattern][p] \in {NoValue, subject.value[p]}
    BY <1>1, <2>1 DEF Mismatch
  <2> QED
    BY <2>2, <1>4 DEF LiteralsPinned
<1> QED
  BY <1>3, <1>4 DEF AcceptsAfresh, MatchesNow

\* A match pins every constant of the pattern to that of the instruction.
LEMMA MatchPins ==
  ASSUME NEW pattern \in Patterns, NEW subject \in Subjects,
         MatchesNow(pattern, subject),
         pinned[pattern] = [p \in ConstantsOf[pattern] |-> pinned[pattern][p]]
  PROVE  /\ DOMAIN PinnedAfter(pattern, subject) = ConstantsOf[pattern]
         /\ \A p \in ConstantsOf[pattern] :
              /\ PinnedAfter(pattern, subject)[p] = subject.value[p]
              /\ subject.value[p] # NoValue
<1>1. DOMAIN pinned[pattern] = ConstantsOf[pattern]
  OBVIOUS
<1>2. DOMAIN PinnedAfter(pattern, subject) = ConstantsOf[pattern]
  BY <1>1 DEF PinnedAfter
<1>3. ASSUME NEW p \in ConstantsOf[pattern]
      PROVE  /\ PinnedAfter(pattern, subject)[p] = subject.value[p]
             /\ subject.value[p] # NoValue
  <2>1. p \in Positions /\ LabelOf(TreeOf[pattern][p]) = "C"
    BY DEF ConstantsOf, Constants, ShapeOf
  <2>2. /\ subject.shape[p] = "C"
        /\ pinned[pattern][p] \in {NoValue, subject.value[p]}
    BY <2>1 DEF MatchesNow, Mismatch
  <2>3. subject.value[p] # NoValue
    BY <2>1, <2>2, SubjectsAssumption DEF Constants
  <2>4. p \in Copied(pattern, subject)
    <3>1. \A i \in DOMAIN Preorder : ~Mismatch(pattern, subject, Preorder[i])
      BY PositionsAssumption DEF MatchesNow
    <3> QED
      BY <3>1, <2>1, PositionsAssumption DEF Copied
  <2> QED
    BY <1>1, <2>2, <2>3, <2>4 DEF PinnedAfter
<1> QED
  BY <1>2, <1>3

\* The constants matched are among those pinned.
LEMMA PlaceOfConstant ==
  ASSUME NEW pat \in Patterns, NEW n \in NamesOf(pat)
  PROVE  /\ PlaceOf(pat, n) \in LeavesOf[pat]
         /\ TreeOf[pat][PlaceOf(pat, n)] = n
         /\ n \in ConstNames => PlaceOf(pat, n) \in ConstantsOf[pat]
<1>1. \E p \in LeavesOf[pat] : TreeOf[pat][p] = n
  BY DEF NamesOf
<1>2. PlaceOf(pat, n) \in LeavesOf[pat] /\ TreeOf[pat][PlaceOf(pat, n)] = n
  BY <1>1 DEF PlaceOf
<1> QED
  BY <1>2, LeafTypes

\* Pins that are set stay as they are when a pattern is tried.
LEMMA PinsStay ==
  ASSUME TypeOK, NEW pattern \in Patterns, NEW subject,
         pinned' = [pinned EXCEPT ![pattern] = PinnedAfter(pattern, subject)],
         NEW pat \in Patterns, Pinned(pat)
  PROVE  /\ Pinned(pat)'
         /\ PinnedConstants(pat)' = PinnedConstants(pat)
<1>1. DOMAIN pinned = Patterns /\ DOMAIN pinned[pat] = ConstantsOf[pat]
  BY DEF TypeOK
<1>2. \A p \in ConstantsOf[pat] : pinned'[pat][p] = pinned[pat][p]
  BY <1>1 DEF Pinned, PinnedAfter
<1>3. Pinned(pat)'
  BY <1>2 DEF Pinned
<1>4. \A n \in NamesOf(pat) \cap ConstNames :
         pinned'[pat][PlaceOf(pat, n)] = pinned[pat][PlaceOf(pat, n)]
  BY <1>2, PlaceOfConstant
<1>5. PinnedConstants(pat)' = PinnedConstants(pat)
  BY <1>4 DEF PinnedConstants
<1> QED
  BY <1>3, <1>5

LEMMA FromPinsStays ==
  ASSUME TypeOK, NEW pattern \in Patterns, NEW subject,
         pinned' = [pinned EXCEPT ![pattern] = PinnedAfter(pattern, subject)],
         NEW r, NEW n, NEW value, FromPins(r, n, value)
  PROVE  FromPins(r, n, value)'
<1>1. PICK pat \in {x \in Patterns : x.rule = r} :
        Pinned(pat) /\ value = Compute(r, n, PinnedConstants(pat))
  BY DEF FromPins
<1>2. Pinned(pat)' /\ PinnedConstants(pat)' = PinnedConstants(pat)
  BY <1>1, PinsStay
<1>3. value = Compute(r, n, PinnedConstants(pat)')
  BY <1>1, <1>2
<1> QED
  BY <1>1, <1>2, <1>3 DEF FromPins

\* After a match the pattern is a witness of what is computed from it.
LEMMA MatchComputes ==
  ASSUME TypeOK, NEW pattern \in Patterns, NEW subject \in Subjects,
         MatchesNow(pattern, subject),
         pinned' = [pinned EXCEPT ![pattern] = PinnedAfter(pattern, subject)],
         NEW n, NEW value,
         value = Compute(pattern.rule, n, MatchedConstants(pattern, subject))
  PROVE  FromPins(pattern.rule, n, value)'
<1>1. /\ pinned[pattern] = [p \in ConstantsOf[pattern] |-> pinned[pattern][p]]
      /\ pinned'[pattern] = PinnedAfter(pattern, subject)
  BY DEF TypeOK
<1>2. \A p \in ConstantsOf[pattern] :
         pinned'[pattern][p] = subject.value[p] /\ subject.value[p] # NoValue
  BY <1>1, MatchPins
<1>3. Pinned(pattern)'
  BY <1>2 DEF Pinned
<1>4. PinnedConstants(pattern)' = MatchedConstants(pattern, subject)
  BY <1>2, PlaceOfConstant DEF PinnedConstants, MatchedConstants
<1> QED
  BY <1>3, <1>4 DEF FromPins

-----------------------------------------------------------------------------
(* The invariant                                                           *)

\* Whatever was emitted last is right about the instruction it replaced.
EmittedOK ==
  /\ ReplacedOnlyByItsRule
  /\ OperandsOfThisMatch
  /\ ComputedFollowsPins

IInv == TypeOK /\ LiteralsPinned /\ ComputedPinned /\ EmittedOK

LEMMA NothingEmitted ==
  ASSUME emitted' = NoCall
  PROVE  EmittedOK'
BY DEF EmittedOK, ReplacedOnlyByItsRule, OperandsOfThisMatch, ComputedFollowsPins

\* New adapters: nothing is pinned but the literals, nothing computed.
LEMMA FreshAdapters ==
  ASSUME pinned' = FreshPins, cached' = FreshReplacements
  PROVE  LiteralsPinned' /\ ComputedPinned'
<1>1. LiteralsPinned'
  BY DEF FreshPins, LiteralsPinned
<1>2. ComputedPinned'
  BY DEF FreshReplacements, ComputedPinned
<1> QED
  BY <1>1, <1>2

LEMMA InitInvariant == Init => IInv
<1> SUFFICES ASSUME Init PROVE IInv
  OBVIOUS
<1>1. TypeOK
  BY DEF Init, TypeOK, FreshPins, FreshReplacements
<1>2. LiteralsPinned /\ ComputedPinned
  BY DEF Init, FreshPins, FreshReplacements, LiteralsPinned, ComputedPinned
<1>3. EmittedOK
  BY DEF Init, EmittedOK, ReplacedOnlyByItsRule, OperandsOfThisMatch, ComputedFollowsPins
<1> QED
  BY <1>1, <1>2, <1>3 DEF IInv

LEMMA CandidateTypes ==
  ASSUME store \subseteq [pattern : Patterns, shape : Trees], NEW subject, NEW active
  PROVE  Candidates(Found(subject), active) \subseteq Patterns
BY DEF Candidates, Found

\* One try of a candidate.
LEMMA TryInvariant ==
  ASSUME IInv, work # NoCall, NEW pattern \in work.todo, Try(pattern),
         NEW subject, subject = work.subject
  PROVE  IInv'
<1> DEFINE matched == MatchesNow(pattern, subject)
           filled == CachedAfter(pattern, subject)
           rule == pattern.rule
<1>1. /\ TypeOK /\ LiteralsPinned /\ ComputedPinned /\ EmittedOK
      /\ work \in Calls
      /\ subject \in Subjects
      /\ pattern \in Patterns
  BY DEF IInv, TypeOK, Calls
<1>2. /\ pinned' = [pinned EXCEPT ![pattern] = PinnedAfter(pattern, subject)]
      /\ held' = [held EXCEPT ![pattern] = HeldAfter(pattern, subject)]
      /\ cached' = IF matched THEN [cached EXCEPT ![rule] = filled] ELSE cached
      /\ store' = store /\ flags' = flags
  BY DEF Try
<1>3. \/ /\ matched /\ Fillable(pattern)
         /\ emitted' = [pattern |-> pattern, subject |-> subject, leaves |-> filled]
         /\ work' = NoCall
      \/ /\ emitted' = emitted
         /\ work' = [work EXCEPT !.todo = @ \ {pattern}]
  BY DEF Try
<1>4. rule \in Rules /\ DOMAIN pinned = Patterns /\ DOMAIN cached = Rules
  BY <1>1, PatternTypes DEF TypeOK
<1> HIDE DEF matched, filled
<1>5. TypeOK'
  <2>1. pinned' = [pat \in Patterns |-> [p \in ConstantsOf[pat] |-> pinned'[pat][p]]]
    <3>1. pinned = [pat \in Patterns |-> [p \in ConstantsOf[pat] |-> pinned[pat][p]]]
      BY <1>1 DEF TypeOK
    <3>2. DOMAIN pinned[pattern] = ConstantsOf[pattern]
      BY <1>1, <3>1
    <3>3. PinnedAfter(pattern, subject)
            = [p \in ConstantsOf[pattern] |-> PinnedAfter(pattern, subject)[p]]
      BY <3>2 DEF PinnedAfter
    <3> QED
      BY <1>2, <3>1, <3>3
  <2>2. HeldAfter(pattern, subject) \subseteq LeavesOf[pattern] \ ConstantsOf[pattern]
    <3>1. Copied(pattern, subject) \subseteq Positions
      BY PositionsAssumption DEF Copied
    <3> QED
      BY <1>1, <3>1, LeafTypes, RulesAssumption DEF HeldAfter
  <2>3. HeldAfter(pattern, subject) \subseteq Positions
    BY <1>1, <2>2, LeafTypes
  <2>4. held' \in [Patterns -> SUBSET Positions]
    BY <1>1, <1>2, <2>3 DEF TypeOK
  <2>5. \A pat \in Patterns : held'[pat] \subseteq LeavesOf[pat] \ ConstantsOf[pat]
    BY <1>1, <1>2, <2>2 DEF TypeOK
  <2>6. cached' = [r \in Rules |-> [n \in ReplacementOf[r] |-> cached'[r][n]]]
    <3>1. cached = [r \in Rules |-> [n \in ReplacementOf[r] |-> cached[r][n]]]
      BY <1>1 DEF TypeOK
    <3>2. filled = [n \in ReplacementOf[rule] |-> filled[n]]
      BY DEF filled, CachedAfter
    <3>3. CASE matched
      BY <1>2, <1>4, <3>1, <3>2, <3>3
    <3>4. CASE ~matched
      BY <1>2, <3>1, <3>4
    <3> QED
      BY <3>3, <3>4
  <2>7. work' \in Calls \cup {NoCall}
    BY <1>1, <1>3 DEF Calls
  <2>8. emitted' # NoCall => emitted'.pattern \in Patterns /\ emitted'.subject \in Subjects
    BY <1>1, <1>3 DEF TypeOK
  <2> QED
    BY <1>1, <1>2, <2>1, <2>4, <2>5, <2>6, <2>7, <2>8 DEF TypeOK
<1>6. LiteralsPinned'
  <2>1. SUFFICES ASSUME NEW pat \in Patterns, NEW p \in ConstantsOf[pat],
                        Literal[TreeOf[pat][p]] # NoValue
                 PROVE  pinned'[pat][p] = Literal[TreeOf[pat][p]]
    BY <2>1 DEF LiteralsPinned
  <2>2. pinned[pat][p] = Literal[TreeOf[pat][p]]
    BY <1>1, <2>1 DEF LiteralsPinned
  <2>3. DOMAIN pinned[pat] = ConstantsOf[pat]
    BY <1>1 DEF TypeOK
  <2> QED
    BY <1>2, <1>4, <2>1, <2>2, <2>3 DEF PinnedAfter
<1>7. ASSUME matched, NEW n \in ReplacementOf[rule] \cap ComputedOf[rule],
             NEW value, value = filled[n], Fillable(pattern) \/ value # NoValue
      PROVE  FromPins(rule, n, value)'
  <2>1. n \notin NamesOf(pattern)
    BY <1>1, ComputedAssumption
  <2>2. CASE Fillable(pattern) /\ cached[rule][n] = NoValue
    <3>1. filled[n] = Compute(rule, n, MatchedConstants(pattern, subject))
      BY <2>1, <2>2 DEF filled, CachedAfter
    <3> QED
      BY <1>1, <1>2, <1>7, <3>1, MatchComputes DEF matched
  <2>3. CASE ~(Fillable(pattern) /\ cached[rule][n] = NoValue)
    <3>1. filled[n] = cached[rule][n]
      BY <2>1, <2>3 DEF filled, CachedAfter
    <3>2. FromPins(rule, n, value)
      BY <1>1, <1>4, <1>7, <2>3, <3>1 DEF ComputedPinned
    <3> QED
      BY <1>1, <1>2, <3>2, FromPinsStays
  <2> QED
    BY <2>2, <2>3
<1>8. ComputedPinned'
  <2>1. SUFFICES ASSUME NEW r \in Rules, NEW n \in ReplacementOf[r] \cap ComputedOf[r],
                        NEW value, value = cached'[r][n], value # NoValue
                 PROVE  FromPins(r, n, value)'
    BY <2>1 DEF ComputedPinned, FromPins
  <2>2. CASE matched /\ r = rule
    <3>1. cached'[r][n] = filled[n]
      BY <1>2, <1>4, <2>2
    <3> QED
      BY <1>7, <2>1, <2>2, <3>1
  <2>3. CASE ~(matched /\ r = rule)
    <3>1. cached'[r][n] = cached[r][n]
      BY <1>2, <1>4, <2>3
    <3>2. FromPins(r, n, value)
      BY <1>1, <2>1, <3>1 DEF ComputedPinned
    <3> QED
      BY <1>1, <1>2, <3>1, <3>2, FromPinsStays
  <2> QED
    BY <2>2, <2>3
<1>9. EmittedOK'
  <2>1. CASE emitted' = emitted
    <3>1. ReplacedOnlyByItsRule' /\ OperandsOfThisMatch'
      BY <1>1, <2>1 DEF EmittedOK, ReplacedOnlyByItsRule, OperandsOfThisMatch
    <3>2. ASSUME emitted # NoCall, NEW r, r = emitted.pattern.rule,
                 NEW n \in DOMAIN emitted.leaves \cap ComputedOf[r],
                 NEW value, value = emitted.leaves[n]
          PROVE  FromPins(r, n, value)'
      <4>1. FromPins(r, n, value)
        BY <1>1, <3>2 DEF EmittedOK, ComputedFollowsPins, FromPins, Pinned
      <4> QED
        BY <1>1, <1>2, <4>1, FromPinsStays
    <3>3. ComputedFollowsPins'
      BY <2>1, <3>2 DEF ComputedFollowsPins, FromPins, Pinned
    <3> QED
      BY <3>1, <3>3 DEF EmittedOK
  <2>2. CASE /\ matched /\ Fillable(pattern)
             /\ emitted' = [pattern |-> pattern, subject |-> subject, leaves |-> filled]
    <3>1. /\ emitted'.pattern = pattern /\ emitted'.subject = subject
          /\ emitted'.leaves = filled
      BY <2>2
    <3>2. AcceptsAfresh(pattern, subject) /\ EqualNames(pattern, subject)
      BY <1>1, <2>2, MatchIsFresh DEF matched, MatchesNow
    <3>3. ReplacedOnlyByItsRule'
      BY <3>1, <3>2 DEF ReplacedOnlyByItsRule
    <3>4. DOMAIN filled = ReplacementOf[rule]
      BY DEF filled, CachedAfter
    <3>5. ASSUME NEW n \in DOMAIN filled \cap NamesOf(pattern),
                 NEW p \in LeavesOf[pattern], TreeOf[pattern][p] = n
          PROVE  filled[n] = Operand(subject, p)
      <4>1. filled[n] = Operand(subject, PlaceOf(pattern, n))
        BY <3>4 DEF filled, CachedAfter
      <4>2. /\ PlaceOf(pattern, n) \in LeavesOf[pattern]
            /\ TreeOf[pattern][PlaceOf(pattern, n)] = n
        BY <1>1, PlaceOfConstant
      <4> QED
        BY <3>2, <3>5, <4>1, <4>2 DEF EqualNames
    <3>6. OperandsOfThisMatch'
      BY <3>1, <3>5 DEF OperandsOfThisMatch
    <3>7. ASSUME NEW n \in ReplacementOf[rule] \cap ComputedOf[rule],
                 NEW value, value = filled[n]
          PROVE  FromPins(rule, n, value)'
      BY <1>7, <2>2, <3>7
    <3>8. ComputedFollowsPins'
      BY <3>1, <3>4, <3>7 DEF ComputedFollowsPins, FromPins, Pinned
    <3> QED
      BY <3>3, <3>6, <3>8 DEF EmittedOK
  <2> QED
    BY <1>3, <2>1, <2>2
<1> QED
  BY <1>5, <1>6, <1>8, <1>9 DEF IInv

\* What no step of matching touches stays pinned.
LEMMA FromPinsUnchanged ==
  ASSUME pinned' = pinned, NEW r, NEW n, NEW value, FromPins(r, n, value)
  PROVE  FromPins(r, n, value)'
<1>1. PICK pat \in {x \in Patterns : x.rule = r} :
        Pinned(pat) /\ value = Compute(r, n, PinnedConstants(pat))
  BY DEF FromPins
<1>2. PinnedConstants(pat)' = PinnedConstants(pat)
  BY DEF PinnedConstants
<1>3. Pinned(pat)'
  BY <1>1 DEF Pinned
<1> QED
  BY <1>1, <1>2, <1>3 DEF FromPins

\* Steps that leave the adapters alone, and what was emitted too or forget it.
LEMMA AdaptersAlone ==
  ASSUME IInv, UNCHANGED adapters, emitted' = emitted \/ emitted' = NoCall
  PROVE  LiteralsPinned' /\ ComputedPinned' /\ EmittedOK'
<1>1. pinned' = pinned /\ held' = held /\ cached' = cached
  BY DEF adapters
<1>2. LiteralsPinned'
  BY <1>1 DEF IInv, LiteralsPinned
<1>3. ComputedPinned'
  <2>1. SUFFICES ASSUME NEW r \in Rules, NEW n \in ReplacementOf[r] \cap ComputedOf[r],
                        NEW value, value = cached[r][n], value # NoValue
                 PROVE  FromPins(r, n, value)'
    BY <1>1, <2>1 DEF ComputedPinned, FromPins
  <2> QED
    BY <1>1, <2>1, FromPinsUnchanged DEF IInv, ComputedPinned
<1>4. CASE emitted' = emitted
  <2>1. ReplacedOnlyByItsRule' /\ OperandsOfThisMatch'
    BY <1>4 DEF IInv, EmittedOK, ReplacedOnlyByItsRule, OperandsOfThisMatch
  <2>2. ASSUME emitted # NoCall, NEW r, r = emitted.pattern.rule,
               NEW n \in DOMAIN emitted.leaves \cap ComputedOf[r],
               NEW value, value = emitted.leaves[n]
        PROVE  FromPins(r, n, value)'
    <3>1. FromPins(r, n, value)
      BY <2>2 DEF IInv, EmittedOK, ComputedFollowsPins, FromPins, Pinned
    <3> QED
      BY <1>1, <3>1, FromPinsUnchanged
  <2>3. ComputedFollowsPins'
    BY <1>4, <2>2 DEF ComputedFollowsPins, FromPins, Pinned
  <2> QED
    BY <1>2, <1>3, <2>1, <2>3 DEF EmittedOK
<1>5. CASE emitted' = NoCall
  BY <1>2, <1>3, <1>5, NothingEmitted
<1> QED
  BY <1>4, <1>5

\* The invariant is kept by every step.
LEMMA NextInvariant == IInv /\ [Next]_vars => IInv'
<1> SUFFICES ASSUME IInv, [Next]_vars PROVE IInv'
  OBVIOUS
<1>0. TypeOK
  BY DEF IInv
<1>1. CASE Reload
  <2>1. TypeOK'
    BY <1>0, <1>1 DEF TypeOK, Reload, FreshPins, FreshReplacements
  <2>2. LiteralsPinned' /\ ComputedPinned' /\ EmittedOK'
    BY <1>1, FreshAdapters, NothingEmitted DEF Reload
  <2> QED
    BY <2>1, <2>2 DEF IInv
<1>2. ASSUME NEW rules \in SUBSET Rules, Start(rules)
      PROVE  IInv'
  <2>1. store' \subseteq [pattern : Patterns, shape : Trees]
    BY <1>2, ShapeTypes DEF Start
  <2>2. TypeOK'
    BY <1>0, <1>2, <2>1 DEF TypeOK, Start, adapters
  <2> QED
    BY <1>2, <2>2, AdaptersAlone DEF IInv, Start
<1>3. ASSUME NEW subject \in Subjects, Call(subject)
      PROVE  IInv'
  <2>1. PICK active \in SUBSET {e.pattern.rule : e \in store},
             traced \in Subjects \cup {NoCall} :
          work' = [subject |-> subject, active |-> active, traced |-> traced,
                   todo |-> Candidates(Found(subject), active)]
    BY <1>3 DEF Call
  <2>2. active \subseteq Rules
    BY <1>0, PatternTypes DEF TypeOK
  <2>3. Candidates(Found(subject), active) \subseteq Patterns
    BY <1>0, CandidateTypes DEF TypeOK
  <2>4. TypeOK'
    BY <1>0, <1>3, <2>1, <2>2, <2>3 DEF TypeOK, Call, Calls, adapters
  <2> QED
    BY <1>3, <2>4, AdaptersAlone DEF IInv, Call
<1>4. ASSUME work # NoCall, NEW pattern \in work.todo, Try(pattern)
      PROVE  IInv'
  BY <1>4, TryInvariant
<1>5. CASE work # NoCall /\ TryTraced
  <2>1. work \in Calls /\ work.traced \in Subjects
    BY <1>0, <1>5 DEF TypeOK, Calls, TryTraced
  <2>2. Candidates(Found(work.traced), work.active) \subseteq Patterns
    BY <1>0, CandidateTypes DEF TypeOK
  <2>3. TypeOK'
    BY <1>0, <1>5, <2>1, <2>2 DEF TypeOK, TryTraced, Calls, adapters
  <2> QED
    BY <1>5, <2>3, AdaptersAlone DEF IInv, TryTraced
<1>6. CASE Keep
  <2>1. TypeOK'
    BY <1>0, <1>6 DEF TypeOK, Keep, adapters
  <2> QED
    BY <1>6, <2>1, AdaptersAlone DEF IInv, Keep
<1>7. CASE UNCHANGED vars
  <2>1. TypeOK'
    BY <1>0, <1>7 DEF TypeOK, vars, adapters
  <2> QED
    BY <1>7, <2>1, AdaptersAlone DEF IInv, vars
<1> QED
  BY <1>1, <1>2, <1>3, <1>4, <1>5, <1>6, <1>7 DEF Next

-----------------------------------------------------------------------------
(* Theorems                                                                *)

\* In every reachable state the literals are pinned to their values, what is
\* computed follows the pins, and what was emitted last is right.
THEOREM Invariant == Spec => []IInv
BY InitInvariant, NextInvariant, PTL DEF Spec

\* The optimizer's state and that of its adapters keep their types.
THEOREM TypeCorrect == Spec => []TypeOK
<1>1. IInv => TypeOK
  BY DEF IInv
<1> QED
  BY Invariant, <1>1, PTL

\* Whatever matches came before, an instruction is only replaced by a rule
\* whose pattern, literals, repeated names and constraints it satisfies.
THEOREM RuleIsRight == Spec => []ReplacedOnlyByItsRule
<1>1. IInv => ReplacedOnlyByItsRule
  BY DEF IInv, EmittedOK
<1> QED
  BY Invariant, <1>1, PTL

\* The operands of a replacement are those of the instruction it replaces.
THEOREM OperandsAreRight == Spec => []OperandsOfThisMatch
<1>1. IInv => OperandsOfThisMatch
  BY DEF IInv, EmittedOK
<1> QED
  BY Invariant, <1>1, PTL

\* A computed constant is that of one set of constants a pattern is pinned to.
THEOREM ComputedIsPinned == Spec => []ComputedFollowsPins
<1>1. IInv => ComputedFollowsPins
  BY DEF IInv, EmittedOK
<1> QED
  BY Invariant, <1>1, PTL

\* A pattern registered as it is written is a candidate for every
\* instruction it has leaf for leaf, whatever else is registered.
THEOREM NothingMissed == Spec => []LeafMatchesFound
<1>1. TypeOK => LeafMatchesFound
  <2>1. SUFFICES ASSUME TypeOK, NEW entry \in store, NEW s \in Subjects,
                        HasShape(entry.shape, s.shape), LeafForLeaf(entry.shape, s.shape)
                 PROVE  entry.shape \in GetCandidates(Shapes, s.shape, flags)
    BY <2>1 DEF LeafMatchesFound
  <2>2. entry.shape \in Trees /\ entry.shape \in Shapes
    BY <2>1 DEF TypeOK, Shapes
  <2>3. s.shape \in Trees
    BY SubjectsAssumption
  <2> QED
    BY <2>1, <2>2, <2>3, CandidatesHoldLeafMatches
<1> QED
  BY TypeCorrect, <1>1, PTL

=============================================================================
