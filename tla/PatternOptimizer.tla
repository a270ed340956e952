-------------------------- MODULE PatternOptimizer --------------------------
(***************************************************************************)
(* The pattern optimizer: rules are registered when the hooks are built,   *)
(* and every instruction is tried against the candidates of the storage    *)
(* (PatternOptimizer, IDAPatternAdapter, AstNode and its leaves).          *)
(*                                                                         *)
(* A pattern tree is shared: matching writes the operands of the           *)
(* instruction into its leaves, and the replacement tree of a rule is      *)
(* built once and written by every match.  Both belong to the adapter of   *)
(* the rule, which outlives the optimizer it is registered with.           *)
(***************************************************************************)
EXTENDS PatternStorage

CONSTANTS
  Rules,           \* names of rules
  PatternOf,       \* rule -> tree of opcodes, names of leaves and "N"
  VarNames,        \* the leaves that are variables
  ConstNames,      \* the leaves that are constants
  Literal,         \* constant name -> the value it stands for, or NoValue
  Commutative,     \* the opcodes whose operands may be swapped
  ReplacementOf,   \* rule -> the names of the leaves of its replacement
  ComputedOf,      \* rule -> the constants its constraints define
  Accepts(_, _),   \* rule, constants matched: the other constraints hold
  Compute(_, _, _),\* rule, computed constant, constants matched: its value
  Subjects,        \* the instructions: [shape, value]
  TrackerOpcodes,  \* the opcodes retried with operands traced back
  NoValue, NoCall

ASSUME RulesAssumption ==
  /\ VarNames \cap ConstNames = {}
  /\ (VarNames \cup ConstNames) \cap (Opcodes \cup {"N"}) = {}
  /\ PatternOf \in [Rules -> [Positions -> Opcodes \cup VarNames \cup ConstNames \cup {"N"}]]
ASSUME SubjectsAssumption ==
  \A s \in Subjects : /\ s.shape \in Trees
                      /\ \A p \in Constants(s.shape) : s.value[p] # NoValue

VARIABLES
  store,    \* the patterns registered, each with the shape it had then
  flags,    \* which storage is asked, from the environment of the process
  pinned,   \* expected_value of the constants of every pattern
  held,     \* the variables of every pattern that hold a constant operand
  cached,   \* what the leaves of every replacement hold
  work,     \* the instruction being tried
  emitted   \* the last replacement, until the next call

adapters == <<pinned, held, cached>>
vars == <<store, flags, adapters, work, emitted>>

-----------------------------------------------------------------------------
(* Patterns                                                                *)

\* The path in the tree before its operands were swapped below the nodes of
\* a set.
Unswapped(path, swapped) ==
  LET f[i \in 0..Len(path)] ==
        IF i = 0 THEN <<>>
        ELSE Append(f[i - 1], IF f[i - 1] \in swapped THEN 3 - path[i] ELSE path[i])
  IN  f[Len(path)]

\* The patterns of a rule: its operands swapped below some of the operators
\* that commute.
Patterns ==
  UNION {[rule : {r}, swapped : SUBSET {p \in Positions : PatternOf[r][p] \in Commutative}] :
           r \in Rules}
ASSUME SwapAssumption ==
  \A pat \in Patterns, p \in Positions : Unswapped(p, pat.swapped) \in Positions

TreeOf == [pat \in Patterns |-> [p \in Positions |-> PatternOf[pat.rule][Unswapped(p, pat.swapped)]]]

LabelOf(token) == CASE token \in VarNames -> "L"
                    [] token \in ConstNames -> "C"
                    [] OTHER -> token

ShapeOf == [pat \in Patterns |-> [p \in Positions |-> LabelOf(TreeOf[pat][p])]]
LeavesOf == [pat \in Patterns |-> Leaves(ShapeOf[pat])]
ConstantsOf == [pat \in Patterns |-> Constants(ShapeOf[pat])]
NamesOf(pattern) == {TreeOf[pattern][p] : p \in LeavesOf[pattern]}
ASSUME ComputedAssumption == \A pat \in Patterns : NamesOf(pat) \cap ComputedOf[pat.rule] = {}

\* A variable that still holds the constant of an earlier match counts as one.
ShapeNow(pattern) ==
  [p \in Positions |-> IF p \in held[pattern] THEN "C" ELSE LabelOf(TreeOf[pattern][p])]

-----------------------------------------------------------------------------
(* Matching                                                                *)

\* An operand of an instruction, whatever its size.
Operand(subject, place) ==
  [q \in {r \in Positions : place \o r \in Positions /\ subject.shape[place \o r] # "N"} |->
     <<subject.shape[place \o q], subject.value[place \o q]>>]

\* (slip) a constant is not compared with the value it is pinned to.
Mismatch_AnyValue(pattern, subject, p) ==
  LET label == LabelOf(TreeOf[pattern][p])
  IN  \/ label \in Opcodes /\ subject.shape[p] # label
      \/ label = "C" /\ subject.shape[p] # "C"
      \/ label = "L" /\ subject.shape[p] = "N"

Mismatch(pattern, subject, p) ==
  LET label == LabelOf(TreeOf[pattern][p])
  IN  \/ label \in Opcodes /\ subject.shape[p] # label
      \/ label = "C" /\ \/ subject.shape[p] # "C"
                        \/ pinned[pattern][p] \notin {NoValue, subject.value[p]}
      \/ label = "L" /\ subject.shape[p] = "N"

\* The walk stops at the first mismatch; what it copied before stays.
Copied(pattern, subject) ==
  LET bad == {i \in DOMAIN Preorder : Mismatch(pattern, subject, Preorder[i])}
  IN  {Preorder[i] : i \in {j \in DOMAIN Preorder : \A k \in bad : j < k}}

EqualNames(pattern, subject) ==
  \A p, q \in LeavesOf[pattern] :
    TreeOf[pattern][p] = TreeOf[pattern][q] => Operand(subject, p) = Operand(subject, q)

PlaceOf(pattern, name) == CHOOSE p \in LeavesOf[pattern] : TreeOf[pattern][p] = name

MatchedConstants(pattern, subject) ==
  [n \in NamesOf(pattern) \cap ConstNames |-> subject.value[PlaceOf(pattern, n)]]

\* check_pattern_and_copy_mops: the leaves are reset, but a constant keeps
\* the first value it was compared with.
PinnedAfter(pattern, subject) ==
  [p \in DOMAIN pinned[pattern] |->
     IF pinned[pattern][p] = NoValue /\ p \in Copied(pattern, subject)
     THEN subject.value[p]
     ELSE pinned[pattern][p]]

HeldAfter(pattern, subject) ==
  {p \in Copied(pattern, subject) : TreeOf[pattern][p] \in VarNames /\ subject.shape[p] = "C"}

\* (slip) the constraints are not asked.
MatchesNow_Unconstrained(pattern, subject) ==
  /\ \A p \in Positions : ~Mismatch(pattern, subject, p)
  /\ EqualNames(pattern, subject)

MatchesNow(pattern, subject) ==
  /\ \A p \in Positions : ~Mismatch(pattern, subject, p)
  /\ EqualNames(pattern, subject)
  /\ Accepts(pattern.rule, MatchedConstants(pattern, subject))

-----------------------------------------------------------------------------
(* Replacing                                                               *)

\* Every leaf of the replacement has to be found in the match or computed;
\* a literal is no exception.
Fillable(pattern) ==
  ReplacementOf[pattern.rule] \subseteq NamesOf(pattern) \cup ComputedOf[pattern.rule]

\* (slip) a leaf of the replacement that holds something is left alone.
CachedAfter_FillsOnce(pattern, subject) ==
  [n \in ReplacementOf[pattern.rule] |->
     IF n \in NamesOf(pattern) /\ cached[pattern.rule][n] = NoValue
     THEN Operand(subject, PlaceOf(pattern, n))
     ELSE IF Fillable(pattern) /\ cached[pattern.rule][n] = NoValue
     THEN Compute(pattern.rule, n, MatchedConstants(pattern, subject))
     ELSE cached[pattern.rule][n]]

\* update_leafs_mop copies what the pattern binds; a computed constant is
\* materialized only into a leaf that holds nothing.
CachedAfter(pattern, subject) ==
  [n \in ReplacementOf[pattern.rule] |->
     IF n \in NamesOf(pattern)
     THEN Operand(subject, PlaceOf(pattern, n))
     ELSE IF /\ Fillable(pattern)
             /\ cached[pattern.rule][n] = NoValue
     THEN Compute(pattern.rule, n, MatchedConstants(pattern, subject))
     ELSE cached[pattern.rule][n]]

-----------------------------------------------------------------------------
(* The adapters and the optimizer                                          *)

FreshPins == [pat \in Patterns |-> [p \in ConstantsOf[pat] |-> Literal[TreeOf[pat][p]]]]
FreshReplacements == [r \in Rules |-> [n \in ReplacementOf[r] |-> NoValue]]

Init ==
  /\ store = {}
  /\ flags \in [legacy : BOOLEAN, fallback : BOOLEAN]
  /\ pinned = FreshPins
  /\ held = [pat \in Patterns |-> {}]
  /\ cached = FreshReplacements
  /\ work = NoCall
  /\ emitted = NoCall

\* D810State.load: new adapters; the old optimizer is gone with its hooks.
Reload ==
  /\ work = NoCall
  /\ store' = {}
  /\ pinned' = FreshPins
  /\ held' = [pat \in Patterns |-> {}]
  /\ cached' = FreshReplacements
  /\ emitted' = NoCall
  /\ UNCHANGED <<flags, work>>

\* D810Manager.start: a new optimizer, the adapters of the project's rules
\* registered with it.
Start(rules) ==
  /\ work = NoCall
  /\ store' = {[pattern |-> pat, shape |-> ShapeNow(pat)] :
                 pat \in {x \in Patterns : x.rule \in rules}}
  /\ emitted' = NoCall
  /\ UNCHANGED <<flags, adapters, work>>

Shapes == {entry.shape : entry \in store}

\* The patterns found for an instruction, of rules that are not active too.
Found(subject) ==
  LET shapes == GetCandidates(Shapes, subject.shape, flags)
  IN  {e.pattern : e \in {f \in store : f.shape \in shapes}}
Candidates(found, active) == {pat \in found : pat.rule \in active}

\* get_optimized_instruction: the rules whose maturity and scope allow them
\* are active.  A second tree may come from the tracker.
Call(subject) ==
  /\ work = NoCall
  /\ subject.shape[<<>>] \in {e.shape[<<>>] : e \in store} \cap Opcodes
  /\ LET found == Found(subject)
     IN  \E active \in SUBSET {e.pattern.rule : e \in store}, traced \in Subjects \cup {NoCall} :
           /\ traced # NoCall => /\ subject.shape[<<>>] \in TrackerOpcodes
                                 /\ traced.shape[<<>>] = subject.shape[<<>>]
           /\ work' = [subject |-> subject, active |-> active, traced |-> traced,
                       todo |-> Candidates(found, active)]
  /\ emitted' = NoCall
  /\ UNCHANGED <<store, flags, adapters>>

\* check_pattern_and_replace on one candidate.  The storages return them in
\* different orders; every order is taken.
Try(pattern) ==
  LET subject == work.subject
      matched == MatchesNow(pattern, subject)
      filled == CachedAfter(pattern, subject)
  IN  /\ pinned' = [pinned EXCEPT ![pattern] = PinnedAfter(pattern, subject)]
      /\ held' = [held EXCEPT ![pattern] = HeldAfter(pattern, subject)]
      /\ cached' = IF matched THEN [cached EXCEPT ![pattern.rule] = filled] ELSE cached
      /\ IF matched /\ Fillable(pattern)
         THEN /\ emitted' = [pattern |-> pattern, subject |-> subject, leaves |-> filled]
              /\ work' = NoCall
         ELSE /\ work' = [work EXCEPT !.todo = @ \ {pattern}]
              /\ UNCHANGED emitted
      /\ UNCHANGED <<store, flags>>

\* _resolve_ast_with_tracker: nothing matched, the traced tree is tried once.
TryTraced ==
  /\ work.todo = {} /\ work.traced # NoCall
  /\ work' = [work EXCEPT !.subject = work.traced, !.traced = NoCall,
                          !.todo = Candidates(Found(work.traced), work.active)]
  /\ UNCHANGED <<store, flags, adapters, emitted>>

Keep ==
  /\ work.todo = {} /\ work.traced = NoCall
  /\ work' = NoCall
  /\ UNCHANGED <<store, flags, adapters, emitted>>

Next ==
  \/ Reload
  \/ \E rules \in SUBSET Rules : Start(rules)
  \/ \E subject \in Subjects : Call(subject)
  \/ /\ work # NoCall
     /\ \/ \E pattern \in work.todo : Try(pattern)
        \/ TryTraced
        \/ Keep

Spec == Init /\ [][Next]_vars

-----------------------------------------------------------------------------
(* What may be relied on                                                   *)

Calls == [subject : Subjects, active : SUBSET Rules, traced : Subjects \cup {NoCall},
          todo : SUBSET Patterns]

\* The optimizer's state and that of its adapters.
TypeOK ==
  /\ store \subseteq [pattern : Patterns, shape : Trees]
  /\ flags \in [legacy : BOOLEAN, fallback : BOOLEAN]
  /\ pinned = [pat \in Patterns |-> [p \in ConstantsOf[pat] |-> pinned[pat][p]]]
  /\ held \in [Patterns -> SUBSET Positions]
  /\ \A pat \in Patterns : held[pat] \subseteq LeavesOf[pat] \ ConstantsOf[pat]
  /\ cached = [r \in Rules |-> [n \in ReplacementOf[r] |-> cached[r][n]]]
  /\ work \in Calls \cup {NoCall}
  /\ emitted # NoCall => emitted.pattern \in Patterns /\ emitted.subject \in Subjects

\* What a pattern nobody has matched before would accept.
AcceptsAfresh(pattern, subject) ==
  /\ HasShape(ShapeOf[pattern], subject.shape)
  /\ \A p \in ConstantsOf[pattern] :
       Literal[TreeOf[pattern][p]] \in {NoValue, subject.value[p]}
  /\ EqualNames(pattern, subject)
  /\ Accepts(pattern.rule, MatchedConstants(pattern, subject))

\* Whatever earlier matches left in the shared trees, an instruction is only
\* replaced by a rule whose pattern it is: the shape, the literals, the
\* repeated names and the constraints hold of this very instruction.
ReplacedOnlyByItsRule ==
  emitted # NoCall => AcceptsAfresh(emitted.pattern, emitted.subject)

\* The operands of the replacement are those of this instruction, although
\* the replacement tree is the one every earlier match wrote to.
OperandsOfThisMatch ==
  emitted # NoCall =>
    \A n \in DOMAIN emitted.leaves \cap NamesOf(emitted.pattern) :
      \A p \in LeavesOf[emitted.pattern] :
        TreeOf[emitted.pattern][p] = n =>
          emitted.leaves[n] = Operand(emitted.subject, p)

PinnedConstants(pattern) ==
  [n \in NamesOf(pattern) \cap ConstNames |-> pinned[pattern][PlaceOf(pattern, n)]]

\* A computed constant is never a mixture: it is that of the constants one of
\* the permutations of the rule is pinned to.  While they are pinned to the
\* same constants it is therefore the right one.
ComputedFollowsPins ==
  emitted # NoCall =>
    LET rule == emitted.pattern.rule
    IN  \A n \in DOMAIN emitted.leaves \cap ComputedOf[rule] :
          \E pat \in {x \in Patterns : x.rule = rule} :
            /\ \A p \in ConstantsOf[pat] : pinned[pat][p] # NoValue
            /\ emitted.leaves[n] = Compute(rule, n, PinnedConstants(pat))

\* With any storage, flag and company, a pattern registered as it is written
\* is a candidate for every instruction it has leaf for leaf.
LeafMatchesFound ==
  \A s \in Subjects :
    LET found == GetCandidates(Shapes, s.shape, flags)
    IN  \A entry \in store :
          /\ entry.shape = ShapeOf[entry.pattern]
          /\ HasShape(entry.shape, s.shape)
          /\ LeafForLeaf(entry.shape, s.shape)
          => entry.shape \in found

-----------------------------------------------------------------------------
(* What the documentation promises and the code does not keep              *)

Tried(pattern) == work # NoCall /\ pattern \in work.todo /\ Try(pattern)

\* "Pattern-matching constants (value=None): Match any constant, bind its
\* value": an instruction a fresh pattern accepts is accepted.
ConstantsMatchAny ==
  [][\A pat \in Patterns :
       Tried(pat) /\ Fillable(pat) /\ AcceptsAfresh(pat, work.subject)
       => emitted' # NoCall]_vars

\* A constant computed from the constants matched is computed from those of
\* this match.
ComputedIsCurrent ==
  emitted # NoCall =>
    LET pat == emitted.pattern
    IN  \A n \in DOMAIN emitted.leaves \cap ComputedOf[pat.rule] :
          emitted.leaves[n] = Compute(pat.rule, n, MatchedConstants(pat, emitted.subject))

\* The fallback catches what the fingerprints miss: a pattern that accepts an
\* instruction is a candidate for it.
FallbackFindsAll ==
  flags.fallback =>
    \A entry \in store, s \in Subjects :
      AcceptsAfresh(entry.pattern, s) /\ entry.shape = ShapeOf[entry.pattern]
      => entry.shape \in GetCandidates(Shapes, s.shape, flags)

\* The fingerprint counts the variables and the constants of the pattern.
RegisteredAsWritten == \A entry \in store : entry.shape = ShapeOf[entry.pattern]

\* A rule that matches and whose constraints hold replaces the instruction.
MatchReplaces ==
  [][\A pat \in Patterns : Tried(pat) /\ MatchesNow(pat, work.subject)
                           => emitted' # NoCall]_vars

=============================================================================
