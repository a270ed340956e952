--------------------------- MODULE PatternStorage ---------------------------
(***************************************************************************)
(* How d810 finds the rule patterns worth trying on an instruction         *)
(* (optimizers/microcode/instructions/pattern_matching): the layered       *)
(* PatternStorage, keyed by the signature of a tree at each depth, and the *)
(* OpcodeIndexedStorage, keyed by root opcode and filtered by fingerprint. *)
(*                                                                         *)
(* A tree is a function from positions to labels.  A position is the path  *)
(* from the root, 1 for the left operand and 2 for the right one; a label  *)
(* is an opcode, "L" for a leaf that is not a constant, "C" for a constant *)
(* and "N" where the tree has nothing.                                     *)
(***************************************************************************)
EXTENDS Naturals, Sequences, FiniteSets

CONSTANTS
  Positions,  \* the paths of the trees, the root <<>> among them
  Preorder,   \* the same paths, each once, in the order of a left-first walk
  Opcodes     \* the microcode opcodes, disjoint from the other labels

Wildcards == {"L", "C", "N"}
Labels == Opcodes \cup Wildcards

ASSUME PositionsAssumption ==
  /\ IsFiniteSet(Positions)
  /\ Positions \subseteq Seq({1, 2})
  /\ <<>> \in Positions
  /\ Positions = {Preorder[i] : i \in DOMAIN Preorder}
ASSUME OpcodesAssumption == Opcodes \cap (Wildcards \cup {"leaf"}) = {}

Trees == [Positions -> Labels]
Depths == {Len(p) + 1 : p \in Positions}

-----------------------------------------------------------------------------
(* The layered storage                                                     *)

\* What a tree shows at one depth.
Signature(tree, depth) == [p \in {q \in Positions : Len(q) + 1 = depth} |-> tree[p]]

\* Nothing is left to tell the pattern apart: the rule is resolved here.
IsTerminal(sig) == \A p \in DOMAIN sig : sig[p] = "N"

\* A key the generator yields for an instruction: any of its opcodes and
\* constants replaced by a leaf.
VariationOf(key, sig) ==
  \A p \in DOMAIN sig : \/ key[p] = sig[p]
                        \/ key[p] = "L" /\ sig[p] \notin {"L", "N"}

Compatible(sig, key) == \A p \in DOMAIN sig : key[p] \in Wildcards \/ key[p] = sig[p]

\* The patterns that share the storage of one pattern at a depth, and the
\* keys of that storage.
Beside(stored, pattern, depth) ==
  {s \in stored : \A d \in Depths : d < depth => Signature(s, d) = Signature(pattern, d)}
NextLayerKeys(stored, pattern, depth) ==
  {sig \in {Signature(s, depth) : s \in Beside(stored, pattern, depth)} : ~IsTerminal(sig)}

\* The variations are generated when there are fewer of them than keys;
\* otherwise every key is compared.
UsesVariations(stored, pattern, sig, depth) ==
  2 ^ Cardinality({p \in DOMAIN sig : sig[p] \notin Wildcards})
    < Cardinality(NextLayerKeys(stored, pattern, depth))

ExploreOneLevel(stored, pattern, subject, depth) ==
  LET sig == Signature(subject, depth)
      key == Signature(pattern, depth)
  IN  \/ IsTerminal(key)
      \/ IF UsesVariations(stored, pattern, sig, depth)
         THEN VariationOf(key, sig)
         ELSE Compatible(sig, key)

LegacyCandidates(stored, subject) ==
  {s \in stored : \A d \in Depths : ExploreOneLevel(stored, s, subject, d)}

-----------------------------------------------------------------------------
(* The indexed storage                                                     *)

Nodes(tree) == {p \in Positions : tree[p] \in Opcodes}
Leaves(tree) == {p \in Positions : tree[p] \in {"L", "C"}}
Constants(tree) == {p \in Positions : tree[p] = "C"}

OpcodeAt(tree, p) == IF tree[p] \in Opcodes THEN tree[p] ELSE "leaf"

\* The hash combines the opcodes in the order of the walk; it is taken to
\* tell any two sequences of opcodes apart.
Walk(tree) == [i \in DOMAIN Preorder |-> OpcodeAt(tree, Preorder[i])]
OpcodeHash(tree) == SelectSeq(Walk(tree), LAMBDA opcode : opcode # "leaf")

\* How deep a set of places goes.
Deepest(places) ==
  CHOOSE n \in Depths \cup {0} : /\ \A p \in places : Len(p) < n
                                /\ n > 0 => \E p \in places : Len(p) + 1 = n
Depth(tree) == Deepest(Leaves(tree))

\* (slip) the constants have to be as many.
CompatibleWith_SameConstants(pattern, subject) ==
  /\ OpcodeHash(pattern) = OpcodeHash(subject)
  /\ Depth(pattern) = Depth(subject)
  /\ Cardinality(Nodes(pattern)) = Cardinality(Nodes(subject))
  /\ Cardinality(Leaves(pattern)) = Cardinality(Leaves(subject))
  /\ Cardinality(Constants(pattern)) = Cardinality(Constants(subject))

CompatibleWith(pattern, subject) ==
  /\ OpcodeHash(pattern) = OpcodeHash(subject)
  /\ Depth(pattern) = Depth(subject)
  /\ Cardinality(Nodes(pattern)) = Cardinality(Nodes(subject))
  /\ Cardinality(Leaves(pattern)) = Cardinality(Leaves(subject))
  /\ Cardinality(Constants(pattern)) <= Cardinality(Constants(subject))

RootOpcode(tree) == OpcodeAt(tree, <<>>)

IndexedCandidates(stored, subject) ==
  {s \in stored : RootOpcode(s) = RootOpcode(subject) /\ CompatibleWith(s, subject)}

-----------------------------------------------------------------------------
(* PatternOptimizer._get_candidates: the flags choose the storage.         *)

GetCandidates(stored, subject, flags) ==
  LET indexed == IndexedCandidates(stored, subject)
  IN  IF flags.legacy \/ (indexed = {} /\ flags.fallback)
      THEN LegacyCandidates(stored, subject)
      ELSE indexed

-----------------------------------------------------------------------------
(* What the storages are for                                               *)

\* The pattern has the shape of the instruction: its opcodes are there, and
\* its constants are constants.  A leaf stands for any operand.
HasShape(pattern, subject) ==
  \A p \in Positions : CASE pattern[p] \in Opcodes -> subject[p] = pattern[p]
                         [] pattern[p] = "C" -> subject[p] = "C"
                         [] pattern[p] = "L" -> subject[p] # "N"
                         [] OTHER -> TRUE

\* No leaf of the pattern stands for an operand that is itself an expression.
LeafForLeaf(pattern, subject) ==
  \A p \in Positions : /\ pattern[p] = "N" <=> subject[p] = "N"
                       /\ pattern[p] \in Opcodes <=> subject[p] \in Opcodes

=============================================================================
