------------------------- MODULE MCPatternOptimizer -------------------------
(***************************************************************************)
(* Rules of d810/mba/rules and instructions for them.  A number is the set *)
(* of its bits, a register a set with its name.                            *)
(***************************************************************************)
EXTENDS PatternOptimizer

ThreeLevels == <<<<>>, <<1>>, <<1, 1>>, <<1, 2>>, <<2>>, <<2, 1>>, <<2, 2>>>>
FourLevels == \* under an operand of one operand
  <<<<>>, <<1>>, <<1, 1>>, <<1, 1, 1>>, <<1, 1, 2>>, <<2>>, <<2, 1>>, <<2, 1, 1>>, <<2, 1, 2>>>>
MCPositions == {Preorder[i] : i \in DOMAIN Preorder}

MCOpcodes == {"add", "sub", "mul", "and", "xor", "bnot"}
MCCommutative == {"add", "mul", "and", "xor"}
MCTracked == {"add", "sub"}
MCConstNames == {"c_1", "c_2", "c_and", "ONE", "TWO"}

\* Trees from their parts.
Leaf(token) == [p \in {<<>>} |-> token]
Two(op, left, right) ==
  [p \in {<<>>} \cup {<<1>> \o q : q \in DOMAIN left} \cup {<<2>> \o q : q \in DOMAIN right} |->
     IF p = <<>> THEN op ELSE IF p[1] = 1 THEN left[Tail(p)] ELSE right[Tail(p)]]
One(op, left) == Two(op, left, [p \in {} |-> op])
Pad(tree, none) == [p \in Positions |-> IF p \in DOMAIN tree THEN tree[p] ELSE none]

X == Leaf("x")
Y == Leaf("y")

MCPatternOf ==
  [r \in Rules |-> Pad(
     CASE r = "AndBnot_HackersDelightRule_2" -> Two("sub", X, Two("and", X, Y))
       [] r = "Bnot_FactorRule_1" -> Two("xor", One("bnot", Two("xor", X, Y)), Y)
       [] r = "BnotXor_FactorRule_1" -> Two("xor", X, One("bnot", Y))
       [] r = "Neg_HackersDelightRule_2" -> One("bnot", Two("sub", X, Leaf("ONE")))
       [] r = "Sub1_FactorRule_2" -> Two("add", Two("mul", Leaf("TWO"), X), One("bnot", X))
       [] r = "CstSimplificationRule10" ->
            Two("sub", Two("and", X, Leaf("c_1")), Two("and", X, Leaf("c_2"))), "N")]

MCReplacementOf ==
  [r \in Rules |-> CASE r = "Sub1_FactorRule_2" -> {"x", "ONE"}
                     [] r = "CstSimplificationRule10" -> {"x", "c_and"}
                     [] r \in {"Neg_HackersDelightRule_2", "Bnot_FactorRule_1"} -> {"x"}
                     [] OTHER -> {"x", "y"}]

MCComputedOf == [r \in Rules |-> IF r = "CstSimplificationRule10" THEN {"c_and"} ELSE {}]

MCLiteral == [n \in MCConstNames |-> CASE n = "ONE" -> {0} [] n = "TWO" -> {1} [] OTHER -> NoValue]

\* c_1 & c_2 == c_1, and c_and == ~c_1 & c_2.
MCAccepts(r, consts) == r = "CstSimplificationRule10" => consts["c_1"] \subseteq consts["c_2"]
MCCompute(r, n, consts) == consts["c_2"] \ consts["c_1"]

\* Instructions: registers and numbers under operations.
Reg(name) == Leaf(<<"L", {name}>>)
Num(bits) == Leaf(<<"C", bits>>)
Op(name) == <<name, NoValue>>
Ins(tree) ==
  LET padded == Pad(tree, Op("N"))
  IN  [shape |-> [p \in Positions |-> padded[p][1]],
       value |-> [p \in Positions |-> padded[p][2]]]

A == Reg("a")
B == Reg("b")
And(x, y) == Two(Op("and"), x, y)
Minus(x, y) == Two(Op("sub"), x, y)
Sum == Two(Op("add"), A, B)

\* (a & 1) - (a & 3), (2 & a) - (a & 3), and (a & 3) - (a & 1), which fails
\* the constraint.
MaskInstructions ==
  {Ins(Minus(And(A, Num({0})), And(A, Num({0, 1})))),
   Ins(Minus(And(Num({1}), A), And(A, Num({0, 1})))),
   Ins(Minus(And(A, Num({0, 1})), And(A, Num({0}))))}

\* (a & 1) - (a & 3), (2 & b) - (b & 3), which another permutation matches,
\* and (3 & 3) - (3 & 1), which fails the constraint and in which a variable
\* meets a number.
MixedMaskInstructions ==
  {Ins(Minus(And(A, Num({0})), And(A, Num({0, 1})))),
   Ins(Minus(And(Num({1}), B), And(B, Num({0, 1})))),
   Ins(Minus(And(Num({0, 1}), Num({0, 1})), And(Num({0, 1}), Num({0}))))}

\* a - (a & 1), a - (b & a), (a + b) ^ ~b, and ~(a - k).
MixedInstructions ==
  {Ins(Minus(A, And(A, Num({0})))), Ins(Minus(A, And(B, A))),
   Ins(Two(Op("xor"), Sum, One(Op("bnot"), B)))}
  \cup {Ins(One(Op("bnot"), Minus(A, Num({k})))) : k \in {0, 1}}

\* a ^ ~(b ^ c).
NestedInstructions ==
  {Ins(Two(Op("xor"), A, One(Op("bnot"), Two(Op("xor"), B, Reg("c")))))}

\* k * a + ~a.
TwiceInstructions ==
  {Ins(Two(Op("add"), Two(Op("mul"), Num({k}), A), One(Op("bnot"), A))) : k \in {1, 2}}

\* The patterns written above are well formed.
ASSUME TreesAssumption ==
  /\ ShapeOf \in [Patterns -> Trees]
  /\ TreeOf \in [Patterns -> [Positions -> Opcodes \cup VarNames \cup ConstNames \cup {"N"}]]

=============================================================================
