-------------------------- MODULE MCGraphModifier --------------------------
(***************************************************************************)
(* Four functions: a branch whose sides meet in a jump to the exit, a loop *)
(* whose last block falls through into the exit, a chain that ends in a    *)
(* return, and a return in front of a block that falls into the exit.      *)
(***************************************************************************)
EXTENDS GraphModifier

Block(type, op, refs, succ) == [type |-> type, op |-> op, refs |-> refs, succ |-> succ]
Falls(op, s) == Block("1WAY", op, <<>>, <<s + 1>>)
Jumps(t) == Block("1WAY", "goto", <<t>>, <<t>>)
Branches(s, t) == Block("2WAY", "jcond", <<t>>, <<s + 1, t>>)
Returns == Block("0WAY", "ret", <<>>, <<>>)
Stop == Block("STOP", "none", <<>>, <<>>)

Graph(b) ==
    LET n == Len(b)
        Preds(s) == SelectSeq([i \in 1..n |-> i - 1], LAMBDA p : s \in ToSet(b[p+1].succ))
    IN  [s \in 0..n-1 |-> b[s+1] @@ [id |-> s, pred |-> Preds(s)]]

Diamond == Graph(<<Falls("none", 0), Branches(1, 3), Jumps(3), Jumps(4), Stop>>)
Loop    == Graph(<<Falls("none", 0), Jumps(2), Branches(2, 1), Falls("insn", 3), Stop>>)
Chain   == Graph(<<Falls("none", 0), Jumps(2), Jumps(3), Returns, Stop>>)

Late    == Graph(<<Falls("none", 0), Branches(1, 3), Jumps(3), Returns, Falls("insn", 4), Stop>>)

MCGraphs == {Diamond, Loop, Chain, Late}

(* A batch reported as applied has done what its edits say, whatever became *)
(* of it on the way.                                                        *)
SuccessIsAsCounted ==
    PlainPlan /\ verdict = "ok" => \A id \in DOMAIN intended : Flow(mba)[id] = intended[id]

(* The same of a batch that came through with any plan.                     *)
AnyPlanIsAsCounted ==
    verdict = "ok" /\ ~restored => \A id \in DOMAIN intended : Flow(mba)[id] = intended[id]
=============================================================================
