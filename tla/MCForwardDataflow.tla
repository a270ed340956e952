------------------------- MODULE MCForwardDataflow -------------------------
(***************************************************************************)
(* Four blocks in the shapes that matter: a diamond, loops, an irreducible *)
(* graph, an unreachable predecessor, an entry with a predecessor; any     *)
(* code of at most one of some instructions in each block.                 *)
(***************************************************************************)
EXTENDS ForwardDataflow

CONSTANTS x, y, c1, c2

Const(v, c) == <<[op |-> "const", var |-> v, value |-> c]>>
Write(v) == <<[op |-> "write", var |-> v]>>
Call == <<[op |-> "call"]>>

Codes == {<<>>, Const(x, c1), Const(x, c2), Write(x), Call, Call \o Const(y, c1)}

Shapes ==
    {[succ |-> s] : s \in
        {<<<<1, 2>>, <<3>>, <<3>>, <<>>>>,      \* diamond
         <<<<1, 2, 3>>, <<3>>, <<3>>, <<>>>>,   \* a switch whose cases meet
         <<<<1>>, <<2, 3>>, <<1>>, <<>>>>,      \* loop with its test first
         <<<<1>>, <<2>>, <<1, 3>>, <<>>>>,      \* loop with its test last
         <<<<1, 2>>, <<2, 3>>, <<1>>, <<>>>>,   \* loop with two entries
         <<<<1>>, <<3>>, <<1>>, <<>>>>,         \* a predecessor nothing reaches
         <<<<1, 3>>, <<2>>, <<0>>, <<>>>>}}     \* a handler in a loop

MCPrograms ==
    {[succ |-> [n \in Nodes |-> s.succ[n + 1]], code |-> code] :
        s \in Shapes, code \in [Nodes -> Codes]}
=============================================================================
