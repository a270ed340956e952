--------------------------- MODULE MCDecompilation ---------------------------
(* Decompilation on a small program: two functions, a few maturities.       *)
EXTENDS Decompilation

CONSTANTS f, g, a, b, n1, n2, ea, X, Y, Big, on, off, blk1, blk2

HighFirst == [r \in FlowRules |-> IF r = a THEN 2 ELSE 1]
Sizes == [h \in Funcs |-> IF h = f THEN BasePasses ELSE BasePasses + 1]
Everywhere == [h \in Funcs |-> [m \in Maturities |-> FlowRules]]
OneAddress == [n \in Nodes |-> ea]
\* n2 is nested in n1
Inside == [n \in Nodes |-> IF n = n1 /\ n2 \in Nodes THEN <<n2>> ELSE <<>>]
\* X and Y rewrite into one another; Big is more than twice as large
FormSize == [x \in Forms |-> IF x = Big THEN 3 ELSE 1]
Circle == [x \in Forms |-> (IF x = X THEN {Y, Big} ELSE {X}) \cap Forms]
=============================================================================
