---------------------------- MODULE MCBlockEdits ----------------------------
(***************************************************************************)
(* Every graph of Inner blocks between an entry and an exit, a block being *)
(* one of the shapes the decompiler makes: it falls through, calls, jumps, *)
(* branches, switches or ends.                                             *)
(***************************************************************************)
EXTENDS BlockEdits

Shape(type, op, refs, succ) ==
    [type |-> type, op |-> op, refs |-> refs, succ |-> succ]

Shapes(s, n) ==
    LET T == 1..n-1 IN
    {Shape("1WAY", op, <<>>, <<s + 1>>) : op \in {"insn", "call"}}
    \cup {Shape("0WAY", "ret", <<>>, <<>>)}
    \cup {Shape("1WAY", "goto", <<t>>, <<t>>) : t \in T}
    \cup {Shape("2WAY", "jcond", <<t>>, <<s + 1, t>>) : t \in T \ {s + 1}}
    \cup {Shape("NWAY", "jtbl", <<p[1], p[2]>>, <<p[1], p[2]>>) :
            p \in {q \in T \X T : q[1] < q[2]}}

Array(n, inner) ==
    LET At(s) == CASE s = 0     -> Shape("1WAY", "none", <<>>, <<1>>)
                   [] s = n - 1 -> Shape("STOP", "none", <<>>, <<>>)
                   [] OTHER     -> inner[s]
        Preds(s) == SelectSeq([i \in 1..n |-> i - 1], LAMBDA p : s \in ToSet(At(p).succ))
    IN  [s \in 0..n-1 |-> At(s) @@ [id |-> s, pred |-> Preds(s)]]

ArraysOf(n) ==
    {Array(n, inner) : inner \in
        {f \in [1..n-2 -> UNION {Shapes(s, n) : s \in 1..n-2}] : \A s \in 1..n-2 : f[s] \in Shapes(s, n)}}

MCGraphs == ArraysOf(4)
=============================================================================
