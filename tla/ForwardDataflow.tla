-------------------------- MODULE ForwardDataflow --------------------------
(***************************************************************************)
(* The forward dataflow engine and its two domains                         *)
(* (evaluator/hexrays_microcode/forward_dataflow.py, cfg/lattice.py): a    *)
(* last-in first-out worklist of blocks, each visit of which meets what    *)
(* leaves its predecessors and carries it through the block.               *)
(*                                                                         *)
(* The constants are those of ForwardConstantPropagationRule, which folds  *)
(* them into the code; the definitions are those of the proof of a         *)
(* handler's return value.  An environment is a function on the variables  *)
(* something is known about.                                               *)
(***************************************************************************)
EXTENDS Naturals, FiniteSets, SequencesExt

CONSTANTS
    Nodes,          \* the blocks
    Entry,          \* the one the analysis starts from
    Vars,
    Consts,
    Top,            \* overdefined
    Programs,       \* successors and code of a block: [succ : ..., code : ...]
    MaxDefs,        \* _MAX_DEF_SET_SIZE
    MaxIterations   \* the limit on visits

Analyses == {"constants", "definitions"}

\* an instruction assigns a constant, writes something else, or calls
Instructions ==
    [op : {"const"}, var : Vars, value : Consts]
    \cup [op : {"write"}, var : Vars]
    \cup {[op |-> "call"]}

ASSUME DataflowAssumption ==
    /\ Entry \in Nodes
    /\ Top \notin Consts
    /\ MaxDefs \in Nat \ {0} /\ MaxIterations \in Nat
    /\ \A p \in Programs : /\ p.succ \in [Nodes -> Seq(Nodes)]
                           /\ p.code \in [Nodes -> Seq(Instructions)]

VARIABLES
    program,
    analysis,
    inStates, outStates,
    worklist,
    iterations

vars == <<program, analysis, inStates, outStates, worklist, iterations>>

Sites == UNION {{n} \X DOMAIN program.code[n] : n \in Nodes}
Succs(n) == ToSet(program.succ[n])
Preds(n) == {p \in Nodes : n \in Succs(p)}

\* where control may get to from block n when it passes through these blocks only
Reached(n, blocks) ==
    {m \in Nodes : \A S \in SUBSET Nodes :
        n \in S /\ (\A s \in S : Succs(s) \cap blocks \subseteq S) => m \in S}
Reachable == Reached(Entry, Nodes)

Nothing == [v \in {} |-> Top]

---------------------------------------------------------------------------
(* Meeting environments *)

Known(envs) == UNION {DOMAIN e : e \in envs}

(* Mutant: a variable one predecessor says nothing about keeps its value. *)
MeetConstants_Aggressive(envs) ==
    [v \in Known(envs) |->
        LET found == {e[v] : e \in {x \in envs : v \in DOMAIN x}}
        IN  IF Cardinality(found) = 1 THEN CHOOSE x \in found : TRUE ELSE Top]

(* LatticeMeet with default_missing=TOP: one constant on all sides, or Top. *)
MeetConstants(envs) ==
    [v \in Known(envs) |->
        IF \E c \in Consts : \A e \in envs : v \in DOMAIN e /\ e[v] = c
        THEN CHOOSE c \in Consts : \A e \in envs : e[v] = c
        ELSE Top]

(* reaching_defs_meet: the union, collapsed when it grows too large. *)
MeetDefinitions(envs) ==
    [v \in Known(envs) |->
        LET found == {e[v] : e \in {x \in envs : v \in DOMAIN x}}
        IN  IF Top \in found \/ Cardinality(UNION found) > MaxDefs
            THEN Top ELSE UNION found]

Meet(envs) == IF analysis = "constants" THEN MeetConstants(envs) ELSE MeetDefinitions(envs)

---------------------------------------------------------------------------
(* Carrying an environment through a block *)

With(env, v, value) == [w \in DOMAIN env \cup {v} |-> IF w = v THEN value ELSE env[w]]

TransferConstant(env, ins) ==
    CASE ins.op = "call"  -> [v \in DOMAIN env |-> Top]
      [] ins.op = "const" -> With(env, ins.var, ins.value)
      [] ins.op = "write" -> With(env, ins.var, Top)

TransferDefinition(env, ins, site) ==
    IF ins.op = "call" THEN env ELSE With(env, ins.var, {site})

TransferSingle(n, env, i) ==
    LET ins == program.code[n][i]
    IN  IF analysis = "constants" THEN TransferConstant(env, ins)
        ELSE TransferDefinition(env, ins, <<n, i>>)

Transfer(n, env) ==
    LET after[i \in 0..Len(program.code[n])] ==
            IF i = 0 THEN env ELSE TransferSingle(n, after[i-1], i)
    IN  after[Len(program.code[n])]

---------------------------------------------------------------------------
(* The engine *)

Written(p) == {v \in Vars : \E n \in Nodes : \E i \in DOMAIN p.code[n] :
                  p.code[n][i].op # "call" /\ p.code[n][i].var = v}

\* build_constant_entry_state; the proof starts from an empty environment
EntryState(p, a) == IF a = "constants" THEN [v \in Written(p) |-> Top] ELSE Nothing

(* The decompiler's entry block has no predecessors; a handler's may.      *)
Init ==
    /\ program \in Programs
    /\ analysis \in Analyses
    /\ analysis = "constants" => \A n \in Nodes : Entry \notin ToSet(program.succ[n])
    /\ inStates = [n \in Nodes |-> IF n = Entry THEN EntryState(program, analysis) ELSE Nothing]
    /\ outStates = [n \in Nodes |-> Nothing]
    /\ worklist = <<Entry>>
    /\ iterations = 0

Merged(n) ==
    IF Preds(n) = {} THEN inStates[n] ELSE Meet({outStates[p] : p \in Preds(n)})

(* Mutant: a block that waits already is queued again. *)
Push_Twice(list, n) == Append(list, n)
Push(list, n) == IF n \in ToSet(list) THEN list ELSE Append(list, n)

AllPushed(list, n) ==
    LET queue[i \in 0..Len(program.succ[n])] ==
            IF i = 0 THEN list ELSE Push(queue[i-1], program.succ[n][i])
    IN  queue[Len(program.succ[n])]

(* Mutant: the successors are queued whether the block changed or not. *)
Queued_Always(list, n, out) == AllPushed(list, n)

Queued(list, n, out) == IF out = outStates[n] THEN list ELSE AllPushed(list, n)

Visit ==
    /\ worklist # <<>>
    /\ iterations < MaxIterations
    /\ LET n   == Last(worklist)
           in  == Merged(n)
           out == Transfer(n, in)
       IN  /\ inStates' = [inStates EXCEPT ![n] = in]
           /\ outStates' = [outStates EXCEPT ![n] = out]
           /\ worklist' = Queued(Front(worklist), n, out)
    /\ iterations' = iterations + 1
    /\ UNCHANGED <<program, analysis>>

Next == Visit

\* a loop: nothing but its condition ends it
Spec == Init /\ [][Next]_vars /\ WF_vars(Visit)

---------------------------------------------------------------------------
(* Properties *)

Values == Consts \cup {Top}

\* the worklist is a set kept in order: no block waits twice
TypeOK ==
    /\ \A n \in Nodes : \A env \in {inStates[n], outStates[n]} :
          /\ DOMAIN env \subseteq Vars
          /\ \A v \in DOMAIN env : IF analysis = "constants" THEN env[v] \in Values
                                   ELSE env[v] = Top \/ env[v] \subseteq Sites
    /\ ToSet(worklist) \subseteq Nodes
    /\ IsInjective(worklist)
    /\ iterations \in 0..MaxIterations

(* What executions can bring, path by path and apart from the engine.  The *)
(* origin of a variable's value is an instruction, or the function's       *)
(* caller.  Origins(n, v) are those it may have where block n ends.        *)
Caller == <<Entry, 0>>
Sets(ins, v) == ins.op # "call" /\ ins.var = v
Touches(ins, v) == Sets(ins, v) \/ (analysis = "constants" /\ ins.op = "call")
Touching(n, v) == {i \in DOMAIN program.code[n] : Touches(program.code[n][i], v)}
LastTouch(n, v) == CHOOSE i \in Touching(n, v) : \A j \in Touching(n, v) : j <= i

\* where control may get from block n without v being touched on the way
Untouched(n, v) == Reached(n, {t \in Nodes : Touching(t, v) = {}})

Origins(n, v) ==
    {<<m, LastTouch(m, v)>> : m \in {x \in Reachable : Touching(x, v) # {} /\ n \in Untouched(x, v)}}
    \cup (IF Touching(Entry, v) = {} /\ n \in Untouched(Entry, v) THEN {Caller} ELSE {})

OriginsBefore(n, v) ==
    (UNION {Origins(p, v) : p \in Preds(n) \cap Reachable})
    \cup (IF n = Entry THEN {Caller} ELSE {})

Gives(origin, c) ==
    /\ origin # Caller
    /\ LET ins == program.code[origin[1]][origin[2]] IN ins.op = "const" /\ ins.value = c

(* However far the engine got, and though it may be cut off anywhere: a    *)
(* constant the rule would fold at the start of a block is what every      *)
(* execution has there, and a definition found for a variable at the end   *)
(* of a block is one that reaches it.                                      *)
FactsHold ==
    \A n \in Reachable :
        /\ analysis = "constants" =>
             \A v \in DOMAIN inStates[n] :
                inStates[n][v] # Top =>
                    \A origin \in OriginsBefore(n, v) : Gives(origin, inStates[n][v])
        /\ analysis = "definitions" =>
             \A v \in DOMAIN outStates[n] :
                outStates[n][v] # Top => outStates[n][v] \subseteq Origins(n, v)

(* The equations of the analysis hold at every block control reaches.      *)
Solved ==
    \A n \in Reachable :
        outStates[n] = Transfer(n, IF Preds(n) = {} THEN EntryState(program, analysis)
                                   ELSE Meet({outStates[p] : p \in Preds(n)}))

EntryTells == analysis = "definitions" => \E i \in DOMAIN program.code[Entry] :
                                             program.code[Entry][i].op # "call"

(* The engine "converges when OUT stops changing for all blocks": it ends  *)
(* before it is cut off, and in a solution.  A proof whose entry block     *)
(* defines nothing ends at once: its OUT is the bottom it started from.    *)
Converges == <>(worklist = <<>> /\ (EntryTells => Solved))
=============================================================================
