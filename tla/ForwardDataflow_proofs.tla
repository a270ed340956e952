------------------------ MODULE ForwardDataflow_proofs ------------------------
(***************************************************************************)
(* The forward dataflow engine is sound for any graph, any code and        *)
(* wherever it is cut off: types and the worklist (TypeCorrect), and that  *)
(* the facts it found are what every execution has (FactsAlwaysHold).      *)
(***************************************************************************)
EXTENDS ForwardDataflow, WellFoundedInduction, TLAPS

-------------------------------------------------------------------------------
(* Numbers.  A set of them that is not empty has a smallest one, hence what   *)
(* holds of 0 and is passed on holds of all.                                  *)
LEMMA Smallest ==
  ASSUME NEW S \in SUBSET Nat, S # {}
  PROVE  \E x \in S : \A y \in S : x <= y
<1>1. PICK x \in S : \A y \in S : ~(<<y, x>> \in OpToRel(<, Nat))
  BY NatLessThanWellFounded, WFMin
<1>2. \A y \in S : ~(y < x)
  BY <1>1, Zenon DEF OpToRel
<1> QED BY <1>2

LEMMA Induction ==
  ASSUME NEW S, 0 \in S, \A k \in Nat : k \in S => k + 1 \in S
  PROVE  Nat \subseteq S
<1> SUFFICES ASSUME Nat \ S # {} PROVE FALSE
  OBVIOUS
<1>1. PICK x \in Nat \ S : \A y \in Nat \ S : x <= y
  BY Smallest
<1>2. x # 0 /\ x - 1 \in Nat
  BY <1>1
<1>3. x - 1 \in S
  BY <1>1, <1>2
<1> QED BY <1>1, <1>2, <1>3

-------------------------------------------------------------------------------
(* The invariant *)

ValuesOf == IF analysis = "constants" THEN Values ELSE {Top} \cup SUBSET Sites
Environments == UNION {[D -> ValuesOf] : D \in SUBSET Vars}

Typed ==
  /\ program \in Programs /\ analysis \in Analyses
  /\ inStates \in [Nodes -> Environments] /\ outStates \in [Nodes -> Environments]
  /\ worklist \in Seq(Nodes) /\ IsInjective(worklist)
  /\ iterations \in 0..MaxIterations

(* Nothing is known of a block control does not reach, and a block without    *)
(* predecessors is entered with what the analysis began with.                 *)
Confined ==
  /\ ToSet(worklist) \subseteq Reachable
  /\ \A n \in Nodes \ Reachable : outStates[n] = Nothing
  /\ \A n \in Nodes : Preds(n) = {} =>
       inStates[n] = IF n = Entry THEN EntryState(program, analysis) ELSE Nothing
  /\ analysis = "constants" => Preds(Entry) = {}

(* What is known where a block ends is true there, on all ways it was reached *)
(* or not: it need not be what the predecessors say now.                      *)
TrueAt(origins, value) ==
  IF analysis = "constants" THEN \A origin \in origins : Gives(origin, value)
  ELSE value \subseteq origins

OutHolds ==
  \A n \in Nodes : \A v \in DOMAIN outStates[n] :
    outStates[n][v] # Top => TrueAt(Origins(n, v), outStates[n][v])

ComingTo(n, v) ==
  (UNION {Origins(p, v) : p \in Preds(n)}) \cup (IF n = Entry THEN {Caller} ELSE {})

InHolds ==
  \A n \in Nodes : \A v \in DOMAIN inStates[n] :
    analysis = "constants" /\ inStates[n][v] # Top =>
      \A origin \in ComingTo(n, v) : Gives(origin, inStates[n][v])

IInv == Typed /\ Confined /\ OutHolds /\ InHolds

-------------------------------------------------------------------------------
(* Reachability *)

LEMMA SuccsAreNodes ==
  ASSUME program \in Programs, NEW n \in Nodes
  PROVE  /\ program.succ[n] \in Seq(Nodes)
         /\ program.code[n] \in Seq(Instructions)
         /\ Succs(n) \subseteq Nodes
BY DataflowAssumption DEF Succs, ToSet

LEMMA ReachedItself ==
  ASSUME NEW n \in Nodes, NEW B
  PROVE  n \in Reached(n, B)
BY DEF Reached

LEMMA ReachedOn ==
  ASSUME NEW n \in Nodes, NEW B, NEW m \in Reached(n, B), NEW t \in Nodes,
         t \in Succs(m), t \in B
  PROVE  t \in Reached(n, B)
BY DEF Reached

LEMMA ReachedBefore ==
  ASSUME program \in Programs, NEW n \in Nodes, NEW B, NEW m \in Reached(n, B), m # n
  PROVE  m \in B /\ \E p \in Reached(n, B) : m \in Succs(p)
<1> SUFFICES ASSUME m \in B => \A p \in Reached(n, B) : m \notin Succs(p)
             PROVE  FALSE
  OBVIOUS
<1> DEFINE S == Reached(n, B) \ {m}
<1>1. S \in SUBSET Nodes /\ n \in S
  BY ReachedItself DEF Reached
<1>2. ASSUME NEW s \in S
      PROVE  Succs(s) \cap B \subseteq S
  <2>1. s \in Reached(n, B) /\ s \in Nodes /\ Succs(s) \subseteq Nodes
    BY <1>1, SuccsAreNodes
  <2>2. \A t \in Succs(s) \cap B : t \in Reached(n, B)
    BY <2>1, ReachedOn
  <2> QED BY <2>1, <2>2
<1>3. m \in S
  <2> HIDE DEF S
  <2> QED BY <1>1, <1>2 DEF Reached
<1> QED BY <1>3

-------------------------------------------------------------------------------
(* The code of a block *)

(* The environments transfer_block_insnwise goes through.                     *)
Walk(n, env, after) ==
  after = [i \in 0..Len(program.code[n]) |->
             IF i = 0 THEN env ELSE TransferSingle(n, after[i-1], i)]

LEMMA WalkExists ==
  ASSUME program \in Programs, NEW n \in Nodes, NEW env
  PROVE  \E after : Walk(n, env, after) /\ Transfer(n, env) = after[Len(program.code[n])]
<1> DEFINE Upto(k, g) == g = [i \in 0..k |-> IF i = 0 THEN env ELSE TransferSingle(n, g[i-1], i)]
           S == {k \in Nat : \E g : Upto(k, g)}
<1>1. 0 \in S
  <2>1. Upto(0, [i \in 0..0 |-> env])
    OBVIOUS
  <2> QED BY <2>1
<1>2. ASSUME NEW k \in Nat, k \in S
      PROVE  k + 1 \in S
  <2>1. PICK g : Upto(k, g)
    BY <1>2
  <2> DEFINE h == [i \in 0..k+1 |-> IF i = 0 THEN env ELSE TransferSingle(n, g[i-1], i)]
  <2>2. \A i \in 0..k : g[i] = h[i]
    BY <2>1
  <2>3. \A i \in 0..k+1 : i # 0 => i - 1 \in 0..k
    OBVIOUS
  <2>4. \A i \in 0..k+1 : h[i] = IF i = 0 THEN env ELSE TransferSingle(n, h[i-1], i)
    BY <2>2, <2>3
  <2>5. h = [i \in 0..k+1 |-> h[i]]
    OBVIOUS
  <2> HIDE DEF h
  <2>6. Upto(k + 1, h)
    BY <2>4, <2>5
  <2> QED BY <2>6
<1>3. Nat \subseteq S
  <2> HIDE DEF S
  <2> QED BY <1>1, <1>2, Induction
<1>4. Len(program.code[n]) \in Nat
  BY SuccsAreNodes
<1>5. \E after : Walk(n, env, after)
  BY <1>3, <1>4 DEF Walk
<1> QED BY <1>5 DEF Walk, Transfer

(* What an instruction may leave in a variable it touches.                    *)
LeftBy(n, j, value) ==
  IF analysis = "constants"
  THEN value = Top \/ program.code[n][j] = [op |-> "const", var |-> program.code[n][j].var,
                                            value |-> value]
  ELSE value = {<<n, j>>}

(* After k instructions: a variable not touched by them is as it was, another *)
(* one as the last of those that touched it left it.                          *)
Traced(n, env, k, e) ==
  \A v \in DOMAIN e :
    \/ /\ \A j \in Touching(n, v) : j > k
       /\ v \in DOMAIN env /\ e[v] = env[v]
    \/ \E j \in Touching(n, v) :
         /\ j <= k /\ \A i \in Touching(n, v) : i <= k => i <= j
         /\ LeftBy(n, j, e[v])

LEMMA EnvironmentIs ==
  ASSUME NEW e
  PROVE  e \in Environments <=>
           /\ e = [v \in DOMAIN e |-> e[v]]
           /\ DOMAIN e \subseteq Vars /\ \A v \in DOMAIN e : e[v] \in ValuesOf
BY DEF Environments

(* One instruction.                                                           *)
LEMMA SingleTyped ==
  ASSUME program \in Programs, analysis \in Analyses, NEW n \in Nodes,
         NEW i \in 1..Len(program.code[n]), NEW e \in Environments
  PROVE  TransferSingle(n, e, i) \in Environments
<1> DEFINE ins == program.code[n][i]
<1>1. ins \in Instructions
  BY SuccsAreNodes
<1>2. <<n, i>> \in Sites
  BY SuccsAreNodes DEF Sites
<1>3. DOMAIN e \subseteq Vars /\ \A v \in DOMAIN e : e[v] \in ValuesOf
  BY EnvironmentIs
<1> HIDE DEF ins
<1>4. CASE analysis = "constants"
  <2>1. TransferSingle(n, e, i) = TransferConstant(e, ins)
    BY <1>4 DEF TransferSingle, ins
  <2>2. ValuesOf = Consts \cup {Top}
    BY <1>4 DEF ValuesOf, Values
  <2>3. CASE ins.op = "call"
    <3>1. TransferConstant(e, ins) = [v \in DOMAIN e |-> Top]
      BY <2>3 DEF TransferConstant
    <3> QED BY <1>3, <2>1, <2>2, <3>1, EnvironmentIs
  <2>4. CASE ins.op = "const"
    <3>1. ins.var \in Vars /\ ins.value \in Consts
      BY <1>1, <2>4 DEF Instructions
    <3>2. TransferConstant(e, ins) = With(e, ins.var, ins.value)
      BY <2>4 DEF TransferConstant
    <3> QED BY <1>3, <2>1, <2>2, <3>1, <3>2, EnvironmentIs DEF With
  <2>5. CASE ins.op = "write"
    <3>1. ins.var \in Vars
      BY <1>1, <2>5 DEF Instructions
    <3>2. TransferConstant(e, ins) = With(e, ins.var, Top)
      BY <2>5 DEF TransferConstant
    <3> QED BY <1>3, <2>1, <2>2, <3>1, <3>2, EnvironmentIs DEF With
  <2> QED BY <1>1, <2>3, <2>4, <2>5 DEF Instructions
<1>5. CASE analysis = "definitions"
  <2>1. TransferSingle(n, e, i) = IF ins.op = "call" THEN e ELSE With(e, ins.var, {<<n, i>>})
    BY <1>5 DEF TransferSingle, TransferDefinition, ins
  <2>2. ValuesOf = {Top} \cup SUBSET Sites
    BY <1>5 DEF ValuesOf
  <2>3. CASE ins.op = "call"
    BY <2>1, <2>3
  <2>4. CASE ins.op # "call"
    <3>1. ins.var \in Vars
      BY <1>1, <2>4 DEF Instructions
    <3> QED BY <1>2, <1>3, <2>1, <2>2, <2>4, <3>1, EnvironmentIs DEF With
  <2> QED BY <2>3, <2>4
<1> QED BY <1>4, <1>5 DEF Analyses

LEMMA SingleTraced ==
  ASSUME program \in Programs, analysis \in Analyses, NEW n \in Nodes, NEW env,
         NEW k \in Nat, k + 1 \in 1..Len(program.code[n]), NEW e, Traced(n, env, k, e)
  PROVE  Traced(n, env, k + 1, TransferSingle(n, e, k + 1))
<1> DEFINE ins == program.code[n][k + 1]
           next == TransferSingle(n, e, k + 1)
<1>1. ins \in Instructions
  BY SuccsAreNodes
<1>2. ASSUME NEW v PROVE Touching(n, v) \subseteq Nat /\ (k + 1 \in Touching(n, v) <=> Touches(ins, v))
  BY SuccsAreNodes DEF Touching
<1>3. \A v \in DOMAIN next : IF Touches(ins, v) THEN LeftBy(n, k + 1, next[v])
                             ELSE v \in DOMAIN e /\ next[v] = e[v]
  <2>1. CASE analysis = "constants"
    <3>1. next = TransferConstant(e, ins)
      BY <2>1 DEF TransferSingle
    <3>2. \A v, x : LeftBy(n, k + 1, x) <=> x = Top \/ ins = [op |-> "const", var |-> ins.var, value |-> x]
      BY <2>1 DEF LeftBy
    <3>3. \A v : Touches(ins, v) <=> ins.op = "call" \/ ins.var = v
      BY <2>1 DEF Touches, Sets
    <3> HIDE DEF ins, next
    <3>4. CASE ins.op = "call"
      BY <3>1, <3>2, <3>3, <3>4 DEF TransferConstant
    <3>5. CASE ins.op = "const"
      <4>1. ins = [op |-> "const", var |-> ins.var, value |-> ins.value]
        BY <1>1, <3>5 DEF Instructions
      <4>2. next = With(e, ins.var, ins.value)
        BY <3>1, <3>5 DEF TransferConstant
      <4> QED BY <3>2, <3>3, <3>5, <4>1, <4>2 DEF With
    <3>6. CASE ins.op = "write"
      <4>2. next = With(e, ins.var, Top)
        BY <3>1, <3>6 DEF TransferConstant
      <4> QED BY <3>2, <3>3, <3>6, <4>2 DEF With
    <3> QED BY <1>1, <3>4, <3>5, <3>6 DEF Instructions
  <2>2. CASE analysis = "definitions"
    <3>1. next = IF ins.op = "call" THEN e ELSE With(e, ins.var, {<<n, k + 1>>})
      BY <2>2 DEF TransferSingle, TransferDefinition
    <3>2. \A v : Touches(ins, v) <=> ins.op # "call" /\ ins.var = v
      BY <2>2 DEF Touches, Sets
    <3>3. \A x : LeftBy(n, k + 1, x) <=> x = {<<n, k + 1>>}
      BY <2>2 DEF LeftBy
    <3> HIDE DEF ins, next
    <3> QED BY <3>1, <3>2, <3>3 DEF With
  <2> QED BY <2>1, <2>2 DEF Analyses
<1>4. SUFFICES ASSUME NEW v \in DOMAIN next
               PROVE  \/ /\ \A j \in Touching(n, v) : j > k + 1
                         /\ v \in DOMAIN env /\ next[v] = env[v]
                      \/ \E j \in Touching(n, v) :
                           /\ j <= k + 1 /\ \A i \in Touching(n, v) : i <= k + 1 => i <= j
                           /\ LeftBy(n, j, next[v])
  BY DEF Traced
<1>5. CASE Touches(ins, v)
  <2>1. k + 1 \in Touching(n, v) /\ LeftBy(n, k + 1, next[v])
    BY <1>2, <1>3, <1>5
  <2> QED BY <2>1
<1>6. CASE ~Touches(ins, v)
  <2>1. v \in DOMAIN e /\ next[v] = e[v] /\ k + 1 \notin Touching(n, v)
    BY <1>2, <1>3, <1>6
  <2> HIDE DEF next
  <2>2. \A j \in Touching(n, v) : j \in Nat /\ j # k + 1
    BY <1>2, <2>1
  <2>3. CASE \A j \in Touching(n, v) : j > k
    <3>1. \A j \in Touching(n, v) : j > k + 1 /\ ~(j <= k)
      BY <2>2, <2>3
    <3>2. v \in DOMAIN env /\ e[v] = env[v]
      BY <2>1, <3>1 DEF Traced
    <3> QED BY <2>1, <3>1, <3>2
  <2>4. CASE ~(\A j \in Touching(n, v) : j > k)
    <3>1. PICK j \in Touching(n, v) : /\ j <= k /\ \A i \in Touching(n, v) : i <= k => i <= j
                                      /\ LeftBy(n, j, e[v])
      BY <2>1, <2>4 DEF Traced
    <3>2. j <= k + 1 /\ \A i \in Touching(n, v) : i <= k + 1 => i <= k
      BY <2>2, <3>1
    <3> QED BY <2>1, <3>1, <3>2
  <2> QED BY <2>3, <2>4
<1> QED BY <1>5, <1>6

LEMMA WalkKeeps ==
  ASSUME program \in Programs, analysis \in Analyses, NEW n \in Nodes,
         NEW env \in Environments, NEW after, Walk(n, env, after)
  PROVE  \A k \in 0..Len(program.code[n]) :
           after[k] \in Environments /\ Traced(n, env, k, after[k])
<1> DEFINE N == Len(program.code[n])
           S == {k \in Nat : k <= N => after[k] \in Environments /\ Traced(n, env, k, after[k])}
<1>1. N \in Nat
  BY SuccsAreNodes
<1>2. 0 \in S
  <2>1. after[0] = env
    BY <1>1 DEF Walk
  <2>2. \A v : \A j \in Touching(n, v) : j > 0
    BY SuccsAreNodes DEF Touching
  <2> QED BY <2>1, <2>2 DEF Traced
<1>3. ASSUME NEW k \in Nat, k \in S
      PROVE  k + 1 \in S
  <2> SUFFICES ASSUME k + 1 <= N
               PROVE  after[k+1] \in Environments /\ Traced(n, env, k + 1, after[k+1])
    OBVIOUS
  <2>1. after[k] \in Environments /\ Traced(n, env, k, after[k])
    BY <1>1, <1>3
  <2>2. after[k+1] = TransferSingle(n, after[k], k + 1)
    BY <1>1 DEF Walk
  <2>3. k + 1 \in 1..N
    BY <1>1
  <2> QED BY <2>1, <2>2, <2>3, SingleTyped, SingleTraced
<1>4. Nat \subseteq S
  <2> HIDE DEF S
  <2> QED BY <1>2, <1>3, Induction
<1> QED BY <1>1, <1>4

(* A whole block: the value of a variable at its end is that of before, if the*)
(* block does not touch it, or what the last instruction that does left.      *)
LEMMA TransferTraced ==
  ASSUME program \in Programs, analysis \in Analyses, NEW n \in Nodes,
         NEW env \in Environments
  PROVE  LET out == Transfer(n, env)
         IN  /\ out \in Environments
             /\ \A v \in DOMAIN out :
                  IF Touching(n, v) = {} THEN v \in DOMAIN env /\ out[v] = env[v]
                  ELSE LastTouch(n, v) \in Touching(n, v) /\ LeftBy(n, LastTouch(n, v), out[v])
<1> DEFINE N == Len(program.code[n])
           out == Transfer(n, env)
<1>1. N \in Nat /\ \A v : Touching(n, v) \subseteq 1..N
  BY SuccsAreNodes DEF Touching
<1>2. PICK after : Walk(n, env, after) /\ out = after[N]
  BY WalkExists
<1>3. out \in Environments /\ Traced(n, env, N, out)
  BY <1>1, <1>2, WalkKeeps
<1>4. ASSUME NEW v \in DOMAIN out, Touching(n, v) = {}
      PROVE  v \in DOMAIN env /\ out[v] = env[v]
  BY <1>3, <1>4 DEF Traced
<1>5. ASSUME NEW v \in DOMAIN out, Touching(n, v) # {}
      PROVE  LastTouch(n, v) \in Touching(n, v) /\ LeftBy(n, LastTouch(n, v), out[v])
  <2>1. \A j \in Touching(n, v) : j \in Nat /\ j <= N /\ ~(j > N)
    BY <1>1
  <2>2. PICK j \in Touching(n, v) : (\A i \in Touching(n, v) : i <= N => i <= j) /\ LeftBy(n, j, out[v])
    BY <1>3, <1>5, <2>1 DEF Traced
  <2>3. LastTouch(n, v) \in Touching(n, v) /\ \A i \in Touching(n, v) : i <= LastTouch(n, v)
    BY <2>1, <2>2 DEF LastTouch
  <2>4. LastTouch(n, v) = j
    BY <2>1, <2>2, <2>3
  <2> QED BY <2>2, <2>4
<1> HIDE DEF out
<1> QED BY <1>3, <1>4, <1>5 DEF out

-------------------------------------------------------------------------------
(* Meeting *)

LEMMA MeetTyped ==
  ASSUME NEW envs \in SUBSET Environments, analysis \in Analyses
  PROVE  Meet(envs) \in Environments
<1>1. Known(envs) \subseteq Vars
  BY EnvironmentIs DEF Known
<1>2. \A e \in envs : \A v \in DOMAIN e : e[v] \in ValuesOf
  BY EnvironmentIs
<1>3. CASE analysis = "constants"
  <2>1. ValuesOf = Consts \cup {Top}
    BY <1>3 DEF ValuesOf, Values
  <2>2. \A v : (\E c \in Consts : \A e \in envs : v \in DOMAIN e /\ e[v] = c) =>
               (CHOOSE c \in Consts : \A e \in envs : e[v] = c) \in Consts
    OBVIOUS
  <2>3. Meet(envs) = MeetConstants(envs)
    BY <1>3 DEF Meet
  <2>4. MeetConstants(envs) \in [Known(envs) -> ValuesOf]
    BY <2>1, <2>2 DEF MeetConstants
  <2> QED BY <1>1, <2>3, <2>4 DEF Environments
<1>4. CASE analysis = "definitions"
  <2>1. ValuesOf = {Top} \cup SUBSET Sites
    BY <1>4 DEF ValuesOf
  <2>2. ASSUME NEW v, Top \notin {e[v] : e \in {x \in envs : v \in DOMAIN x}}
        PROVE  UNION {e[v] : e \in {x \in envs : v \in DOMAIN x}} \subseteq Sites
    BY <1>2, <2>1, <2>2
  <2>3. Meet(envs) = MeetDefinitions(envs)
    BY <1>4 DEF Meet, Analyses
  <2>4. MeetDefinitions(envs) \in [Known(envs) -> ValuesOf]
    BY <2>1, <2>2 DEF MeetDefinitions
  <2> QED BY <1>1, <2>3, <2>4 DEF Environments
<1> QED BY <1>3, <1>4 DEF Analyses

(* A constant is one all environments agree on; a definition is in one of them. *)
LEMMA MeetMeans ==
  ASSUME NEW envs \in SUBSET Environments, analysis \in Analyses,
         NEW v \in DOMAIN Meet(envs), Meet(envs)[v] # Top
  PROVE  IF analysis = "constants"
         THEN \A e \in envs : v \in DOMAIN e /\ e[v] = Meet(envs)[v]
         ELSE \A d \in Meet(envs)[v] :
                \E e \in envs : v \in DOMAIN e /\ e[v] # Top /\ d \in e[v]
<1>1. CASE analysis = "constants"
  <2>1. Meet(envs) = MeetConstants(envs)
    BY <1>1 DEF Meet
  <2>2. Meet(envs)[v] = IF \E c \in Consts : \A e \in envs : v \in DOMAIN e /\ e[v] = c
                        THEN CHOOSE c \in Consts : \A e \in envs : e[v] = c ELSE Top
    BY <2>1 DEF MeetConstants
  <2>3. \E c \in Consts : \A e \in envs : v \in DOMAIN e /\ e[v] = c
    BY <2>2
  <2>4. \A e \in envs : e[v] = CHOOSE c \in Consts : \A x \in envs : x[v] = c
    BY <2>3
  <2> QED BY <1>1, <2>2, <2>3, <2>4
<1>2. CASE analysis = "definitions"
  <2> DEFINE found == {e[v] : e \in {x \in envs : v \in DOMAIN x}}
  <2>1. Meet(envs) = MeetDefinitions(envs)
    BY <1>2 DEF Meet
  <2>2. Meet(envs)[v] = IF Top \in found \/ Cardinality(UNION found) > MaxDefs
                        THEN Top ELSE UNION found
    BY <2>1 DEF MeetDefinitions
  <2>3. Top \notin found /\ Meet(envs)[v] = UNION found
    BY <2>2
  <2> QED BY <1>2, <2>3
<1> QED BY <1>1, <1>2 DEF Analyses

-------------------------------------------------------------------------------
(* The worklist *)

LEMMA PushKeeps ==
  ASSUME NEW list \in Seq(Nodes), IsInjective(list), NEW n \in Nodes
  PROVE  /\ Push(list, n) \in Seq(Nodes) /\ IsInjective(Push(list, n))
         /\ ToSet(Push(list, n)) = ToSet(list) \cup {n}
<1>1. CASE n \in ToSet(list)
  BY <1>1 DEF Push
<1>2. CASE n \notin ToSet(list)
  <2>1. Push(list, n) = Append(list, n)
    BY <1>2 DEF Push
  <2>2. \A i \in 1..Len(list) : list[i] # n
    BY <1>2 DEF ToSet
  <2>3. \A i, j \in 1..Len(list) : list[i] = list[j] => i = j
    BY DEF IsInjective
  <2>4. IsInjective(Append(list, n))
    BY <2>2, <2>3 DEF IsInjective
  <2>5. ToSet(Append(list, n)) = ToSet(list) \cup {n}
    <3>1. ToSet(Append(list, n)) = {Append(list, n)[i] : i \in 1..Len(list) + 1}
      BY DEF ToSet
    <3>2. \A i \in 1..Len(list) : Append(list, n)[i] = list[i]
      OBVIOUS
    <3>3. Append(list, n)[Len(list) + 1] = n
      OBVIOUS
    <3>4. ToSet(list) = {list[i] : i \in 1..Len(list)}
      BY DEF ToSet
    <3>5. 1..Len(list) + 1 = (1..Len(list)) \cup {Len(list) + 1}
      OBVIOUS
    <3> QED BY <3>1, <3>2, <3>3, <3>4, <3>5
  <2> QED BY <2>1, <2>4, <2>5
<1> QED BY <1>1, <1>2

(* The worklists the loop over the successors goes through.                   *)
Pushing(n, list, queue) ==
  queue = [i \in 0..Len(program.succ[n]) |->
             IF i = 0 THEN list ELSE Push(queue[i-1], program.succ[n][i])]

LEMMA PushingExists ==
  ASSUME program \in Programs, NEW n \in Nodes, NEW list
  PROVE  \E queue : Pushing(n, list, queue) /\ AllPushed(list, n) = queue[Len(program.succ[n])]
<1> DEFINE Upto(k, g) == g = [i \in 0..k |-> IF i = 0 THEN list ELSE Push(g[i-1], program.succ[n][i])]
           S == {k \in Nat : \E g : Upto(k, g)}
<1>1. 0 \in S
  <2>1. Upto(0, [i \in 0..0 |-> list])
    OBVIOUS
  <2> QED BY <2>1
<1>2. ASSUME NEW k \in Nat, k \in S
      PROVE  k + 1 \in S
  <2>1. PICK g : Upto(k, g)
    BY <1>2
  <2> DEFINE h == [i \in 0..k+1 |-> IF i = 0 THEN list ELSE Push(g[i-1], program.succ[n][i])]
  <2>2. \A i \in 0..k : g[i] = h[i]
    BY <2>1
  <2>3. \A i \in 0..k+1 : i # 0 => i - 1 \in 0..k
    OBVIOUS
  <2>4. \A i \in 0..k+1 : h[i] = IF i = 0 THEN list ELSE Push(h[i-1], program.succ[n][i])
    BY <2>2, <2>3
  <2>5. h = [i \in 0..k+1 |-> h[i]]
    OBVIOUS
  <2> HIDE DEF h
  <2>6. Upto(k + 1, h)
    BY <2>4, <2>5
  <2> QED BY <2>6
<1>3. Nat \subseteq S
  <2> HIDE DEF S
  <2> QED BY <1>1, <1>2, Induction
<1>4. Len(program.succ[n]) \in Nat
  BY SuccsAreNodes
<1>5. \E queue : Pushing(n, list, queue)
  BY <1>3, <1>4 DEF Pushing
<1> QED BY <1>5 DEF Pushing, AllPushed

LEMMA AllPushedKeeps ==
  ASSUME program \in Programs, NEW n \in Nodes, NEW list \in Seq(Nodes), IsInjective(list)
  PROVE  LET all == AllPushed(list, n)
         IN  /\ all \in Seq(Nodes) /\ IsInjective(all)
             /\ ToSet(all) \subseteq ToSet(list) \cup Succs(n)
<1> DEFINE N == Len(program.succ[n])
           Kept(x) == /\ x \in Seq(Nodes) /\ IsInjective(x)
                      /\ ToSet(x) \subseteq ToSet(list) \cup Succs(n)
<1>1. N \in Nat /\ \A i \in 1..N : program.succ[n][i] \in Nodes /\ program.succ[n][i] \in Succs(n)
  BY SuccsAreNodes DEF Succs, ToSet
<1>2. PICK queue : Pushing(n, list, queue) /\ AllPushed(list, n) = queue[N]
  BY PushingExists
<1> DEFINE S == {k \in Nat : k <= N => Kept(queue[k])}
<1>3. 0 \in S
  BY <1>1, <1>2 DEF Pushing
<1>4. ASSUME NEW k \in Nat, k \in S
      PROVE  k + 1 \in S
  <2> SUFFICES ASSUME k + 1 <= N
               PROVE  Kept(queue[k+1])
    OBVIOUS
  <2>1. Kept(queue[k])
    BY <1>1, <1>4
  <2>2. queue[k+1] = Push(queue[k], program.succ[n][k+1])
    BY <1>1, <1>2 DEF Pushing
  <2>3. program.succ[n][k+1] \in Nodes /\ program.succ[n][k+1] \in Succs(n)
    BY <1>1
  <2> DEFINE m == program.succ[n][k+1]
             list1 == queue[k]
  <2>4. /\ Push(list1, m) \in Seq(Nodes) /\ IsInjective(Push(list1, m))
        /\ ToSet(Push(list1, m)) = ToSet(list1) \cup {m}
    <3>1. m \in Nodes /\ list1 \in Seq(Nodes) /\ IsInjective(list1)
      BY <2>1, <2>3
    <3> HIDE DEF m, list1
    <3> QED BY <3>1, PushKeeps
  <2> QED BY <2>1, <2>2, <2>3, <2>4
<1>5. Nat \subseteq S
  <2> HIDE DEF S
  <2> QED BY <1>3, <1>4, Induction
<1>6. Kept(queue[N])
  BY <1>1, <1>5
<1> QED BY <1>2, <1>6

-------------------------------------------------------------------------------
(* The invariant holds *)

LEMMA NothingTyped == Nothing \in Environments /\ DOMAIN Nothing = {}
BY EnvironmentIs DEF Nothing

LEMMA EntryTyped ==
  ASSUME program \in Programs, analysis \in Analyses
  PROVE  EntryState(program, analysis) \in Environments
<1>1. CASE analysis = "constants"
  <2>1. EntryState(program, analysis) = [v \in Written(program) |-> Top]
    BY <1>1 DEF EntryState
  <2>2. Top \in ValuesOf /\ Written(program) \subseteq Vars
    BY <1>1 DEF ValuesOf, Values, Written
  <2> QED BY <2>1, <2>2, EnvironmentIs
<1>2. CASE analysis # "constants"
  BY <1>2, NothingTyped DEF EntryState
<1> QED BY <1>1, <1>2

LEMMA InitInv == Init => IInv
<1> SUFFICES ASSUME Init PROVE IInv
  OBVIOUS
<1>1. program \in Programs /\ analysis \in Analyses
  BY DEF Init
<1>2. Typed
  <2>1. inStates \in [Nodes -> Environments] /\ outStates \in [Nodes -> Environments]
    BY <1>1, NothingTyped, EntryTyped DEF Init
  <2>2. <<Entry>> \in Seq(Nodes) /\ IsInjective(<<Entry>>)
    BY DataflowAssumption DEF IsInjective
  <2> QED BY <1>1, <2>1, <2>2, DataflowAssumption DEF Init, Typed
<1>3. Confined
  <2>1. ToSet(<<Entry>>) = {Entry} /\ Entry \in Reachable
    BY ReachedItself, DataflowAssumption DEF ToSet, Reachable
  <2>2. Reachable \subseteq Nodes
    BY DEF Reachable, Reached
  <2> QED BY <2>1, <2>2, DataflowAssumption DEF Init, Confined, Preds, Succs
<1>4. OutHolds
  BY NothingTyped DEF Init, OutHolds
<1>5. InHolds
  <2> SUFFICES ASSUME NEW n \in Nodes, NEW v \in DOMAIN inStates[n],
                      analysis = "constants", inStates[n][v] # Top
               PROVE  FALSE
    BY DEF InHolds
  <2>1. inStates[n] = [w \in Written(program) |-> Top] \/ inStates[n] = Nothing
    BY DEF Init, EntryState
  <2> QED BY <2>1, NothingTyped
<1> QED BY <1>2, <1>3, <1>4, <1>5 DEF IInv

(* Where a variable is untouched its value comes from the predecessors; where *)
(* it is not, it has one origin.                                              *)
LEMMA OriginsOfUntouched ==
  ASSUME program \in Programs, NEW n \in Nodes, NEW v, Touching(n, v) = {}
  PROVE  Origins(n, v) \subseteq ComingTo(n, v)
<1> DEFINE B == {t \in Nodes : Touching(t, v) = {}}
<1>1. ASSUME NEW m \in Nodes, n \in Untouched(m, v), n # m
      PROVE  \E p \in Preds(n) : p \in Untouched(m, v)
  <2>1. PICK p \in Reached(m, B) : n \in Succs(p)
    <3>1. n \in Reached(m, B)
      BY <1>1 DEF Untouched
    <3> HIDE DEF B
    <3> QED BY <1>1, <3>1, ReachedBefore
  <2>2. p \in Preds(n)
    BY <2>1 DEF Preds, Reached
  <2> QED BY <2>1, <2>2 DEF Untouched
<1>2. ASSUME NEW m \in Reachable, Touching(m, v) # {}, n \in Untouched(m, v)
      PROVE  <<m, LastTouch(m, v)>> \in ComingTo(n, v)
  <2>1. m \in Nodes /\ n # m
    BY <1>2 DEF Reachable, Reached
  <2>2. PICK p \in Preds(n) : p \in Untouched(m, v)
    BY <1>1, <1>2, <2>1
  <2>3. <<m, LastTouch(m, v)>> \in Origins(p, v)
    BY <1>2, <2>2 DEF Origins
  <2> QED BY <2>3 DEF ComingTo
<1>3. ASSUME Touching(Entry, v) = {}, n \in Untouched(Entry, v)
      PROVE  Caller \in ComingTo(n, v)
  <2>1. CASE n = Entry
    BY <2>1 DEF ComingTo
  <2>2. CASE n # Entry
    <3>1. PICK p \in Preds(n) : p \in Untouched(Entry, v)
      BY <1>1, <1>3, <2>2, DataflowAssumption
    <3>2. Caller \in Origins(p, v)
      BY <1>3, <3>1 DEF Origins
    <3> QED BY <3>2 DEF ComingTo
  <2> QED BY <2>1, <2>2
<1> QED BY <1>2, <1>3 DEF Origins

LEMMA OriginsOfTouched ==
  ASSUME program \in Programs, NEW n \in Nodes, NEW v, Touching(n, v) # {}
  PROVE  Origins(n, v) \subseteq {<<n, LastTouch(n, v)>>}
<1>1. ASSUME NEW m \in Nodes, n \in Untouched(m, v)
      PROVE  m = n
  BY <1>1, ReachedBefore DEF Untouched
<1> QED BY <1>1, DataflowAssumption DEF Origins, Reachable, Reached

LEMMA OriginsComing ==
  ASSUME program \in Programs, NEW n \in Nodes, NEW v, Touching(n, v) = {},
         NEW p \in Preds(n)
  PROVE  Origins(p, v) \subseteq Origins(n, v)
<1>1. ASSUME NEW m \in Nodes, p \in Untouched(m, v)
      PROVE  n \in Untouched(m, v)
  BY <1>1, ReachedOn DEF Untouched, Preds
<1> QED BY <1>1, DataflowAssumption DEF Origins, Reachable, Reached

LEMMA OriginsHere ==
  ASSUME program \in Programs, NEW n \in Reachable, NEW v, Touching(n, v) # {}
  PROVE  <<n, LastTouch(n, v)>> \in Origins(n, v)
<1>1. n \in Nodes
  BY DEF Reachable, Reached
<1> QED BY <1>1, ReachedItself DEF Origins, Untouched

(* What is true of what enters a block.                                       *)
LEMMA MergedHolds ==
  ASSUME IInv, NEW n \in Reachable
  PROVE  LET in == Merged(n)
         IN  /\ in \in Environments
             /\ \A v \in DOMAIN in : in[v] # Top =>
                  IF analysis = "constants" THEN \A o \in ComingTo(n, v) : Gives(o, in[v])
                  ELSE Touching(n, v) = {} => in[v] \subseteq Origins(n, v)
<1> DEFINE in == Merged(n)
           envs == {outStates[p] : p \in Preds(n)}
<1>1. n \in Nodes /\ Preds(n) \subseteq Nodes
  BY DEF Reachable, Reached, Preds
<1>2. program \in Programs /\ analysis \in Analyses
  BY DEF IInv, Typed
<1>3. CASE Preds(n) = {}
  <2>1. in = inStates[n] /\ in \in Environments
    BY <1>1, <1>3 DEF Merged, IInv, Typed
  <2>2. CASE analysis = "constants"
    BY <1>1, <2>1, <2>2 DEF IInv, InHolds
  <2>3. CASE analysis = "definitions"
    <3>1. in = Nothing
      BY <1>1, <1>3, <2>1, <2>3 DEF IInv, Confined, EntryState
    <3> QED BY <3>1, <2>1, NothingTyped
  <2> QED BY <1>2, <2>2, <2>3 DEF Analyses
<1>4. CASE Preds(n) # {}
  <2>1. in = Meet(envs)
    BY <1>4 DEF Merged
  <2>2. envs \in SUBSET Environments
    BY <1>1 DEF IInv, Typed
  <2>3. Meet(envs) \in Environments
    <3> HIDE DEF envs
    <3> QED BY <1>2, <2>2, MeetTyped
  <2> SUFFICES ASSUME NEW v \in DOMAIN in, in[v] # Top
               PROVE  IF analysis = "constants" THEN \A o \in ComingTo(n, v) : Gives(o, in[v])
                      ELSE Touching(n, v) = {} => in[v] \subseteq Origins(n, v)
    BY <2>1, <2>3
  <2>4. IF analysis = "constants"
        THEN \A e \in envs : v \in DOMAIN e /\ e[v] = in[v]
        ELSE \A d \in in[v] : \E e \in envs : v \in DOMAIN e /\ e[v] # Top /\ d \in e[v]
    <3>1. v \in DOMAIN Meet(envs) /\ Meet(envs)[v] # Top
      BY <2>1
    <3> HIDE DEF envs, in
    <3> QED BY <1>2, <2>1, <2>2, <3>1, MeetMeans
  <2>5. CASE analysis = "constants"
    <3>1. n # Entry
      BY <1>4, <2>5 DEF IInv, Confined
    <3>2. \A p \in Preds(n) : \A o \in Origins(p, v) : Gives(o, in[v])
      <4>1. ASSUME NEW p \in Preds(n)
            PROVE  v \in DOMAIN outStates[p] /\ outStates[p][v] = in[v]
        BY <2>4, <2>5
      <4> HIDE DEF in
      <4> QED BY <1>1, <2>5, <4>1 DEF IInv, OutHolds, TrueAt
    <3> HIDE DEF in
    <3> QED BY <2>5, <3>1, <3>2 DEF ComingTo
  <2>6. CASE analysis = "definitions"
    <3> SUFFICES ASSUME Touching(n, v) = {}, NEW d \in in[v]
                 PROVE  d \in Origins(n, v)
      BY <2>6
    <3>1. PICK p \in Preds(n) : /\ v \in DOMAIN outStates[p] /\ outStates[p][v] # Top
                                /\ d \in outStates[p][v]
      BY <2>4, <2>6
    <3>2. d \in Origins(p, v)
      BY <1>1, <2>6, <3>1 DEF IInv, OutHolds, TrueAt
    <3> QED BY <1>1, <1>2, <3>1, <3>2, OriginsComing
  <2> QED BY <1>2, <2>5, <2>6 DEF Analyses
<1> QED BY <1>3, <1>4

(* And of what leaves it.                                                     *)
LEMMA TransferHolds ==
  ASSUME IInv, NEW n \in Reachable
  PROVE  LET out == Transfer(n, Merged(n))
         IN  /\ out \in Environments
             /\ \A v \in DOMAIN out : out[v] # Top => TrueAt(Origins(n, v), out[v])
<1> DEFINE in == Merged(n)
           out == Transfer(n, in)
<1>1. /\ n \in Nodes /\ program \in Programs /\ analysis \in Analyses
      /\ in \in Environments
  BY MergedHolds DEF Reachable, Reached, IInv, Typed
<1>2. \A v \in DOMAIN in : in[v] # Top =>
        IF analysis = "constants" THEN \A o \in ComingTo(n, v) : Gives(o, in[v])
        ELSE Touching(n, v) = {} => in[v] \subseteq Origins(n, v)
  BY MergedHolds
<1> HIDE DEF in
<1>3. /\ out \in Environments
      /\ \A v \in DOMAIN out :
           IF Touching(n, v) = {} THEN v \in DOMAIN in /\ out[v] = in[v]
           ELSE LastTouch(n, v) \in Touching(n, v) /\ LeftBy(n, LastTouch(n, v), out[v])
  BY <1>1, TransferTraced
<1> HIDE DEF out
<1>4. ASSUME NEW v \in DOMAIN out, out[v] # Top
      PROVE  TrueAt(Origins(n, v), out[v])
  <2>1. CASE Touching(n, v) = {}
    <3>1. v \in DOMAIN in /\ out[v] = in[v]
      BY <1>3, <2>1
    <3>2. CASE analysis = "constants"
      <4>1. Origins(n, v) \subseteq ComingTo(n, v)
        BY <1>1, <2>1, OriginsOfUntouched
      <4>2. \A o \in ComingTo(n, v) : Gives(o, out[v])
        BY <1>2, <1>4, <3>1, <3>2
      <4> QED BY <3>2, <4>1, <4>2 DEF TrueAt
    <3>3. CASE analysis = "definitions"
      <4>1. out[v] \subseteq Origins(n, v)
        BY <1>2, <1>4, <2>1, <3>1, <3>3
      <4> QED BY <3>3, <4>1 DEF TrueAt
    <3> QED BY <1>1, <3>2, <3>3 DEF Analyses
  <2>2. CASE Touching(n, v) # {}
    <3> DEFINE j == LastTouch(n, v)
    <3>1. j \in Touching(n, v) /\ LeftBy(n, j, out[v])
      BY <1>3, <2>2
    <3>2. j \in Nat /\ j # 0
      BY <1>1, <3>1, SuccsAreNodes DEF Touching
    <3>3. CASE analysis = "constants"
      <4>1. Origins(n, v) \subseteq {<<n, j>>}
        BY <1>1, <2>2, OriginsOfTouched
      <4>2. Gives(<<n, j>>, out[v])
        <5> HIDE DEF j
        <5>1. program.code[n][j].op = "const" /\ program.code[n][j].value = out[v]
          BY <1>4, <3>1, <3>3 DEF LeftBy
        <5> QED BY <3>2, <5>1 DEF Gives, Caller
      <4> QED BY <3>3, <4>1, <4>2 DEF TrueAt
    <3>4. CASE analysis = "definitions"
      <4>1. <<n, j>> \in Origins(n, v)
        BY <1>1, <2>2, OriginsHere
      <4>2. out[v] = {<<n, j>>}
        BY <3>1, <3>4 DEF LeftBy
      <4> QED BY <3>4, <4>1, <4>2 DEF TrueAt
    <3> QED BY <1>1, <3>3, <3>4 DEF Analyses
  <2> QED BY <2>1, <2>2
<1> QED BY <1>3, <1>4 DEF out, in

(* What a program means does not depend on the state of its analysis.         *)
LEMMA SameProgram ==
  ASSUME program' = program, analysis' = analysis
  PROVE  /\ Environments' = Environments /\ Reachable' = Reachable
         /\ \A n : Preds(n)' = Preds(n)
         /\ \A n, v : Origins(n, v)' = Origins(n, v) /\ ComingTo(n, v)' = ComingTo(n, v)
         /\ \A o, x : Gives(o, x)' = Gives(o, x) /\ TrueAt(o, x)' = TrueAt(o, x)
<1>1. /\ Environments' = Environments
      /\ \A n : Succs(n)' = Succs(n)
      /\ \A n, v : Touching(n, v)' = Touching(n, v)
      /\ \A o, x : Gives(o, x)' = Gives(o, x)
  BY DEF Environments, ValuesOf, Sites, Succs, Touching, Touches, Sets, Gives
<1>2. /\ \A n : Preds(n)' = Preds(n)
      /\ \A n, B : Reached(n, B)' = Reached(n, B)
      /\ \A n, v : LastTouch(n, v)' = LastTouch(n, v)
      /\ \A o, x : TrueAt(o, x)' = TrueAt(o, x)
  BY <1>1 DEF Preds, Reached, LastTouch, TrueAt
<1>3. Reachable' = Reachable /\ \A n, v : Untouched(n, v)' = Untouched(n, v)
  BY <1>1, <1>2 DEF Reachable, Untouched
<1>4. \A n, v : Origins(n, v)' = Origins(n, v)
  BY <1>1, <1>2, <1>3 DEF Origins
<1>5. \A n, v : ComingTo(n, v)' = ComingTo(n, v)
  BY <1>2, <1>4 DEF ComingTo
<1> QED BY <1>1, <1>2, <1>3, <1>4, <1>5

LEMMA PopKeeps ==
  ASSUME NEW list \in Seq(Nodes), list # <<>>, IsInjective(list)
  PROVE  /\ Last(list) \in Nodes /\ Last(list) \in ToSet(list)
         /\ Front(list) \in Seq(Nodes) /\ IsInjective(Front(list))
         /\ ToSet(Front(list)) \subseteq ToSet(list)
<1>1. Len(list) \in 1..Len(list)
  OBVIOUS
<1>2. Front(list) = [i \in 1..Len(list) - 1 |-> list[i]]
  BY <1>1 DEF Front
<1>3. Front(list) \in Seq(Nodes) /\ DOMAIN Front(list) = 1..Len(list) - 1
  BY <1>2, <1>1
<1>4. IsInjective(Front(list))
  BY <1>2 DEF IsInjective
<1> QED BY <1>1, <1>2, <1>3, <1>4 DEF Last, ToSet

LEMMA VisitInv == IInv /\ Visit => IInv'
<1> SUFFICES ASSUME IInv, Visit PROVE IInv'
  OBVIOUS
<1> DEFINE n == Last(worklist)
           in == Merged(n)
           out == Transfer(n, in)
<1>1. /\ program \in Programs /\ analysis \in Analyses
      /\ worklist \in Seq(Nodes) /\ worklist # <<>> /\ IsInjective(worklist)
      /\ iterations \in 0..MaxIterations /\ iterations < MaxIterations
      /\ inStates \in [Nodes -> Environments] /\ outStates \in [Nodes -> Environments]
  BY DEF IInv, Typed, Visit
<1>2. /\ n \in Nodes /\ n \in Reachable
      /\ Front(worklist) \in Seq(Nodes) /\ IsInjective(Front(worklist))
      /\ ToSet(Front(worklist)) \subseteq Reachable
  BY <1>1, PopKeeps DEF IInv, Confined
<1>3. /\ program' = program /\ analysis' = analysis /\ iterations' = iterations + 1
      /\ inStates' = [inStates EXCEPT ![n] = in]
      /\ outStates' = [outStates EXCEPT ![n] = out]
      /\ worklist' = Queued(Front(worklist), n, out)
  BY DEF Visit
<1>4. /\ in \in Environments
      /\ \A v \in DOMAIN in : in[v] # Top /\ analysis = "constants" =>
           \A o \in ComingTo(n, v) : Gives(o, in[v])
  BY <1>2, MergedHolds
<1>5. /\ out \in Environments
      /\ \A v \in DOMAIN out : out[v] # Top => TrueAt(Origins(n, v), out[v])
  BY <1>2, TransferHolds
<1>6. in = inStates[n] \/ Preds(n) # {}
  BY DEF Merged
<1>7. Succs(n) \subseteq Reachable
  BY <1>1, <1>2, SuccsAreNodes, ReachedOn, DataflowAssumption DEF Reachable
<1>8. /\ Environments' = Environments /\ Reachable' = Reachable
      /\ \A m : Preds(m)' = Preds(m)
      /\ \A m, v : Origins(m, v)' = Origins(m, v) /\ ComingTo(m, v)' = ComingTo(m, v)
      /\ \A o, x : Gives(o, x)' = Gives(o, x) /\ TrueAt(o, x)' = TrueAt(o, x)
  BY <1>3, SameProgram
<1> HIDE DEF n, in, out
<1>9. /\ worklist' \in Seq(Nodes) /\ IsInjective(worklist')
      /\ ToSet(worklist') \subseteq Reachable
  <2>1. CASE out = outStates[n]
    BY <1>2, <1>3, <2>1 DEF Queued
  <2>2. CASE out # outStates[n]
    <3>1. worklist' = AllPushed(Front(worklist), n)
      BY <1>3, <2>2 DEF Queued
    <3>2. LET all == AllPushed(Front(worklist), n)
          IN  /\ all \in Seq(Nodes) /\ IsInjective(all)
              /\ ToSet(all) \subseteq ToSet(Front(worklist)) \cup Succs(n)
      BY <1>1, <1>2, AllPushedKeeps
    <3> QED BY <1>2, <1>7, <3>1, <3>2
  <2> QED BY <2>1, <2>2
<1>10. Typed'
  <2>1. inStates' \in [Nodes -> Environments] /\ outStates' \in [Nodes -> Environments]
    BY <1>1, <1>3, <1>4, <1>5
  <2>2. iterations' \in 0..MaxIterations
    BY <1>1, <1>3, DataflowAssumption
  <2>3. program' \in Programs /\ analysis' \in Analyses
    BY <1>1, <1>3
  <2> QED BY <1>8, <1>9, <2>1, <2>2, <2>3 DEF Typed
<1>11. Confined'
  <2>1. \A m \in Nodes \ Reachable : outStates'[m] = Nothing
    BY <1>1, <1>2, <1>3 DEF IInv, Confined
  <2>2. \A m \in Nodes : Preds(m) = {} => inStates'[m] = inStates[m]
    BY <1>1, <1>3, <1>6
  <2>3. \A m \in Nodes : Preds(m) = {} =>
          inStates'[m] = IF m = Entry THEN EntryState(program, analysis) ELSE Nothing
    BY <2>2 DEF IInv, Confined
  <2>4. analysis = "constants" => Preds(Entry) = {}
    BY DEF IInv, Confined
  <2> QED BY <1>3, <1>8, <1>9, <2>1, <2>3, <2>4 DEF Confined
<1>12. OutHolds'
  <2>1. \A m \in Nodes : \A v \in DOMAIN outStates'[m] :
          outStates'[m][v] # Top => TrueAt(Origins(m, v), outStates'[m][v])
    <3>1. \A m \in Nodes : outStates'[m] = IF m = n THEN out ELSE outStates[m]
      BY <1>1, <1>3
    <3> QED BY <1>5, <3>1 DEF IInv, OutHolds
  <2> QED BY <1>8, <2>1 DEF OutHolds
<1>13. InHolds'
  <2>1. \A m \in Nodes : \A v \in DOMAIN inStates'[m] :
          analysis = "constants" /\ inStates'[m][v] # Top =>
            \A o \in ComingTo(m, v) : Gives(o, inStates'[m][v])
    <3>1. \A m \in Nodes : inStates'[m] = IF m = n THEN in ELSE inStates[m]
      BY <1>1, <1>3
    <3> QED BY <1>4, <3>1 DEF IInv, InHolds
  <2> QED BY <1>3, <1>8, <2>1 DEF InHolds
<1> QED BY <1>10, <1>11, <1>12, <1>13 DEF IInv

LEMMA StepInv == IInv /\ [Next]_vars => IInv'
<1>1. IInv /\ Next => IInv'
  BY VisitInv DEF Next
<1>2. IInv /\ UNCHANGED vars => IInv'
  <2> SUFFICES ASSUME IInv, UNCHANGED vars PROVE IInv'
    OBVIOUS
  <2>1. /\ Environments' = Environments /\ Reachable' = Reachable
        /\ \A m : Preds(m)' = Preds(m)
        /\ \A m, v : Origins(m, v)' = Origins(m, v) /\ ComingTo(m, v)' = ComingTo(m, v)
        /\ \A o, x : Gives(o, x)' = Gives(o, x) /\ TrueAt(o, x)' = TrueAt(o, x)
    BY SameProgram DEF vars
  <2>2. Typed' /\ Confined'
    BY <2>1 DEF vars, IInv, Typed, Confined
  <2>3. OutHolds' /\ InHolds'
    BY <2>1 DEF vars, IInv, OutHolds, InHolds
  <2> QED BY <2>2, <2>3 DEF IInv
<1> QED BY <1>1, <1>2

LEMMA InvAlways == Spec => []IInv
BY InitInv, StepInv, PTL DEF Spec

(* For any graph, code and limit: environments say of variables what the      *)
(* analysis can say of them, and no block waits twice, so that the worklist   *)
(* is never longer than the function has blocks (run_forward_fixpoint).       *)
THEOREM TypeCorrect == Spec => []TypeOK
<1>1. IInv => TypeOK
  <2> SUFFICES ASSUME IInv PROVE TypeOK
    OBVIOUS
  <2>1. ASSUME NEW env \in Environments
        PROVE  /\ DOMAIN env \subseteq Vars
               /\ \A v \in DOMAIN env : IF analysis = "constants" THEN env[v] \in Values
                                        ELSE env[v] = Top \/ env[v] \subseteq Sites
    BY EnvironmentIs DEF ValuesOf
  <2>2. ToSet(worklist) \subseteq Nodes
    BY DEF IInv, Confined, Reachable, Reached
  <2> QED BY <2>1, <2>2 DEF IInv, Typed, TypeOK
<1> QED BY <1>1, InvAlways, PTL

(* However far the engine got and wherever it is cut off, a constant the rule *)
(* would fold is what every execution has there, and a definition found is    *)
(* one that reaches: stale predecessors and blocks never visited can only     *)
(* have lost facts (LatticeMeet, reaching_defs_meet, the transfers).          *)
THEOREM FactsAlwaysHold == Spec => []FactsHold
<1>1. IInv => FactsHold
  <2> SUFFICES ASSUME IInv, NEW n \in Reachable
               PROVE  /\ analysis = "constants" =>
                           \A v \in DOMAIN inStates[n] : inStates[n][v] # Top =>
                             \A o \in OriginsBefore(n, v) : Gives(o, inStates[n][v])
                      /\ analysis = "definitions" =>
                           \A v \in DOMAIN outStates[n] : outStates[n][v] # Top =>
                             outStates[n][v] \subseteq Origins(n, v)
    BY DEF FactsHold
  <2>1. n \in Nodes
    BY DEF Reachable, Reached
  <2>2. \A v : OriginsBefore(n, v) \subseteq ComingTo(n, v)
    BY DEF OriginsBefore, ComingTo
  <2>3. analysis = "constants" =>
          \A v \in DOMAIN inStates[n] : inStates[n][v] # Top =>
            \A o \in OriginsBefore(n, v) : Gives(o, inStates[n][v])
    BY <2>1, <2>2 DEF IInv, InHolds
  <2>4. analysis = "definitions" =>
          \A v \in DOMAIN outStates[n] : outStates[n][v] # Top =>
            outStates[n][v] \subseteq Origins(n, v)
    BY <2>1 DEF IInv, OutHolds, TrueAt
  <2> QED BY <2>3, <2>4
<1> QED BY <1>1, InvAlways, PTL
===============================================================================
