--------------------------- MODULE GraphModifier ---------------------------
(***************************************************************************)
(* A batch of edits of a function's graph: a plan is compiled against the  *)
(* serial numbers the graph has (cfg/plan.py), lowered to a queue          *)
(* (hexrays/mutation/ir_translator.py), and applied edit by edit to the    *)
(* live graph (hexrays/mutation/deferred_modifier.py) inside a transaction *)
(* (cfg/contracts/transaction_engine.py) that says how it ended.           *)
(*                                                                         *)
(* New blocks get their serial numbers when the plan is compiled, and all  *)
(* that names the exit block is moved then; the live graph moves only as   *)
(* the blocks are created.  An edit that is refused, that fails half way   *)
(* or that breaks the graph ends the batch or is rolled back.              *)
(***************************************************************************)
EXTENDS Microcode

CONSTANTS
    Graphs,      \* the graphs the decompiler may hand over
    MaxPlan,     \* bound on the edits of a plan
    MaxBlocks    \* bound on the blocks of a graph

(* A switch with one way to go in front of the exit leads there.           *)
EndsPlainly(m) ==
    LET last == ExitSerial(m) - 1
    IN  m[last].op = "jtbl" /\ Nsucc(m, last) = 1 => m[last].succ = <<last + 1>>

ASSUME GraphModifierConstants ==
    /\ MaxPlan \in Nat /\ MaxBlocks \in Nat
    /\ \A m \in Graphs : Made(m, MaxBlocks - 2 * MaxPlan) /\ EndsPlainly(m)

VARIABLES
    start,     \* the graph the plan is made for, the snapshot of the rollback
    plan,      \* the modifications
    mba,       \* the live graph
    queue,     \* the edits to apply
    intended,  \* where control should go after the edits counted
    counted,   \* how many edits were counted as applied
    broken,    \* an edit, or the cleaning, raised half way
    restored,  \* the snapshot was written back, and the verifier took what came of it
    phase, verdict

vars == <<start, plan, mba, queue, intended, counted, broken, restored, phase, verdict>>

Verdicts ==
    {"none", "ok", "projected_contract", "live_pre_check", "lowering",
     "backend_apply", "native_verify"}

---------------------------------------------------------------------------
(* Plans.  A block is duplicated for one of its predecessors (via); at is  *)
(* the block an edit belongs to, to the target it names.                   *)

Modifications(m) ==
    LET Inner == DOMAIN m \ {0, ExitSerial(m)}
        Targets == DOMAIN m \ {0}
        OneWay == {s \in Inner : Nsucc(m, s) = 1}
        Edges == {x \in (DOMAIN m) \X Inner : x[2] \in ToSet(m[x[1]].succ)}
    IN  [kind : {"goto"}, at : OneWay, to : Targets]
          \cup [kind : {"branch", "convert"}, at : {s \in Inner : m[s].op = "jcond"}, to : Targets]
          \cup {[kind |-> "remove", at |-> x[1], to |-> x[2]] : x \in {y \in Edges : y[1] # 0}}
          \cup {[kind |-> "insert", at |-> s, to |-> m[s].succ[1]] : s \in OneWay}
          \cup {[kind |-> "copy", at |-> x[2], via |-> x[1]] : x \in Edges}
          \cup {[kind |-> "duplicate", at |-> x[2], via |-> x[1], to |-> t] : x \in Edges, t \in Targets}
          \cup {[kind |-> "split", at |-> x[1], src |-> x[2], from |-> m[x[2]].succ[1], to |-> t] :
                  x \in {y \in Edges : Nsucc(m, y[1]) = 1 /\ m[y[2]].op = "goto"}, t \in Targets}

Creates(e) == e.kind \in {"insert", "copy", "duplicate", "split"}

(* A detour in front of a block where control ends gets no edge to it, and *)
(* a copy of a block that goes to the exit is sent to the serial number    *)
(* the exit had, which is the copy's.                                      *)
EndsFunction(m, e) ==
    \/ /\ e.kind = "insert"
       /\ m[e.to].type = "0WAY"
    \/ /\ e.kind = "copy"
       /\ ExitSerial(m) \in ToSet(m[e.at].succ)

---------------------------------------------------------------------------
(* Compiling a plan *)

NewBlocks(m, e) ==
    CASE ~Creates(e) -> 0
      [] e.kind = "copy" /\ Nsucc(m, e.at) = 2 -> 2
      [] OTHER -> 1

BlocksBefore(m, p, i) ==
    LET sum[j \in 0..Len(p)] == IF j = 0 THEN 0 ELSE sum[j-1] + NewBlocks(m, p[j])
    IN  sum[i-1]

(* Mutant: the names of the exit block stay as they were. *)
Relocated_NotAtAll(m, p, t) == t

(* rewrite_serial: the exit's serial becomes the one it will have. *)
Relocated(m, p, t) ==
    IF t = ExitSerial(m) THEN t + BlocksBefore(m, p, Len(p) + 1) ELSE t

(* Each edit with the serial number of its first block, and the serial     *)
(* numbers its target (aim) and old target (was) will have.                *)
Compiled(m, p) ==
    LET Names(e, i) ==
            [serial |-> ExitSerial(m) + BlocksBefore(m, p, i),
             aim |-> IF e.kind = "copy" THEN 0 ELSE Relocated(m, p, e.to),
             was |-> IF e.kind = "split" THEN Relocated(m, p, e.from) ELSE 0]
        Joined(a, b) ==
            [x \in DOMAIN a \cup DOMAIN b |-> IF x \in DOMAIN a THEN a[x] ELSE b[x]]
    IN  [i \in DOMAIN p |-> Joined(p[i], Names(p[i], i))]

(* The predecessor via goes or branches to the block at. *)
Reaches(m, e) ==
    \/ Nsucc(m, e.via) = 1 /\ m[e.via].succ = <<e.at>>
    \/ Nsucc(m, e.via) = 2 /\ m[e.via].op = "jcond" /\ m[e.via].refs = <<e.at>>

(* A block is duplicated for a predecessor that goes or branches to it, a  *)
(* switch never is, and a conditional block keeps its targets.             *)
Unsupported(m, e) ==
    /\ e.kind \in {"copy", "duplicate"}
    /\ \/ ~Reaches(m, e)
       \/ Nsucc(m, e.at) > 2
       \/ Nsucc(m, e.at) = 2 /\ (e.kind = "duplicate" \/ m[e.at].op # "jcond")

---------------------------------------------------------------------------
(* The queue *)

Rank(e) ==
    CASE e.kind = "goto" -> 1   [] e.kind = "branch" -> 2
      [] e.kind = "convert" -> 3 [] e.kind = "insert" -> 4
      [] e.kind = "split" -> 7   [] e.kind = "remove" -> 8
      [] OTHER -> 6

Priority(e) ==
    CASE Creates(e) -> 5 [] e.kind = "remove" -> 15
      [] e.kind = "convert" -> 20 [] OTHER -> 10

(* Of the edits of one block, the first of the highest rank. *)
Survives(q, i) ==
    \A j \in DOMAIN q \ {i} : q[j].at = q[i].at =>
        Rank(q[j]) < Rank(q[i]) \/ (Rank(q[j]) = Rank(q[i]) /\ i < j)

(* The items of a sequence at the places of a set. *)
Kept(q, places) ==
    LET upto[i \in 0..Len(q)] ==
            IF i = 0 THEN <<>>
            ELSE IF i \in places THEN Append(upto[i-1], q[i]) ELSE upto[i-1]
    IN  upto[Len(q)]

Coalesced(q) ==
    LET Of(p) == Kept(q, {i \in DOMAIN q : Survives(q, i) /\ Priority(q[i]) = p})
    IN  Of(5) \o Of(10) \o Of(15) \o Of(20)

(* What is checked before an edit that creates a block, against the graph  *)
(* the batch starts from and again when the edit is applied.               *)
Preconditions(m, e) ==
    CASE e.kind = "insert" -> ~Missing(m, e.aim) /\ e.at # 0 /\ Nsucc(m, e.at) = 1
      [] e.kind = "copy" -> (Nsucc(m, e.at) = 2 => m[e.at].op = "jcond") /\ Reaches(m, e)
      [] e.kind = "duplicate" -> ~Missing(m, e.aim) /\ Nsucc(m, e.at) # 2 /\ Reaches(m, e)
      [] e.kind = "split" ->
            /\ ~Missing(m, e.aim)
            /\ m[e.src].op = "goto"
            /\ Nsucc(m, e.src) = 1
            /\ m[e.at].succ = <<e.src>>
            /\ m[e.src].succ = <<e.was>>
      [] OTHER -> TRUE

PreRejected(q) == Kept(q, {i \in DOMAIN q : Preconditions(start, q[i])})

---------------------------------------------------------------------------
(* Applying one edit: the graph it leaves and how it ended.  An edit that  *)
(* is refused may have created its block already.                          *)

Outcome(m, result) == [mba |-> m, result |-> result]

GotoChange(m, e) ==
    IF ~CanChange1Way(m, e.at) THEN Outcome(m, "refused")
    ELSE Outcome(Change1Way(m, e.at, e.aim), IF Missing(m, e.aim) THEN "raised" ELSE "done")

TargetChange(m, e) ==
    IF m[e.at].op # "jcond" \/ ~CanChange2Way(m, e.at) THEN Outcome(m, "refused")
    ELSE Outcome(Change2Way(m, e.at, e.aim), IF Missing(m, e.aim) THEN "raised" ELSE "done")

ConvertToGoto(m, e) ==
    IF Nsucc(m, e.at) # 2 THEN Outcome(m, "refused")
    ELSE Outcome(Make2WayGoto(m, e.at, e.aim), IF Missing(m, e.aim) THEN "raised" ELSE "done")

EdgeRemove(m, e) ==
    IF ~CanRemoveEdge(m, e.at, e.aim) THEN Outcome(m, "refused")
    ELSE Outcome(RemoveEdge(m, e.at, e.aim), "done")

(* The predecessor s is sent to the block just created. *)
SentToNew(created, s, new, e) ==
    IF new = e.serial /\ CanChange1Way(created, s)
    THEN Outcome(Change1Way(created, s, new), "done")
    ELSE Outcome(created, "refused")

CreateAndRedirect(m, e) ==
    LET new == ExitSerial(m)
        created == IF m[e.aim].type = "0WAY" THEN CreateTerminal(m, new - 1)
                   ELSE CreateStandalone(m, new - 1, e.aim)
    IN  SentToNew(created, e.at, new, e)

EdgeSplit(m, e) ==
    LET new == ExitSerial(m) IN SentToNew(CreateStandalone(m, e.src, e.aim), e.at, new, e)

(* The half of _rewire_edge that adds an edge. *)
AddEdge(m, s, t) == AddPredOnce(AddSucc(m, s, t), t, s)

(* A conditional block gets a block of its own to fall into. *)
ConditionalClone(m, s) ==
    LET new == ExitSerial(m)
        branch == m[s].refs[1]
        copy == Fenced([CopyBlock(m, s) EXCEPT ![new].pred = <<>>], s, new)
        default == CreateStandalone(copy, s, Remaining(m, s, branch))
        bare == [UnlinkAll(default, new) EXCEPT ![new].refs = <<branch>>]
    IN  AddEdge(AddEdge(bare, new, new + 1), new, branch)

Clone(m, e) ==
    LET s == e.at IN
    CASE Nsucc(m, s) = 2 -> ConditionalClone(m, s)
      [] Nsucc(m, s) # 2 /\ e.kind = "duplicate" -> CreateStandalone(m, s, e.aim)
      [] Nsucc(m, s) = 1 /\ e.kind = "copy" -> CreateStandalone(m, s, m[s].succ[1])
      [] OTHER -> [CreateTerminal(m, s) EXCEPT ![ExitSerial(m)].op = m[s].op]

DuplicateAndRedirect(m, e) ==
    LET new == ExitSerial(m)
        created == Clone(m, e)
    IN  IF Nsucc(created, e.via) = 1 THEN SentToNew(created, e.via, new, e)
        ELSE IF new = e.serial /\ created[e.via].refs = <<e.at>>
        THEN Outcome(Change2Way(created, e.via, new), "done")
        ELSE Outcome(created, "refused")

ApplySingle(m, e) ==
    IF ~Preconditions(m, e) THEN Outcome(m, "refused")
    ELSE CASE e.kind = "goto"    -> GotoChange(m, e)
           [] e.kind = "branch"  -> TargetChange(m, e)
           [] e.kind = "convert" -> ConvertToGoto(m, e)
           [] e.kind = "remove"  -> EdgeRemove(m, e)
           [] e.kind = "insert"  -> CreateAndRedirect(m, e)
           [] e.kind = "split"   -> EdgeSplit(m, e)
           [] OTHER              -> DuplicateAndRedirect(m, e)

(* Only a goto and a branch can be rolled back one by one. *)
HasRollback(e) == e.kind \in {"goto", "branch"}

RolledBack(m, e, before) ==
    IF e.kind = "goto" THEN Change1Way(m, e.at, before[e.at].succ[1])
    ELSE Change2Way(m, e.at, before[e.at].refs[1])

(* The snapshot gives the blocks it knows their type and edges back, by    *)
(* serial number; their instructions, and the blocks created, stay.        *)
RestoredBlock(m, s) ==
    LET now == m[s].succ
        goal == start[s].succ
        lost == Kept(now, {i \in DOMAIN now : now[i] \notin ToSet(goal) /\ ~Missing(m, now[i])})
        new == Kept(goal, {i \in DOMAIN goal : goal[i] \notin ToSet(now)})
        cut[i \in 0..Len(lost)] ==
            IF i = 0 THEN [m EXCEPT ![s].type = start[s].type] ELSE Unlink(cut[i-1], s, lost[i])
        back[i \in 0..Len(new)] ==
            IF i = 0 THEN cut[Len(lost)] ELSE AddEdge(back[i-1], s, new[i])
    IN  back[Len(new)]

(* It gives up at the first block with an edge to a block that is not there. *)
RestoredSnapshot(m) ==
    LET Dangling(x, s) == \E t \in ToSet(x[s].succ) : Missing(x, t)
        upto[i \in 0..Qty(start)] ==
            IF i = 0 THEN [mba |-> m, stopped |-> FALSE]
            ELSE IF upto[i-1].stopped THEN upto[i-1]
            ELSE [mba |-> RestoredBlock(upto[i-1].mba, i - 1),
                  stopped |-> Dangling(upto[i-1].mba, i - 1)]
    IN  upto[Qty(start)]

---------------------------------------------------------------------------
(* What an edit means: where control goes afterwards, by the blocks'       *)
(* identities, which are the serial numbers they had at the start.         *)

With(flow, id, targets) ==
    [x \in DOMAIN flow \cup {id} |-> IF x = id THEN targets ELSE flow[x]]

Effect(flow, e) ==
    LET new == Cardinality(DOMAIN flow)
        Moved(f, s, from) == [f EXCEPT ![s] = (@ \ from) \cup {new}]
    IN  CASE e.kind \in {"goto", "convert"} -> [flow EXCEPT ![e.at] = {e.to}]
          [] e.kind = "branch" -> [flow EXCEPT ![e.at] = {e.at + 1, e.to}]
          [] e.kind = "remove" -> [flow EXCEPT ![e.at] = @ \ {e.to}]
          [] e.kind = "insert" -> Moved(With(flow, new, {e.to}), e.at, flow[e.at])
          [] e.kind = "split" -> Moved(With(flow, new, {e.to}), e.at, flow[e.at])
          [] e.kind = "duplicate" -> Moved(With(flow, new, {e.to}), e.via, {e.at})
          [] e.kind = "copy" /\ Cardinality(flow[e.at]) = 2 ->
                LET copy == With(flow, new, (flow[e.at] \ {e.at + 1}) \cup {new + 1})
                IN  Moved(With(copy, new + 1, {e.at + 1}), e.via, {e.at})
          [] OTHER -> Moved(With(flow, new, flow[e.at]), e.via, {e.at})

---------------------------------------------------------------------------
TypeOK ==
    /\ \E n \in 2..MaxBlocks : DOMAIN mba = 0..n-1
    /\ \A s \in DOMAIN mba : mba[s] \in Blocks(MaxBlocks)
    /\ \A s, t \in DOMAIN mba : mba[s].id = mba[t].id => s = t
    /\ start \in Graphs
    /\ counted \in 0..MaxPlan
    /\ Len(queue) + counted <= Len(plan)
    /\ broken \in BOOLEAN /\ restored \in BOOLEAN
    /\ phase \in {"planned", "applying", "done"}
    /\ verdict \in Verdicts
    /\ phase = "done" <=> verdict # "none"

Init ==
    /\ start \in Graphs
    /\ plan \in UNION {[1..k -> Modifications(start)] : k \in 1..MaxPlan}
    /\ mba = start
    /\ queue = <<>>
    /\ intended = Flow(start)
    /\ counted = 0
    /\ broken = FALSE
    /\ restored = FALSE
    /\ phase = "planned"
    /\ verdict = "none"

Ends(v) == phase' = "done" /\ verdict' = v

(* The contracts may find fault with the plan before anything is touched. *)
RejectPlan ==
    /\ phase = "planned"
    /\ \E v \in {"projected_contract", "live_pre_check"} : Ends(v)
    /\ UNCHANGED <<start, plan, mba, queue, intended, counted, broken, restored>>

CannotLower ==
    /\ phase = "planned"
    /\ \E i \in DOMAIN plan : Unsupported(start, plan[i])
    /\ Ends("lowering")
    /\ UNCHANGED <<start, plan, mba, queue, intended, counted, broken, restored>>

Lower ==
    /\ phase = "planned"
    /\ \A i \in DOMAIN plan : ~Unsupported(start, plan[i])
    /\ queue' = PreRejected(Coalesced(Compiled(start, plan)))
    /\ phase' = "applying"
    /\ UNCHANGED <<start, plan, mba, intended, counted, broken, restored, verdict>>

(* Each edit is verified and may be rolled back unless blocks are created. *)
Incremental == \A i \in DOMAIN plan : ~Creates(plan[i])

Applying(result) ==
    /\ phase = "applying"
    /\ queue # <<>>
    /\ ApplySingle(mba, Head(queue)).result = result

Edited == ApplySingle(mba, Head(queue)).mba

(* Mutant: the edit stays at the head of the queue. *)
ApplyEdit_Again ==
    /\ Applying("done")
    /\ Incremental => WellFormed(Edited)
    /\ mba' = Edited
    /\ counted' = counted + 1
    /\ intended' = Effect(intended, Head(queue))
    /\ UNCHANGED <<start, plan, queue, broken, restored, phase, verdict>>

ApplyEdit ==
    /\ Applying("done")
    /\ Incremental => WellFormed(Edited)
    /\ mba' = Edited
    /\ counted' = counted + 1
    /\ intended' = Effect(intended, Head(queue))
    /\ queue' = Tail(queue)
    /\ UNCHANGED <<start, plan, broken, restored, phase, verdict>>

(* The native verifier refuses what is not well formed, and more.          *)
RollBackEdit ==
    LET back == RolledBack(Edited, Head(queue), mba) IN
    /\ Applying("done")
    /\ Incremental
    /\ HasRollback(Head(queue))
    /\ WellFormed(back)
    /\ mba' = back
    /\ queue' = Tail(queue)
    /\ UNCHANGED <<start, plan, intended, counted, broken, restored, phase, verdict>>

AbandonBatch ==
    /\ Applying("done")
    /\ Incremental
    /\ ~(HasRollback(Head(queue)) /\ WellFormed(RolledBack(Edited, Head(queue), mba)))
    /\ mba' = Edited
    /\ Ends("native_verify")
    /\ UNCHANGED <<start, plan, queue, intended, counted, broken, restored>>

(* The edits behind one that is refused or raises are not tried. *)
RefuseEdit ==
    /\ Applying("refused")
    /\ mba' = Edited
    /\ queue' = <<>>
    /\ UNCHANGED <<start, plan, intended, counted, broken, restored, phase, verdict>>

EditRaises ==
    /\ Applying("raised")
    /\ mba' = Edited
    /\ queue' = <<>>
    /\ broken' = TRUE
    /\ UNCHANGED <<start, plan, intended, counted, restored, phase, verdict>>

(* Nothing counted: the graph is neither verified nor restored. *)
NothingApplied ==
    /\ phase = "applying" /\ queue = <<>> /\ counted = 0
    /\ Ends("backend_apply")
    /\ UNCHANGED <<start, plan, mba, queue, intended, counted, broken, restored>>

Succeed ==
    /\ phase = "applying" /\ queue = <<>> /\ counted > 0
    /\ WellFormed(mba)
    /\ Ends("ok")
    /\ UNCHANGED <<start, plan, mba, queue, intended, counted, broken, restored>>

(* Mutant: a snapshot that was written back is not verified. *)
UndoBatch_Unverified ==
    /\ phase = "applying" /\ queue = <<>> /\ counted > 0
    /\ ~RestoredSnapshot(mba).stopped
    /\ mba' = RestoredSnapshot(mba).mba
    /\ restored' = TRUE
    /\ Ends("backend_apply")
    /\ UNCHANGED <<start, plan, queue, intended, counted, broken>>

Restorable(back) == ~back.stopped /\ WellFormed(back.mba)

(* The hook after the batch raised, or the verifier refused the result.    *)
UndoBatch ==
    LET back == RestoredSnapshot(mba) IN
    /\ phase = "applying" /\ queue = <<>> /\ counted > 0
    /\ Restorable(back)
    /\ mba' = back.mba
    /\ restored' = TRUE
    /\ Ends("backend_apply")
    /\ UNCHANGED <<start, plan, queue, intended, counted, broken>>

(* The restoration stopped, or the verifier refused what it made too.      *)
(* After a hook that raised that is all, and so it is below the maturity   *)
(* from which there is a cleaning.                                         *)
LeaveBatch ==
    /\ phase = "applying" /\ queue = <<>> /\ counted > 0
    /\ mba' = RestoredSnapshot(mba).mba
    /\ Ends("native_verify")
    /\ UNCHANGED <<start, plan, queue, intended, counted, broken, restored>>

(* What the cleaning of simple gotos may leave.  What it reads in place of *)
(* a jump's target matters only where something else has two ways to go.   *)
Cleanings(m) ==
    LET mistaken == {s \in DOMAIN m : Nsucc(m, s) = 2 /\ ~JumpsTo(m, s, "jcond")}
    IN  {BypassAll(m, guess) : guess \in IF mistaken = {} THEN {0} ELSE 0..Qty(m)}

(* After a refusal there is, and what the verifier takes then is a success.*)
(* If the cleaning raises, the verifier's refusal is the end of it, but    *)
(* any other exception leaves the batch.                                   *)
RecoverBatch ==
    /\ phase = "applying" /\ queue = <<>> /\ counted > 0
    /\ \E run \in Cleanings(RestoredSnapshot(mba).mba) :
          /\ mba' = run.mba
          /\ \/ /\ run.refused = {} /\ WellFormed(run.mba)
                /\ restored' = TRUE
                /\ Ends("ok")
                /\ UNCHANGED broken
             \/ /\ Ends("native_verify")
                /\ UNCHANGED <<broken, restored>>
             \/ /\ run.refused # {}
                /\ broken' = TRUE
                /\ Ends("backend_apply")
                /\ UNCHANGED restored
    /\ UNCHANGED <<start, plan, queue, intended, counted>>

Next ==
    \/ RejectPlan
    \/ CannotLower
    \/ Lower
    \/ ApplyEdit
    \/ RollBackEdit
    \/ AbandonBatch
    \/ RefuseEdit
    \/ EditRaises
    \/ NothingApplied
    \/ Succeed
    \/ UndoBatch
    \/ LeaveBatch
    \/ RecoverBatch

Spec == Init /\ [][Next]_vars

---------------------------------------------------------------------------
(* Properties *)

(* A plan with neither of the two edits whose edge to the exit is lost.    *)
PlainPlan == \A i \in DOMAIN plan : ~EndsFunction(start, plan[i])

(* Until the verifier refuses the graph, control goes where it went at the *)
(* start, changed by the edits counted and by nothing else: an edit that   *)
(* is dropped, refused or rolled back leaves no trace in it, and serial    *)
(* numbers given out when the plan was compiled still name the blocks they *)
(* were meant for when the edit is applied.  After a refusal nothing is    *)
(* said: a batch that the cleaning recovered is reported as a success too. *)
FlowIsAsCounted ==
    /\ PlainPlan
    /\ verdict # "native_verify" /\ ~restored /\ (broken => verdict = "ok")
    => \A id \in DOMAIN intended : Flow(mba)[id] = intended[id]

(* A batch that was undone from the snapshot and verified leaves every     *)
(* block with an instruction that leads where the block led at the start,  *)
(* by serial number, although the snapshot knows nothing of instructions;  *)
(* and if no block was created, to the same blocks: one that was created   *)
(* has the exit's serial number.                                           *)
RestoredIsStart ==
    restored /\ verdict = "backend_apply" =>
        /\ \A s \in DOMAIN start : ToSet(Outs(mba, s)) = ToSet(start[s].succ)
        /\ Qty(mba) = Qty(start) =>
               \A id \in DOMAIN Flow(start) : Flow(mba)[id] = Flow(start)[id]
=============================================================================
