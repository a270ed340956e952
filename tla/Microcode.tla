----------------------------- MODULE Microcode -----------------------------
(***************************************************************************)
(* The block array of a function's microcode and the operations that edit  *)
(* its graph: src/d810/hexrays/mutation/cfg_mutations.py, with the checks  *)
(* of src/d810/cfg/contracts/invariants.py.  An edge is stored three times *)
(* (the operand of the last instruction, the successors of one block, the  *)
(* predecessors of the other), and every operation updates them by hand.   *)
(*                                                                         *)
(* A block array m is a function from serial numbers 0..n-1 to blocks, the *)
(* entry first, the exit block last.  A serial number is a position, and   *)
(* an insertion shifts the exit; id is the identity of the block object.   *)
(* The last instruction is its opcode and the blocks its operands name.    *)
(* Other instructions, block flags and lists-dirty marks are left out.     *)
(***************************************************************************)
EXTENDS Naturals, FiniteSets, SequencesExt

Types == {"0WAY", "1WAY", "2WAY", "NWAY", "STOP"}
Opcodes == {"none", "insn", "call", "ret", "ijmp", "goto", "jcond", "jtbl"}

Blocks(n) ==
    [id : Nat, type : Types, op : Opcodes,
     refs : Seq(0..n-1), succ : Seq(0..n-1), pred : Seq(0..n-1)]

Qty(m) == Cardinality(DOMAIN m)
ExitSerial(m) == Qty(m) - 1
Nsucc(m, s) == Len(m[s].succ)
Missing(m, s) == s \notin DOMAIN m

---------------------------------------------------------------------------
(* The successors the last instruction stands for, in the verifier's order *)

Outs(m, s) ==
    LET b == m[s] IN
    CASE b.op = "jtbl"            -> b.refs
      [] b.op = "goto"            -> b.refs
      [] b.op = "jcond"           -> IF b.refs = <<s + 1>> THEN b.refs ELSE <<s + 1>> \o b.refs
      [] b.op \in {"ijmp", "ret"} -> <<>>
      [] OTHER -> IF b.type \in {"0WAY", "STOP"} THEN <<>> ELSE <<s + 1>>

SuccessorCount(m, s) ==
    CASE m[s].type \in {"STOP", "0WAY"} -> 0
      [] m[s].type = "1WAY" -> 1
      [] m[s].type = "2WAY" -> 2
      [] OTHER -> Nsucc(m, s)

EdgesAgree(m) ==
    \A s \in DOMAIN m :
        /\ \A t \in ToSet(m[s].succ) : t \in DOMAIN m /\ s \in ToSet(m[t].pred)
        /\ \A p \in ToSet(m[s].pred) : p \in DOMAIN m /\ s \in ToSet(m[p].succ)

PredsUnique(m) == \A s \in DOMAIN m : IsInjective(m[s].pred)

TypeMatchesTail(m) ==
    \A s \in DOMAIN m :
        /\ m[s].type = "NWAY" <=> m[s].op = "jtbl"
        /\ Nsucc(m, s) = SuccessorCount(m, s)
        /\ m[s].type = "2WAY" => m[s].op = "jcond"
        /\ m[s].type = "1WAY" /\ m[s].op = "call" => m[s].succ = <<s + 1>>

SuccMatchesTail(m) == \A s \in DOMAIN m : m[s].succ = Outs(m, s)

CasesUnique(m) == \A s \in DOMAIN m : m[s].op = "jtbl" => IsInjective(m[s].refs)

WellFormed(m) ==
    /\ EdgesAgree(m)
    /\ PredsUnique(m)
    /\ TypeMatchesTail(m)
    /\ SuccMatchesTail(m)
    /\ CasesUnique(m)

(* A graph of so many blocks at most that the decompiler made: blocks are   *)
(* numbered in order, the exit is the last, a jump names one block, a       *)
(* switch has a case, and what branches has two ways to go.                 *)
Made(m, most) == \E n \in 2..most :
    /\ DOMAIN m = 0..n-1
    /\ m \in [0..n-1 -> Blocks(n)]
    /\ \A s \in 0..n-1 :
          /\ m[s].id = s
          /\ m[s].op \in {"goto", "jcond"} => Len(m[s].refs) = 1
          /\ m[s].op = "jcond" => m[s].type = "2WAY"
          /\ m[s].op = "jtbl" => m[s].refs # <<>>
    /\ m[n-1].type = "STOP" /\ m[n-1].op = "none"
    /\ WellFormed(m)

(* Where control may go from a block, by identity. *)
Flow(m) ==
    LET At(id) == CHOOSE s \in DOMAIN m : m[s].id = id
    IN  [id \in {m[s].id : s \in DOMAIN m} |->
            {m[t].id : t \in ToSet(m[At(id)].succ)}]

---------------------------------------------------------------------------
(* One edge, one end at a time *)

AddSucc(m, s, t) == [m EXCEPT ![s].succ = Append(@, t)]
(* Nothing is noted for a block that does not exist: the code raises there. *)
AddPred(m, t, s) ==
    IF Missing(m, t) THEN m ELSE [m EXCEPT ![t].pred = Append(@, s)]
AddPredOnce(m, t, s) == IF s \in ToSet(m[t].pred) THEN m ELSE AddPred(m, t, s)
DelSucc(m, s, t) == [m EXCEPT ![s].succ = RemoveFirst(@, t)]
DelPred(m, t, s) == [m EXCEPT ![t].pred = RemoveFirst(@, s)]

Link(m, s, t) == AddPred(AddSucc(m, s, t), t, s)
(* Mutant: the predecessor's end of the edge is forgotten. *)
Unlink_KeepsPred(m, s, t) == DelSucc(m, s, t)

Unlink(m, s, t) == DelPred(DelSucc(m, s, t), t, s)
UnlinkAll(m, s) ==
    LET q == m[s].succ
        left[i \in 0..Len(q)] == IF i = 0 THEN m ELSE Unlink(left[i-1], s, q[i])
    IN  left[Len(q)]

InsertGoto(m, s, t) == [m EXCEPT ![s].op = "goto", ![s].refs = <<t>>]
MakeOneWay(m, s, t) == [InsertGoto(m, s, t) EXCEPT ![s].type = "1WAY"]

(* Can... is when an edit does not return False. *)
CanChange1Way(m, s) == Nsucc(m, s) = 1 /\ s # 0

Change1Way(m, s, t) ==
    LET old == m[s].succ[1] IN Link(Unlink(MakeOneWay(m, s, t), s, old), s, t)

---------------------------------------------------------------------------
(* New blocks.  CopyBlock is the decompiler's: the copy of s comes before  *)
(* the exit block, and what named the exit still names it.                 *)

CopyBlock(m, s) ==
    LET n == ExitSerial(m)
        After(q) == [i \in DOMAIN q |-> IF q[i] = n THEN n + 1 ELSE q[i]]
        Renumbered(b) == [b EXCEPT !.refs = After(@), !.succ = After(@), !.pred = After(@)]
    IN  [i \in 0..n+1 |->
            CASE i < n -> Renumbered(m[i])
              [] i = n -> [Renumbered(m[s]) EXCEPT !.id = Qty(m)]
              [] OTHER -> Renumbered(m[n])]

(* The copy without its template's edges. *)
Detached(m, s) ==
    LET n == ExitSerial(m)
    IN  [UnlinkAll(CopyBlock(m, s), n) EXCEPT ![n].pred = <<>>]

CreateStandalone(m, s, t) ==
    LET n == ExitSerial(m)
        bare == [Detached(m, s) EXCEPT ![n].op = "insn", ![n].refs = <<>>]
    IN  Link(MakeOneWay(bare, n, t), n, t)

CreateTerminal(m, s) ==
    LET n == ExitSerial(m)
    IN  [Detached(m, s) EXCEPT ![n].op = "insn", ![n].refs = <<>>, ![n].type = "0WAY"]

(* insert_nop_blk on a one-way block: the new block goes to the serial     *)
(* number its successor had before the insertion.                          *)
InsertNop(m, s) ==
    LET n == ExitSerial(m)
        t == m[s].succ[1]
        nop == AddSucc(MakeOneWay(Detached(m, s), n, t), n, t)
        before == AddSucc(DelSucc(nop, s, t), s, n)
        aimed == IF before[s].op = "goto" /\ before[s].refs = <<t>>
                 THEN [before EXCEPT ![s].refs = <<n>>] ELSE before
    IN  AddPred(AddPred(DelPred(aimed, t, s), t, n), n, s)

(* create_block with is_0_way: control ends in the new block s. *)
EndCreated(m, s) ==
    LET bare == [m EXCEPT ![s].op = "insn", ![s].refs = <<>>, ![s].type = "0WAY"]
    IN  Unlink(bare, s, m[s].succ[1])

(* The block before the copy may no longer fall through into the exit. *)
Fenced(m, s, n) ==
    LET prev == n - 1 IN
    IF prev # s /\ Nsucc(m, prev) = 1 /\ m[prev].op \notin {"goto", "jcond", "ijmp", "ret"}
    THEN LET bare == DelSucc(MakeOneWay(m, prev, n + 1), prev, n)
         IN  IF n + 1 \in ToSet(bare[prev].succ) THEN bare ELSE AddSucc(bare, prev, n + 1)
    ELSE m

DuplicateBlock(m, s) ==
    LET n == ExitSerial(m)
        copy == Fenced([CopyBlock(m, s) EXCEPT ![n].pred = <<>>], s, n)
    IN  IF Nsucc(copy, n) = 1 THEN Change1Way(copy, n, copy[s].succ[1]) ELSE copy

---------------------------------------------------------------------------
(* The edits. *)

Change0Way(m, s, t) == Link(MakeOneWay(m, s, t), s, t)

CanChange2Way(m, s) == Nsucc(m, s) = 2

Change2Way(m, s, t) ==
    LET old == m[s].refs[1]
    IN  Link(Unlink([m EXCEPT ![s].refs = <<t>>], s, old), s, t)

Make2WayGoto(m, s, t) == Link(UnlinkAll(MakeOneWay(m, s, t), s), s, t)

CanRemoveEdge(m, s, t) ==
    \/ Nsucc(m, s) = 2 /\ t \in ToSet(m[s].succ) /\ ToSet(m[s].succ) # {t}
    \/ Nsucc(m, s) = 1 /\ m[s].succ = <<t>>

Remaining(m, s, t) == IF m[s].succ[1] # t THEN m[s].succ[1] ELSE m[s].succ[2]

(* Mutant: the edge to remove is the one that stays. *)
RemoveEdge_Swapped(m, s, t) ==
    IF Nsucc(m, s) = 2 THEN Make2WayGoto(m, s, t)
    ELSE Unlink([m EXCEPT ![s].op = "insn", ![s].refs = <<>>, ![s].type = "0WAY"], s, t)

RemoveEdge(m, s, t) ==
    IF Nsucc(m, s) = 2
    THEN Make2WayGoto(m, s, Remaining(m, s, t))
    ELSE LET bare == IF m[s].op = "goto"
                     THEN [m EXCEPT ![s].op = "insn", ![s].refs = <<>>] ELSE m
         IN  Unlink([bare EXCEPT ![s].type = "0WAY"], s, t)

(* The switch: its successors follow its cases, each once. *)
Once(q) ==
    LET seen[i \in 0..Len(q)] ==
            IF i = 0 THEN <<>>
            ELSE IF q[i] \in ToSet(seen[i-1]) THEN seen[i-1] ELSE Append(seen[i-1], q[i])
    IN  seen[Len(q)]

FollowCases(m, s, cases) ==
    LET old == ToSet(m[s].succ)
        new == ToSet(cases)
    IN  [t \in DOMAIN m |->
            LET kept == IF t \in old \ new THEN RemoveFirst(m[t].pred, s)
                        ELSE IF t \in new \ old /\ s \notin ToSet(m[t].pred)
                        THEN Append(m[t].pred, s) ELSE m[t].pred
                b == [m[t] EXCEPT !.pred = kept]
            IN  IF t = s THEN [b EXCEPT !.refs = cases, !.succ = Once(cases)] ELSE b]

(* The serials of a set, in order. *)
Ascending(n, serials) ==
    LET upto[k \in 0..n] ==
            IF k = 0 THEN <<>>
            ELSE IF k - 1 \in serials THEN Append(upto[k-1], k - 1) ELSE upto[k-1]
    IN  upto[n]

CoalesceCases(m, s) ==
    LET targets == Ascending(Qty(m), ToSet(m[s].refs))
    IN  IF Len(targets) = Len(m[s].refs) THEN m ELSE FollowCases(m, s, targets)

RetargetCases(m, s, old, new) ==
    FollowCases(m, s, [i \in DOMAIN m[s].refs |->
                          IF m[s].refs[i] = old THEN new ELSE m[s].refs[i]])

ConvertJtbl(m, s, t) ==
    LET cases == ToSet(m[s].refs) \ {t}
        cut == [u \in DOMAIN m |->
                   IF u \in cases THEN [m[u] EXCEPT !.pred = RemoveFirst(@, s)] ELSE m[u]]
    IN  AddPredOnce([MakeOneWay(cut, s, t) EXCEPT ![s].succ = <<t>>], t, s)

(* A block between a conditional father and the child it jumps to. *)
CanGiveFather(m, father, child) ==
    Nsucc(m, father) = 2 /\ m[father].op # "none" /\ m[father].refs = <<child>>

GiveFather(m, father, child) ==
    Change2Way(CreateStandalone(m, father, child), father, ExitSerial(m))

(* mba_remove_simple_goto_blocks has every update verified.  A run of it   *)
(* is the array so far and, once an update raised, the block it was about. *)
(* A goto on top of a jump table is refused too, although the switch it    *)
(* stands behind is not in the model.                                      *)
Begun(m) == [mba |-> m, refused |-> {}]

Verified(m, s, edited) ==
    [mba |-> edited,
     refused |-> IF m[s].op = "jtbl" \/ ~WellFormed(edited) THEN {s} ELSE {}]

JumpsTo(m, s, op) == m[s].op = op /\ Len(m[s].refs) = 1

(* What has two ways to go and no conditional jump is taken for a branch:  *)
(* what is read for its old target may name any block (or none, which      *)
(* raises).                                                                *)
MistakeSwitch(m, s, guess, t) ==
    IF Missing(m, guess) THEN m ELSE Link(Unlink(m, s, guess), s, t)

UpdateSuccessor(m, s, old, new, guess) ==
    IF Missing(m, s) THEN [mba |-> m, refused |-> {s}]
    ELSE CASE CanChange1Way(m, s) -> Verified(m, s, Change1Way(m, s, new))
           [] CanChange2Way(m, s) /\ old # s + 1 /\ JumpsTo(m, s, "jcond") ->
                 Verified(m, s, Change2Way(m, s, new))
           [] CanChange2Way(m, s) /\ old # s + 1 /\ ~JumpsTo(m, s, "jcond") ->
                 Verified(m, s, MistakeSwitch(m, s, guess, new))
           [] OTHER -> Begun(m)

(* The fathers of a block that only jumps are sent where it jumps. *)
Bypass(m, s, guess) ==
    LET fathers == m[s].pred
        sent[i \in 0..Len(fathers)] ==
            IF i = 0 THEN Begun(m)
            ELSE LET run == sent[i-1]
                 IN  IF run.refused # {} THEN run
                     ELSE UpdateSuccessor(run.mba, fathers[i], s, m[s].refs[1], guess)
    IN  sent[Len(fathers)]

(* One block after the other; one that became a goto on the way counts. *)
BypassAll(m, guess) ==
    LET past[i \in 0..ExitSerial(m)] ==
            IF i = 0 THEN Begun(m)
            ELSE LET run == past[i-1]
                 IN  IF run.refused # {} \/ ~JumpsTo(run.mba, i - 1, "goto") THEN run
                     ELSE Bypass(run.mba, i - 1, guess)
    IN  past[ExitSerial(m)]
=============================================================================
