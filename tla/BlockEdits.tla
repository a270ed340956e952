----------------------------- MODULE BlockEdits -----------------------------
(***************************************************************************)
(* A function's graph under the edits of cfg_mutations.py, each with the   *)
(* arguments its callers may give it, one after the other, as the flow     *)
(* rules make them without a verification in between (verify=False), from  *)
(* MMAT_CALLS on.  No block is created in front of the exit: its serial is *)
(* read before the insertion that shifts it.  The removal of simple gotos  *)
(* finds its edits itself and has each verified; when the verifier raises, *)
(* it stops where it is, and so does the rule that called it.              *)
(***************************************************************************)
EXTENDS Microcode

CONSTANTS
    Graphs,       \* the graphs the decompiler may hand over
    MaxBlocks,    \* bound on the blocks of a graph
    MaxEdits      \* bound on the edits made

ASSUME BlockEditsConstants ==
    /\ MaxBlocks \in Nat /\ MaxEdits \in Nat
    /\ \A m \in Graphs : Made(m, MaxBlocks)

VARIABLES
    mba,       \* the block array
    prepared,  \* ensure_last_block_is_goto was called
    edit,      \* the last edit, in terms of blocks' identities
    edits      \* how many edits were made

vars == <<mba, prepared, edit, edits>>

Serials == DOMAIN mba
Exit == ExitSerial(mba)
Inner == Serials \ {0, Exit}
Targets == Serials \ {0}
Id(s) == mba[s].id
SimpleGoto(s) == mba[s].op = "goto"

TypeOK ==
    /\ \E n \in 2..MaxBlocks : DOMAIN mba = 0..n-1 /\ \A s \in Serials : mba[s] \in Blocks(n)
    /\ \A s, t \in Serials : Id(s) = Id(t) => s = t
    /\ prepared \in BOOLEAN
    /\ edits \in 0..MaxEdits

Init ==
    /\ mba \in Graphs
    /\ prepared = FALSE
    /\ edit = [kind |-> "none"]
    /\ edits = 0

Edited(m, e) ==
    /\ edits < MaxEdits
    /\ Qty(m) <= MaxBlocks
    /\ mba' = m
    /\ edit' = e
    /\ edits' = edits + 1
    /\ UNCHANGED prepared

Goes(s, t) == [kind |-> "goto", at |-> Id(s), to |-> Id(t)]
Replaces(s, old, t) == [kind |-> "replace", at |-> Id(s), from |-> Id(old), to |-> Id(t)]
Cuts(s, old) == [kind |-> "cut", at |-> Id(s), from |-> Id(old)]
Detours(s, old, serials) ==
    [kind |-> "detour", at |-> Id(s), from |-> Id(old), targets |-> {Id(t) : t \in serials}]
Creates(serials) == [kind |-> "create", targets |-> {Id(t) : t \in serials}]

(* remove_flattening calls it first: a last block that falls through into  *)
(* the exit would fall into whatever is created in front of the exit.      *)
EnsureLastBlockIsGoto ==
    LET last == Exit - 1 IN
    /\ ~prepared
    /\ Nsucc(mba, last) <= 1
    /\ prepared' = TRUE
    /\ mba' = IF CanChange1Way(mba, last) THEN Change1Way(mba, last, mba[last].succ[1]) ELSE mba
    /\ edit' = IF CanChange1Way(mba, last) THEN Goes(last, mba[last].succ[1])
               ELSE [kind |-> "shorten", jumps |-> {}]
    /\ UNCHANGED edits

RedirectGoto(s, t) ==
    /\ CanChange1Way(mba, s)
    /\ Edited(Change1Way(mba, s, t), Goes(s, t))

RedirectEnd(s, t) ==
    /\ Nsucc(mba, s) = 0
    /\ mba[s].op # "none"
    /\ Edited(Change0Way(mba, s, t), Goes(s, t))

(* Callers do not aim a conditional jump at the block it falls into, nor   *)
(* take a switch with two successors for a branch: the code counts them.   *)
RedirectBranch(s, t) ==
    /\ mba[s].op = "jcond"
    /\ CanChange2Way(mba, s)
    /\ t # s + 1
    /\ Edited(Change2Way(mba, s, t), Replaces(s, mba[s].refs[1], t))

ConvertToGoto(s, t) ==
    /\ Nsucc(mba, s) = 2
    /\ mba[s].op = "jcond"
    /\ Edited(Make2WayGoto(mba, s, t), Goes(s, t))

DropEdge(s, t) ==
    /\ mba[s].op \in {"goto", "jcond"}
    /\ CanRemoveEdge(mba, s, t)
    /\ Edited(RemoveEdge(mba, s, t), Cuts(s, t))

InsertBlock(s) ==
    /\ prepared
    /\ mba[s].op = "goto"
    /\ mba[s].succ[1] # Exit
    /\ Edited(InsertNop(mba, s), Detours(s, mba[s].succ[1], {mba[s].succ[1]}))

InsertEnd(s) ==
    /\ prepared
    /\ mba[s].op = "goto"
    /\ mba[s].succ[1] # Exit
    /\ Edited(EndCreated(InsertNop(mba, s), Exit), Detours(s, mba[s].succ[1], {}))

(* A conditional block is duplicated with an insertion in mid-array, whose *)
(* renumbering is the decompiler's, and is left out.  The last block is no *)
(* switch: one whose cases all go one way would be taken to fall through.  *)
Duplicate(s) ==
    /\ prepared \/ (s # Exit - 1 /\ mba[Exit - 1].type \in {"0WAY", "1WAY"})
    /\ mba[s].type \in {"0WAY", "1WAY"}
    /\ Edited(DuplicateBlock(mba, s), Creates(ToSet(mba[s].succ)))

Standalone(s, t) ==
    /\ prepared
    /\ t # Exit
    /\ Edited(CreateStandalone(mba, s, t), Creates({t}))

Terminal(s) ==
    /\ prepared
    /\ Edited(CreateTerminal(mba, s), Creates({}))

EnsureFather(father, child) ==
    /\ prepared
    /\ CanGiveFather(mba, father, child)
    /\ child # Exit
    /\ Edited(GiveFather(mba, father, child), Detours(father, child, {child}))

RouteCases(s, old, t) ==
    /\ mba[s].op = "jtbl"
    /\ old \in ToSet(mba[s].refs)
    /\ Edited(CoalesceCases(RetargetCases(mba, s, old, t), s), Replaces(s, old, t))

CollapseSwitch(s, t) ==
    /\ mba[s].op = "jtbl"
    /\ Edited(ConvertJtbl(mba, s, t), Goes(s, t))

(* Nothing keeps it from sending a branch to the block that it falls into, *)
(* or from taking a switch of one or two ways for a jump or a branch: then *)
(* the verifier raises.                                                    *)
RemoveSimpleGotos ==
    LET Jumps == {s \in Serials : SimpleGoto(s)}
        Outcome(run) == IF run.refused = {}
                        THEN [kind |-> "shorten", jumps |-> {Id(s) : s \in Jumps}]
                        ELSE [kind |-> "refused", at |-> run.refused]
    IN
    /\ Jumps # {}
    /\ \E guess \in 0..Qty(mba) :
          LET run == BypassAll(mba, guess) IN Edited(run.mba, Outcome(run))

Edit ==
    \/ EnsureLastBlockIsGoto
    \/ RemoveSimpleGotos
    \/ \E s \in Inner : InsertBlock(s) \/ InsertEnd(s) \/ Duplicate(s) \/ Terminal(s)
    \/ \E s \in Inner, t \in Targets :
          \/ RedirectGoto(s, t)
          \/ RedirectEnd(s, t)
          \/ RedirectBranch(s, t)
          \/ ConvertToGoto(s, t)
          \/ DropEdge(s, t)
          \/ Standalone(s, t)
          \/ EnsureFather(s, t)
          \/ CollapseSwitch(s, t)
          \/ \E old \in Targets : RouteCases(s, old, t)

(* A raise ends the work of the rules on this graph. *)
Next == edit.kind # "refused" /\ Edit

Spec == Init /\ [][Next]_vars

---------------------------------------------------------------------------
(* Properties *)

(* What a removal of simple gotos may leave behind when it raises. *)
Mistaken(s) ==
    \/ mba[s].op = "jcond" /\ mba[s].refs = <<s + 1>>
    \/ mba[s].op = "jtbl"

(* The three copies of every edge agree after any sequence of edits: what  *)
(* the last instruction says, the successors and the predecessors, each    *)
(* predecessor once, as the contracts of cfg/contracts/invariants.py ask.  *)
(* They disagree only where a removal of simple gotos raised, and only for *)
(* a branch it sent where the branch falls or a switch it took for one.    *)
GraphIsSound ==
    /\ TypeOK
    /\ WellFormed(mba) \/ (edit.kind = "refused" /\ \A s \in edit.at : Mistaken(s))

(* Every edit does to the flow of control what it says, by identity, and   *)
(* leaves the flow of all other blocks alone, although inserting a block   *)
(* moves the exit and every edge into it.  One that raises promises        *)
(* nothing, and is the last.                                               *)
Promise == INSTANCE FlowEdits WITH flow <- Flow(mba), edit <- edit
EditsDoWhatTheySay == Promise!Spec
=============================================================================
