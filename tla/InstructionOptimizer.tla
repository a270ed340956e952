------------------------ MODULE InstructionOptimizer ------------------------
(***************************************************************************)
(* InstructionOptimizerManager of hexrays/hooks/hexrays_hooks.py: the      *)
(* guards around the rewriting of one instruction.  A node is an           *)
(* instruction or one nested in it; nested and copied instructions share   *)
(* the address they came from.  A form is the structure the hash tells     *)
(* apart; which forms the rules make of a form is a constant.              *)
(***************************************************************************)
EXTENDS Integers, Sequences, SequencesExt

CONSTANTS
    Addresses,
    Nodes,
    AddressOf,   \* Nodes -> Addresses
    Nested,      \* Nodes -> sequences of nodes, as for_all_insns visits them
    Forms,
    Size,        \* Forms -> Nat: count_minsn_nodes
    Rewrites,    \* Forms -> SUBSET Forms
    Answers      \* what the rule scope may answer: sets of rule names, abstractly

ASSUME InstructionOptimizerConstants ==
    /\ AddressOf \in [Nodes -> Addresses]
    /\ Nested \in [Nodes -> Seq(Nodes)]
    /\ Size \in [Forms -> Nat]
    /\ Rewrites \in [Forms -> SUBSET Forms]

NoForm == "no form"
NoAnswer == "not asked"

NewSeen == [a \in Addresses |-> {}]
\* names is the memo of the rule names, per maturity, for the function seen last
NewInstructionManager(maturities, never, nofunc) ==
    [maturity |-> never, seen |-> NewSeen, func |-> nofunc,
     names |-> [m \in maturities |-> NoAnswer]]

ResetCycleDetection(im) == [im EXCEPT !.seen = NewSeen]

\* log_info_on_input: a maturity the manager has not just been at
EnterInsnMaturity_KeepNames(im, m) ==
    IF m = im.maturity THEN im
    ELSE ResetCycleDetection([im EXCEPT !.maturity = m])
EnterInsnMaturity(im, m) ==
    IF m = im.maturity THEN im
    ELSE ResetCycleDetection([im EXCEPT !.maturity = m,
                                        !.names = [x \in DOMAIN @ |-> NoAnswer]])

\* _resolve_active_instruction_rule_names: the memo goes with the function
ResolveNames(im, f, answer) ==
    LET mine == IF im.func = f THEN im
                ELSE [im EXCEPT !.func = f, !.names = [x \in DOMAIN @ |-> NoAnswer]]
    IN IF mine.names[im.maturity] # NoAnswer THEN mine
       ELSE [mine EXCEPT !.names[im.maturity] = answer]

\* func tries the instruction, then for_all_insns tries it and what it nests
Visited(n) == <<n>> \o Nested[n]

Bloated(old, new) == Size[new] > 2 * Size[old] /\ Size[old] > 0
Seen(im, n, new) == new \in im.seen[AddressOf[n]]
Accepts(im, form, n, new) ==
    /\ new # NoForm
    /\ ~Bloated(form[n], new)
    /\ ~Seen(im, n, new)

Remember_Nothing(im, n, new) == im
Remember(im, n, new) == [im EXCEPT !.seen[AddressOf[n]] = @ \cup {new}]

\* what the first optimizer with an opinion proposes for each node visited
Proposals(form, n) ==
    {p \in [ToSet(Visited(n)) -> Forms \cup {NoForm}] :
        \A x \in DOMAIN p : p[x] \in Rewrites[form[x]] \cup {NoForm}}
\* the node rewritten: the first whose proposal passes the guards, 0 for none
FirstAccepted(im, form, n, proposal) ==
    SelectInSeq(Visited(n), LAMBDA x : Accepts(im, form, x, proposal[x]))
=============================================================================
