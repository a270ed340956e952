---------------------------- MODULE Decompilation ----------------------------
(***************************************************************************)
(* The decompiler and the two optimizer managers it calls back.  For each  *)
(* maturity it goes round its instructions and its graph until a round     *)
(* changes nothing, and only then goes on; the managers' guards are what   *)
(* makes that end.  Any pass may be given up by the user in between.       *)
(***************************************************************************)
EXTENDS BlockOptimizer, InstructionOptimizer

CONSTANTS
    Blocks,       \* the blocks the decompiler calls the block manager on
    Active,       \* Funcs -> Maturities -> SUBSET FlowRules
    NoRules       \* the member of Answers under which no instruction rule runs

ASSUME DecompilationConstants ==
    /\ Active \in [Funcs -> [Maturities -> SUBSET FlowRules]]
    /\ NoRules \in Answers
    /\ Blocks # {} /\ Blocks \cap Nodes = {}

VARIABLES
    bm, im,     \* the two managers
    form,       \* the forms of the instructions
    dec,        \* the decompiler: function, maturity, callbacks left, changed
    scope,      \* what the rule scope would answer for a function now
    pass        \* of the pass under way: what the properties are about

vars == <<bm, im, form, dec, scope, pass>>

Top == {n \in Nodes : \A x \in Nodes : n \notin ToSet(Nested[x])}
Callbacks == Top \cup Blocks
Idle == [func |-> NoFunc, maturity |-> Never, todo |-> {}, dirty |-> FALSE]
\* abandoned: the pass before this one was given up
NewPass == [failed |-> FALSE, fired |-> FALSE, runs |-> 0, ran |-> {},
            saw |-> "none", used |-> NoAnswer, abandoned |-> FALSE]

Init ==
    /\ bm = NewManager
    /\ im = NewInstructionManager(Maturities, Never, NoFunc)
    /\ form \in [Nodes -> Forms]
    /\ dec = Idle
    /\ scope \in [Funcs -> Answers]
    /\ pass = NewPass

\* prolog: STARTED, whose handlers reset the guards in any order
Begin(f) ==
    /\ dec = Idle
    /\ dec' = [func |-> f, maturity |-> 1, todo |-> Callbacks, dirty |-> FALSE]
    /\ bm' = GraphChanged(OnStarted(bm))
    /\ im' = ResetCycleDetection(im)
    /\ pass' = [NewPass EXCEPT !.abandoned = pass.abandoned]
    /\ UNCHANGED <<form, scope>>

Called(c, changed) ==
    dec' = [dec EXCEPT !.todo = @ \ {c}, !.dirty = @ \/ changed]

-----------------------------------------------------------------------------
(* BlockOptimizerManager.func, one action for each way it ends.             *)

\* log_info_on_input, with the pipeline where it is due
Due == PipelineDue(bm, dec.maturity)
Entered(outcome) ==
    LET at == EnterMaturity(bm, dec.maturity)
    IN IF Due THEN RunPipeline(at, outcome) ELSE at
Outcomes == IF Due THEN [1..Passes -> PassOutcomes] ELSE {[i \in 1..Passes |-> "idle"]}
\* the history up to the rules: a new maturity forgets the failures of the old
Noted(outcome) ==
    LET here == IF bm.maturity = dec.maturity THEN pass
                ELSE [pass EXCEPT !.failed = FALSE, !.fired = FALSE]
    IN [here EXCEPT !.runs = IF Due THEN @ + 1 ELSE @,
                    !.fired = @ \/ (Due /\ Total(outcome) > 0),
                    !.ran = {}, !.saw = "none"]

CalledFor(blk) == dec.func # NoFunc /\ blk \in dec.todo

SkipBlock(blk) == \E outcome \in Outcomes :
    /\ CalledFor(blk)
    /\ \/ /\ Entered(outcome).justFired
          /\ bm' = Entered(outcome)
       \/ /\ ~Entered(outcome).justFired
          /\ Suppressed(CountPass(Entered(outcome), dec.func))
          /\ bm' = CountPass(Entered(outcome), dec.func)
    /\ pass' = Noted(outcome)
    /\ Called(blk, FALSE)
    /\ UNCHANGED <<im, form, scope>>

NoRule == "no rule"
\* the rules of the phases up to the one that ends the callback have run
RunRules(outcome, r, raises) ==
    LET counted == CountPass(Entered(outcome), dec.func)
        rules   == Active[dec.func][dec.maturity]
        lowest  == IF r \in rules THEN Priority[r] ELSE 0
    IN [manager |-> Prepare(counted, dec.func, rules, lowest, raises),
        ran     |-> {x \in rules : Priority[x] >= lowest}]
Running(blk, outcome) ==
    /\ CalledFor(blk)
    /\ ~Entered(outcome).justFired
    /\ ~Suppressed(CountPass(Entered(outcome), dec.func))
Witnessed(outcome, run) ==
    [Noted(outcome) EXCEPT !.ran = run.ran,
        !.saw = IF run.ran \cap NeedDispatcher # {} THEN run.manager.context.facts ELSE "none"]

NoPatch(blk) == \E outcome \in Outcomes, raises \in BOOLEAN :
    LET run == RunRules(outcome, NoRule, raises)
    IN /\ Running(blk, outcome)
       /\ bm' = run.manager
       /\ pass' = Witnessed(outcome, run)
       /\ Called(blk, FALSE)
       /\ UNCHANGED <<im, form, scope>>

\* patches may bring copies of instructions in a form they had before
Patch(blk) == \E outcome \in Outcomes, r \in Active[dec.func][dec.maturity], raises \in BOOLEAN :
    LET run == RunRules(outcome, r, raises)
    IN /\ Running(blk, outcome)
       /\ bm' = Patched(run.manager)
       /\ pass' = Witnessed(outcome, run)
       /\ Called(blk, TRUE)
       /\ \/ UNCHANGED form
          \/ \E n \in Nodes, x \in Forms : form' = [form EXCEPT ![n] = x]
       /\ UNCHANGED <<im, scope>>

RuleFails(blk) == \E outcome \in Outcomes, r \in Active[dec.func][dec.maturity],
                raises, changed \in BOOLEAN :
    LET run == RunRules(outcome, r, raises)
    IN /\ Running(blk, outcome)
       /\ bm' = Failed(run.manager, changed)
       /\ pass' = [Witnessed(outcome, run) EXCEPT !.failed = TRUE]
       /\ Called(blk, FALSE)
       /\ UNCHANGED <<im, form, scope>>

\* any other exception leaves func, and the decompiler gives the pass up
RuleEscapes(blk) == \E outcome \in Outcomes, r \in Active[dec.func][dec.maturity],
                  raises \in BOOLEAN :
    LET run == RunRules(outcome, r, raises)
    IN /\ Running(blk, outcome)
       /\ bm' = GraphChanged(run.manager)
       /\ pass' = [Witnessed(outcome, run) EXCEPT !.abandoned = TRUE]
       /\ dec' = Idle
       /\ UNCHANGED <<im, form, scope>>

BlockCallback(blk) ==
    \/ SkipBlock(blk)
    \/ dec.func # NoFunc /\ (NoPatch(blk) \/ Patch(blk) \/ RuleFails(blk) \/ RuleEscapes(blk))

-----------------------------------------------------------------------------
(* InstructionOptimizerManager.func; the rewritten instruction may fail to  *)
(* verify, and then func answers False although it changed.                 *)

InsnCallback(n) ==
    LET at    == EnterInsnMaturity(im, dec.maturity)
        asked == ResolveNames(at, dec.func, scope[dec.func])
        used  == asked.names[dec.maturity]
    IN /\ dec.func # NoFunc /\ n \in dec.todo
       /\ \E proposal \in Proposals(form, n), verifies \in BOOLEAN :
            LET i == IF used = NoRules THEN 0 ELSE FirstAccepted(asked, form, n, proposal)
                x == Visited(n)[i]
            IN \/ /\ i = 0
                  /\ im' = asked
                  /\ Called(n, FALSE)
                  /\ UNCHANGED form
               \/ /\ i # 0
                  /\ im' = Remember(asked, x, proposal[x])
                  /\ form' = [form EXCEPT ![x] = proposal[x]]
                  /\ Called(n, verifies)
       /\ pass' = [pass EXCEPT !.used = used, !.ran = {}, !.saw = "none"]
       /\ UNCHANGED <<bm, scope>>

-----------------------------------------------------------------------------
(* The decompiler: another round while something changed, then the next     *)
(* maturity, whose graph it has rebuilt; structural analysis at the end.    *)

RoundEnds ==
    /\ dec.func # NoFunc /\ dec.todo = {}
    /\ \/ /\ dec.dirty
          /\ dec' = [dec EXCEPT !.todo = Callbacks, !.dirty = FALSE]
          /\ pass' = [pass EXCEPT !.ran = {}, !.saw = "none"]
          /\ UNCHANGED <<bm, form>>
       \/ /\ ~dec.dirty /\ dec.maturity < LastMaturity
          /\ dec' = [dec EXCEPT !.maturity = @ + 1, !.todo = Callbacks]
          /\ bm' = GraphChanged(bm)
          /\ pass' = [pass EXCEPT !.ran = {}, !.saw = "none"]
          /\ UNCHANGED form
       \/ /\ ~dec.dirty /\ dec.maturity = LastMaturity
          /\ dec' = Idle
          /\ form' \in [Nodes -> Forms]
          /\ pass' = NewPass
          /\ UNCHANGED bm
    /\ UNCHANGED <<im, scope>>

\* the user cancels, or the decompiler fails, between two callbacks
Abandon ==
    /\ dec.func # NoFunc
    /\ dec' = Idle
    /\ pass' = [NewPass EXCEPT !.abandoned = TRUE]
    /\ UNCHANGED <<bm, im, form, scope>>

\* between two passes the user edits what the rule scope answers
EditScope(f) ==
    /\ dec = Idle
    /\ \E answer \in Answers \ {scope[f]} : scope' = [scope EXCEPT ![f] = answer]
    /\ UNCHANGED <<bm, im, form, dec, pass>>

DecompilerStep ==
    (\E blk \in Blocks : BlockCallback(blk)) \/ (\E n \in Top : InsnCallback(n)) \/ RoundEnds

Next == DecompilerStep \/ Abandon \/ (\E f \in Funcs : Begin(f) \/ EditScope(f))

\* the decompiler is one thread that goes on as long as a callback is due
Spec == Init /\ [][Next]_vars /\ WF_vars(DecompilerStep)

-----------------------------------------------------------------------------
TypeOK ==
    /\ bm \in Managers
    /\ im.maturity \in Maturities \cup {Never} /\ im.seen \in [Addresses -> SUBSET Forms]
    /\ im.names \in [Maturities -> Answers \cup {NoAnswer}]
    /\ form \in [Nodes -> Forms]
    /\ dec.func \in Funcs \cup {NoFunc} /\ dec.todo \subseteq Callbacks

(* Every decompilation ends, whatever the rules do: a rule that patches the *)
(* graph at every call is stopped by the pass counter, rules that rewrite   *)
(* one another's results by the cycle detection.                            *)
EveryPassEnds == (dec.func # NoFunc) ~> (dec.func = NoFunc)

(* After a rule failed, perhaps half way through an edit, no rule runs any  *)
(* more on the graph it left, until the next maturity or the next pass.     *)
QuietAfterFailure == [][
    (pass.failed /\ dec.func # NoFunc /\ bm'.maturity = bm.maturity) => pass'.ran = {} ]_vars

(* The pipeline runs in a pass that gets to a block of its maturity, where  *)
(* the passes before it were given up too, and never twice.  It rests on    *)
(* the order of the maturities: a pass given up leaves the manager where it *)
(* was, and one that began at the pipeline's maturity would look no more.   *)
PipelineOnce ==
    /\ pass.runs <= 1
    /\ Passes > 0 /\ (\/ dec.maturity > PipelineMaturity
                      \/ dec.maturity = PipelineMaturity /\ ~(Blocks \subseteq dec.todo))
       => pass.runs = 1

(* Once the pipeline has applied changes no rule runs at its maturity.      *)
RulesOffAfterPipeline == pass.fired => pass.ran = {}

(* After a pass that was not given up, the rule names used are those the    *)
(* rule scope answers at the time.                                          *)
NamesAreCurrent ==
    (pass.used # NoAnswer /\ ~pass.abandoned) => pass.used = scope[dec.func]

(* What a comment in optimize says: after any write to the graph the rules  *)
(* see fresh facts on the next callback.                                    *)
FactsAreFresh == ~pass.abandoned => pass.saw # "stale"
=============================================================================
