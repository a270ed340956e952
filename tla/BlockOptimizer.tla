--------------------------- MODULE BlockOptimizer ---------------------------
(***************************************************************************)
(* BlockOptimizerManager of hexrays/hooks/hexrays_hooks.py: what one       *)
(* callback of the decompiler does with the flow rules, the pass counter,  *)
(* the pass pipeline and the analysis the rules share.  A manager is a     *)
(* record; each operator is a method that returns the manager after it.    *)
(* Which rules a maturity has is RuleScope's answer, here a constant.      *)
(***************************************************************************)
EXTENDS Integers, Sequences, FiniteSets, FiniteSetsExt

CONSTANTS
    Funcs,
    LastMaturity,      \* maturities are 1..LastMaturity, in the decompiler's order
    PipelineMaturity,  \* MMAT_GLBOPT2
    Passes,            \* how many passes the pipeline has; 0: none is configured
    FlowRules,
    Priority,          \* FlowRules -> Nat, higher first
    NeedDispatcher,    \* the rules with REQUIRES_DISPATCHER_ANALYSIS
    BasePasses,        \* _BASE_PASSES_PER_MATURITY
    ScaledPasses       \* Funcs -> Nat: the limit scaled by the function's blocks

NoFunc == "no function"

ASSUME BlockOptimizerConstants ==
    /\ NoFunc \notin Funcs
    /\ LastMaturity \in Nat \ {0} /\ PipelineMaturity \in 1..LastMaturity
    /\ Passes \in Nat /\ BasePasses \in Nat
    /\ Priority \in [FlowRules -> Nat] /\ NeedDispatcher \subseteq FlowRules
    /\ ScaledPasses \in [Funcs -> Nat]
    /\ \A f \in Funcs : ScaledPasses[f] >= BasePasses

Maturities == 1..LastMaturity
Never == 0              \* current_maturity None, _pipeline_last_maturity -1

\* what is known of an analysis: whether the graph changed after it was made
Facts == {"none", "failed", "fresh", "stale"}
NoContext == [func |-> NoFunc, maturity |-> Never, facts |-> "none"]

Managers == [maturity: Maturities \cup {Never}, passes: Nat, limit: Nat, generation: Nat,
             context: [func: Funcs \cup {NoFunc}, maturity: Maturities \cup {Never}, facts: Facts],
             pipelineLast: Maturities \cup {Never}, justFired: BOOLEAN,
             dispatcher: [Funcs -> [maturity: Maturities \cup {Never}, facts: Facts]]]

\* dispatcher is DispatcherCache._cache, which nothing ever clears
NewManager ==
    [maturity |-> Never, passes |-> 0, limit |-> BasePasses, generation |-> 0,
     context |-> NoContext, pipelineLast |-> Never, justFired |-> FALSE,
     dispatcher |-> [f \in Funcs |-> [maturity |-> Never, facts |-> "none"]]]

-----------------------------------------------------------------------------
ResetPassCounter(bm) == [bm EXCEPT !.passes = 0, !.limit = BasePasses, !.generation = 0]
ResetPipelineTracker_FlagOnly(bm) == [bm EXCEPT !.justFired = FALSE]
ResetPipelineTracker(bm) == [bm EXCEPT !.pipelineLast = Never, !.justFired = FALSE]
InvalidateFlowContext(bm) == [bm EXCEPT !.context = NoContext]

\* the decompiler or a rule changed the graph: no analysis is about it any more
Outdated(facts) == IF facts = "fresh" THEN "stale" ELSE facts
GraphChanged(bm) ==
    [bm EXCEPT !.context.facts = Outdated(@),
               !.dispatcher = [f \in Funcs |->
                   [maturity |-> @[f].maturity, facts |-> Outdated(@[f].facts)]]]

\* the handlers of STARTED that belong to this manager
OnStarted(bm) == ResetPipelineTracker(ResetPassCounter(bm))

-----------------------------------------------------------------------------
(* FlowGraphTransformPipeline.run: each pass leaves the graph, changes it,  *)
(* changes it so that it does not verify, or raises.                        *)

PassOutcomes == {"idle", "applied", "unverified", "raised"}
Stop(outcome) ==
    Min({i \in 1..Passes : outcome[i] \in {"unverified", "raised"}} \cup {Passes + 1})
Raised(outcome) == Stop(outcome) <= Passes /\ outcome[Stop(outcome)] = "raised"
\* total: a pass that does not verify is not counted, a raise loses the count
Total(outcome) ==
    IF Raised(outcome) THEN 0
    ELSE Cardinality({i \in 1..Passes : i < Stop(outcome) /\ outcome[i] = "applied"})
Changed(outcome) ==
    \E i \in 1..Passes : /\ i <= Stop(outcome)
                         /\ outcome[i] \in {"applied", "unverified"}

\* looked at only where log_info_on_input finds a maturity it was not at
PipelineDue(bm, m) ==
    /\ Passes > 0
    /\ m # bm.maturity
    /\ m = PipelineMaturity
    /\ bm.pipelineLast # m
RunPipeline_NeverSays(bm, outcome) ==
    LET marked == [bm EXCEPT !.pipelineLast = bm.maturity]
    IN IF Changed(outcome) THEN GraphChanged(marked) ELSE marked
RunPipeline(bm, outcome) ==
    LET marked == [bm EXCEPT !.pipelineLast = bm.maturity,
                             !.justFired = @ \/ Total(outcome) > 0]
    IN IF Changed(outcome) THEN GraphChanged(marked) ELSE marked

\* log_info_on_input up to the pipeline; the recon part is ReconSession's
EnterMaturity(bm, m) ==
    IF m = bm.maturity THEN bm
    ELSE InvalidateFlowContext(ResetPassCounter(
             [bm EXCEPT !.maturity = m, !.justFired = FALSE]))

-----------------------------------------------------------------------------
(* func: the guards, then optimize.                                         *)

\* the limit is set at the first pass of a maturity, by the size of the graph
CountPass_Down(bm, f) ==
    [bm EXCEPT !.limit = IF bm.passes = 0 THEN ScaledPasses[f] ELSE @, !.passes = @ - 1]
CountPass(bm, f) ==
    [bm EXCEPT !.limit = IF bm.passes = 0 THEN ScaledPasses[f] ELSE @, !.passes = @ + 1]
Suppressed(bm) == bm.passes > bm.limit
Suppress(bm) == [bm EXCEPT !.passes = bm.limit + 1]

\* DispatcherCache.get_or_create and analyze: kept while the maturity is the same
KnownAtMaturity(bm, f) ==
    /\ bm.dispatcher[f].maturity = bm.maturity
    /\ bm.dispatcher[f].facts # "none"
Analyze(bm, f) ==
    IF KnownAtMaturity(bm, f) THEN bm
    ELSE [bm EXCEPT !.dispatcher[f] = [maturity |-> bm.maturity, facts |-> "fresh"]]

\* ensure_dispatcher_analysis; an analysis that raises is not tried again
EnsureDispatcher(bm, f, raises) ==
    IF bm.context.facts # "none" THEN bm
    ELSE IF raises /\ ~KnownAtMaturity(bm, f) THEN [bm EXCEPT !.context.facts = "failed"]
    ELSE [Analyze(bm, f) EXCEPT !.context.facts = Analyze(bm, f).dispatcher[f].facts]

GetOrCreateFlowContext(bm, f) ==
    IF bm.context.func = f /\ bm.context.maturity = bm.maturity THEN bm
    ELSE [bm EXCEPT !.context = [func |-> f, maturity |-> bm.maturity, facts |-> "none"]]

\* prepared for every phase up to the given priority: the phases of higher
\* priority have run without a patch
Prepare(bm, f, rules, priority, raises) ==
    LET context == GetOrCreateFlowContext(bm, f)
        reached == {r \in rules : Priority[r] >= priority}
    IN IF reached \cap NeedDispatcher # {} THEN EnsureDispatcher(context, f, raises) ELSE context

\* a rule patched the graph: the generation tells, and the context goes
Patched(bm) ==
    InvalidateFlowContext(GraphChanged([bm EXCEPT !.generation = @ + 1]))
\* a rule raised RuntimeError or D810Exception, perhaps half way through an edit
Failed_GoOn(bm, changed) == IF changed THEN GraphChanged(bm) ELSE bm
Failed(bm, changed) == Suppress(IF changed THEN GraphChanged(bm) ELSE bm)
=============================================================================
