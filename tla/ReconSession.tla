------------------------------ MODULE ReconSession ------------------------------
(***************************************************************************)
(* The recon pipeline driven by the decompiler: the maturity handlers of   *)
(* the two optimizer managers and the decompilation hook                   *)
(* (hexrays/hooks/hexrays_hooks.py), the ctree manager                     *)
(* (hexrays/hooks/ctree_hooks.py) and restarts of the plugin.              *)
(*                                                                         *)
(* The decompiler takes one function after the other through the microcode *)
(* maturities and then through the ctree maturities.  Everything runs on   *)
(* its main thread, so one call of a hook is one step; what makes the      *)
(* pipeline hard is the order of the calls, passes that are abandoned and  *)
(* store operations that raise in the middle of a hook.                    *)
(***************************************************************************)
EXTENDS ReconPipeline

CONSTANTS
  CallsAt      \* the maturities at which the decompiler calls each manager

Managers == {"instruction", "block"}

ASSUME SessionAssumption == CallsAt \in [Managers -> SUBSET Micro]

VARIABLES
  r,        \* the runtime, the phase and the store
  seen,     \* current_maturity of the two managers
  applied,  \* the hints in force in the rule scope, None when cleared
  context,  \* the flow context of the block manager, with its hint summary
  func,     \* the function being decompiled
  at,       \* its maturity
  called,   \* the managers called at that maturity
  pass,     \* decompilations started so far
  abandoned \* history: a pass was abandoned since the plugin was started

decompiler == <<func, at, called, pass, abandoned>>
vars == <<r, seen, applied, context, decompiler>>

Contexts == [func : Funcs, at : Micro, summary : Hints \cup {None}]

-------------------------------------------------------------------------------
Init ==
  /\ r = NewPipeline(EmptyStore)
  /\ seen = [m \in Managers |-> None]
  /\ applied = [f \in Funcs |-> None]
  /\ context = None
  /\ func = None
  /\ at = 1
  /\ called = {}
  /\ pass = 0
  /\ abandoned = FALSE

(* The decompiler *)

Decompile(f) ==
  /\ func = None
  /\ pass < MaxPasses
  /\ func' = f
  /\ at' = 1
  /\ called' = {}
  /\ pass' = pass + 1
  /\ UNCHANGED <<r, seen, applied, context, abandoned>>

(* A pass the decompiler gives up, or a caller ends at a lower maturity: no   *)
(* hook is told.                                                              *)
Abort ==
  /\ func # None
  /\ at \in Micro
  /\ func' = None
  /\ abandoned' = TRUE
  /\ UNCHANGED <<r, seen, applied, context, at, called, pass>>

AllCalled == \A m \in Managers : at \in CallsAt[m] => m \in called

NextMaturity ==
  /\ func # None
  /\ at \in Micro
  /\ at < NMicro
  /\ AllCalled
  /\ at' = at + 1
  /\ called' = {}
  /\ UNCHANGED <<r, seen, applied, context, func, pass, abandoned>>

-------------------------------------------------------------------------------
(* The hooks *)

(* What the collectors of a maturity may find: nothing if all of them fail.   *)
Findings == {None} \cup [kind : Kinds, pass : {pass}]

(* Mutant: clear_hint_state not called after the reset. *)
HintsInForce_NoClear(hints, reset, done) ==
  IF done.told THEN done.to.cached[func] ELSE hints

(* clear_hint_state if reset_for_func returned TRUE, then apply_hints. *)
HintsInForce(hints, reset, done) ==
  IF done.told THEN done.to.cached[func] ELSE IF reset.did THEN None ELSE hints

(* Mutant: the context is left to its key. *)
ContextLeft_Kept(m) == context

(* The block manager drops its flow context at a new maturity. *)
ContextLeft(m) == IF m = "block" THEN None ELSE context

(* log_info_on_input at a maturity the manager has not seen: reset_for_func,  *)
(* clear_hint_state if it was effective, the collectors, the analysis,        *)
(* apply_hints and its outcome.                                               *)
MaturityChanged(m) ==
  /\ seen' = [seen EXCEPT ![m] = at]
  /\ context' = ContextLeft(m)
  /\ \E result \in Findings, faults \in FaultSets :
       LET reset == ResetForFunc(r, func, faults)
           done  == CollectAndAnalyze(reset.to, func, at, result, faults)
       IN /\ r' = IF done.told
                  THEN [done.to EXCEPT !.log[func] = @ \cup {"rule_scope"}]
                  ELSE done.to
          /\ applied' = [applied EXCEPT ![func] = HintsInForce(@, reset, done)]

CallManager(m) ==
  /\ func # None
  /\ at \in CallsAt[m]
  /\ m \notin called
  /\ called' = called \cup {m}
  /\ IF seen[m] # at THEN MaturityChanged(m)
     ELSE UNCHANGED <<r, seen, applied, context>>
  /\ UNCHANGED <<func, at, pass, abandoned>>

(* The block manager's rules run in a flow context of their function and      *)
(* maturity, made with the summary of the hints stored by then; a gate of     *)
(* theirs records its outcome.  A rule that patches the graph throws the      *)
(* context away.                                                              *)
RunBlockRules ==
  /\ func # None
  /\ at \in Micro
  /\ "block" \in called
  /\ \E patched \in BOOLEAN :
       context' = IF patched THEN None
                  ELSE IF context # None /\ context.func = func /\ context.at = at
                       THEN context
                       ELSE [func |-> func, at |-> at, summary |-> r.hints[func]]
  /\ \E gates \in SUBSET {"flow_gate"} :
       r' = [r EXCEPT !.log[func] = @ \cup gates]
  /\ UNCHANGED <<seen, applied, decompiler>>

(* structural: mark_decompilation_finished. *)
Finish ==
  /\ func # None
  /\ at = NMicro
  /\ AllCalled
  /\ \E faults \in FaultSets : r' = MarkFinished(r, faults)
  /\ at' = at + 1
  /\ called' = {}
  /\ UNCHANGED <<seen, applied, context, func, pass, abandoned>>

(* on_maturity of the ctree manager; its hints are stored and not applied.    *)
CtreeMaturity ==
  /\ func # None
  /\ at \in Ctree
  /\ \E result \in Findings, faults \in FaultSets :
       r' = CollectAndAnalyze(r, func, at, result, faults).to
  /\ at' = at + 1
  /\ UNCHANGED <<seen, applied, context, func, called, pass, abandoned>>

Done ==
  /\ func # None
  /\ at = NMicro + NCtree + 1
  /\ func' = None
  /\ UNCHANGED <<r, seen, applied, context, at, called, pass, abandoned>>

(* stop_d810 and start_d810: new managers, a new runtime and a new phase over *)
(* the same database; the rule scope keeps its hints.                         *)
Restart ==
  /\ func = None
  /\ r' = NewPipeline(r)
  /\ seen' = [m \in Managers |-> None]
  /\ context' = None
  /\ abandoned' = FALSE
  /\ UNCHANGED <<applied, func, at, called, pass>>

Next ==
  \/ \E f \in Funcs : Decompile(f)
  \/ Abort
  \/ NextMaturity
  \/ \E m \in Managers : CallManager(m)
  \/ RunBlockRules
  \/ Finish
  \/ CtreeMaturity
  \/ Done
  \/ Restart

Spec == Init /\ [][Next]_vars

-------------------------------------------------------------------------------
(* Type invariant *)

TypeOK ==
  /\ r.current \in Funcs \cup {None}
  /\ r.fired \in [Funcs -> SUBSET Stages]
  /\ r.mem \in [Funcs -> Evidence]
  /\ r.dirty \subseteq Funcs
  /\ \A f \in Funcs : {r.cached[f], r.hints[f], applied[f]} \subseteq Hints \cup {None}
  /\ r.log \in [Funcs -> SUBSET Consumers]
  /\ r.rows \in [Funcs -> Evidence]
  /\ r.outcomes \in [Funcs -> SUBSET Consumers]
  /\ seen \in [Managers -> Micro \cup {None}]
  /\ context \in Contexts \cup {None}
  /\ func \in Funcs \cup {None}
  /\ at \in 1 .. NMicro + NCtree + 1
  /\ called \subseteq Managers
  /\ pass \in 0 .. MaxPasses
  /\ abandoned \in BOOLEAN

-------------------------------------------------------------------------------
(* Safety *)

(* A manager has been called in the microcode part of the present pass. *)
Begun == func # None /\ at \in Micro /\ (at > 1 \/ called # {})

OfThisPass(passes) == passes \subseteq {pass}

(* As long as every pass was completed since the plugin was started. *)
Orderly == Begun /\ ~abandoned

OnlyThisPassCounts ==
  /\ \A s \in Stages :
       /\ r.rows[func][s] # None => r.rows[func][s].pass = pass
       /\ r.mem[func][s] # None => r.mem[func][s].pass = pass
  /\ applied[func] # None => applied[func].passes \subseteq {pass}

(* Nothing that an earlier pass found about a function decides anything in    *)
(* this one, as long as no pass was abandoned: the rows of the store, the     *)
(* results in memory and the hints the rule scope applies are all of the      *)
(* present pass, also when a restart lies between the two.                    *)
CleanSlate == Orderly => OnlyThisPassCounts

(* What the runtime promises of every pass: "so every decompilation pass      *)
(* starts from a clean slate" (recon/runtime.py).                             *)
EveryPassStartsClean == Begun => OnlyThisPassCounts

(* During the microcode part of a pass the rule scope applies exactly the     *)
(* hints the store holds for the function, whatever manager came first and    *)
(* whatever a pass before it left in force.                                   *)
AppliedIsStored == Orderly => applied[func] = r.hints[func]

(* The hint summary the rules of a maturity see in their flow context is the  *)
(* one of the hints stored now: no manager changes the hints of a maturity    *)
(* after the context of the maturity was made.                                *)
InContext == context # None /\ context.func = func /\ context.at = at

SummaryIsCurrent ==
  Orderly /\ "block" \in called /\ InContext => context.summary = r.hints[func]

(* The hints stored for a function are what the analysis makes of its         *)
(* evidence, unless it is marked dirty; no order of hooks, flushes, abandoned *)
(* passes and restarts leaves results that no analysis has seen.              *)
HintsReflectEvidence ==
  \A f \in Funcs \ r.dirty :
    r.hints[f] # None => r.hints[f] = Interpret(Union(r.mem[f], r.rows[f]))

(* Whatever the analysis may use from memory is in the store as well, even if *)
(* an operation of the store raises between two steps of a hook: results the  *)
(* store refused (save_recon_results_bulk) are never analyzed.                *)
MemoryIsBacked ==
  \A f \in Funcs, s \in Stages :
    Saved(r.mem[f][s]) => r.rows[f][s] = r.mem[f][s]

(* The hints cached for a function are the ones in the store, even if an      *)
(* operation of the store raises between two writes of a hook.                *)
CacheIsStored ==
  \A f \in Funcs : r.cached[f] # None => f \notin r.dirty /\ r.cached[f] = r.hints[f]

-------------------------------------------------------------------------------
(* Action properties *)

(* No maturity is collected twice in one pass, though two managers ask for it *)
(* (the guard _fired of ReconPhase): a result in memory, where the blank ones *)
(* are too, or in the store gives way only to one of a later pass.            *)
CollectOnceStep ==
  \A kept \in {"mem", "rows"}, f \in Funcs, s \in Stages :
    LET before == r[kept][f][s]
        after  == r'[kept][f][s]
    IN before # None /\ after # None /\ after # before => after.pass > before.pass
CollectOnce == [][CollectOnceStep]_vars

(* What was reported of a function is in the store when the runtime turns     *)
(* away from it, at the end of its pass (mark_decompilation_finished) or, if  *)
(* the pass was given up, in the flush of the next function's reset_for_func, *)
(* whatever operation of the store raises there; and it stays until the       *)
(* function is entered again.  A restart forgets the reports of a pass that   *)
(* was given up.                                                              *)
OutcomesKeptStep ==
  \A f \in Funcs :
    /\ r.current = f /\ r'.current # f => r'.log[f] \subseteq r'.outcomes[f]
    /\ \/ r.outcomes[f] \subseteq r'.outcomes[f]
       \/ r.current # f /\ r'.current = f
OutcomesKept == [][OutcomesKeptStep]_vars
===============================================================================
