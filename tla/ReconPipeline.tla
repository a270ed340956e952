----------------------------- MODULE ReconPipeline -----------------------------
(***************************************************************************)
(* The recon pipeline: ReconAnalysisRuntime (recon/runtime.py) over        *)
(* ReconPhase (recon/phase.py) and ReconStore (recon/store.py).            *)
(*                                                                         *)
(* The runtime and the store are one record, and every method an operator  *)
(* from its state to its next state.  A method that calls the store takes  *)
(* the set of the store's operations that raise while it runs.             *)
(***************************************************************************)
EXTENDS Naturals, FiniteSets

CONSTANTS
  Funcs,       \* function entry addresses
  NMicro,      \* microcode maturities 1 .. NMicro
  NCtree,      \* ctree maturities, numbered on from there
  None,
  MaxPasses,   \* bound: decompilations started
  Kinds,       \* what collectors may find: "blank", "clean", "flat"
  FaultSets    \* the sets of store operations that may raise in one step

Micro  == 1 .. NMicro
Ctree  == NMicro + 1 .. NMicro + NCtree
Stages == Micro \cup Ctree      \* the keys of _fired: maturity, (maturity, "ctree")

ASSUME ReconAssumption ==
  /\ NMicro \in Nat /\ NCtree \in Nat /\ MaxPasses \in Nat
  /\ None \notin Funcs
  /\ Kinds \subseteq {"blank", "clean", "flat"}

(* What the collectors of one maturity found.  A blank result comes from the *)
(* metadata-only collectors: it is returned and never saved.  Each carries   *)
(* the number of the pass it was collected in.                               *)
Results == [kind : Kinds, pass : 1 .. MaxPasses]
Evidence == [Stages -> Results \cup {None}]
NoEvidence == [s \in Stages |-> None]

(* DeobfuscationHints: the classification, its candidates and, as history,   *)
(* the passes of the results behind them.                                    *)
Hints == [flat : BOOLEAN, candidates : SUBSET Stages, passes : SUBSET (1 .. MaxPasses)]
Consumers == {"rule_scope", "flow_gate"}

ASSUME NoneAssumption == None \notin Results \cup Hints \cup Stages

(* The operations of the store that may raise: the flush of the previous     *)
(* function, its outcomes, the clearing, the results, the analysis.          *)
Operations == {"flush", "outcomes", "clear", "save", "analyze"}
ASSUME FaultAssumption == FaultSets \subseteq SUBSET Operations

-------------------------------------------------------------------------------
(* Runtime and store *)

Pipelines ==
  [current  : Funcs \cup {None},               \* _current_func_ea, -1 is None
   fired    : [Funcs -> SUBSET Stages],        \* ReconPhase._fired
   mem      : [Funcs -> Evidence],             \* _results_by_func
   dirty    : SUBSET Funcs,                    \* _dirty_funcs
   cached   : [Funcs -> Hints \cup {None}],    \* _hints_cache_by_func
   log      : [Funcs -> SUBSET Consumers],     \* ReconOutcomeLog
   rows     : [Funcs -> Evidence],             \* table recon_results
   hints    : [Funcs -> Hints \cup {None}],    \* deobfuscation_hints, with the
                                               \* summary of the same transaction
   outcomes : [Funcs -> SUBSET Consumers]]     \* consumer_outcomes

EmptyStore == [rows |-> [f \in Funcs |-> NoEvidence], hints |-> [f \in Funcs |-> None],
               outcomes |-> [f \in Funcs |-> {}]]

(* A new runtime and a new phase over what the store holds. *)
NewPipeline(store) ==
  [current |-> None, fired |-> [f \in Funcs |-> {}], mem |-> [f \in Funcs |-> NoEvidence],
   dirty |-> {}, cached |-> [f \in Funcs |-> None], log |-> [f \in Funcs |-> {}],
   rows |-> store.rows, hints |-> store.hints, outcomes |-> store.outcomes]

(* Fresh results win over the rows of the store. *)
Union(mem, rows) == [s \in Stages |-> IF mem[s] # None THEN mem[s] ELSE rows[s]]

(* AnalysisPhase.interpret: the last maturity at which the microcode          *)
(* collectors found something decides, every maturity adds its candidates.    *)
Telling(evidence) ==
  {s \in Micro : evidence[s] # None /\ evidence[s].kind # "blank"}

Interpret(evidence) ==
  [flat |-> \E s \in Telling(evidence) : /\ evidence[s].kind = "flat"
                                         /\ \A t \in Telling(evidence) : t <= s,
   candidates |-> {s \in Stages : evidence[s] # None /\ evidence[s].kind = "flat"},
   passes |-> {evidence[s].pass :
                 s \in {t \in Stages : evidence[t] # None /\ evidence[t].kind # "blank"}}]

(* analyze_dirty_and_persist; a clean function keeps its cached hints. *)
AnalyzeDirty(r, f) ==
  LET found == Interpret(Union(r.mem[f], r.rows[f]))
  IN IF f \notin r.dirty THEN r
     ELSE [r EXCEPT !.hints[f] = found, !.cached[f] = found, !.dirty = @ \ {f}]

PersistOutcomes(r, f) == [r EXCEPT !.outcomes[f] = @ \cup r.log[f]]

(* The four pops of the memory kept for a function. *)
Forget(r, f) ==
  [r EXCEPT !.mem[f] = NoEvidence, !.dirty = @ \ {f}, !.cached[f] = None]

(* A flush that raises is logged, and the pops that follow drop the mark.     *)
Flush(r, faults) ==
  IF r.current = None \/ "flush" \in faults THEN r ELSE AnalyzeDirty(r, r.current)

(* The outcomes are written unless there are none. *)
OutcomesRaise(r, faults) ==
  r.current # None /\ r.log[r.current] # {} /\ "outcomes" \in faults

(* Mutant: the reset of the next function flushes no outcomes. *)
Leave_Unwritten(r) == IF r.current = None THEN r ELSE Forget(r, r.current)

(* The previous function left behind. *)
Leave(r) == IF r.current = None THEN r ELSE Forget(PersistOutcomes(r, r.current), r.current)

Enter(r, f) == [Leave(r) EXCEPT !.current = f, !.fired[f] = {}]

(* Mutant: the memory of the function entered is kept. *)
ClearFunc_KeepMemory(r, f) ==
  [r EXCEPT !.rows[f] = NoEvidence, !.hints[f] = None, !.outcomes[f] = {}, !.log[f] = {}]

(* clear_func, the log's reset and the pops for the function entered. *)
ClearFunc(r, f) ==
  Forget([r EXCEPT !.rows[f] = NoEvidence, !.hints[f] = None, !.outcomes[f] = {},
                   !.log[f] = {}], f)

(* Mutant: deduplicated by the guard of the phase instead of the function. *)
ResetForFunc_ByGuard(r, f, faults) ==
  IF r.fired[f] # {} THEN [to |-> r, did |-> FALSE]
  ELSE [to |-> ClearFunc(Enter(Flush(r, faults), f), f), did |-> TRUE]

(* reset_for_func: the state it leaves, and whether it returns TRUE.  An      *)
(* exception is caught by the hook and counts as FALSE.                       *)
ResetForFunc(r, f, faults) ==
  LET flushed == Flush(r, faults)
      entered == Enter(flushed, f)
  IN CASE r.current = f                  -> [to |-> r, did |-> FALSE]
       [] r.current # f /\ OutcomesRaise(flushed, faults)
                                         -> [to |-> flushed, did |-> FALSE]
       [] r.current # f /\ ~OutcomesRaise(flushed, faults) /\ "clear" \in faults
                                         -> [to |-> entered, did |-> FALSE]
       [] OTHER                          -> [to |-> ClearFunc(entered, f), did |-> TRUE]

(* mark_decompilation_finished: if writing the outcomes raises, the current   *)
(* function stays.                                                            *)
MarkFinished(r, faults) ==
  LET flushed == Flush(r, faults)
  IN IF r.current = None \/ OutcomesRaise(flushed, faults) THEN flushed
     ELSE [PersistOutcomes(flushed, r.current) EXCEPT !.current = None]

-------------------------------------------------------------------------------
(* Collecting and analyzing *)

(* Blank results are returned to the caller but not saved. *)
Saved(result) == result # None /\ result.kind # "blank"

(* Mutant: the guard is never set. *)
Collected_NoGuard(r, f, s, result) ==
  [r EXCEPT !.rows[f][s] = IF Saved(result) THEN result ELSE @]

Collected(r, f, s, result) ==
  [r EXCEPT !.fired[f] = @ \cup {s},
            !.rows[f][s] = IF Saved(result) THEN result ELSE @]

(* Mutant: the results the store refused are returned all the same. *)
RunCollectors_ReturnUnsaved(r, f, s, result, faults) ==
  IF s \in r.fired[f] THEN [to |-> r, found |-> FALSE]
  ELSE IF Saved(result) /\ "save" \in faults
  THEN [to |-> r, found |-> TRUE]
  ELSE [to |-> Collected(r, f, s, result), found |-> result # None]

(* run_microcode_collectors and run_ctree_collectors: the state left, and     *)
(* whether there are results.  The guard is set after the save.               *)
RunCollectors(r, f, s, result, faults) ==
  IF s \in r.fired[f] \/ (Saved(result) /\ "save" \in faults)
  THEN [to |-> r, found |-> FALSE]
  ELSE [to |-> Collected(r, f, s, result), found |-> result # None]

(* Mutants: the wrong key marked dirty; only the first results mark it.       *)
Ingest_WrongKey(r, f, s, result) ==
  [r EXCEPT !.mem[f][s] = result, !.dirty = @ \cup {s}, !.cached[f] = None]

Ingest_FirstOnly(r, f, s, result) ==
  [r EXCEPT !.mem[f][s] = result, !.cached[f] = None,
            !.dirty = IF r.mem[f] = NoEvidence THEN @ \cup {f} ELSE @]

(* ingest_results *)
Ingest(r, f, s, result) ==
  [r EXCEPT !.mem[f][s] = result, !.dirty = @ \cup {f}, !.cached[f] = None]

(* Mutant: the hints are cached before they are saved. *)
CollectAndAnalyze_CacheFirst(r, f, s, result, faults) ==
  LET collected == RunCollectors(r, f, s, result, faults)
      ingested  == Ingest(collected.to, f, s, result)
      analyzed  == AnalyzeDirty(ingested, f)
  IN CASE ~collected.found -> [to |-> collected.to, told |-> FALSE]
       [] collected.found /\ "analyze" \in faults ->
            [to |-> [ingested EXCEPT !.cached[f] = analyzed.cached[f]], told |-> FALSE]
       [] OTHER -> [to |-> analyzed, told |-> TRUE]

(* What the hooks do with a maturity's results: the state left, and whether   *)
(* there are hints to apply.                                                  *)
CollectAndAnalyze(r, f, s, result, faults) ==
  LET collected == RunCollectors(r, f, s, result, faults)
      ingested  == Ingest(collected.to, f, s, result)
  IN CASE ~collected.found -> [to |-> collected.to, told |-> FALSE]
       [] collected.found /\ "analyze" \in faults -> [to |-> ingested, told |-> FALSE]
       [] OTHER -> [to |-> AnalyzeDirty(ingested, f), told |-> TRUE]
===============================================================================
