---------------------------- MODULE ScopeLifecycle ----------------------------
(***************************************************************************)
(* D810Manager and D810State (d810/manager.py) around the rule-scope       *)
(* service: the event emitter that carries the invalidations, the storage  *)
(* of the per-function overrides and of the active inference, the project  *)
(* loaded, and starting, stopping and reloading the plugin.                *)
(*                                                                         *)
(* One action is one call of the user interface or of the decompiler's     *)
(* hooks; all of them run to their end on the main thread.                 *)
(***************************************************************************)
EXTENDS RuleScope

CONSTANTS
  Activated,       \* Activated[p]: the rules project p activates
  ConfigOf,        \* ConfigOf[p][r]: what p configures for r
  DefaultSelector, \* the attributes of a rule no project configured yet
  OverrideChoices, \* <<enabled, disabled>> pairs the dialogs submit
  InferenceChoices,\* inferences the dialogs submit
  HintChoices,     \* hints the analysis produces
  MaxGeneration,   \* bound: invalidations of one service
  MaxStarts,       \* bound: calls of start_d810
  WriteFaults      \* TRUE: a write to the storage may raise

(* A configuration without "maturities" keeps the rule's. *)
Configs == [selector : Selectors, keepsMaturities : BOOLEAN]

ASSUME LifecycleAssumption ==
  /\ Activated \in [Projects -> SUBSET Rules]
  /\ ConfigOf \in [Projects -> [Rules -> Configs]]
  /\ DefaultSelector \in [Rules -> Selectors]
  /\ OverrideChoices \subseteq (SUBSET Rules) \X (SUBSET Rules)
  /\ InferenceChoices \subseteq Inferences
  /\ HintChoices \subseteq HintSet
  /\ MaxGeneration \in Nat
  /\ MaxStarts \in Nat
  /\ WriteFaults \in BOOLEAN

VARIABLES
  svc,          \* rule_scope_service
  started,      \* _started: the hooks are installed
  subscribed,   \* the emitter holds the service's handlers
  handle,       \* storage is not None
  overrides,    \* the function_rules table
  persisted,    \* the rule_scope_inference row
  mgrInference, \* _active_rule_inference
  project,      \* current_project
  conf,         \* the attributes of the rule objects, configured in place
  lists,        \* {instruction,block}_optimizer_rules of the manager
  starts,       \* calls of start_d810 so far
  unannounced   \* history: functions whose scope changed with no invalidation
                \* having reached the service since

sources == <<overrides, persisted>>
rules   == <<project, conf, lists>>
vars    == <<svc, started, subscribed, handle, sources, mgrInference, rules,
             starts, unannounced>>

-------------------------------------------------------------------------------
(* Helpers *)

(* _get_rule_overlay, for every function *)
StoredOverlay(open, table) == IF open THEN table ELSE [f \in Funcs |-> None]
Source == StoredOverlay(handle, overrides)

(* emit_rule_scope_invalidation: _on_event runs if the emitter knows it. *)
Emit(s, reason, eas) == IF subscribed THEN Invalidate(s, reason, eas) ELSE s

(* The history of an event about the functions eas ({}: about everything). *)
Announce(reason, eas) ==
  IF subscribed
  THEN IF reason \in PartialReasons THEN unannounced \ eas ELSE {}
  ELSE IF reason \in PartialReasons THEN unannounced \cup eas ELSE Funcs

(* _init_storage, by whether the storage could be opened: the persisted       *)
(* inference becomes the active one, then the reload is announced.            *)
OpenStorage(s, ok, listening) ==
  LET Tell(t, reason) == IF listening THEN Invalidate(t, reason, {}) ELSE t
      loaded == SetActiveInference(s, persisted)
      told   == IF persisted = None THEN loaded ELSE Tell(loaded, "INFERENCE_APPLIED")
  IN IF ok THEN Tell(told, "IDB_OVERLAY_RELOADED") ELSE Tell(s, "IDB_OVERLAY_RELOADED")

LoadedInference(ok) == IF ok THEN persisted ELSE mgrInference

(* compile_base_rules's table: the manager's rules with the attributes they  *)
(* have now.                                                                 *)
CompiledTable(ruleLists, config) ==
  [r \in Rules |-> IF r \in ruleLists THEN config[r] ELSE None]

(* rule.configure: white- and blacklist are reset, maturities only replaced. *)
Configure(old, new) ==
  [new.selector EXCEPT !.maturities = IF new.keepsMaturities THEN old.maturities ELSE @]

ConfiguredBy(p, config) ==
  [r \in Rules |-> IF r \in Activated[p] THEN Configure(config[r], ConfigOf[p][r])
                   ELSE config[r]]

-------------------------------------------------------------------------------
(* A fresh plugin: D810State.load makes a new manager, new rule objects and  *)
(* loads the last project.                                                   *)

Init ==
  /\ svc = NewService
  /\ started = FALSE
  /\ subscribed = FALSE
  /\ handle = FALSE
  /\ overrides = [f \in Funcs |-> None]
  /\ persisted = None
  /\ mgrInference = None
  /\ project \in Projects
  /\ conf = ConfiguredBy(project, DefaultSelector)
  /\ lists = {}
  /\ starts = 0
  /\ unannounced = {}

(* unload stops the manager first; what the storage holds outlives it. *)
ReloadPlugin(p) ==
  /\ ~started
  /\ svc' = NewService
  /\ handle' = FALSE
  /\ mgrInference' = None
  /\ project' = p
  /\ conf' = ConfiguredBy(p, DefaultSelector)
  /\ lists' = {}
  /\ unannounced' = {}
  /\ UNCHANGED <<started, subscribed, sources, starts>>

-------------------------------------------------------------------------------
(* start, stop, load_project *)

(* start_d810.  A running manager is stopped first, which empties the        *)
(* emitter; attach subscribes only a service that never was attached.        *)
StartD810 ==
  /\ starts < MaxStarts
  /\ \E ok \in BOOLEAN :
       LET listening == ~svc.attached
           attached  == [svc EXCEPT !.attached = TRUE]
           opened    == OpenStorage(attached, ok, listening)
           provided  == SetOverlayProvider(opened, "manager")
           inferred  == SetActiveInference(provided, LoadedInference(ok))
       IN /\ svc' = CompileBaseRules(inferred, CompiledTable(Activated[project], conf))
          /\ subscribed' = listening
          /\ handle' = ok
          /\ mgrInference' = LoadedInference(ok)
  /\ lists' = Activated[project]
  /\ started' = TRUE
  /\ starts' = starts + 1
  /\ unannounced' = {}
  /\ svc'.gen <= MaxGeneration
  /\ UNCHANGED <<sources, project, conf>>

StopD810 ==
  /\ started
  /\ started' = FALSE
  /\ subscribed' = FALSE
  /\ handle' = FALSE
  /\ UNCHANGED <<svc, sources, mgrInference, rules, starts, unannounced>>

(* Mutant: the new project's rules wait for the next start to be compiled. *)
LoadProject_NoCompile(p) ==
  /\ project' = p
  /\ conf' = ConfiguredBy(p, conf)
  /\ svc' = Emit(svc, "PROJECT_RULES_RELOADED", {})
  /\ unannounced' = IF subscribed THEN {} ELSE unannounced
  /\ svc'.gen <= MaxGeneration
  /\ UNCHANGED <<started, subscribed, handle, sources, mgrInference, lists, starts>>

LoadProject(p) ==
  /\ project' = p
  /\ conf' = ConfiguredBy(p, conf)
  /\ LET told == Emit(svc, "PROJECT_RULES_RELOADED", {})
     IN svc' = IF started THEN CompileBaseRules(told, CompiledTable(lists, conf')) ELSE told
  /\ unannounced' = IF subscribed THEN {} ELSE unannounced
  /\ svc'.gen <= MaxGeneration
  /\ UNCHANGED <<started, subscribed, handle, sources, mgrInference, lists, starts>>

-------------------------------------------------------------------------------
(* The calls of the user interface.  Each opens the storage if it is closed. *)

EnsureStorage(ok) ==
  /\ handle => ok
  /\ handle' = ok
  /\ mgrInference' = IF handle THEN mgrInference ELSE LoadedInference(ok)

Ensured(ok) == IF handle THEN svc ELSE OpenStorage(svc, ok, subscribed)

(* What opening the storage did to the history. *)
EnsuredHistory == IF handle THEN unannounced ELSE Announce("IDB_OVERLAY_RELOADED", {})

(* set_function_rule_override and set_function_tags write one row and         *)
(* announce its function.  A write that raises after it took effect (the      *)
(* netnode's state before its flush, a row before its commit) is not          *)
(* announced.                                                                 *)
WriteOverride(ea, reason, row) ==
  \E ok \in BOOLEAN, raises \in {FALSE, WriteFaults} :
    /\ EnsureStorage(ok)
    /\ overrides' = IF ok THEN [overrides EXCEPT ![ea] = row] ELSE overrides
    /\ svc' = IF ok /\ ~raises THEN Emit(Ensured(ok), reason, {ea}) ELSE Ensured(ok)
    /\ unannounced' = IF ~ok THEN EnsuredHistory
                      ELSE IF raises \/ ~subscribed THEN EnsuredHistory \cup {ea}
                      ELSE EnsuredHistory \ {ea}
    /\ svc'.gen <= MaxGeneration
    /\ UNCHANGED <<started, subscribed, persisted, rules, starts>>

(* set_function_rules keeps the tags of the row, set_function_tags its rules. *)
SetFunctionRuleOverride(ea, enabled, disabled) ==
  WriteOverride(ea, "FUNCTION_OVERRIDE_UPDATED",
    [enabled |-> enabled, disabled |-> disabled, tags |-> TagsOf(overrides[ea])])

SetFunctionTags(ea, tags) ==
  WriteOverride(ea, "FUNCTION_TAGS_UPDATED",
    IF overrides[ea] = None
    THEN [enabled |-> {}, disabled |-> {}, tags |-> tags]
    ELSE [overrides[ea] EXCEPT !.tags = tags])

(* set_active_rule_inference and clear_active_rule_inference (None) hand the  *)
(* inference to the service, then persist it, then announce it.  A closed     *)
(* storage is no obstacle.                                                    *)
SetActiveRuleInference(inference) ==
  \E ok \in BOOLEAN, raises \in {FALSE, WriteFaults} :
    /\ handle => ok
    /\ handle' = ok
    /\ mgrInference' = inference
    /\ persisted' = IF ok THEN inference ELSE persisted
    /\ LET assigned == SetActiveInference(Ensured(ok), inference)
       IN svc' = IF ok /\ raises THEN assigned ELSE Emit(assigned, "INFERENCE_APPLIED", {})
    /\ unannounced' = IF (ok /\ raises) \/ ~subscribed THEN Funcs ELSE {}
    /\ svc'.gen <= MaxGeneration
    /\ UNCHANGED <<started, subscribed, overrides, rules, starts>>

-------------------------------------------------------------------------------
(* The calls of the decompiler's hooks, which are installed between start    *)
(* and stop.                                                                 *)

HookApplyHints(h) ==
  /\ started
  /\ svc' = ApplyHints(svc, h)
  /\ unannounced' = IF svc'.gen = svc.gen THEN unannounced ELSE unannounced \ {h.ea}
  /\ svc'.gen <= MaxGeneration
  /\ UNCHANGED <<started, subscribed, handle, sources, mgrInference, rules, starts>>

HookClearHintState(ea) ==
  /\ started
  /\ svc' = ClearHintState(svc, ea)
  /\ unannounced' = IF svc'.gen = svc.gen THEN unannounced ELSE unannounced \ {ea}
  /\ svc'.gen <= MaxGeneration
  /\ UNCHANGED <<started, subscribed, handle, sources, mgrInference, rules, starts>>

ScopeKey(ea, pipeline) == [project |-> project, ea |-> ea, pipeline |-> pipeline]

HookGetActiveRules(ea, pipeline, m) ==
  /\ started
  /\ svc' = AfterGet(svc, Source, ScopeKey(ea, pipeline), m)
  /\ UNCHANGED <<started, subscribed, handle, sources, mgrInference, rules, starts,
                 unannounced>>

-------------------------------------------------------------------------------
Next ==
  \/ StartD810
  \/ StopD810
  \/ \E p \in Projects : ReloadPlugin(p)
  \/ \E p \in Projects : LoadProject(p)
  \/ \E ea \in Funcs, o \in OverrideChoices : SetFunctionRuleOverride(ea, o[1], o[2])
  \/ \E ea \in Funcs, tags \in SUBSET Tags : SetFunctionTags(ea, tags)
  \/ \E i \in InferenceChoices \cup {None} : SetActiveRuleInference(i)
  \/ \E h \in HintChoices : HookApplyHints(h)
  \/ \E ea \in Funcs : HookClearHintState(ea)
  \/ \E ea \in Funcs, pipeline \in Pipelines, m \in Maturities :
       HookGetActiveRules(ea, pipeline, m)

Spec == Init /\ [][Next]_vars

-------------------------------------------------------------------------------
(* Type invariant *)

TypeOK ==
  /\ svc \in Services
  /\ started \in BOOLEAN
  /\ subscribed \in BOOLEAN
  /\ handle \in BOOLEAN
  /\ overrides \in [Funcs -> Overlays \cup {None}]
  /\ persisted \in Inferences \cup {None}
  /\ mgrInference \in Inferences \cup {None}
  /\ project \in Projects
  /\ conf \in [Rules -> Selectors]
  /\ lists \in SUBSET Rules
  /\ starts \in Nat
  /\ unannounced \in SUBSET Funcs

-------------------------------------------------------------------------------
(* Safety *)

(* What get_active_rules returns now, and what it would return had it never   *)
(* cached anything.                                                           *)
Served(k, m) == Answer(svc, Source, k, m)

Recomputed(k, m) ==
  IF svc.compiled = None THEN {}
  ELSE ActiveRules(svc.compiled, k.pipeline, m, k.ea,
                   CallProvider(svc, Source, k.ea), EffectiveInference(svc, k.ea))

ScopesOf(fs) == {k \in Scopes : k.project = project /\ k.ea \in fs}

(* While the hooks run, a function all of whose changes were announced is     *)
(* served exactly the rules a recomputation from the storage, the hints and   *)
(* the inference would give: neither the bundles nor the overlay cache of the *)
(* service (get_active_rules, _get_overlay) is ever stale for it.             *)
Coherent ==
  started => \A k \in ScopesOf(Funcs \ unannounced), m \in Maturities :
               Served(k, m) = Recomputed(k, m)

(* Whatever is compiled while the hooks run is the manager's rules with the   *)
(* attributes they are configured with now: a project loaded under a running  *)
(* manager (load_project) never leaves selectors of the project before it.    *)
CompiledIsCurrent ==
  started /\ svc.compiled # None => svc.compiled = CompiledTable(lists, conf)

(* A rule the user disabled for a function is served to it under no hint, no  *)
(* inference and no project: the overlay of the hints (HintOverlayProvider)   *)
(* adds to the stored override and never replaces it.                         *)
UserDisabledWins ==
  started /\ handle =>
    \A k \in ScopesOf(Funcs \ unannounced), m \in Maturities :
      overrides[k.ea] # None => Served(k, m) \cap overrides[k.ea].disabled = {}

(* A function without hint state is served as if no hint had ever been given: *)
(* retracting hints (clear_hint_state, a later apply_hints) leaves no trace   *)
(* in the caches nor in the provider chain.                                   *)
RetractedHintsLeaveNoTrace ==
  started => \A k \in ScopesOf(Funcs \ unannounced), m \in Maturities :
    svc.hintInf[k.ea] = None /\ svc.hintSupp[k.ea] = {} /\ svc.compiled # None =>
      Served(k, m) = ActiveRules(svc.compiled, k.pipeline, m, k.ea,
                                 Source[k.ea], svc.inference)

(* The inductive invariant behind the four above: the two caches one by one,  *)
(* for every project, the dates that make an invalidated bundle dead for good,*)
(* and the shape of the provider chain.                                       *)
Consistent ==
  /\ TypeOK
  /\ Dated(svc)
  /\ Wrapped(svc)
  /\ CompiledIsCurrent
  /\ started =>
       /\ svc.provider # "none"
       /\ \A f \in Funcs \ unannounced : OverlayFresh(svc, Source, f)
       /\ \A k \in Scopes : k.ea \notin unannounced => BundleFresh(svc, Source, k)

-------------------------------------------------------------------------------
(* Action properties *)

HintsOf(ea) == <<svc.hintInf[ea], svc.hintSupp[ea]>>

(* Giving or retracting hints for one function changes what no other function *)
(* is served (apply_hints stores per-function inferences, not the global one).*)
HintsStayLocalStep ==
  \A f \in Funcs : started /\ started' /\ HintsOf(f)' # HintsOf(f) =>
    \A k \in ScopesOf(Funcs \ ({f} \cup unannounced)), m \in Maturities :
      Served(k, m)' = Served(k, m)
HintsStayLocal == [][HintsStayLocalStep]_vars

(* Within a subscribed session what a function is served changes only when    *)
(* the generation moves: the generation ApplyHintsResult and the bundles      *)
(* carry tells every change.                                                  *)
GenerationTellsStep ==
  subscribed /\ subscribed' /\ svc'.gen = svc.gen =>
    \A k \in ScopesOf(Funcs \ unannounced'), m \in Maturities :
      Served(k, m)' = Served(k, m)
GenerationTells == [][GenerationTellsStep]_vars

-------------------------------------------------------------------------------
(* A claim of the repository that the code does not keep *)

(* tests/unit/core/test_rule_scope.py: an override written to the storage     *)
(* shows in the next get_active_rules.  Storage writes do not raise here.     *)
OverridesShow ==
  started => \A k \in ScopesOf(Funcs), m \in Maturities :
               Served(k, m) = Recomputed(k, m)
===============================================================================
