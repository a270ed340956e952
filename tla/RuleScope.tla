------------------------------- MODULE RuleScope -------------------------------
(***************************************************************************)
(* RuleScopeService and HintOverlayProvider (d810/core/rule_scope.py).     *)
(*                                                                         *)
(* The service is a record and every method is an operator from the        *)
(* service's state to its next state, so that a caller which makes several *)
(* calls in a row (D810Manager.start, _init_storage) is modelled by        *)
(* applying them in the order of the code, inside one step: the plugin     *)
(* runs on the decompiler's main thread and no other code comes between.   *)
(*                                                                         *)
(* `src' is what D810Manager._get_rule_overlay answers at the time of the  *)
(* call, the source of truth the caches of the service copy.               *)
(***************************************************************************)
EXTENDS ScopeRules

CONSTANTS
  Registered,     \* names in _inference_registry
  DeltasOf        \* DeltasOf[name, confident]: what the factory returns

ByMaturity == UNION {[D -> SUBSET Rules] : D \in SUBSET Maturities}
Bundles    == [gen : Nat, by : ByMaturity]

Services ==
  [gen       : Nat,                               \* _generation
   compiled  : Tables \cup {None},                \* _caches.compiled
   bundles   : [Scopes -> Bundles \cup {None}],   \* _caches.active_by_scope
   overlays  : [Funcs -> Overlays \cup {None, Unset}],  \* _overlay_cache
   attached  : BOOLEAN,                           \* _attached
   provider  : {"none", "manager", "hint"},       \* _overlay_provider
   delegate  : {"none", "manager"},               \* _hint_overlay.delegate
   hintOn    : BOOLEAN,                           \* _hint_overlay is not None
   hintInf   : [Funcs -> Inferences \cup {None}], \* merged_hint_inference
   hintSupp  : [Funcs -> SUBSET Rules],           \* _suppressions
   inference : Inferences \cup {None}]            \* _active_inference

HintSet == [ea : Funcs, recommended : SUBSET Registered,
            suppress : SUBSET Rules, confident : BOOLEAN]

ASSUME DeltasAssumption == DeltasOf \in [Registered \X BOOLEAN -> SUBSET Deltas]

NoBundles  == [k \in Scopes |-> None]
NoOverlays == [f \in Funcs |-> Unset]

NewService ==
  [gen |-> 0, compiled |-> None, bundles |-> NoBundles, overlays |-> NoOverlays,
   attached |-> FALSE, provider |-> "none", delegate |-> "none", hintOn |-> FALSE,
   hintInf |-> [f \in Funcs |-> None], hintSupp |-> [f \in Funcs |-> {}],
   inference |-> None]

-------------------------------------------------------------------------------
(* Invalidation *)

InvalidateAll(s) ==
  [s EXCEPT !.gen = @ + 1, !.compiled = None,
            !.bundles = NoBundles, !.overlays = NoOverlays]

(* Mutants: the overlay cache forgotten; the generation left alone. *)
InvalidateFunctions_KeepOverlays(s, eas) ==
  [s EXCEPT !.gen = @ + 1,
            !.bundles = [k \in Scopes |-> IF k.ea \in eas THEN None ELSE @[k]]]

InvalidateFunctions_SameGeneration(s, eas) ==
  [s EXCEPT !.bundles  = [k \in Scopes |-> IF k.ea \in eas THEN None ELSE @[k]],
            !.overlays = [f \in Funcs |-> IF f \in eas THEN Unset ELSE @[f]]]

InvalidateFunctions(s, eas) ==
  [s EXCEPT !.gen = @ + 1,
            !.bundles  = [k \in Scopes |-> IF k.ea \in eas THEN None ELSE @[k]],
            !.overlays = [f \in Funcs |-> IF f \in eas THEN Unset ELSE @[f]]]

(* Mutant: the reason of the hints not added to the set. *)
PartialReasons_NoHints == {"FUNCTION_OVERRIDE_UPDATED", "FUNCTION_TAGS_UPDATED"}

PartialReasons == {"FUNCTION_OVERRIDE_UPDATED", "FUNCTION_TAGS_UPDATED", "HINTS_APPLIED"}

Invalidate(s, reason, eas) ==
  IF reason \in PartialReasons /\ eas # {}
  THEN InvalidateFunctions(s, eas)
  ELSE InvalidateAll(s)

-------------------------------------------------------------------------------
(* Setters *)

(* Mutant: the answers of the provider before are kept. *)
SetOverlayProvider_KeepOverlays(s, provider) == [s EXCEPT !.provider = provider]

SetOverlayProvider(s, provider) ==
  [s EXCEPT !.provider = provider, !.overlays = NoOverlays]

SetActiveInference(s, inference) == [s EXCEPT !.inference = inference]

CompileBaseRules(s, table) ==
  [s EXCEPT !.compiled = table, !.bundles = NoBundles]

-------------------------------------------------------------------------------
(* Overlay providers *)

DelegateOverlay(s, src, ea) == IF s.delegate = "manager" THEN src[ea] ELSE None

(* HintOverlayProvider.__call__: the delegate's overlay with the hint's      *)
(* suppressions added to its disabled rules.                                 *)
HintOverlay(s, src, ea) ==
  LET base == DelegateOverlay(s, src, ea)
  IN IF base = None /\ s.hintSupp[ea] = {}
     THEN None
     ELSE IF base = None
          THEN [enabled |-> {}, disabled |-> s.hintSupp[ea], tags |-> {}]
          ELSE [base EXCEPT !.disabled = @ \cup s.hintSupp[ea]]

CallProvider(s, src, ea) ==
  CASE s.provider = "hint"    -> HintOverlay(s, src, ea)
    [] s.provider = "manager" -> src[ea]
    [] OTHER                  -> None

(* _get_overlay: its value; AfterGet below stores it. *)
GetOverlay(s, src, ea) ==
  IF s.provider = "none" THEN None
  ELSE IF s.overlays[ea] # Unset THEN s.overlays[ea]
  ELSE CallProvider(s, src, ea)

-------------------------------------------------------------------------------
(* Hints *)

(* The user's whitelist beats a suppression, the blacklist an activation. *)
UserConfigOverridesDelta(s, d, ea) ==
  /\ s.compiled # None
  /\ s.compiled[d.rule] # None
  /\ LET selector == s.compiled[d.rule]
     IN \/ d.action = "suppress" /\ selector.whitelisted /\ ea \in selector.allow
        \/ d.action = "activate" /\ ea \in selector.deny

(* The overlay of the recommended inferences, merged. *)
ScopedInference(s, h) ==
  LET deltas == UNION {DeltasOf[n, h.confident] : n \in h.recommended}
      kept   == {d \in deltas : ~UserConfigOverridesDelta(s, d, h.ea)}
  IN [enabled  |-> {r \in Rules : \E d \in kept : d.rule = r /\ d.action = "activate"},
      disabled |-> {r \in Rules : \E d \in kept : d.rule = r /\ d.action = "suppress"},
      eas |-> {h.ea}, tagsAny |-> {}, tagsAll |-> {}]

(* Mutant: the hint provider replaces the manager's. *)
WrapProvider_NoDelegate(s) ==
  IF s.hintOn THEN s
  ELSE [s EXCEPT !.hintOn = TRUE, !.delegate = "none", !.provider = "hint",
                 !.overlays = NoOverlays]

(* Mutant: wrapped at every call, so that hint providers pile up. *)
WrapProvider_Again(s) ==
  [s EXCEPT !.hintOn = TRUE, !.delegate = s.provider, !.provider = "hint",
            !.overlays = NoOverlays]

(* The lazily created HintOverlayProvider takes the current provider as its  *)
(* delegate and its place; once created it is never created again.           *)
WrapProvider(s) ==
  IF s.hintOn THEN s
  ELSE [s EXCEPT !.hintOn = TRUE,
                 !.delegate = IF s.provider = "manager" THEN "manager" ELSE "none",
                 !.provider = "hint", !.overlays = NoOverlays]

ClearFunc(s, ea) == [s EXCEPT !.hintInf[ea] = None, !.hintSupp[ea] = {}]

(* Mutant: cleared without an invalidation. *)
ClearHintState_Silent(s, ea) == IF s.hintOn THEN ClearFunc(s, ea) ELSE s

ClearHintState(s, ea) ==
  IF s.hintOn THEN Invalidate(ClearFunc(s, ea), "HINTS_APPLIED", {ea}) ELSE s

HintInference(s, h) == IF h.recommended = {} THEN None ELSE ScopedInference(s, h)

(* The hint state of ea replaced; the provider is wrapped if there is some.  *)
Hinted(s, ea, inference, suppressions) ==
  LET cleared == ClearFunc(s, ea)
      wrapped == IF inference # None \/ suppressions # {} THEN WrapProvider(cleared)
                 ELSE cleared
  IN [wrapped EXCEPT !.hintInf[ea] = inference, !.hintSupp[ea] = suppressions]

(* Every call replaces the hint state of its function, and invalidates it    *)
(* unless there was none and there is none.                                  *)
ApplyHints(s, h) ==
  LET inference == HintInference(s, h)
      hinted    == Hinted(s, h.ea, inference, h.suppress)
  IN IF \/ inference # None \/ h.suppress # {}
        \/ s.hintInf[h.ea] # None \/ s.hintSupp[h.ea] # {}
     THEN Invalidate(hinted, "HINTS_APPLIED", {h.ea})
     ELSE hinted

-------------------------------------------------------------------------------
(* get_active_rules *)

EffectiveInference(s, ea) ==
  IF s.hintInf[ea] # None THEN s.hintInf[ea] ELSE s.inference

Live(s, k) == s.bundles[k] # None /\ s.bundles[k].gen = s.gen

IsCached(s, k, m) == Live(s, k) /\ m \in DOMAIN s.bundles[k].by

(* What the call returns. *)
Answer(s, src, k, m) ==
  IF s.compiled = None THEN {}
  ELSE IF IsCached(s, k, m) THEN s.bundles[k].by[m]
  ELSE ActiveRules(s.compiled, k.pipeline, m, k.ea,
                   GetOverlay(s, src, k.ea), EffectiveInference(s, k.ea))

(* The bundle the call leaves: the live one with this maturity added, or a   *)
(* new one.                                                                  *)
StoredBundle(s, k, m, active) ==
  LET by == IF Live(s, k) THEN s.bundles[k].by ELSE [x \in {} |-> {}]
  IN [gen |-> s.gen,
      by  |-> [x \in DOMAIN by \cup {m} |-> IF x = m THEN active ELSE by[x]]]

(* Nothing is stored when no rule is compiled for the pipeline and maturity. *)
BundleAfter(s, src, k, m) ==
  IF Candidates(s.compiled, k.pipeline, m) = {} THEN s.bundles[k]
  ELSE StoredBundle(s, k, m, Answer(s, src, k, m))

(* What the call leaves behind; the overlay has been fetched in any case.    *)
AfterGet(s, src, k, m) ==
  IF s.compiled = None \/ IsCached(s, k, m) THEN s
  ELSE [s EXCEPT
          !.overlays[k.ea] = IF s.provider = "none" THEN @ ELSE GetOverlay(s, src, k.ea),
          !.bundles[k] = BundleAfter(s, src, k, m)]

-------------------------------------------------------------------------------
(* Freshness of the caches, the ground of the invariants of ScopeLifecycle *)

(* The overlay kept for f is what the provider would answer. *)
OverlayFresh(s, src, f) ==
  s.overlays[f] # Unset => s.overlays[f] = CallProvider(s, src, f)

(* The rules kept for k are those a recomputation would give. *)
BundleFresh(s, src, k) ==
  s.compiled # None =>
    \A m \in Maturities : IsCached(s, k, m) =>
      s.bundles[k].by[m] =
        ActiveRules(s.compiled, k.pipeline, m, k.ea,
                    CallProvider(s, src, k.ea), EffectiveInference(s, k.ea))

(* No bundle is from the future. *)
Dated(s) == \A k \in Scopes : s.bundles[k] # None => s.bundles[k].gen <= s.gen

(* The hint provider is in the chain only once it exists, over the manager's. *)
Wrapped(s) ==
  /\ ~s.hintOn => \A f \in Funcs : s.hintInf[f] = None /\ s.hintSupp[f] = {}
  /\ s.provider = "hint" => s.hintOn /\ s.delegate = "manager"
===============================================================================
