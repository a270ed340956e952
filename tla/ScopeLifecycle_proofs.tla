------------------------- MODULE ScopeLifecycle_proofs -------------------------
(***************************************************************************)
(* Proofs about ScopeLifecycle, for every set of functions, rules, tags    *)
(* and projects, every choice of overrides, inferences and hints, and      *)
(* whether or not writes to the storage raise: types, the caches' order,   *)
(* what hints may touch and what the generation tells.                     *)
(***************************************************************************)
EXTENDS ScopeLifecycle, TLAPS

SourceTypes == [Funcs -> Overlays \cup {None}]

-------------------------------------------------------------------------------
(* The methods of the service keep its type. *)

(* A new service is well typed (RuleScopeService.__init__). *)
LEMMA EmptyCachesTyped ==
  /\ NoBundles \in [Scopes -> Bundles \cup {None}]
  /\ NoOverlays \in [Funcs -> Overlays \cup {None, Unset}]
  BY DEF NoBundles, NoOverlays

LEMMA NewServiceTyped == NewService \in Services
  BY Zenon DEF NewService, Services, NoBundles, NoOverlays

(* Replacing the fields the invalidations and the compilation replace. *)
LEMMA CachesReplaced ==
  ASSUME NEW s \in Services, NEW g \in Nat, NEW c \in Tables \cup {None},
         NEW B \in [Scopes -> Bundles \cup {None}],
         NEW O \in [Funcs -> Overlays \cup {None, Unset}]
  PROVE  [s EXCEPT !.gen = g, !.compiled = c, !.bundles = B, !.overlays = O] \in Services
  BY DEF Services

(* The typed setters and the two invalidations. *)
LEMMA InvalidateAllTyped ==
  ASSUME NEW s \in Services
  PROVE  InvalidateAll(s) \in Services
<1>1. s.gen + 1 \in Nat
  BY DEF Services
<1>2. QED
  BY <1>1, EmptyCachesTyped, CachesReplaced DEF InvalidateAll

LEMMA InvalidateFunctionsTyped ==
  ASSUME NEW s \in Services, NEW eas
  PROVE  InvalidateFunctions(s, eas) \in Services
<1> DEFINE B == [k \in Scopes |-> IF k.ea \in eas THEN None ELSE s.bundles[k]]
           O == [f \in Funcs |-> IF f \in eas THEN Unset ELSE s.overlays[f]]
<1>1. s.gen + 1 \in Nat
  BY DEF Services
<1>2. B \in [Scopes -> Bundles \cup {None}]
  BY DEF Services
<1>3. O \in [Funcs -> Overlays \cup {None, Unset}]
  BY DEF Services
<1>4. [s EXCEPT !.gen = s.gen + 1, !.bundles = B, !.overlays = O] \in Services
  <2> HIDE DEF B, O
  <2> DEFINE g == s.gen + 1
  <2>1. g \in Nat
    BY <1>1
  <2> HIDE DEF g
  <2>2. [s EXCEPT !.gen = g, !.bundles = B, !.overlays = O] \in Services
    BY <1>2, <1>3, <2>1 DEF Services
  <2>3. QED
    BY <2>2 DEF g
<1>5. QED
  BY <1>4 DEF InvalidateFunctions

LEMMA InvalidateTyped ==
  ASSUME NEW s \in Services, NEW reason, NEW eas
  PROVE  Invalidate(s, reason, eas) \in Services
  BY InvalidateAllTyped, InvalidateFunctionsTyped DEF Invalidate

LEMMA SettersTyped ==
  ASSUME NEW s \in Services
  PROVE  /\ SetOverlayProvider(s, "manager") \in Services
         /\ \A i \in Inferences \cup {None} : SetActiveInference(s, i) \in Services
         /\ \A t \in Tables : CompileBaseRules(s, t) \in Services
  BY DEF Services, SetOverlayProvider, SetActiveInference, CompileBaseRules,
         NoBundles, NoOverlays

LEMMA WrapProviderTyped ==
  ASSUME NEW s \in Services
  PROVE  WrapProvider(s) \in Services
  BY DEF Services, WrapProvider, NoOverlays

LEMMA ClearFuncTyped ==
  ASSUME NEW s \in Services, NEW ea \in Funcs
  PROVE  ClearFunc(s, ea) \in Services
  BY DEF Services, ClearFunc

LEMMA ScopedInferenceTyped ==
  ASSUME NEW s \in Services, NEW h \in HintSet
  PROVE  ScopedInference(s, h) \in Inferences
  BY DEF Services, ScopedInference, HintSet, Inferences

LEMMA ActiveRulesTyped ==
  ASSUME NEW t, NEW p, NEW m, NEW ea, NEW o, NEW i
  PROVE  ActiveRules(t, p, m, ea, o, i) \in SUBSET Rules
  BY DEF ActiveRules, Candidates

LEMMA ClearHintStateTyped ==
  ASSUME NEW s \in Services, NEW ea \in Funcs
  PROVE  ClearHintState(s, ea) \in Services
  BY ClearFuncTyped, InvalidateTyped DEF ClearHintState

LEMMA HintedTyped ==
  ASSUME NEW s \in Services, NEW ea \in Funcs,
         NEW i \in Inferences \cup {None}, NEW supp \in SUBSET Rules
  PROVE  Hinted(s, ea, i, supp) \in Services
<1> DEFINE w == IF i # None \/ supp # {} THEN WrapProvider(ClearFunc(s, ea))
                ELSE ClearFunc(s, ea)
<1>1. w \in Services
  BY ClearFuncTyped, WrapProviderTyped
<1>2. [w EXCEPT !.hintInf[ea] = i, !.hintSupp[ea] = supp] \in Services
  <2> HIDE DEF w
  <2> QED BY <1>1 DEF Services
<1>3. QED
  BY <1>2 DEF Hinted

LEMMA HintInferenceTyped ==
  ASSUME NEW s \in Services, NEW h \in HintSet
  PROVE  HintInference(s, h) \in Inferences \cup {None}
  BY ScopedInferenceTyped DEF HintInference

LEMMA ApplyHintsTyped ==
  ASSUME NEW s \in Services, NEW h \in HintSet
  PROVE  ApplyHints(s, h) \in Services
<1>1. h.ea \in Funcs /\ h.suppress \in SUBSET Rules
  BY DEF HintSet
<1>2. Hinted(s, h.ea, HintInference(s, h), h.suppress) \in Services
  BY <1>1, HintedTyped, HintInferenceTyped
<1>3. QED
  BY <1>2, InvalidateTyped DEF ApplyHints

(* What the provider chain and the overlay cache answer is an overlay. *)
LEMMA CallProviderTyped ==
  ASSUME NEW s \in Services, NEW src \in SourceTypes, NEW ea \in Funcs
  PROVE  CallProvider(s, src, ea) \in Overlays \cup {None}
<1>1. src[ea] \in Overlays \cup {None} /\ s.hintSupp[ea] \in SUBSET Rules
  BY DEF SourceTypes, Services
<1>2. DelegateOverlay(s, src, ea) \in Overlays \cup {None}
  BY <1>1 DEF DelegateOverlay
<1>3. HintOverlay(s, src, ea) \in Overlays \cup {None}
  BY <1>1, <1>2 DEF HintOverlay, Overlays
<1>4. QED
  BY <1>1, <1>3 DEF CallProvider

LEMMA GetOverlayTyped ==
  ASSUME NEW s \in Services, NEW src \in SourceTypes, NEW ea \in Funcs
  PROVE  GetOverlay(s, src, ea) \in Overlays \cup {None}
<1>1. s.overlays[ea] \in Overlays \cup {None, Unset}
  BY DEF Services
<1>2. QED
  BY <1>1, CallProviderTyped DEF GetOverlay

LEMMA AnswerTyped ==
  ASSUME NEW s \in Services, NEW src, NEW k \in Scopes, NEW m \in Maturities
  PROVE  Answer(s, src, k, m) \in SUBSET Rules
<1>1. CASE IsCached(s, k, m)
  <2>1. s.bundles[k] \in Bundles
    BY <1>1 DEF IsCached, Live, Services
  <2>2. s.bundles[k].by[m] \in SUBSET Rules
    BY <1>1, <2>1 DEF IsCached, Bundles, ByMaturity
  <2>3. QED
    BY <1>1, <2>2 DEF Answer
<1>2. CASE ~IsCached(s, k, m)
  BY <1>2, ActiveRulesTyped DEF Answer
<1>3. QED
  BY <1>1, <1>2

LEMMA StoredBundleTyped ==
  ASSUME NEW s \in Services, NEW k \in Scopes, NEW m \in Maturities,
         NEW active \in SUBSET Rules
  PROVE  StoredBundle(s, k, m, active) \in Bundles
<1> DEFINE by  == IF Live(s, k) THEN s.bundles[k].by ELSE [x \in {} |-> {}]
           new == [x \in DOMAIN by \cup {m} |-> IF x = m THEN active ELSE by[x]]
<1>1. s.gen \in Nat
  BY DEF Services
<1>2. by \in ByMaturity
  <2>1. CASE Live(s, k)
    <3>1. s.bundles[k] \in Bundles
      BY <2>1 DEF Live, Services
    <3>2. QED
      BY <2>1, <3>1 DEF Bundles
  <2>2. CASE ~Live(s, k)
    <3>1. [x \in {} |-> {}] \in [{} -> SUBSET Rules] /\ {} \in SUBSET Maturities
      OBVIOUS
    <3>2. [x \in {} |-> {}] \in ByMaturity
      BY <3>1, Zenon DEF ByMaturity
    <3>3. QED
      BY <2>2, <3>2
  <2>3. QED
    BY <2>1, <2>2
<1>3. new \in ByMaturity
  <2> HIDE DEF by
  <2>1. PICK D \in SUBSET Maturities : by \in [D -> SUBSET Rules]
    BY <1>2 DEF ByMaturity
  <2>2. new \in [D \cup {m} -> SUBSET Rules]
    BY <2>1
  <2>3. QED
    BY <2>2 DEF ByMaturity
<1>4. QED
  BY <1>1, <1>3 DEF StoredBundle, Bundles

LEMMA AfterGetTyped ==
  ASSUME NEW s \in Services, NEW src \in SourceTypes, NEW k \in Scopes,
         NEW m \in Maturities
  PROVE  AfterGet(s, src, k, m) \in Services
<1> DEFINE o == IF s.provider = "none" THEN s.overlays[k.ea] ELSE GetOverlay(s, src, k.ea)
           b == BundleAfter(s, src, k, m)
<1>1. k.ea \in Funcs
  BY DEF Scopes
<1>2. o \in Overlays \cup {None, Unset}
  BY <1>1, GetOverlayTyped DEF Services
<1>3. b \in Bundles \cup {None}
  BY StoredBundleTyped, AnswerTyped DEF Services, BundleAfter
<1>4. [s EXCEPT !.overlays[k.ea] = o, !.bundles[k] = b] \in Services
  <2> HIDE DEF o, b
  <2> QED BY <1>1, <1>2, <1>3 DEF Services
<1>5. AfterGet(s, src, k, m) \in {s, [s EXCEPT !.overlays[k.ea] = o, !.bundles[k] = b]}
  BY DEF AfterGet
<1>6. QED
  BY <1>4, <1>5

-------------------------------------------------------------------------------
(* Type correctness of the lifecycle *)

LEMMA SourceTyped == TypeOK => Source \in SourceTypes
  BY DEF TypeOK, Source, StoredOverlay, SourceTypes

LEMMA ConfiguredByTyped ==
  ASSUME NEW p \in Projects, NEW c \in [Rules -> Selectors]
  PROVE  ConfiguredBy(p, c) \in [Rules -> Selectors]
<1>1. ASSUME NEW r \in Rules
      PROVE  Configure(c[r], ConfigOf[p][r]) \in Selectors
  <2>1. ConfigOf[p][r] \in Configs
    BY LifecycleAssumption
  <2>2. /\ ConfigOf[p][r].selector \in Selectors
        /\ c[r].maturities \in SUBSET Maturities
    BY <2>1 DEF Configs, Selectors
  <2>3. QED
    BY <2>2 DEF Configure, Selectors
<1>2. QED
  BY <1>1 DEF ConfiguredBy

LEMMA CompiledTableTyped ==
  ASSUME NEW l, NEW c \in [Rules -> Selectors]
  PROVE  CompiledTable(l, c) \in Tables
  BY DEF CompiledTable, Tables

LEMMA EmitTyped ==
  ASSUME NEW s \in Services, NEW reason, NEW eas
  PROVE  Emit(s, reason, eas) \in Services
  BY InvalidateTyped DEF Emit

LEMMA OpenStorageTyped ==
  ASSUME TypeOK, NEW s \in Services, NEW ok, NEW listening
  PROVE  OpenStorage(s, ok, listening) \in Services
<1>1. SetActiveInference(s, persisted) \in Services
  BY SettersTyped DEF TypeOK
<1>2. QED
  BY <1>1, InvalidateTyped DEF OpenStorage

LEMMA EnsuredTyped ==
  ASSUME TypeOK, NEW ok
  PROVE  Ensured(ok) \in Services
  BY OpenStorageTyped DEF Ensured, TypeOK

LEMMA InitTyped == Init => TypeOK
<1> SUFFICES ASSUME Init PROVE TypeOK
  OBVIOUS
<1>1. conf \in [Rules -> Selectors]
  BY ConfiguredByTyped, LifecycleAssumption DEF Init
<1>2. QED
  BY <1>1, NewServiceTyped DEF Init, TypeOK

LEMMA StartTyped == TypeOK /\ StartD810 => TypeOK'
<1> SUFFICES ASSUME TypeOK, StartD810 PROVE TypeOK'
  OBVIOUS
<1>1. PICK ok \in BOOLEAN :
        LET listening == ~svc.attached
            attached  == [svc EXCEPT !.attached = TRUE]
            opened    == OpenStorage(attached, ok, listening)
            provided  == SetOverlayProvider(opened, "manager")
            inferred  == SetActiveInference(provided, LoadedInference(ok))
        IN /\ svc' = CompileBaseRules(inferred, CompiledTable(Activated[project], conf))
           /\ subscribed' = listening
           /\ handle' = ok
           /\ mgrInference' = LoadedInference(ok)
  BY DEF StartD810
<1>2. [svc EXCEPT !.attached = TRUE] \in Services
  BY DEF TypeOK, Services
<1>3. OpenStorage([svc EXCEPT !.attached = TRUE], ok, ~svc.attached) \in Services
  BY <1>2, OpenStorageTyped
<1>4. LoadedInference(ok) \in Inferences \cup {None}
  BY DEF LoadedInference, TypeOK
<1>5. CompiledTable(Activated[project], conf) \in Tables
  BY CompiledTableTyped DEF TypeOK
<1>6. svc' \in Services
  BY <1>1, <1>3, <1>4, <1>5, SettersTyped
<1>7. subscribed' \in BOOLEAN
  BY <1>1, <1>2 DEF TypeOK, Services
<1>8. lists' \in SUBSET Rules
  BY LifecycleAssumption DEF StartD810, TypeOK
<1>9. QED
  BY <1>1, <1>4, <1>6, <1>7, <1>8 DEF StartD810, TypeOK, sources

LEMMA LoadProjectTyped ==
  ASSUME TypeOK, NEW p \in Projects, LoadProject(p)
  PROVE  TypeOK'
<1>1. conf' \in [Rules -> Selectors]
  BY ConfiguredByTyped DEF LoadProject, TypeOK
<1>2. Emit(svc, "PROJECT_RULES_RELOADED", {}) \in Services
  BY EmitTyped DEF TypeOK
<1>3. CompiledTable(lists, conf') \in Tables
  BY <1>1, CompiledTableTyped
<1>4. svc' \in Services
  BY <1>2, <1>3, SettersTyped DEF LoadProject
<1>5. QED
  BY <1>1, <1>4 DEF LoadProject, TypeOK, sources

LEMMA WriteOverrideTyped ==
  ASSUME TypeOK, NEW ea \in Funcs, NEW reason, NEW row \in Overlays,
         WriteOverride(ea, reason, row)
  PROVE  TypeOK'
<1>1. PICK ok \in BOOLEAN, raises \in {FALSE, WriteFaults} :
        /\ EnsureStorage(ok)
        /\ overrides' = IF ok THEN [overrides EXCEPT ![ea] = row] ELSE overrides
        /\ svc' = IF ok /\ ~raises THEN Emit(Ensured(ok), reason, {ea}) ELSE Ensured(ok)
        /\ unannounced' = IF ~ok THEN EnsuredHistory
                          ELSE IF raises \/ ~subscribed THEN EnsuredHistory \cup {ea}
                          ELSE EnsuredHistory \ {ea}
  BY DEF WriteOverride
<1>2. svc' \in Services
  BY <1>1, EnsuredTyped, EmitTyped
<1>3. EnsuredHistory \in SUBSET Funcs
  BY DEF EnsuredHistory, Announce, TypeOK
<1>4. overrides' \in [Funcs -> Overlays \cup {None}]
  BY <1>1 DEF TypeOK
<1>5. handle' \in BOOLEAN /\ mgrInference' \in Inferences \cup {None}
  BY <1>1 DEF EnsureStorage, LoadedInference, TypeOK
<1>6. QED
  BY <1>1, <1>2, <1>3, <1>4, <1>5 DEF WriteOverride, TypeOK, rules

LEMMA SetInferenceTyped ==
  ASSUME TypeOK, NEW i \in Inferences \cup {None}, SetActiveRuleInference(i)
  PROVE  TypeOK'
<1>1. \A ok \in BOOLEAN : SetActiveInference(Ensured(ok), i) \in Services
  BY EnsuredTyped, SettersTyped
<1>2. svc' \in Services
  BY <1>1, EmitTyped DEF SetActiveRuleInference
<1>3. QED
  BY <1>2 DEF SetActiveRuleInference, TypeOK, rules

(* The rows the two dialogs write are overlays. *)
LEMMA RowsTyped ==
  ASSUME TypeOK, NEW ea \in Funcs
  PROVE  /\ \A o \in OverrideChoices :
              [enabled |-> o[1], disabled |-> o[2], tags |-> TagsOf(overrides[ea])]
                \in Overlays
         /\ \A tags \in SUBSET Tags :
              (IF overrides[ea] = None
               THEN [enabled |-> {}, disabled |-> {}, tags |-> tags]
               ELSE [overrides[ea] EXCEPT !.tags = tags]) \in Overlays
<1>1. overrides[ea] \in Overlays \cup {None}
  BY DEF TypeOK
<1>2. TagsOf(overrides[ea]) \in SUBSET Tags
  BY <1>1 DEF TagsOf, Overlays
<1>3. QED
  BY <1>1, <1>2, LifecycleAssumption DEF Overlays

LEMMA NextTyped == TypeOK /\ [Next]_vars => TypeOK'
<1> SUFFICES ASSUME TypeOK, [Next]_vars PROVE TypeOK'
  OBVIOUS
<1>1. CASE StartD810
  BY <1>1, StartTyped
<1>2. CASE StopD810
  BY <1>2 DEF StopD810, TypeOK, sources, rules
<1>3. ASSUME NEW p \in Projects, ReloadPlugin(p) PROVE TypeOK'
  <2>1. conf' \in [Rules -> Selectors]
    BY <1>3, ConfiguredByTyped, LifecycleAssumption DEF ReloadPlugin
  <2>2. QED
    BY <1>3, <2>1, NewServiceTyped DEF ReloadPlugin, TypeOK, sources
<1>4. ASSUME NEW p \in Projects, LoadProject(p) PROVE TypeOK'
  BY <1>4, LoadProjectTyped
<1>5. ASSUME NEW ea \in Funcs, NEW o \in OverrideChoices,
             SetFunctionRuleOverride(ea, o[1], o[2])
      PROVE  TypeOK'
  BY <1>5, RowsTyped, WriteOverrideTyped DEF SetFunctionRuleOverride
<1>6. ASSUME NEW ea \in Funcs, NEW tags \in SUBSET Tags, SetFunctionTags(ea, tags)
      PROVE  TypeOK'
  BY <1>6, RowsTyped, WriteOverrideTyped DEF SetFunctionTags
<1>7. ASSUME NEW i \in InferenceChoices \cup {None}, SetActiveRuleInference(i)
      PROVE  TypeOK'
  BY <1>7, SetInferenceTyped, LifecycleAssumption
<1>8. ASSUME NEW h \in HintChoices, HookApplyHints(h) PROVE TypeOK'
  <2>1. h \in HintSet
    BY LifecycleAssumption
  <2>2. QED
    BY <1>8, <2>1, ApplyHintsTyped DEF HookApplyHints, TypeOK, sources, rules
<1>9. ASSUME NEW ea \in Funcs, HookClearHintState(ea) PROVE TypeOK'
  BY <1>9, ClearHintStateTyped DEF HookClearHintState, TypeOK, sources, rules
<1>10. ASSUME NEW ea \in Funcs, NEW pipeline \in Pipelines, NEW m \in Maturities,
              HookGetActiveRules(ea, pipeline, m)
       PROVE  TypeOK'
  <2>1. ScopeKey(ea, pipeline) \in Scopes
    BY DEF ScopeKey, Scopes, TypeOK
  <2>2. svc' \in Services
    BY <1>10, <2>1, SourceTyped, AfterGetTyped DEF HookGetActiveRules, TypeOK
  <2>3. QED
    BY <1>10, <2>2 DEF HookGetActiveRules, TypeOK, sources, rules
<1>11. CASE UNCHANGED vars
  BY <1>11 DEF vars, sources, rules, TypeOK
<1>12. QED
  BY <1>1, <1>2, <1>3, <1>4, <1>5, <1>6, <1>7, <1>8, <1>9, <1>10, <1>11 DEF Next

(* Every variable of the manager and the service keeps its type, so that no   *)
(* action stores a value a later get_active_rules could not read.             *)
THEOREM TypeCorrect == Spec => []TypeOK
<1>1. QED
  BY InitTyped, NextTyped, PTL DEF Spec

-------------------------------------------------------------------------------
(* What the methods do to the caches.  KeepsHints: the fields the provider    *)
(* chain and the hints consist of are untouched.                              *)

KeepsHints(s, t) ==
  /\ t.provider = s.provider /\ t.delegate = s.delegate /\ t.hintOn = s.hintOn
  /\ t.hintInf = s.hintInf /\ t.hintSupp = s.hintSupp

NothingLive(s) == \A k \in Scopes : ~Live(s, k)

(* Field by field, what each kind of invalidation does. *)
LEMMA InvalidateAllFields ==
  ASSUME NEW s \in Services
  PROVE  LET t == InvalidateAll(s)
         IN /\ t.gen = s.gen + 1 /\ t.bundles = NoBundles /\ t.overlays = NoOverlays
            /\ t.compiled = None /\ t.inference = s.inference /\ KeepsHints(s, t)
<1> HIDE DEF NoBundles, NoOverlays
<1>1. QED
  BY DEF InvalidateAll, KeepsHints, Services

LEMMA InvalidateFunctionsFields ==
  ASSUME NEW s \in Services, NEW eas
  PROVE  LET t == InvalidateFunctions(s, eas)
         IN /\ t.gen = s.gen + 1
            /\ \A k \in Scopes : t.bundles[k] = IF k.ea \in eas THEN None ELSE s.bundles[k]
            /\ \A f \in Funcs : t.overlays[f] = IF f \in eas THEN Unset ELSE s.overlays[f]
            /\ t.compiled = s.compiled /\ t.inference = s.inference /\ KeepsHints(s, t)
<1> DEFINE g == s.gen + 1
           B == [k \in Scopes |-> IF k.ea \in eas THEN None ELSE s.bundles[k]]
           O == [f \in Funcs |-> IF f \in eas THEN Unset ELSE s.overlays[f]]
           t == [s EXCEPT !.gen = g, !.bundles = B, !.overlays = O]
<1>1. InvalidateFunctions(s, eas) = t
  BY DEF InvalidateFunctions
<1>2. /\ t.gen = g /\ t.bundles = B /\ t.overlays = O
      /\ t.compiled = s.compiled /\ t.inference = s.inference /\ KeepsHints(s, t)
  <2> HIDE DEF g, B, O
  <2> QED BY DEF Services, KeepsHints
<1>3. /\ \A k \in Scopes : B[k] = IF k.ea \in eas THEN None ELSE s.bundles[k]
      /\ \A f \in Funcs : O[f] = IF f \in eas THEN Unset ELSE s.overlays[f]
  OBVIOUS
<1>4. QED
  <2> HIDE DEF t, B, O
  <2> QED BY <1>1, <1>2, <1>3

(* An invalidation of either kind leaves no live bundle, because the          *)
(* generation moves past every date.                                          *)
LEMMA InvalidateEffect ==
  ASSUME NEW s \in Services, Dated(s), NEW reason, NEW eas
  PROVE  LET t == Invalidate(s, reason, eas)
         IN /\ t.gen = s.gen + 1
            /\ Dated(t)
            /\ NothingLive(t)
            /\ KeepsHints(s, t)
            /\ t.inference = s.inference
            /\ t.compiled \in {None, s.compiled}
            /\ \A f \in Funcs : t.overlays[f] \in {Unset, s.overlays[f]}
            /\ \A f \in eas \cap Funcs : t.overlays[f] = Unset
<1>1. s.gen \in Nat /\ \A k \in Scopes : s.bundles[k] # None => s.bundles[k].gen \in Nat
  BY DEF Services, Bundles
<1>2. \A k \in Scopes : s.bundles[k] # None => s.bundles[k].gen <= s.gen
  BY DEF Dated
<1>3. ASSUME NEW t, t = InvalidateAll(s) \/ t = InvalidateFunctions(s, eas)
      PROVE  /\ t.gen = s.gen + 1
             /\ \A k \in Scopes : t.bundles[k] \in {None, s.bundles[k]}
             /\ KeepsHints(s, t)
             /\ t.inference = s.inference
             /\ t.compiled \in {None, s.compiled}
             /\ \A f \in Funcs : t.overlays[f] \in {Unset, s.overlays[f]}
             /\ \A f \in eas \cap Funcs : t.overlays[f] = Unset
  <2>1. CASE t = InvalidateAll(s)
    BY <2>1, InvalidateAllFields DEF NoBundles, NoOverlays
  <2>2. CASE t = InvalidateFunctions(s, eas)
    BY <2>2, InvalidateFunctionsFields
  <2>3. QED
    BY <1>3, <2>1, <2>2
<1>4. ASSUME NEW t, t.gen = s.gen + 1,
             \A k \in Scopes : t.bundles[k] \in {None, s.bundles[k]}
      PROVE  Dated(t) /\ NothingLive(t)
  BY <1>1, <1>2, <1>4 DEF Dated, NothingLive, Live
<1>5. QED
  BY <1>3, <1>4 DEF Invalidate

(* A full invalidation empties both caches. *)
LEMMA InvalidateAllEffect ==
  ASSUME NEW s \in Services
  PROVE  LET t == Invalidate(s, "PROJECT_RULES_RELOADED", {})
         IN t.compiled = None /\ \A f \in Funcs : t.overlays[f] = Unset
  BY DEF Invalidate, InvalidateAll, PartialReasons, NoOverlays, Services

(* With no live bundle every bundle is fresh. *)
LEMMA NothingLiveFresh ==
  ASSUME NEW s, NEW src, NothingLive(s), NEW k \in Scopes
  PROVE  BundleFresh(s, src, k)
  BY DEF NothingLive, BundleFresh, IsCached

(* The overlay a provider chain answers depends on its shape, the function's  *)
(* suppressions and its stored overlay, nothing else.                         *)
LEMMA SameProvider ==
  ASSUME NEW s, NEW t, NEW src1, NEW src2, NEW f,
         t.provider = s.provider, t.delegate = s.delegate,
         t.hintSupp[f] = s.hintSupp[f], src1[f] = src2[f]
  PROVE  CallProvider(t, src2, f) = CallProvider(s, src1, f)
  BY DEF CallProvider, HintOverlay, DelegateOverlay

LEMMA SettersEffect ==
  ASSUME NEW s \in Services, NEW i, NEW c
  PROVE  /\ SetActiveInference(s, i).inference = i
         /\ SetActiveInference(s, i).gen = s.gen
         /\ SetActiveInference(s, i).compiled = s.compiled
         /\ SetActiveInference(s, i).bundles = s.bundles
         /\ SetActiveInference(s, i).overlays = s.overlays
         /\ KeepsHints(s, SetActiveInference(s, i))
         /\ SetOverlayProvider(s, "manager").gen = s.gen
         /\ SetOverlayProvider(s, "manager").provider = "manager"
         /\ SetOverlayProvider(s, "manager").overlays = NoOverlays
         /\ SetOverlayProvider(s, "manager").hintOn = s.hintOn
         /\ SetOverlayProvider(s, "manager").hintInf = s.hintInf
         /\ SetOverlayProvider(s, "manager").hintSupp = s.hintSupp
         /\ SetOverlayProvider(s, "manager").delegate = s.delegate
         /\ CompileBaseRules(s, c).gen = s.gen
         /\ CompileBaseRules(s, c).compiled = c
         /\ CompileBaseRules(s, c).bundles = NoBundles
         /\ CompileBaseRules(s, c).overlays = s.overlays
         /\ KeepsHints(s, CompileBaseRules(s, c))
  BY DEF SetActiveInference, SetOverlayProvider, CompileBaseRules, Services, KeepsHints

LEMMA NoBundlesEffect ==
  ASSUME NEW s, s.bundles = NoBundles
  PROVE  Dated(s) /\ NothingLive(s)
  BY DEF Dated, NothingLive, Live, NoBundles

(* Opening the storage: the hints stay; announced, both caches are empty.     *)
LEMMA OpenStorageEffect ==
  ASSUME TypeOK, NEW s \in Services, Dated(s), NEW ok \in BOOLEAN,
         NEW listening \in BOOLEAN
  PROVE  LET t == OpenStorage(s, ok, listening)
         IN /\ KeepsHints(s, t)
            /\ Dated(t)
            /\ listening => /\ NothingLive(t)
                            /\ t.compiled = None
                            /\ \A f \in Funcs : t.overlays[f] = Unset
            /\ ~listening => /\ t.compiled = s.compiled
<1> DEFINE loaded  == SetActiveInference(s, persisted)
           told    == Invalidate(loaded, "INFERENCE_APPLIED", {})
           Tell(t) == Invalidate(t, "IDB_OVERLAY_RELOADED", {})
<1>1. /\ loaded \in Services /\ KeepsHints(s, loaded) /\ Dated(loaded)
      /\ loaded.compiled = s.compiled
  BY SettersTyped, SettersEffect DEF TypeOK, Dated
<1>2. told \in Services /\ KeepsHints(s, told) /\ Dated(told)
  BY <1>1, InvalidateTyped, InvalidateEffect DEF KeepsHints
<1>3. ASSUME NEW t \in Services, Dated(t), KeepsHints(s, t)
      PROVE  /\ KeepsHints(s, Tell(t)) /\ Dated(Tell(t)) /\ NothingLive(Tell(t))
             /\ Tell(t).compiled = None
             /\ \A f \in Funcs : Tell(t).overlays[f] = Unset
  <2>1. KeepsHints(t, Tell(t)) /\ Dated(Tell(t)) /\ NothingLive(Tell(t))
    BY <1>3, InvalidateEffect
  <2>2. Tell(t) = Invalidate(t, "PROJECT_RULES_RELOADED", {})
    BY DEF Invalidate, PartialReasons
  <2>3. QED
    BY <1>3, <2>1, <2>2, InvalidateAllEffect DEF KeepsHints
<1>4. KeepsHints(s, s)
  BY DEF KeepsHints
<1>5. CASE listening
  <2>1. OpenStorage(s, ok, listening) \in {Tell(s), Tell(loaded), Tell(told)}
    BY <1>5 DEF OpenStorage
  <2>2. QED
    BY <1>1, <1>2, <1>3, <1>4, <1>5, <2>1
<1>6. CASE ~listening
  <2>1. OpenStorage(s, ok, listening) \in {s, loaded}
    BY <1>6 DEF OpenStorage
  <2>2. QED
    BY <1>1, <1>4, <1>6, <2>1
<1>7. QED
  BY <1>5, <1>6

-------------------------------------------------------------------------------
(* The induction.  Fresh is the last conjunct of Consistent, for any service  *)
(* and any source of the overlays; un is the set of functions left out.       *)

Fresh(s, src, un) ==
  /\ \A f \in Funcs \ un : OverlayFresh(s, src, f)
  /\ \A k \in Scopes : k.ea \notin un => BundleFresh(s, src, k)

LEMMA FreshWhenEmpty ==
  ASSUME NEW s, NEW src, NEW un, NothingLive(s), \A f \in Funcs : s.overlays[f] = Unset
  PROVE  Fresh(s, src, un)
  BY NothingLiveFresh DEF Fresh, OverlayFresh

LEMMA FreshOfNothing ==
  ASSUME NEW s, NEW src, NEW un, Funcs \subseteq un
  PROVE  Fresh(s, src, un)
  BY DEF Fresh, Scopes

(* When no bundle is live, the overlays that were kept are fresh as long as   *)
(* their functions were and nothing their provider reads changed.             *)
LEMMA FreshWhenKept ==
  ASSUME NEW s, NEW t, NEW src1, NEW src2, NEW un1, NEW un2,
         Fresh(s, src1, un1), NothingLive(t),
         \A f \in Funcs \ un2 :
           \/ t.overlays[f] = Unset
           \/ /\ f \notin un1
              /\ t.overlays[f] = s.overlays[f]
              /\ t.provider = s.provider /\ t.delegate = s.delegate
              /\ t.hintSupp[f] = s.hintSupp[f]
              /\ src2[f] = src1[f]
  PROVE  Fresh(t, src2, un2)
<1>1. ASSUME NEW f \in Funcs \ un2, t.overlays[f] # Unset
      PROVE  t.overlays[f] = CallProvider(t, src2, f)
  <2>1. /\ f \notin un1 /\ t.overlays[f] = s.overlays[f]
        /\ t.provider = s.provider /\ t.delegate = s.delegate
        /\ t.hintSupp[f] = s.hintSupp[f] /\ src2[f] = src1[f]
    BY <1>1
  <2>2. s.overlays[f] = CallProvider(s, src1, f)
    BY <1>1, <2>1 DEF Fresh, OverlayFresh
  <2>3. QED
    BY <2>1, <2>2, SameProvider
<1>2. QED
  BY <1>1, NothingLiveFresh DEF Fresh, OverlayFresh

(* Consistent, but for the types. *)
Sound ==
  /\ Dated(svc)
  /\ Wrapped(svc)
  /\ CompiledIsCurrent
  /\ started => svc.provider # "none" /\ Fresh(svc, Source, unannounced)

LEMMA ConsistentIsSound == Consistent <=> TypeOK /\ Sound
  BY DEF Consistent, Sound, Fresh

LEMMA WrappedKept ==
  ASSUME NEW s, NEW t, Wrapped(s), KeepsHints(s, t)
  PROVE  Wrapped(t)
  BY DEF Wrapped, KeepsHints

LEMMA InitSound == Init => Sound
<1>1. Dated(NewService) /\ Wrapped(NewService)
  BY DEF Dated, Wrapped, NewService, NoBundles
<1>2. QED
  BY <1>1 DEF Init, Sound, CompiledIsCurrent

LEMMA ReloadSound ==
  ASSUME NEW p \in Projects, ReloadPlugin(p)
  PROVE  Sound'
<1>1. Dated(NewService) /\ Wrapped(NewService)
  BY DEF Dated, Wrapped, NewService, NoBundles
<1>2. QED
  BY <1>1 DEF ReloadPlugin, Sound, CompiledIsCurrent

LEMMA StopSound == Sound /\ StopD810 => Sound'
  BY DEF StopD810, Sound, CompiledIsCurrent, Dated, Wrapped

(* start replaces the provider and compiles, which empties both caches; the   *)
(* hint state of the service outlives the restart.                            *)
LEMMA StartSound ==
  ASSUME TypeOK, Sound, StartD810
  PROVE  Sound'
<1> DEFINE attached     == [svc EXCEPT !.attached = TRUE]
           opened(ok)   == OpenStorage(attached, ok, ~svc.attached)
           provided(ok) == SetOverlayProvider(opened(ok), "manager")
           inferred(ok) == SetActiveInference(provided(ok), LoadedInference(ok))
           table        == CompiledTable(Activated[project], conf)
<1>1. PICK ok \in BOOLEAN : svc' = CompileBaseRules(inferred(ok), table)
  BY DEF StartD810
<1>2. attached \in Services /\ KeepsHints(svc, attached) /\ Dated(attached)
  BY DEF TypeOK, Services, KeepsHints, Sound, Dated
<1>3. opened(ok) \in Services /\ KeepsHints(svc, opened(ok))
  <2>1. svc.attached \in BOOLEAN
    BY DEF TypeOK, Services
  <2>2. opened(ok) \in Services /\ KeepsHints(attached, opened(ok))
    <3> HIDE DEF attached
    <3> QED BY <1>2, <2>1, OpenStorageTyped, OpenStorageEffect
  <2>3. QED
    BY <1>2, <2>2 DEF KeepsHints
<1>4. /\ provided(ok) \in Services
      /\ provided(ok).provider = "manager" /\ provided(ok).overlays = NoOverlays
      /\ provided(ok).hintOn = svc.hintOn /\ provided(ok).hintInf = svc.hintInf
      /\ provided(ok).hintSupp = svc.hintSupp
  <2> HIDE DEF opened
  <2> QED BY <1>3, SettersTyped, SettersEffect DEF KeepsHints
<1>5. LoadedInference(ok) \in Inferences \cup {None}
  BY DEF LoadedInference, TypeOK
<1>6. /\ inferred(ok) \in Services /\ inferred(ok).overlays = NoOverlays
      /\ KeepsHints(provided(ok), inferred(ok))
  <2> HIDE DEF provided
  <2> QED BY <1>4, <1>5, SettersTyped, SettersEffect
<1>7. /\ svc'.bundles = NoBundles /\ svc'.overlays = NoOverlays
      /\ svc'.compiled = table /\ KeepsHints(inferred(ok), svc')
  <2> HIDE DEF inferred
  <2> QED BY <1>1, <1>6, SettersEffect
<1>8. /\ svc'.provider = "manager" /\ svc'.hintOn = svc.hintOn
      /\ svc'.hintInf = svc.hintInf /\ svc'.hintSupp = svc.hintSupp
  <2> HIDE DEF inferred, provided
  <2> QED BY <1>4, <1>6, <1>7 DEF KeepsHints
<1>9. Wrapped(svc')
  BY <1>8 DEF Sound, Wrapped
<1>10. Dated(svc') /\ Fresh(svc', Source', unannounced')
  BY <1>7, NoBundlesEffect, FreshWhenEmpty DEF NoOverlays
<1>11. CompiledIsCurrent'
  BY <1>7 DEF StartD810, CompiledIsCurrent
<1>12. QED
  BY <1>8, <1>9, <1>10, <1>11 DEF Sound

(* Compiling empties the bundles; the overlays kept are those of an           *)
(* unsubscribed service, whose history is kept with them.                     *)
LEMMA LoadProjectSound ==
  ASSUME TypeOK, Sound, NEW p \in Projects, LoadProject(p)
  PROVE  Sound'
<1> DEFINE told  == Emit(svc, "PROJECT_RULES_RELOADED", {})
           table == CompiledTable(lists, conf')
<1>1. svc \in Services /\ Dated(svc) /\ Wrapped(svc)
  BY DEF TypeOK, Sound
<1>2. /\ told \in Services /\ Dated(told) /\ KeepsHints(svc, told)
      /\ subscribed => \A f \in Funcs : told.overlays[f] = Unset
      /\ ~subscribed => told = svc
  <2>1. KeepsHints(svc, svc)
    BY DEF KeepsHints
  <2>2. QED
    BY <1>1, <2>1, EmitTyped, InvalidateEffect, InvalidateAllEffect DEF Emit
<1>3. CASE ~started
  <2>1. svc' = told /\ ~started'
    BY <1>3 DEF LoadProject
  <2>2. QED
    BY <1>1, <1>2, <2>1, WrappedKept DEF Sound, CompiledIsCurrent
<1>4. CASE started
  <2>1. svc' = CompileBaseRules(told, table)
    BY <1>4 DEF LoadProject
  <2>2. /\ svc'.bundles = NoBundles /\ svc'.overlays = told.overlays
        /\ svc'.compiled = table /\ KeepsHints(told, svc')
    <3> HIDE DEF told, table
    <3> QED BY <1>2, <2>1, SettersEffect
  <2>3. KeepsHints(svc, svc')
    <3> HIDE DEF told
    <3> QED BY <1>2, <2>2 DEF KeepsHints
  <2>4. Dated(svc') /\ NothingLive(svc')
    BY <2>2, NoBundlesEffect
  <2>5. CompiledIsCurrent'
    BY <2>2 DEF LoadProject, CompiledIsCurrent
  <2>6. Source' = Source
    BY DEF LoadProject, Source, StoredOverlay, sources
  <2>7. Fresh(svc', Source', unannounced')
    <3>1. CASE subscribed
      <4> HIDE DEF told
      <4> QED BY <1>2, <2>2, <2>4, <3>1, FreshWhenEmpty
    <3>2. CASE ~subscribed
      <4>1. unannounced' = unannounced /\ svc'.overlays = svc.overlays
        BY <1>2, <2>2, <3>2 DEF LoadProject
      <4>2. Fresh(svc, Source, unannounced)
        BY <1>4 DEF Sound
      <4>3. QED
        BY <2>3, <2>4, <2>6, <4>1, <4>2, FreshWhenKept DEF KeepsHints
    <3>3. QED
      BY <3>1, <3>2
  <2>8. QED
    BY <1>1, <1>4, <2>3, <2>4, <2>5, <2>7, WrappedKept DEF Sound, KeepsHints
<1>5. QED
  BY <1>3, <1>4

(* Opening a closed storage leaves a subscribed service with empty caches.    *)
LEMMA EnsuredEffect ==
  ASSUME TypeOK, Sound, ~handle, NEW ok \in BOOLEAN
  PROVE  /\ Ensured(ok) \in Services /\ Dated(Ensured(ok))
         /\ KeepsHints(svc, Ensured(ok))
         /\ Ensured(ok).compiled \in {None, svc.compiled}
         /\ subscribed => /\ NothingLive(Ensured(ok))
                          /\ \A f \in Funcs : Ensured(ok).overlays[f] = Unset
         /\ ~subscribed => EnsuredHistory = Funcs
<1>1. svc \in Services /\ subscribed \in BOOLEAN /\ Dated(svc)
  BY DEF TypeOK, Sound
<1>2. Ensured(ok) = OpenStorage(svc, ok, subscribed)
  BY DEF Ensured
<1>3. EnsuredHistory = IF subscribed THEN {} ELSE Funcs
  BY DEF EnsuredHistory, Announce, PartialReasons
<1>4. QED
  BY <1>1, <1>2, <1>3, OpenStorageEffect, OpenStorageTyped

(* What an invalidation does to a service that has empty caches already, or   *)
(* that gave out nothing but overlays of other functions.                     *)
LEMMA EmptyStaysEmpty ==
  ASSUME NEW s \in Services, Dated(s), NEW reason, NEW eas,
         \A f \in Funcs : s.overlays[f] = Unset
  PROVE  LET t == Invalidate(s, reason, eas)
         IN NothingLive(t) /\ \A f \in Funcs : t.overlays[f] = Unset
  BY InvalidateEffect

(* Either the write reaches the service and empties the caches of its         *)
(* function, or it enters the history.                                        *)
LEMMA WriteOverrideSound ==
  ASSUME TypeOK, Sound, NEW ea \in Funcs, NEW reason, NEW row,
         WriteOverride(ea, reason, row)
  PROVE  Sound'
<1>1. PICK ok \in BOOLEAN, raises \in {FALSE, WriteFaults} :
        /\ EnsureStorage(ok)
        /\ overrides' = IF ok THEN [overrides EXCEPT ![ea] = row] ELSE overrides
        /\ svc' = IF ok /\ ~raises THEN Emit(Ensured(ok), reason, {ea}) ELSE Ensured(ok)
        /\ unannounced' = IF ~ok THEN EnsuredHistory
                          ELSE IF raises \/ ~subscribed THEN EnsuredHistory \cup {ea}
                          ELSE EnsuredHistory \ {ea}
  BY DEF WriteOverride
<1>2. /\ started' = started /\ subscribed' = subscribed /\ lists' = lists /\ conf' = conf
      /\ handle' = ok /\ (handle => ok)
  BY <1>1 DEF WriteOverride, rules, EnsureStorage
<1> DEFINE e    == Ensured(ok)
           told == Invalidate(e, reason, {ea})
<1>3. svc' \in {e, told} /\ (~subscribed => svc' = e)
  BY <1>1 DEF Emit
<1>4. svc \in Services /\ Dated(svc) /\ Wrapped(svc)
  BY DEF TypeOK, Sound
<1>5. KeepsHints(svc, svc)
  BY DEF KeepsHints
<1>6. /\ e \in Services /\ Dated(e) /\ KeepsHints(svc, e)
      /\ e.compiled \in {None, svc.compiled}
  <2>1. CASE handle
    BY <1>4, <1>5, <2>1 DEF Ensured
  <2>2. CASE ~handle
    BY <2>2, EnsuredEffect
  <2>3. QED
    BY <2>1, <2>2
<1>7. /\ Dated(told) /\ KeepsHints(e, told) /\ told.compiled \in {None, e.compiled}
      /\ NothingLive(told) /\ told.overlays[ea] = Unset
      /\ \A f \in Funcs : told.overlays[f] \in {Unset, e.overlays[f]}
  <2> HIDE DEF e
  <2> QED BY <1>6, InvalidateEffect
<1>8. /\ Dated(svc') /\ KeepsHints(svc, svc')
      /\ svc'.compiled \in {None, svc.compiled}
  <2> HIDE DEF e, told
  <2> QED BY <1>3, <1>6, <1>7 DEF KeepsHints
<1>9. CompiledIsCurrent'
  BY <1>2, <1>8 DEF Sound, CompiledIsCurrent, CompiledTable
<1>10. ASSUME started PROVE Fresh(svc', Source', unannounced')
  <2>1. Fresh(svc, Source, unannounced)
    BY <1>10 DEF Sound
  <2>2. CASE handle
    <3>1. /\ e = svc /\ EnsuredHistory = unannounced /\ ok
          /\ Source = overrides /\ Source' = overrides'
      BY <1>2, <2>2 DEF Ensured, EnsuredHistory, Source, StoredOverlay
    <3>2. \A f \in Funcs \ {ea} : Source'[f] = Source[f]
      BY <1>1, <3>1 DEF TypeOK
    <3>3. CASE raises \/ ~subscribed
      <4>1. svc' = svc /\ unannounced' = unannounced \cup {ea}
        BY <1>1, <3>1, <3>3 DEF Emit
      <4>2. \A f \in Funcs \ {ea} : CallProvider(svc, Source', f) = CallProvider(svc, Source, f)
        BY <3>2, SameProvider
      <4>3. \A f \in Funcs \ (unannounced \cup {ea}) : OverlayFresh(svc, Source', f)
        BY <2>1, <4>2 DEF Fresh, OverlayFresh
      <4>4. \A k \in Scopes : k.ea \notin unannounced \cup {ea} => BundleFresh(svc, Source', k)
        <5>1. \A k \in Scopes : k.ea \in Funcs
          BY DEF Scopes
        <5>2. QED
          BY <2>1, <4>2, <5>1 DEF Fresh, BundleFresh
      <4>5. QED
        BY <4>1, <4>3, <4>4 DEF Fresh
    <3>4. CASE ~raises /\ subscribed
      <4>1. svc' = told /\ unannounced' = unannounced \ {ea}
        BY <1>1, <3>1, <3>4 DEF Emit
      <4>2. \A f \in Funcs \ (unannounced \ {ea}) :
              \/ told.overlays[f] = Unset
              \/ /\ f \notin unannounced /\ told.overlays[f] = svc.overlays[f]
                 /\ told.provider = svc.provider /\ told.delegate = svc.delegate
                 /\ told.hintSupp[f] = svc.hintSupp[f] /\ Source'[f] = Source[f]
        <5> HIDE DEF told
        <5> QED BY <1>7, <3>1, <3>2 DEF KeepsHints
      <4>3. QED
        <5> HIDE DEF told
        <5> QED BY <1>7, <2>1, <4>1, <4>2, FreshWhenKept
    <3>5. QED
      BY <3>3, <3>4
  <2>3. CASE ~handle
    <3>1. CASE ~subscribed
      <4>1. Funcs \subseteq unannounced'
        BY <1>1, <2>3, <3>1, EnsuredEffect
      <4>2. QED
        BY <4>1, FreshOfNothing
    <3>2. CASE subscribed
      <4>1. NothingLive(e) /\ \A f \in Funcs : e.overlays[f] = Unset
        BY <2>3, <3>2, EnsuredEffect
      <4>2. NothingLive(told) /\ \A f \in Funcs : told.overlays[f] = Unset
        <5> HIDE DEF e
        <5> QED BY <1>6, <4>1, EmptyStaysEmpty
      <4>3. NothingLive(svc') /\ \A f \in Funcs : svc'.overlays[f] = Unset
        <5> HIDE DEF e, told
        <5> QED BY <1>3, <4>1, <4>2
      <4>4. QED
        BY <4>3, FreshWhenEmpty
    <3>3. QED
      BY <3>1, <3>2
  <2>4. QED
    BY <2>2, <2>3
<1>11. QED
  BY <1>2, <1>4, <1>8, <1>9, <1>10, WrappedKept DEF Sound, KeepsHints

(* The announcement of an inference empties both caches; without it every     *)
(* function enters the history.                                               *)
LEMMA SetInferenceSound ==
  ASSUME TypeOK, Sound, NEW i \in Inferences \cup {None}, SetActiveRuleInference(i)
  PROVE  Sound'
<1>1. PICK ok \in BOOLEAN, raises \in {FALSE, WriteFaults} :
        /\ svc' = IF ok /\ raises THEN SetActiveInference(Ensured(ok), i)
                  ELSE Emit(SetActiveInference(Ensured(ok), i), "INFERENCE_APPLIED", {})
        /\ unannounced' = IF (ok /\ raises) \/ ~subscribed THEN Funcs ELSE {}
  BY DEF SetActiveRuleInference
<1>2. started' = started /\ subscribed' = subscribed /\ lists' = lists /\ conf' = conf
  BY DEF SetActiveRuleInference, rules
<1> DEFINE e    == Ensured(ok)
           a    == SetActiveInference(e, i)
           told == Invalidate(a, "INFERENCE_APPLIED", {})
<1>3. svc' \in {a, told} /\ (~(ok /\ raises) /\ subscribed => svc' = told)
  BY <1>1 DEF Emit
<1>4. svc \in Services /\ Dated(svc) /\ Wrapped(svc)
  BY DEF TypeOK, Sound
<1>5. /\ e \in Services /\ Dated(e) /\ KeepsHints(svc, e)
      /\ e.compiled \in {None, svc.compiled}
  <2>1. CASE handle
    BY <1>4, <2>1 DEF Ensured, KeepsHints
  <2>2. CASE ~handle
    BY <2>2, EnsuredEffect
  <2>3. QED
    BY <2>1, <2>2
<1>6. /\ a \in Services /\ Dated(a) /\ KeepsHints(e, a) /\ a.compiled = e.compiled
  <2> HIDE DEF e
  <2> QED BY <1>5, SettersTyped, SettersEffect DEF Dated
<1>7. /\ Dated(told) /\ KeepsHints(a, told) /\ told.compiled = None /\ NothingLive(told)
      /\ \A f \in Funcs : told.overlays[f] = Unset
  <2> HIDE DEF a
  <2>1. told = Invalidate(a, "PROJECT_RULES_RELOADED", {})
    BY DEF Invalidate, PartialReasons
  <2>2. QED
    BY <1>6, <2>1, InvalidateEffect, InvalidateAllEffect
<1>8. /\ Dated(svc') /\ KeepsHints(svc, svc')
      /\ svc'.compiled \in {None, svc.compiled}
  <2> HIDE DEF e, a, told
  <2> QED BY <1>3, <1>5, <1>6, <1>7 DEF KeepsHints
<1>9. CompiledIsCurrent'
  BY <1>2, <1>8 DEF Sound, CompiledIsCurrent, CompiledTable
<1>10. Fresh(svc', Source', unannounced')
  <2>1. CASE (ok /\ raises) \/ ~subscribed
    BY <1>1, <2>1, FreshOfNothing
  <2>2. CASE ~((ok /\ raises) \/ ~subscribed)
    <3> HIDE DEF told
    <3> QED BY <1>3, <1>7, <2>2, FreshWhenEmpty
  <2>3. QED
    BY <2>1, <2>2
<1>11. QED
  BY <1>2, <1>4, <1>8, <1>9, <1>10, WrappedKept DEF Sound, KeepsHints

-------------------------------------------------------------------------------
(* The hooks *)

(* Only the hint state of ea changes, and the provider chain if it had to be  *)
(* wrapped, and then no overlay is kept.                                      *)
LEMMA HintedFields ==
  ASSUME NEW s \in Services, NEW ea \in Funcs,
         NEW i \in Inferences \cup {None}, NEW supp \in SUBSET Rules
  PROVE  LET t   == Hinted(s, ea, i, supp)
             new == i # None \/ supp # {}
         IN /\ t \in Services
            /\ t.gen = s.gen /\ t.compiled = s.compiled /\ t.bundles = s.bundles
            /\ t.inference = s.inference
            /\ t.hintInf = [s.hintInf EXCEPT ![ea] = i]
            /\ t.hintSupp = [s.hintSupp EXCEPT ![ea] = supp]
            /\ s.hintOn \/ ~new => /\ t.overlays = s.overlays /\ t.provider = s.provider
                                   /\ t.delegate = s.delegate /\ t.hintOn = s.hintOn
            /\ ~s.hintOn /\ new => /\ t.overlays = NoOverlays /\ t.provider = "hint"
                                   /\ t.hintOn
                                   /\ s.provider = "manager" => t.delegate = "manager"
<1> DEFINE new == i # None \/ supp # {}
           c   == ClearFunc(s, ea)
<1>1. /\ c \in Services
      /\ c.gen = s.gen /\ c.compiled = s.compiled /\ c.bundles = s.bundles
      /\ c.inference = s.inference /\ c.overlays = s.overlays
      /\ c.provider = s.provider /\ c.delegate = s.delegate /\ c.hintOn = s.hintOn
      /\ c.hintInf = [s.hintInf EXCEPT ![ea] = None]
      /\ c.hintSupp = [s.hintSupp EXCEPT ![ea] = {}]
  BY ClearFuncTyped DEF ClearFunc, Services
<1> DEFINE w == IF new THEN WrapProvider(c) ELSE c
<1>2. /\ w \in Services
      /\ w.gen = c.gen /\ w.compiled = c.compiled /\ w.bundles = c.bundles
      /\ w.inference = c.inference /\ w.hintInf = c.hintInf /\ w.hintSupp = c.hintSupp
      /\ c.hintOn \/ ~new => /\ w.overlays = c.overlays /\ w.provider = c.provider
                             /\ w.delegate = c.delegate /\ w.hintOn = c.hintOn
      /\ ~c.hintOn /\ new => /\ w.overlays = NoOverlays /\ w.provider = "hint"
                             /\ w.hintOn
                             /\ c.provider = "manager" => w.delegate = "manager"
  <2> HIDE DEF c
  <2>1. WrapProvider(c) \in Services
    BY <1>1, WrapProviderTyped
  <2>2. CASE c.hintOn \/ ~new
    BY <1>1, <2>1, <2>2 DEF WrapProvider
  <2>3. CASE ~c.hintOn /\ new
    BY <1>1, <2>1, <2>3 DEF WrapProvider, Services
  <2>4. QED
    BY <2>2, <2>3
<1> DEFINE t == [w EXCEPT !.hintInf[ea] = i, !.hintSupp[ea] = supp]
<1>3. /\ t \in Services
      /\ t.gen = w.gen /\ t.compiled = w.compiled /\ t.bundles = w.bundles
      /\ t.inference = w.inference /\ t.overlays = w.overlays
      /\ t.provider = w.provider /\ t.delegate = w.delegate /\ t.hintOn = w.hintOn
      /\ t.hintInf = [w.hintInf EXCEPT ![ea] = i]
      /\ t.hintSupp = [w.hintSupp EXCEPT ![ea] = supp]
  <2> HIDE DEF w
  <2> QED BY <1>2 DEF Services
<1>4. /\ t.hintInf = [s.hintInf EXCEPT ![ea] = i]
      /\ t.hintSupp = [s.hintSupp EXCEPT ![ea] = supp]
  <2> HIDE DEF t, w, c
  <2> QED BY <1>1, <1>2, <1>3 DEF Services
<1>5. Hinted(s, ea, i, supp) = t
  BY DEF Hinted
<1>6. QED
  <2> HIDE DEF t, w, c
  <2> QED BY <1>1, <1>2, <1>3, <1>4, <1>5

(* From a sound service, hints for ea followed by their invalidation leave    *)
(* everything fresh that was, and ea as well.                                 *)
LEMMA HintedInvalidated ==
  ASSUME TypeOK, Sound, started,
         NEW ea \in Funcs,
         NEW i \in Inferences \cup {None}, NEW supp \in SUBSET Rules,
         NEW t, t = Invalidate(Hinted(svc, ea, i, supp), "HINTS_APPLIED", {ea})
  PROVE  /\ t.gen = svc.gen + 1 /\ Dated(t) /\ Wrapped(t)
         /\ t.compiled \in {None, svc.compiled} /\ t.provider # "none"
         /\ Fresh(t, Source, unannounced \ {ea})
<1> DEFINE new == i # None \/ supp # {}
           h   == Hinted(svc, ea, i, supp)
<1>1. svc \in Services /\ Dated(svc) /\ Wrapped(svc) /\ svc.provider # "none"
  BY DEF TypeOK, Sound
<1>2. svc.provider \in {"manager", "hint"} /\ svc.hintOn \in BOOLEAN
  BY <1>1 DEF Services
<1>3. /\ h \in Services
      /\ h.gen = svc.gen /\ h.compiled = svc.compiled /\ h.bundles = svc.bundles
      /\ h.hintInf = [svc.hintInf EXCEPT ![ea] = i]
      /\ h.hintSupp = [svc.hintSupp EXCEPT ![ea] = supp]
      /\ svc.hintOn \/ ~new => /\ h.overlays = svc.overlays /\ h.provider = svc.provider
                               /\ h.delegate = svc.delegate /\ h.hintOn = svc.hintOn
      /\ ~svc.hintOn /\ new => /\ h.overlays = NoOverlays /\ h.provider = "hint"
                               /\ h.hintOn
                               /\ svc.provider = "manager" => h.delegate = "manager"
  BY <1>1, HintedFields
<1>4. \A f \in Funcs \ {ea} : /\ h.hintInf[f] = svc.hintInf[f]
                              /\ h.hintSupp[f] = svc.hintSupp[f]
  BY <1>1, <1>3 DEF Services
<1>5. h.hintInf[ea] = i /\ h.hintSupp[ea] = supp
  BY <1>1, <1>3 DEF Services
<1>6. Dated(h)
  BY <1>1, <1>3 DEF Dated
<1>7. Wrapped(h)
  <2>1. CASE ~svc.hintOn /\ new
    BY <1>1, <1>2, <1>3, <2>1 DEF Wrapped
  <2>2. CASE svc.hintOn \/ ~new
    BY <1>1, <1>3, <1>4, <1>5, <2>2 DEF Wrapped
  <2>3. QED
    BY <2>1, <2>2
<1>8. /\ t.gen = h.gen + 1 /\ Dated(t) /\ NothingLive(t) /\ KeepsHints(h, t)
      /\ t.compiled \in {None, h.compiled}
      /\ \A f \in Funcs : t.overlays[f] \in {Unset, h.overlays[f]}
      /\ t.overlays[ea] = Unset
  <2> HIDE DEF h
  <2> DEFINE u == Invalidate(h, "HINTS_APPLIED", {ea})
  <2>1. t = u
    BY DEF h
  <2>2. /\ u.gen = h.gen + 1 /\ Dated(u) /\ NothingLive(u) /\ KeepsHints(h, u)
        /\ u.compiled \in {None, h.compiled}
        /\ \A f \in Funcs : u.overlays[f] \in {Unset, h.overlays[f]}
        /\ \A f \in {ea} \cap Funcs : u.overlays[f] = Unset
    <3>1. h \in Services
      BY <1>3
    <3>2. QED
      BY <1>6, <3>1, InvalidateEffect
  <2>3. QED
    BY <2>1, <2>2
<1>9. Fresh(t, Source, unannounced \ {ea})
  <2>1. CASE ~svc.hintOn /\ new
    <3>1. h.overlays = NoOverlays
      BY <1>3, <2>1
    <3>2. \A f \in Funcs : t.overlays[f] = Unset
      <4> HIDE DEF h
      <4> QED BY <1>8, <3>1 DEF NoOverlays
    <3>3. QED
      BY <1>8, <3>2, FreshWhenEmpty
  <2>2. CASE svc.hintOn \/ ~new
    <3>1. \A f \in Funcs \ (unannounced \ {ea}) :
            \/ t.overlays[f] = Unset
            \/ /\ f \notin unannounced /\ t.overlays[f] = svc.overlays[f]
               /\ t.provider = svc.provider /\ t.delegate = svc.delegate
               /\ t.hintSupp[f] = svc.hintSupp[f] /\ Source[f] = Source[f]
      <4> HIDE DEF h
      <4>1. /\ h.overlays = svc.overlays /\ h.provider = svc.provider
            /\ h.delegate = svc.delegate
        BY <1>3, <2>2
      <4>2. /\ t.provider = h.provider /\ t.delegate = h.delegate
            /\ t.hintSupp = h.hintSupp
        BY <1>8 DEF KeepsHints
      <4>3. QED
        BY <1>4, <1>8, <4>1, <4>2
    <3>2. Fresh(svc, Source, unannounced)
      BY DEF Sound
    <3>3. NothingLive(t)
      BY <1>8
    <3>4. QED
      BY <3>1, <3>2, <3>3, FreshWhenKept
  <2>3. QED
    BY <2>1, <2>2
<1>10. QED
  <2> HIDE DEF h
  <2> QED BY <1>1, <1>2, <1>3, <1>7, <1>8, <1>9, WrappedKept DEF KeepsHints

(* The rest of the state when only the service and the history may change. *)
LEMMA HookSound ==
  ASSUME TypeOK, Sound, started,
         UNCHANGED <<started, handle, overrides, lists, conf>>,
         Dated(svc'), Wrapped(svc'), svc'.compiled \in {None, svc.compiled},
         svc'.provider # "none", Fresh(svc', Source, unannounced')
  PROVE  Sound'
<1>1. Source' = Source
  BY DEF Source, StoredOverlay
<1>2. CompiledIsCurrent'
  BY DEF Sound, CompiledIsCurrent, CompiledTable
<1>3. QED
  BY <1>1, <1>2 DEF Sound

(* Hints that say nothing about a function that had none change nothing;      *)
(* every other call invalidates the function.                                 *)
LEMMA ApplyHintsSound ==
  ASSUME TypeOK, Sound, NEW h \in HintSet, HookApplyHints(h)
  PROVE  Sound'
<1> DEFINE had == svc.hintInf[h.ea] # None \/ svc.hintSupp[h.ea] # {}
           i   == HintInference(svc, h)
           new == i # None \/ h.suppress # {}
           t   == Hinted(svc, h.ea, i, h.suppress)
<1>1. /\ started /\ svc' = ApplyHints(svc, h)
      /\ unannounced' = IF svc'.gen = svc.gen THEN unannounced ELSE unannounced \ {h.ea}
      /\ UNCHANGED <<started, handle, overrides, lists, conf>>
  BY DEF HookApplyHints, sources, rules
<1>2. h.ea \in Funcs /\ h.suppress \in SUBSET Rules
  BY DEF HintSet
<1>3. svc \in Services /\ svc.gen \in Nat
  BY DEF TypeOK, Services
<1>4. i \in Inferences \cup {None}
  BY <1>3, HintInferenceTyped
<1>5. ApplyHints(svc, h) = IF new \/ had THEN Invalidate(t, "HINTS_APPLIED", {h.ea}) ELSE t
  BY DEF ApplyHints
<1>6. CASE new \/ had
  <2>1. svc' = Invalidate(t, "HINTS_APPLIED", {h.ea})
    BY <1>1, <1>5, <1>6
  <2>2. /\ svc'.gen = svc.gen + 1 /\ Dated(svc') /\ Wrapped(svc')
        /\ svc'.compiled \in {None, svc.compiled} /\ svc'.provider # "none"
        /\ Fresh(svc', Source, unannounced \ {h.ea})
    <3> HIDE DEF i
    <3> QED BY <1>1, <1>2, <1>4, <2>1, HintedInvalidated
  <2>3. unannounced' = unannounced \ {h.ea}
    BY <1>1, <1>3, <2>2
  <2>4. QED
    BY <1>1, <2>2, <2>3, HookSound
<1>7. CASE ~(new \/ had)
  <2>1. svc' = t /\ i = None /\ h.suppress = {} /\ svc.hintInf[h.ea] = None
        /\ svc.hintSupp[h.ea] = {} /\ ~new
    BY <1>1, <1>5, <1>7
  <2>2. /\ svc'.gen = svc.gen /\ svc'.compiled = svc.compiled
        /\ svc'.bundles = svc.bundles /\ svc'.overlays = svc.overlays
        /\ svc'.inference = svc.inference
        /\ svc'.provider = svc.provider /\ svc'.delegate = svc.delegate
        /\ svc'.hintOn = svc.hintOn
        /\ svc'.hintInf = [svc.hintInf EXCEPT ![h.ea] = None]
        /\ svc'.hintSupp = [svc.hintSupp EXCEPT ![h.ea] = {}]
    <3> HIDE DEF i
    <3>1. /\ t.gen = svc.gen /\ t.compiled = svc.compiled
          /\ t.bundles = svc.bundles /\ t.inference = svc.inference
          /\ t.hintInf = [svc.hintInf EXCEPT ![h.ea] = i]
          /\ t.hintSupp = [svc.hintSupp EXCEPT ![h.ea] = h.suppress]
          /\ ~new => /\ t.overlays = svc.overlays /\ t.provider = svc.provider
                     /\ t.delegate = svc.delegate /\ t.hintOn = svc.hintOn
      BY <1>2, <1>3, <1>4, HintedFields
    <3> HIDE DEF t, new
    <3>2. QED
      BY <2>1, <3>1
  <2>3. svc'.hintInf = svc.hintInf /\ svc'.hintSupp = svc.hintSupp
    <3> HIDE DEF i, t, new
    <3> QED BY <1>3, <2>1, <2>2 DEF Services
  <2>4. Dated(svc') /\ Wrapped(svc') /\ svc'.provider # "none"
    BY <1>1, <2>2, <2>3 DEF Sound, Dated, Wrapped
  <2>5. \A f \in Funcs : CallProvider(svc', Source, f) = CallProvider(svc, Source, f)
    BY <2>2, <2>3, SameProvider
  <2>6. \A f \in Funcs : EffectiveInference(svc', f) = EffectiveInference(svc, f)
    BY <2>2, <2>3 DEF EffectiveInference
  <2>7. \A k \in Scopes, m \in Maturities : IsCached(svc', k, m) = IsCached(svc, k, m)
    BY <2>2 DEF IsCached, Live
  <2>8. Fresh(svc', Source, unannounced)
    <3>1. \A k \in Scopes : k.ea \in Funcs
      BY DEF Scopes
    <3>2. \A f \in Funcs : OverlayFresh(svc, Source, f) => OverlayFresh(svc', Source, f)
      BY <2>2, <2>5 DEF OverlayFresh
    <3>3. \A k \in Scopes : BundleFresh(svc, Source, k) => BundleFresh(svc', Source, k)
      BY <2>2, <2>5, <2>6, <2>7, <3>1 DEF BundleFresh
    <3>4. QED
      BY <1>1, <3>2, <3>3 DEF Sound, Fresh
  <2>9. unannounced' = unannounced
    BY <1>1, <2>2
  <2>10. QED
    BY <1>1, <2>2, <2>4, <2>8, <2>9, HookSound
<1>8. QED
  BY <1>6, <1>7

(* Clearing is giving no hints, once a hint provider exists. *)
LEMMA ClearHintsSound ==
  ASSUME TypeOK, Sound, NEW ea \in Funcs, HookClearHintState(ea)
  PROVE  Sound'
<1>1. /\ started /\ svc' = ClearHintState(svc, ea)
      /\ unannounced' = IF svc'.gen = svc.gen THEN unannounced ELSE unannounced \ {ea}
      /\ UNCHANGED <<started, handle, overrides, lists, conf>>
  BY DEF HookClearHintState, sources, rules
<1>2. svc \in Services /\ svc.gen \in Nat
  BY DEF TypeOK, Services
<1>3. CASE ~svc.hintOn
  BY <1>1, <1>3, HookSound DEF ClearHintState, Sound
<1>4. CASE svc.hintOn
  <2>1. Hinted(svc, ea, None, {}) = ClearFunc(svc, ea)
    BY <1>2 DEF Hinted, ClearFunc, Services
  <2>2. svc' = Invalidate(Hinted(svc, ea, None, {}), "HINTS_APPLIED", {ea})
    BY <1>1, <1>4, <2>1 DEF ClearHintState
  <2>3. /\ svc'.gen = svc.gen + 1 /\ Dated(svc') /\ Wrapped(svc')
        /\ svc'.compiled \in {None, svc.compiled} /\ svc'.provider # "none"
        /\ Fresh(svc', Source, unannounced \ {ea})
    BY <1>1, <2>2, HintedInvalidated
  <2>4. unannounced' = unannounced \ {ea}
    BY <1>1, <1>2, <2>3
  <2>5. QED
    BY <1>1, <2>3, <2>4, HookSound
<1>5. QED
  BY <1>3, <1>4

(* get_active_rules stores the overlay it was answered and the rules it        *)
(* computed from it.                                                           *)
LEMMA AfterGetFields ==
  ASSUME NEW s \in Services, NEW src, NEW k \in Scopes, NEW m,
         s.compiled # None, ~IsCached(s, k, m), s.provider # "none"
  PROVE  LET t == AfterGet(s, src, k, m)
             b == BundleAfter(s, src, k, m)
         IN /\ t.gen = s.gen /\ t.compiled = s.compiled /\ t.inference = s.inference
            /\ KeepsHints(s, t)
            /\ t.overlays = [s.overlays EXCEPT ![k.ea] = GetOverlay(s, src, k.ea)]
            /\ t.bundles = [s.bundles EXCEPT ![k] = b]
<1> DEFINE o == GetOverlay(s, src, k.ea)
           b == BundleAfter(s, src, k, m)
           t == [s EXCEPT !.overlays[k.ea] = o, !.bundles[k] = b]
<1>1. AfterGet(s, src, k, m) = t
  BY DEF AfterGet
<1>2. /\ t.gen = s.gen /\ t.compiled = s.compiled /\ t.inference = s.inference
      /\ KeepsHints(s, t)
      /\ t.overlays = [s.overlays EXCEPT ![k.ea] = o]
      /\ t.bundles = [s.bundles EXCEPT ![k] = b]
  <2> HIDE DEF o, b
  <2> QED BY DEF Services, KeepsHints
<1>3. QED
  <2> HIDE DEF t
  <2> QED BY <1>1, <1>2

(* A fresh cached overlay or none: the overlay in force is the provider's. *)
LEMMA GetOverlayFresh ==
  ASSUME NEW s, NEW src, NEW f, s.provider # "none", OverlayFresh(s, src, f)
  PROVE  GetOverlay(s, src, f) = CallProvider(s, src, f)
  BY DEF GetOverlay, OverlayFresh

(* So is the answer a recomputation. *)
LEMMA AnswerFresh ==
  ASSUME NEW s, NEW src, NEW k, NEW m \in Maturities, s.provider # "none",
         s.compiled # None, OverlayFresh(s, src, k.ea), BundleFresh(s, src, k)
  PROVE  Answer(s, src, k, m) =
           ActiveRules(s.compiled, k.pipeline, m, k.ea,
                       CallProvider(s, src, k.ea), EffectiveInference(s, k.ea))
<1>1. GetOverlay(s, src, k.ea) = CallProvider(s, src, k.ea)
  BY GetOverlayFresh
<1>2. QED
  BY <1>1 DEF Answer, BundleFresh

(* The bundle get_active_rules leaves. *)
LEMMA StoredBundleFields ==
  ASSUME NEW s, NEW k, NEW m, NEW a
  PROVE  LET b == StoredBundle(s, k, m, a)
         IN /\ b.gen = s.gen /\ b.by[m] = a
            /\ \A x \in DOMAIN b.by : x # m =>
                 /\ Live(s, k) /\ x \in DOMAIN s.bundles[k].by
                 /\ b.by[x] = s.bundles[k].by[x]
<1> DEFINE by == IF Live(s, k) THEN s.bundles[k].by ELSE [x \in {} |-> {}]
           new == [x \in DOMAIN by \cup {m} |-> IF x = m THEN a ELSE by[x]]
<1>1. StoredBundle(s, k, m, a).gen = s.gen /\ StoredBundle(s, k, m, a).by = new
  BY DEF StoredBundle
<1>2. /\ DOMAIN new = DOMAIN by \cup {m} /\ new[m] = a
      /\ \A x \in DOMAIN by : x # m => new[x] = by[x]
  <2> HIDE DEF by
  <2> QED OBVIOUS
<1>3. \A x \in DOMAIN by : Live(s, k) /\ by = s.bundles[k].by
  OBVIOUS
<1>4. QED
  <2> HIDE DEF new, by
  <2> QED BY <1>1, <1>2, <1>3

(* get_active_rules turns fresh caches into fresh caches. *)
LEMMA GetSound ==
  ASSUME TypeOK, Sound, NEW ea \in Funcs, NEW pipeline \in Pipelines,
         NEW m \in Maturities, HookGetActiveRules(ea, pipeline, m)
  PROVE  Sound'
<1> DEFINE k == ScopeKey(ea, pipeline)
           b == BundleAfter(svc, Source, k, m)
<1>1. /\ started /\ svc' = AfterGet(svc, Source, k, m) /\ unannounced' = unannounced
      /\ UNCHANGED <<started, handle, overrides, lists, conf>>
  BY DEF HookGetActiveRules, sources, rules
<1>2. k \in Scopes /\ k.ea = ea
  BY DEF ScopeKey, Scopes, TypeOK
<1>3. svc \in Services /\ Dated(svc) /\ Wrapped(svc) /\ svc.provider # "none"
      /\ Fresh(svc, Source, unannounced)
  BY <1>1 DEF TypeOK, Sound
<1>4. CASE svc.compiled = None \/ IsCached(svc, k, m)
  <2>1. svc' = svc
    BY <1>1, <1>4 DEF AfterGet
  <2>2. QED
    BY <1>1, <1>3, <2>1, HookSound
<1>5. CASE svc.compiled # None /\ ~IsCached(svc, k, m)
  <2> HIDE DEF k
  <2>1. /\ svc'.gen = svc.gen /\ svc'.compiled = svc.compiled
        /\ svc'.inference = svc.inference /\ KeepsHints(svc, svc')
        /\ svc'.overlays = [svc.overlays EXCEPT ![ea] = GetOverlay(svc, Source, ea)]
        /\ svc'.bundles = [svc.bundles EXCEPT ![k] = b]
    <3> DEFINE t == AfterGet(svc, Source, k, m)
    <3>1. svc \in Services /\ k \in Scopes /\ svc.provider # "none"
      BY <1>2, <1>3
    <3>2. /\ t.gen = svc.gen /\ t.compiled = svc.compiled
          /\ t.inference = svc.inference /\ KeepsHints(svc, t)
          /\ t.overlays = [svc.overlays EXCEPT ![k.ea] = GetOverlay(svc, Source, k.ea)]
          /\ t.bundles = [svc.bundles EXCEPT ![k] = b]
      BY <1>5, <3>1, AfterGetFields
    <3>3. svc' = t /\ k.ea = ea
      BY <1>1, <1>2
    <3> HIDE DEF t, b
    <3>4. QED
      BY <3>2, <3>3
  <2>2. /\ svc'.overlays[ea] = GetOverlay(svc, Source, ea)
        /\ \A f \in Funcs \ {ea} : svc'.overlays[f] = svc.overlays[f]
    BY <1>3, <2>1 DEF Services
  <2>3. svc'.bundles[k] = b /\ \A x \in Scopes \ {k} : svc'.bundles[x] = svc.bundles[x]
    <3> HIDE DEF b
    <3> QED BY <1>2, <1>3, <2>1 DEF Services
  <2>4. \A f \in Funcs : /\ CallProvider(svc', Source, f) = CallProvider(svc, Source, f)
                         /\ EffectiveInference(svc', f) = EffectiveInference(svc, f)
    BY <2>1, SameProvider DEF KeepsHints, EffectiveInference
  <2>5. svc.gen \in Nat
    BY <1>3 DEF Services
  <2>6. b = svc.bundles[k] \/ b = StoredBundle(svc, k, m, Answer(svc, Source, k, m))
    BY DEF BundleAfter
  <2>7. Dated(svc')
    <3>1. b # None => b.gen <= svc.gen
      <4>1. svc.bundles[k] # None => svc.bundles[k].gen <= svc.gen
        BY <1>2, <1>3 DEF Dated
      <4> HIDE DEF b
      <4>2. QED
        BY <2>5, <2>6, <4>1, StoredBundleFields
    <3>2. QED
      <4> HIDE DEF b
      <4> QED BY <1>3, <2>1, <2>3, <3>1 DEF Dated
  <2>8. ASSUME NEW f \in Funcs \ unannounced
        PROVE  OverlayFresh(svc', Source, f)
    <3>1. OverlayFresh(svc, Source, f)
      BY <1>3 DEF Fresh
    <3>2. CASE f = ea
      BY <1>3, <2>2, <2>4, <3>1, <3>2, GetOverlayFresh DEF OverlayFresh
    <3>3. CASE f # ea
      BY <2>2, <2>4, <3>1, <3>3 DEF OverlayFresh
    <3>4. QED
      BY <3>2, <3>3
  <2>9. ASSUME NEW x \in Scopes, x.ea \notin unannounced
        PROVE  BundleFresh(svc', Source, x)
    <3>1. x.ea \in Funcs /\ BundleFresh(svc, Source, x)
      BY <1>3, <2>9 DEF Fresh, Scopes
    <3>2. CASE svc'.bundles[x] = svc.bundles[x]
      BY <2>1, <2>4, <3>1, <3>2 DEF BundleFresh, IsCached, Live
    <3>3. CASE x = k /\ svc'.bundles[x] # svc.bundles[x]
      <4> DEFINE a  == Answer(svc, Source, k, m)
                 sb == StoredBundle(svc, k, m, a)
                 R(n) == ActiveRules(svc.compiled, k.pipeline, n, k.ea,
                           CallProvider(svc, Source, k.ea), EffectiveInference(svc, k.ea))
      <4>1. svc'.bundles[k] = sb
        BY <2>3, <2>6, <3>3
      <4>2. a = R(m)
        <5>1. OverlayFresh(svc, Source, k.ea)
          BY <1>2, <1>3, <2>9, <3>3 DEF Fresh
        <5>2. QED
          BY <1>3, <1>5, <3>1, <3>3, <5>1, AnswerFresh
      <4>3. /\ sb.by[m] = a
            /\ \A n \in DOMAIN sb.by : n # m =>
                 /\ Live(svc, k) /\ n \in DOMAIN svc.bundles[k].by
                 /\ sb.by[n] = svc.bundles[k].by[n]
        <5> HIDE DEF a
        <5> QED BY StoredBundleFields
      <4>4. \A n \in Maturities : IsCached(svc, k, n) => svc.bundles[k].by[n] = R(n)
        BY <1>5, <3>1, <3>3 DEF BundleFresh
      <4>5. \A n \in Maturities : n \in DOMAIN sb.by => sb.by[n] = R(n)
        <5> HIDE DEF sb, a, R
        <5> QED BY <4>2, <4>3, <4>4 DEF IsCached
      <4>6. QED
        <5> HIDE DEF sb, a
        <5> QED BY <2>1, <2>4, <3>1, <3>3, <4>1, <4>5 DEF BundleFresh, IsCached
    <3>4. QED
      BY <2>3, <3>2, <3>3
  <2>10. Fresh(svc', Source, unannounced)
    BY <2>8, <2>9 DEF Fresh
  <2>11. Wrapped(svc') /\ svc'.provider # "none"
    BY <1>3, <2>1, WrappedKept DEF KeepsHints
  <2>12. QED
    BY <1>1, <2>1, <2>7, <2>10, <2>11, HookSound
<1>6. QED
  BY <1>4, <1>5

-------------------------------------------------------------------------------
(* The theorems *)

LEMMA NextSound == TypeOK /\ Sound /\ [Next]_vars => Sound'
<1> SUFFICES ASSUME TypeOK, Sound, [Next]_vars PROVE Sound'
  OBVIOUS
<1>1. CASE StartD810
  BY <1>1, StartSound
<1>2. CASE StopD810
  BY <1>2, StopSound
<1>3. ASSUME NEW p \in Projects, ReloadPlugin(p) PROVE Sound'
  BY <1>3, ReloadSound
<1>4. ASSUME NEW p \in Projects, LoadProject(p) PROVE Sound'
  BY <1>4, LoadProjectSound
<1>5. ASSUME NEW ea \in Funcs, NEW o \in OverrideChoices,
             SetFunctionRuleOverride(ea, o[1], o[2])
      PROVE  Sound'
  BY <1>5, WriteOverrideSound DEF SetFunctionRuleOverride
<1>6. ASSUME NEW ea \in Funcs, NEW tags \in SUBSET Tags, SetFunctionTags(ea, tags)
      PROVE  Sound'
  BY <1>6, WriteOverrideSound DEF SetFunctionTags
<1>7. ASSUME NEW i \in InferenceChoices \cup {None}, SetActiveRuleInference(i)
      PROVE  Sound'
  BY <1>7, SetInferenceSound, LifecycleAssumption
<1>8. ASSUME NEW h \in HintChoices, HookApplyHints(h) PROVE Sound'
  BY <1>8, ApplyHintsSound, LifecycleAssumption
<1>9. ASSUME NEW ea \in Funcs, HookClearHintState(ea) PROVE Sound'
  BY <1>9, ClearHintsSound
<1>10. ASSUME NEW ea \in Funcs, NEW pipeline \in Pipelines, NEW m \in Maturities,
              HookGetActiveRules(ea, pipeline, m)
       PROVE  Sound'
  BY <1>10, GetSound
<1>11. CASE UNCHANGED vars
  BY <1>11 DEF vars, sources, rules, Sound, CompiledIsCurrent, CompiledTable,
               Source, StoredOverlay
<1>12. QED
  BY <1>1, <1>2, <1>3, <1>4, <1>5, <1>6, <1>7, <1>8, <1>9, <1>10, <1>11 DEF Next

(* The caches of the rule-scope service are consistent in every reachable     *)
(* state: the inductive invariant, for every instance.                        *)
THEOREM ConsistentAlways == Spec => []Consistent
<1>1. Init => TypeOK /\ Sound
  BY InitTyped, InitSound
<1>2. TypeOK /\ Sound /\ [Next]_vars => (TypeOK /\ Sound)'
  BY NextTyped, NextSound
<1>3. TypeOK /\ Sound => Consistent
  BY ConsistentIsSound
<1>4. QED
  BY <1>1, <1>2, <1>3, PTL DEF Spec

(* What get_active_rules serves is what a recomputation would give. *)
LEMMA ServedIsRecomputed ==
  ASSUME Consistent, started, NEW k \in Scopes, k.ea \notin unannounced,
         NEW m \in Maturities, svc.compiled # None
  PROVE  Served(k, m) =
           ActiveRules(svc.compiled, k.pipeline, m, k.ea,
                       CallProvider(svc, Source, k.ea), EffectiveInference(svc, k.ea))
<1>1. k.ea \in Funcs \ unannounced
  BY DEF Scopes
<1>2. /\ svc.provider # "none" /\ OverlayFresh(svc, Source, k.ea)
      /\ BundleFresh(svc, Source, k)
  BY <1>1 DEF Consistent
<1>3. QED
  BY <1>2, AnswerFresh DEF Served

(* Neither cache is ever stale for a function whose changes were announced    *)
(* (get_active_rules, _get_overlay, invalidate).                              *)
THEOREM CoherentAlways == Spec => []Coherent
<1>1. Consistent => Coherent
  <2> SUFFICES ASSUME Consistent, started, NEW k \in ScopesOf(Funcs \ unannounced),
                      NEW m \in Maturities
               PROVE  Served(k, m) = Recomputed(k, m)
    BY DEF Coherent
  <2>1. k \in Scopes /\ k.ea \notin unannounced
    BY DEF ScopesOf
  <2>2. CASE svc.compiled = None
    BY <2>2 DEF Served, Recomputed, Answer
  <2>3. CASE svc.compiled # None
    BY <2>1, <2>3, ServedIsRecomputed DEF Recomputed
  <2>4. QED
    BY <2>2, <2>3
<1>2. QED
  BY <1>1, ConsistentAlways, PTL

(* load_project under a running manager leaves no selector of the project     *)
(* before it.                                                                 *)
THEOREM CompiledIsCurrentAlways == Spec => []CompiledIsCurrent
<1>1. Consistent => CompiledIsCurrent
  BY DEF Consistent
<1>2. QED
  BY <1>1, ConsistentAlways, PTL

(* No hint, inference or project brings back a rule the user disabled for a   *)
(* function.                                                                  *)
THEOREM UserDisabledWinsAlways == Spec => []UserDisabledWins
<1>1. Consistent => UserDisabledWins
  <2> SUFFICES ASSUME Consistent, started, handle,
                      NEW k \in ScopesOf(Funcs \ unannounced), NEW m \in Maturities,
                      overrides[k.ea] # None
               PROVE  Served(k, m) \cap overrides[k.ea].disabled = {}
    BY DEF UserDisabledWins
  <2>1. k \in Scopes /\ k.ea \notin unannounced /\ k.ea \in Funcs
    BY DEF ScopesOf
  <2>2. CASE svc.compiled = None
    BY <2>2 DEF Served, Answer
  <2>3. CASE svc.compiled # None
    <3> DEFINE o == CallProvider(svc, Source, k.ea)
    <3>1. overrides[k.ea] \in Overlays /\ svc \in Services /\ svc.provider # "none"
      BY <2>1 DEF Consistent, TypeOK
    <3>2. /\ svc.provider \in {"manager", "hint"}
          /\ svc.provider = "hint" => svc.delegate = "manager"
      BY <3>1 DEF Services, Consistent, Wrapped
    <3>3. Source[k.ea] = overrides[k.ea]
      BY DEF Source, StoredOverlay
    <3>4. o # None /\ overrides[k.ea].disabled \subseteq o.disabled
      <4>1. CASE svc.provider = "manager"
        BY <3>3, <4>1 DEF CallProvider
      <4>2. CASE svc.provider = "hint"
        <5>1. o = [overrides[k.ea] EXCEPT !.disabled = @ \cup svc.hintSupp[k.ea]]
          BY <3>2, <3>3, <4>2 DEF CallProvider, HintOverlay, DelegateOverlay
        <5>2. svc.hintSupp[k.ea] \in SUBSET Rules
          BY <2>1, <3>1 DEF Services
        <5>3. o \in Overlays /\ o.disabled = overrides[k.ea].disabled \cup svc.hintSupp[k.ea]
          <6> HIDE DEF o
          <6> QED BY <3>1, <5>1, <5>2 DEF Overlays
        <5>4. QED
          BY <5>3, SentinelAssumption
      <4>3. QED
        BY <3>2, <4>1, <4>2
    <3>5. Served(k, m) = ActiveRules(svc.compiled, k.pipeline, m, k.ea, o,
                                     EffectiveInference(svc, k.ea))
      BY <2>1, <2>3, ServedIsRecomputed
    <3>6. QED
      <4> HIDE DEF o
      <4> QED BY <3>4, <3>5 DEF ActiveRules, OverlayAllows
  <2>4. QED
    BY <2>2, <2>3
<1>2. QED
  BY <1>1, ConsistentAlways, PTL

(* Retracting hints leaves no trace in the caches or the provider chain.      *)
THEOREM RetractedHintsLeaveNoTraceAlways == Spec => []RetractedHintsLeaveNoTrace
<1>1. Consistent => RetractedHintsLeaveNoTrace
  <2> SUFFICES ASSUME Consistent, started,
                      NEW k \in ScopesOf(Funcs \ unannounced), NEW m \in Maturities,
                      svc.hintInf[k.ea] = None, svc.hintSupp[k.ea] = {},
                      svc.compiled # None
               PROVE  Served(k, m) = ActiveRules(svc.compiled, k.pipeline, m, k.ea,
                                                 Source[k.ea], svc.inference)
    BY DEF RetractedHintsLeaveNoTrace
  <2>1. k \in Scopes /\ k.ea \notin unannounced /\ k.ea \in Funcs
    BY DEF ScopesOf
  <2>2. /\ svc \in Services /\ Source \in SourceTypes
        /\ svc.provider # "none"
        /\ svc.provider = "hint" => svc.delegate = "manager"
    BY SourceTyped DEF Consistent, TypeOK, Wrapped
  <2>3. CallProvider(svc, Source, k.ea) = Source[k.ea]
    <3>1. Source[k.ea] \in Overlays \cup {None}
      BY <2>1, <2>2 DEF SourceTypes
    <3>2. CASE svc.provider = "hint"
      <4>1. Source[k.ea] # None =>
              [Source[k.ea] EXCEPT !.disabled = @ \cup {}] = Source[k.ea]
        BY <3>1 DEF Overlays
      <4>2. QED
        BY <2>2, <3>2, <4>1 DEF CallProvider, HintOverlay, DelegateOverlay
    <3>3. CASE svc.provider = "manager"
      BY <3>3 DEF CallProvider
    <3>4. QED
      BY <2>2, <3>2, <3>3 DEF Services
  <2>4. EffectiveInference(svc, k.ea) = svc.inference
    BY DEF EffectiveInference
  <2>5. QED
    BY <2>1, <2>3, <2>4, ServedIsRecomputed
<1>2. QED
  BY <1>1, ConsistentAlways, PTL

-------------------------------------------------------------------------------
(* The action properties.  Two states whose caches are fresh for a function    *)
(* serve it the same rules as soon as a recomputation would read the same.     *)

Reads(s, src, f) == <<s.compiled, CallProvider(s, src, f), EffectiveInference(s, f)>>

LEMMA SameAnswer ==
  ASSUME NEW s, NEW t, NEW src1, NEW src2, NEW un1, NEW un2,
         NEW k \in Scopes, NEW m \in Maturities,
         s.provider # "none", t.provider # "none",
         Fresh(s, src1, un1), Fresh(t, src2, un2),
         k.ea \notin un1, k.ea \notin un2,
         Reads(t, src2, k.ea) = Reads(s, src1, k.ea)
  PROVE  Answer(t, src2, k, m) = Answer(s, src1, k, m)
<1>1. k.ea \in Funcs
  BY DEF Scopes
<1>2. /\ t.compiled = s.compiled
      /\ CallProvider(t, src2, k.ea) = CallProvider(s, src1, k.ea)
      /\ EffectiveInference(t, k.ea) = EffectiveInference(s, k.ea)
  BY DEF Reads
<1>3. CASE s.compiled = None
  BY <1>2, <1>3 DEF Answer
<1>4. CASE s.compiled # None
  <2>1. Answer(s, src1, k, m) =
          ActiveRules(s.compiled, k.pipeline, m, k.ea,
                      CallProvider(s, src1, k.ea), EffectiveInference(s, k.ea))
    BY <1>1, <1>4, AnswerFresh DEF Fresh
  <2>2. Answer(t, src2, k, m) =
          ActiveRules(t.compiled, k.pipeline, m, k.ea,
                      CallProvider(t, src2, k.ea), EffectiveInference(t, k.ea))
    BY <1>1, <1>2, <1>4, AnswerFresh DEF Fresh
  <2>3. QED
    BY <1>2, <2>1, <2>2
<1>5. QED
  BY <1>3, <1>4

LEMMA SameServed ==
  ASSUME Sound, Sound', started, started', NEW k \in Scopes, NEW m \in Maturities,
         k.ea \notin unannounced, k.ea \notin unannounced',
         Reads(svc, Source, k.ea)' = Reads(svc, Source, k.ea)
  PROVE  Served(k, m)' = Served(k, m)
<1>1. svc.provider # "none" /\ Fresh(svc, Source, unannounced)
  BY DEF Sound
<1>2. svc'.provider # "none" /\ Fresh(svc', Source', unannounced')
  BY DEF Sound
<1>3. Reads(svc', Source', k.ea) = Reads(svc, Source, k.ea)
  BY DEF Reads, CallProvider, HintOverlay, DelegateOverlay, EffectiveInference
<1>4. Answer(svc', Source', k, m) = Answer(svc, Source, k, m)
  BY <1>1, <1>2, <1>3, SameAnswer
<1>5. QED
  BY <1>4 DEF Served, Answer, IsCached, Live, ActiveRules, GetOverlay

(* Hints given or retracted for ea leave what is read for another function as  *)
(* it is, also when the hint provider takes the manager's place on the way.    *)
LEMMA OthersReadTheSame ==
  ASSUME TypeOK, Sound, started,
         NEW ea \in Funcs, NEW f \in Funcs \ {ea},
         NEW i \in Inferences \cup {None}, NEW supp \in SUBSET Rules,
         NEW t, t = Invalidate(Hinted(svc, ea, i, supp), "HINTS_APPLIED", {ea})
  PROVE  /\ Reads(t, Source, f) = Reads(svc, Source, f)
         /\ t.hintInf[f] = svc.hintInf[f] /\ t.hintSupp[f] = svc.hintSupp[f]
<1> DEFINE new == i # None \/ supp # {}
           h   == Hinted(svc, ea, i, supp)
<1>1. svc \in Services /\ Wrapped(svc) /\ svc.provider # "none" /\ Source \in SourceTypes
  BY SourceTyped DEF TypeOK, Sound
<1>2. svc.provider \in {"manager", "hint"} /\ svc.hintOn \in BOOLEAN
  BY <1>1 DEF Services
<1>3. /\ h \in Services
      /\ h.compiled = svc.compiled /\ h.inference = svc.inference
      /\ h.hintInf = [svc.hintInf EXCEPT ![ea] = i]
      /\ h.hintSupp = [svc.hintSupp EXCEPT ![ea] = supp]
      /\ svc.hintOn \/ ~new => /\ h.provider = svc.provider
                               /\ h.delegate = svc.delegate
      /\ ~svc.hintOn /\ new => /\ h.provider = "hint"
                               /\ svc.provider = "manager" => h.delegate = "manager"
  BY <1>1, HintedFields
<1>4. h.hintInf[f] = svc.hintInf[f] /\ h.hintSupp[f] = svc.hintSupp[f]
  BY <1>1, <1>3 DEF Services
<1>5. /\ t.compiled = h.compiled /\ t.inference = h.inference /\ KeepsHints(h, t)
  <2> HIDE DEF h
  <2>1. t = InvalidateFunctions(h, {ea})
    BY DEF Invalidate, PartialReasons, h
  <2>2. h \in Services
    BY <1>3
  <2>3. QED
    BY <2>1, <2>2, InvalidateFunctionsFields
<1>6. /\ t.compiled = svc.compiled
      /\ t.hintInf[f] = svc.hintInf[f] /\ t.hintSupp[f] = svc.hintSupp[f]
      /\ EffectiveInference(t, f) = EffectiveInference(svc, f)
  <2> HIDE DEF h
  <2> QED BY <1>3, <1>4, <1>5 DEF KeepsHints, EffectiveInference
<1>7. CallProvider(t, Source, f) = CallProvider(svc, Source, f)
  <2> HIDE DEF h
  <2>1. CASE svc.hintOn \/ ~new
    <3>1. t.provider = svc.provider /\ t.delegate = svc.delegate
      BY <1>3, <1>5, <2>1 DEF KeepsHints
    <3>2. QED
      BY <1>6, <3>1, SameProvider
  <2>2. CASE ~svc.hintOn /\ new
    <3>1. svc.provider = "manager" /\ svc.hintSupp[f] = {}
      BY <1>1, <1>2, <2>2 DEF Wrapped
    <3>2. t.provider = "hint" /\ t.delegate = "manager" /\ t.hintSupp[f] = {}
      BY <1>3, <1>5, <1>6, <2>2, <3>1 DEF KeepsHints
    <3>3. Source[f] \in Overlays \cup {None}
      BY <1>1 DEF SourceTypes
    <3>4. Source[f] # None => [Source[f] EXCEPT !.disabled = @ \cup {}] = Source[f]
      BY <3>3 DEF Overlays
    <3>5. CallProvider(t, Source, f) = Source[f]
      BY <3>2, <3>4 DEF CallProvider, HintOverlay, DelegateOverlay
    <3>6. CallProvider(svc, Source, f) = Source[f]
      BY <3>1 DEF CallProvider
    <3>7. QED
      BY <3>5, <3>6
  <2>3. QED
    BY <1>2, <2>1, <2>2
<1>8. QED
  BY <1>6, <1>7 DEF Reads

(* Giving hints either changes nothing or invalidates the function.            *)
LEMMA GivingHints ==
  ASSUME TypeOK, NEW h \in HintSet
  PROVE  LET i == HintInference(svc, h)
             t == Hinted(svc, h.ea, i, h.suppress)
         IN \/ ApplyHints(svc, h) = Invalidate(t, "HINTS_APPLIED", {h.ea})
            \/ /\ ApplyHints(svc, h).gen = svc.gen
               /\ ApplyHints(svc, h).compiled = svc.compiled
               /\ ApplyHints(svc, h).inference = svc.inference
               /\ KeepsHints(svc, ApplyHints(svc, h))
<1> DEFINE had == svc.hintInf[h.ea] # None \/ svc.hintSupp[h.ea] # {}
           i   == HintInference(svc, h)
           new == i # None \/ h.suppress # {}
           t   == Hinted(svc, h.ea, i, h.suppress)
<1>1. h.ea \in Funcs /\ h.suppress \in SUBSET Rules
  BY DEF HintSet
<1>2. svc \in Services
  BY DEF TypeOK
<1>3. i \in Inferences \cup {None}
  BY <1>2, HintInferenceTyped
<1>4. ApplyHints(svc, h) = IF new \/ had THEN Invalidate(t, "HINTS_APPLIED", {h.ea}) ELSE t
  BY DEF ApplyHints
<1>5. CASE ~new /\ ~had
  <2>1. /\ t.gen = svc.gen /\ t.compiled = svc.compiled /\ t.inference = svc.inference
        /\ t.hintInf = [svc.hintInf EXCEPT ![h.ea] = i]
        /\ t.hintSupp = [svc.hintSupp EXCEPT ![h.ea] = h.suppress]
        /\ ~new => /\ t.provider = svc.provider /\ t.delegate = svc.delegate
                   /\ t.hintOn = svc.hintOn
    <3> HIDE DEF i
    <3> QED BY <1>1, <1>2, <1>3, HintedFields
  <2>2. [svc.hintInf EXCEPT ![h.ea] = None] = svc.hintInf
        /\ [svc.hintSupp EXCEPT ![h.ea] = {}] = svc.hintSupp
    BY <1>2, <1>5 DEF Services
  <2>3. KeepsHints(svc, t)
    <3> HIDE DEF t, i
    <3> QED BY <1>5, <2>1, <2>2 DEF KeepsHints
  <2>4. QED
    <3> HIDE DEF t, i, new, had
    <3> QED BY <1>4, <1>5, <2>1, <2>3
<1>6. QED
  BY <1>4, <1>5

(* Clearing hints does nothing before there is a hint provider.                *)
LEMMA ClearingHints ==
  ASSUME TypeOK, NEW ea \in Funcs
  PROVE  \/ ClearHintState(svc, ea) = svc
         \/ ClearHintState(svc, ea)
              = Invalidate(Hinted(svc, ea, None, {}), "HINTS_APPLIED", {ea})
<1>1. svc \in Services
  BY DEF TypeOK
<1>2. Hinted(svc, ea, None, {}) = ClearFunc(svc, ea)
  BY <1>1 DEF Hinted, ClearFunc, Services
<1>3. QED
  BY <1>2 DEF ClearHintState

(* start_d810 leaves the hint state of the service as it is.                   *)
LEMMA StartKeepsHintState ==
  ASSUME TypeOK, Sound, StartD810
  PROVE  svc'.hintInf = svc.hintInf /\ svc'.hintSupp = svc.hintSupp
<1> DEFINE attached     == [svc EXCEPT !.attached = TRUE]
           opened(ok)   == OpenStorage(attached, ok, ~svc.attached)
           provided(ok) == SetOverlayProvider(opened(ok), "manager")
           inferred(ok) == SetActiveInference(provided(ok), LoadedInference(ok))
           table        == CompiledTable(Activated[project], conf)
<1>1. PICK ok \in BOOLEAN : svc' = CompileBaseRules(inferred(ok), table)
  BY DEF StartD810
<1>2. attached \in Services /\ KeepsHints(svc, attached) /\ Dated(attached)
  BY DEF TypeOK, Services, KeepsHints, Sound, Dated
<1>3. opened(ok) \in Services /\ KeepsHints(svc, opened(ok))
  <2>1. svc.attached \in BOOLEAN
    BY DEF TypeOK, Services
  <2>2. opened(ok) \in Services /\ KeepsHints(attached, opened(ok))
    <3> HIDE DEF attached
    <3> QED BY <1>2, <2>1, OpenStorageTyped, OpenStorageEffect
  <2>3. QED
    BY <1>2, <2>2 DEF KeepsHints
<1>4. /\ provided(ok) \in Services
      /\ provided(ok).hintInf = svc.hintInf /\ provided(ok).hintSupp = svc.hintSupp
  <2> HIDE DEF opened
  <2> QED BY <1>3, SettersTyped, SettersEffect DEF KeepsHints
<1>5. LoadedInference(ok) \in Inferences \cup {None}
  BY DEF LoadedInference, TypeOK
<1>6. inferred(ok) \in Services /\ KeepsHints(provided(ok), inferred(ok))
  <2> HIDE DEF provided
  <2> QED BY <1>4, <1>5, SettersTyped, SettersEffect
<1>7. KeepsHints(inferred(ok), svc')
  <2> HIDE DEF inferred
  <2> QED BY <1>1, <1>6, SettersEffect
<1>8. QED
  <2> HIDE DEF inferred, provided
  <2> QED BY <1>4, <1>6, <1>7 DEF KeepsHints

(* The calls of the user interface leave it alone too.                         *)
LEMMA EnsuredKeepsHints ==
  ASSUME TypeOK, Sound, NEW ok \in BOOLEAN, handle => ok
  PROVE  Ensured(ok) \in Services /\ KeepsHints(svc, Ensured(ok))
<1>1. CASE handle
  BY <1>1 DEF Ensured, KeepsHints, TypeOK
<1>2. CASE ~handle
  BY <1>2, EnsuredEffect
<1>3. QED
  BY <1>1, <1>2

LEMMA EmitKeepsHints ==
  ASSUME NEW s \in Services, NEW reason, NEW eas
  PROVE  KeepsHints(s, Emit(s, reason, eas))
<1>1. KeepsHints(s, Invalidate(s, reason, eas))
  BY InvalidateAllFields, InvalidateFunctionsFields DEF Invalidate
<1>2. KeepsHints(s, s)
  BY DEF KeepsHints
<1>3. QED
  BY <1>1, <1>2 DEF Emit

LEMMA LoadProjectKeepsHints ==
  ASSUME TypeOK, NEW p \in Projects, LoadProject(p)
  PROVE  KeepsHints(svc, svc')
<1> DEFINE told  == Emit(svc, "PROJECT_RULES_RELOADED", {})
           table == CompiledTable(lists, conf')
<1>1. told \in Services /\ KeepsHints(svc, told)
  BY EmitTyped, EmitKeepsHints DEF TypeOK
<1>2. svc' \in {told, CompileBaseRules(told, table)}
  BY DEF LoadProject
<1>3. KeepsHints(told, CompileBaseRules(told, table))
  <2> HIDE DEF told, table
  <2> QED BY <1>1, SettersEffect
<1>4. QED
  <2> HIDE DEF told
  <2> QED BY <1>1, <1>2, <1>3 DEF KeepsHints

LEMMA WriteOverrideKeepsHints ==
  ASSUME TypeOK, Sound, NEW ea \in Funcs, NEW reason, NEW row,
         WriteOverride(ea, reason, row)
  PROVE  KeepsHints(svc, svc')
<1>1. PICK ok \in BOOLEAN, raises \in {FALSE, WriteFaults} :
        /\ EnsureStorage(ok)
        /\ svc' = IF ok /\ ~raises THEN Emit(Ensured(ok), reason, {ea}) ELSE Ensured(ok)
  BY DEF WriteOverride
<1> DEFINE e == Ensured(ok)
<1>2. e \in Services /\ KeepsHints(svc, e)
  BY <1>1, EnsuredKeepsHints DEF EnsureStorage
<1>3. svc' \in {e, Emit(e, reason, {ea})}
  BY <1>1
<1>4. QED
  <2> HIDE DEF e
  <2> QED BY <1>2, <1>3, EmitKeepsHints DEF KeepsHints

LEMMA SetInferenceKeepsHints ==
  ASSUME TypeOK, Sound, NEW i \in Inferences \cup {None}, SetActiveRuleInference(i)
  PROVE  KeepsHints(svc, svc')
<1>1. PICK ok \in BOOLEAN :
        /\ handle => ok
        /\ svc' \in {SetActiveInference(Ensured(ok), i),
                     Emit(SetActiveInference(Ensured(ok), i), "INFERENCE_APPLIED", {})}
  BY DEF SetActiveRuleInference
<1> DEFINE e == Ensured(ok)
           a == SetActiveInference(e, i)
<1>2. e \in Services /\ KeepsHints(svc, e)
  BY <1>1, EnsuredKeepsHints
<1>3. a \in Services /\ KeepsHints(e, a)
  <2> HIDE DEF e
  <2> QED BY <1>2, SettersTyped, SettersEffect
<1>4. svc' \in {a, Emit(a, "INFERENCE_APPLIED", {})}
  BY <1>1
<1>5. QED
  <2> HIDE DEF a, e
  <2> QED BY <1>2, <1>3, <1>4, EmitKeepsHints DEF KeepsHints

LEMMA GetKeepsReads ==
  ASSUME TypeOK, Sound, NEW ea \in Funcs, NEW pipeline \in Pipelines,
         NEW m \in Maturities, HookGetActiveRules(ea, pipeline, m)
  PROVE  /\ svc'.gen = svc.gen /\ svc'.compiled = svc.compiled
         /\ svc'.inference = svc.inference /\ KeepsHints(svc, svc')
<1> DEFINE k == ScopeKey(ea, pipeline)
           t == AfterGet(svc, Source, k, m)
<1>1. started /\ svc' = t
  BY DEF HookGetActiveRules
<1>2. svc \in Services /\ k \in Scopes /\ svc.provider # "none"
  BY <1>1 DEF ScopeKey, Scopes, TypeOK, Sound
<1>3. CASE svc.compiled = None \/ IsCached(svc, k, m)
  BY <1>1, <1>3 DEF AfterGet, KeepsHints
<1>4. CASE svc.compiled # None /\ ~IsCached(svc, k, m)
  <2>1. /\ t.gen = svc.gen /\ t.compiled = svc.compiled
        /\ t.inference = svc.inference /\ KeepsHints(svc, t)
        /\ t.overlays = [svc.overlays EXCEPT ![k.ea] = GetOverlay(svc, Source, k.ea)]
        /\ t.bundles = [svc.bundles EXCEPT ![k] = BundleAfter(svc, Source, k, m)]
    <3> HIDE DEF k
    <3> QED BY <1>2, <1>4, AfterGetFields
  <2>2. QED
    <3> HIDE DEF t
    <3> QED BY <1>1, <2>1
<1>5. QED
  BY <1>3, <1>4

(* A step that leaves the hint fields alone changes the hints of no function.  *)
LEMMA HintsUntouched ==
  ASSUME svc'.hintInf = svc.hintInf, svc'.hintSupp = svc.hintSupp
  PROVE  HintsStayLocalStep
  BY DEF HintsStayLocalStep, HintsOf

(* A step that replaces the hints of ea and invalidates them.                  *)
LEMMA HintsReplacedLocally ==
  ASSUME TypeOK, Sound, Sound', started, started', NEW ea \in Funcs,
         NEW i \in Inferences \cup {None}, NEW supp \in SUBSET Rules,
         svc' = Invalidate(Hinted(svc, ea, i, supp), "HINTS_APPLIED", {ea}),
         UNCHANGED <<handle, overrides>>, unannounced' \subseteq unannounced
  PROVE  HintsStayLocalStep
<1>1. ASSUME NEW f \in Funcs, HintsOf(f)' # HintsOf(f) PROVE f = ea
  <2>1. f # ea => svc'.hintInf[f] = svc.hintInf[f] /\ svc'.hintSupp[f] = svc.hintSupp[f]
    BY OthersReadTheSame
  <2>2. QED
    BY <1>1, <2>1 DEF HintsOf
<1>2. ASSUME NEW k \in Scopes, k.ea \in Funcs \ ({ea} \cup unannounced),
             NEW m \in Maturities
      PROVE  Served(k, m)' = Served(k, m)
  <2>1. Reads(svc', Source, k.ea) = Reads(svc, Source, k.ea)
    BY <1>2, OthersReadTheSame
  <2>2. Source' = Source
    BY DEF Source, StoredOverlay
  <2>3. Reads(svc, Source, k.ea)' = Reads(svc, Source, k.ea)
    BY <2>1, <2>2 DEF Reads, CallProvider, HintOverlay, DelegateOverlay, EffectiveInference
  <2>4. QED
    BY <1>2, <2>3, SameServed
<1>3. QED
  BY <1>1, <1>2 DEF HintsStayLocalStep, ScopesOf

LEMMA NextHintsStayLocal ==
  TypeOK /\ Sound /\ Sound' /\ [Next]_vars => HintsStayLocalStep
<1> SUFFICES ASSUME TypeOK, Sound, Sound', [Next]_vars PROVE HintsStayLocalStep
  OBVIOUS
<1>1. CASE StartD810
  BY <1>1, StartKeepsHintState, HintsUntouched
<1>2. CASE StopD810
  BY <1>2, HintsUntouched DEF StopD810
<1>3. ASSUME NEW p \in Projects, ReloadPlugin(p) PROVE HintsStayLocalStep
  BY <1>3 DEF ReloadPlugin, HintsStayLocalStep
<1>4. ASSUME NEW p \in Projects, LoadProject(p) PROVE HintsStayLocalStep
  BY <1>4, LoadProjectKeepsHints, HintsUntouched DEF KeepsHints
<1>5. ASSUME NEW ea \in Funcs, NEW o \in OverrideChoices,
             SetFunctionRuleOverride(ea, o[1], o[2])
      PROVE  HintsStayLocalStep
  BY <1>5, WriteOverrideKeepsHints, HintsUntouched DEF SetFunctionRuleOverride, KeepsHints
<1>6. ASSUME NEW ea \in Funcs, NEW tags \in SUBSET Tags, SetFunctionTags(ea, tags)
      PROVE  HintsStayLocalStep
  BY <1>6, WriteOverrideKeepsHints, HintsUntouched DEF SetFunctionTags, KeepsHints
<1>7. ASSUME NEW i \in InferenceChoices \cup {None}, SetActiveRuleInference(i)
      PROVE  HintsStayLocalStep
  BY <1>7, SetInferenceKeepsHints, HintsUntouched, LifecycleAssumption DEF KeepsHints
<1>8. ASSUME NEW h \in HintChoices, HookApplyHints(h) PROVE HintsStayLocalStep
  <2> DEFINE i == HintInference(svc, h)
  <2>1. /\ started /\ started' /\ svc' = ApplyHints(svc, h)
        /\ unannounced' \subseteq unannounced /\ UNCHANGED <<handle, overrides>>
    BY <1>8 DEF HookApplyHints, sources
  <2>2. h \in HintSet /\ h.ea \in Funcs /\ h.suppress \in SUBSET Rules
    BY LifecycleAssumption DEF HintSet
  <2>3. i \in Inferences \cup {None}
    BY <2>2, HintInferenceTyped DEF TypeOK
  <2>4. CASE svc' = Invalidate(Hinted(svc, h.ea, i, h.suppress), "HINTS_APPLIED", {h.ea})
    <3> HIDE DEF i
    <3> QED BY <2>1, <2>2, <2>3, <2>4, HintsReplacedLocally
  <2>5. CASE KeepsHints(svc, svc')
    BY <2>5, HintsUntouched DEF KeepsHints
  <2>6. QED
    BY <2>1, <2>2, <2>4, <2>5, GivingHints
<1>9. ASSUME NEW ea \in Funcs, HookClearHintState(ea) PROVE HintsStayLocalStep
  <2>1. /\ started /\ started' /\ svc' = ClearHintState(svc, ea)
        /\ unannounced' \subseteq unannounced /\ UNCHANGED <<handle, overrides>>
    BY <1>9 DEF HookClearHintState, sources
  <2>2. CASE svc' = svc
    BY <2>2, HintsUntouched
  <2>3. CASE svc' = Invalidate(Hinted(svc, ea, None, {}), "HINTS_APPLIED", {ea})
    BY <2>1, <2>3, HintsReplacedLocally
  <2>4. QED
    BY <2>1, <2>2, <2>3, ClearingHints
<1>10. ASSUME NEW ea \in Funcs, NEW pipeline \in Pipelines, NEW m \in Maturities,
              HookGetActiveRules(ea, pipeline, m)
       PROVE  HintsStayLocalStep
  BY <1>10, GetKeepsReads, HintsUntouched DEF KeepsHints
<1>11. CASE UNCHANGED vars
  BY <1>11, HintsUntouched DEF vars
<1>12. QED
  BY <1>1, <1>2, <1>3, <1>4, <1>5, <1>6, <1>7, <1>8, <1>9, <1>10, <1>11 DEF Next

(* Hints given or retracted for one function (apply_hints, clear_hint_state)   *)
(* change what no other function is served, though the first ones replace the  *)
(* overlay provider all functions are answered by.                             *)
THEOREM HintsStayLocalAlways == Spec => HintsStayLocal
<1>1. Spec => [](TypeOK /\ Sound)
  BY ConsistentAlways, ConsistentIsSound, PTL
<1>2. TypeOK /\ Sound /\ Sound' /\ [Next]_vars => HintsStayLocalStep
  BY NextHintsStayLocal
<1>3. QED
  BY <1>1, <1>2, PTL DEF Spec, HintsStayLocal

-------------------------------------------------------------------------------
(* The generation.  Every invalidation moves it, no method detaches a service, *)
(* and a service that was attached once is not subscribed again by a start.    *)

Later(s, t) == t.attached = s.attached /\ t.gen \in Nat /\ t.gen > s.gen
Level(s, t) == t.attached = s.attached /\ t.gen = s.gen

LEMMA InvalidateIsLater ==
  ASSUME NEW s \in Services, NEW reason, NEW eas
  PROVE  Later(s, Invalidate(s, reason, eas))
<1>1. s.gen \in Nat /\ s.gen + 1 \in Nat /\ s.gen + 1 > s.gen
  BY DEF Services
<1>2. InvalidateAll(s).gen = s.gen + 1 /\ InvalidateAll(s).attached = s.attached
  <2>1. InvalidateAll(s).attached = s.attached
    BY DEF InvalidateAll, Services
  <2>2. QED
    BY <2>1, InvalidateAllFields
<1>3. /\ InvalidateFunctions(s, eas).gen = s.gen + 1
      /\ InvalidateFunctions(s, eas).attached = s.attached
  <2>1. InvalidateFunctions(s, eas).attached = s.attached
    BY DEF InvalidateFunctions, Services
  <2>2. QED
    BY <2>1, InvalidateFunctionsFields
<1>4. QED
  BY <1>1, <1>2, <1>3 DEF Invalidate, Later

LEMMA SettersAreLevel ==
  ASSUME NEW s \in Services, NEW i, NEW c, NEW p
  PROVE  /\ Level(s, SetActiveInference(s, i))
         /\ Level(s, CompileBaseRules(s, c))
         /\ Level(s, SetOverlayProvider(s, p))
  BY DEF Level, SetActiveInference, CompileBaseRules, SetOverlayProvider, Services

LEMMA HintedIsLevel ==
  ASSUME NEW s \in Services, NEW ea \in Funcs,
         NEW i \in Inferences \cup {None}, NEW supp \in SUBSET Rules
  PROVE  Level(s, Hinted(s, ea, i, supp))
<1> DEFINE c == ClearFunc(s, ea)
           w == IF i # None \/ supp # {} THEN WrapProvider(c) ELSE c
<1>1. c \in Services /\ Level(s, c)
  BY ClearFuncTyped DEF ClearFunc, Services, Level
<1>2. w \in Services /\ Level(c, w)
  <2> HIDE DEF c
  <2>1. WrapProvider(c) \in Services
    BY <1>1, WrapProviderTyped
  <2>2. Level(c, WrapProvider(c))
    BY <1>1 DEF WrapProvider, Services, Level
  <2>3. QED
    BY <1>1, <2>1, <2>2 DEF Level
<1>3. Level(w, [w EXCEPT !.hintInf[ea] = i, !.hintSupp[ea] = supp])
  <2> HIDE DEF w
  <2> QED BY <1>2 DEF Services, Level
<1>4. QED
  <2>1. Hinted(s, ea, i, supp) = [w EXCEPT !.hintInf[ea] = i, !.hintSupp[ea] = supp]
    BY DEF Hinted
  <2> HIDE DEF w, c
  <2>2. QED
    BY <1>1, <1>2, <1>3, <2>1 DEF Level

LEMMA EmitIsLater ==
  ASSUME NEW s \in Services, NEW reason, NEW eas
  PROVE  /\ subscribed => Later(s, Emit(s, reason, eas))
         /\ ~subscribed => Level(s, Emit(s, reason, eas))
  BY InvalidateIsLater DEF Emit, Level

LEMMA OpenStorageIsLater ==
  ASSUME TypeOK, NEW s \in Services, NEW ok \in BOOLEAN, NEW listening \in BOOLEAN
  PROVE  /\ listening => Later(s, OpenStorage(s, ok, listening))
         /\ ~listening => Level(s, OpenStorage(s, ok, listening))
<1> DEFINE loaded  == SetActiveInference(s, persisted)
           told    == Invalidate(loaded, "INFERENCE_APPLIED", {})
           Tell(t) == Invalidate(t, "IDB_OVERLAY_RELOADED", {})
<1>1. loaded \in Services /\ Level(s, loaded)
  BY SettersTyped, SettersAreLevel DEF TypeOK
<1>2. told \in Services /\ Later(loaded, told)
  <2> HIDE DEF loaded
  <2> QED BY <1>1, InvalidateTyped, InvalidateIsLater
<1>3. Later(s, Tell(s)) /\ Later(loaded, Tell(loaded)) /\ Later(told, Tell(told))
  <2> HIDE DEF loaded, told
  <2> QED BY <1>1, <1>2, InvalidateIsLater
<1>4. s.gen \in Nat
  BY DEF Services
<1>5. Later(s, Tell(loaded)) /\ Later(s, Tell(told)) /\ Level(s, s)
  <2> HIDE DEF loaded, told, Tell
  <2> QED BY <1>1, <1>2, <1>3, <1>4 DEF Later, Level
<1>6. /\ listening => OpenStorage(s, ok, listening) \in {Tell(s), Tell(loaded), Tell(told)}
      /\ ~listening => OpenStorage(s, ok, listening) \in {s, loaded}
  BY DEF OpenStorage
<1>7. QED
  <2> HIDE DEF loaded, told, Tell
  <2> QED BY <1>1, <1>3, <1>5, <1>6

LEMMA EnsuredIsLater ==
  ASSUME TypeOK, NEW ok \in BOOLEAN
  PROVE  /\ Ensured(ok) \in Services
         /\ ~handle /\ subscribed => Later(svc, Ensured(ok))
         /\ handle \/ ~subscribed => Level(svc, Ensured(ok))
<1>1. svc \in Services /\ subscribed \in BOOLEAN
  BY DEF TypeOK
<1>2. CASE handle
  BY <1>1, <1>2 DEF Ensured, Level
<1>3. CASE ~handle
  BY <1>1, <1>3, OpenStorageIsLater, EnsuredTyped DEF Ensured
<1>4. QED
  BY <1>2, <1>3

(* Only a start subscribes the service, and only one that was never attached.  *)
Attached == subscribed => started /\ svc.attached

LEMMA StartAttaches ==
  ASSUME TypeOK, StartD810
  PROVE  svc'.attached /\ started' /\ subscribed' = ~svc.attached
<1> DEFINE attached     == [svc EXCEPT !.attached = TRUE]
           opened(ok)   == OpenStorage(attached, ok, ~svc.attached)
           provided(ok) == SetOverlayProvider(opened(ok), "manager")
           inferred(ok) == SetActiveInference(provided(ok), LoadedInference(ok))
           table        == CompiledTable(Activated[project], conf)
<1>1. PICK ok \in BOOLEAN : svc' = CompileBaseRules(inferred(ok), table)
  BY DEF StartD810
<1>2. attached \in Services /\ attached.attached
  BY DEF TypeOK, Services
<1>3. opened(ok) \in Services /\ opened(ok).attached
  <2>1. svc.attached \in BOOLEAN
    BY DEF TypeOK, Services
  <2>2. opened(ok) \in Services
    <3> HIDE DEF attached
    <3> QED BY <1>2, <2>1, OpenStorageTyped
  <2>3. opened(ok).attached = attached.attached
    <3> HIDE DEF attached
    <3> QED BY <1>2, <2>1, OpenStorageIsLater DEF Later, Level
  <2>4. QED
    BY <1>2, <2>2, <2>3
<1>4. provided(ok) \in Services /\ provided(ok).attached
  <2> HIDE DEF opened
  <2> QED BY <1>3, SettersTyped, SettersAreLevel DEF Level
<1>5. LoadedInference(ok) \in Inferences \cup {None}
  BY DEF LoadedInference, TypeOK
<1>6. inferred(ok) \in Services /\ inferred(ok).attached
  <2> HIDE DEF provided
  <2> QED BY <1>4, <1>5, SettersTyped, SettersAreLevel DEF Level
<1>7. svc'.attached
  <2> HIDE DEF inferred
  <2> QED BY <1>1, <1>6, SettersAreLevel DEF Level
<1>8. QED
  BY <1>7 DEF StartD810

(* The steps of the manager and the user interface: the generation moves if    *)
(* the service is subscribed, but for an override written that is not told.    *)
LEMMA LoadProjectIsLater ==
  ASSUME TypeOK, NEW p \in Projects, LoadProject(p)
  PROVE  /\ svc'.attached = svc.attached
         /\ subscribed => svc'.gen # svc.gen
<1> DEFINE told  == Emit(svc, "PROJECT_RULES_RELOADED", {})
           table == CompiledTable(lists, conf')
<1>1. /\ svc \in Services /\ svc.gen \in Nat /\ told \in Services
      /\ subscribed \in BOOLEAN
  BY EmitTyped DEF TypeOK, Services
<1>2. /\ told.attached = svc.attached
      /\ subscribed => told.gen # svc.gen
  <2>1. /\ subscribed => Later(svc, told)
        /\ ~subscribed => Level(svc, told)
    BY <1>1, EmitIsLater
  <2>2. QED
    <3> HIDE DEF told
    <3> QED BY <1>1, <2>1 DEF Later, Level
<1>3. svc' \in {told, CompileBaseRules(told, table)}
  BY DEF LoadProject
<1>4. Level(told, CompileBaseRules(told, table))
  <2> HIDE DEF told, table
  <2> QED BY <1>1, SettersAreLevel
<1>5. QED
  <2> HIDE DEF told
  <2> QED BY <1>2, <1>3, <1>4 DEF Level

LEMMA WriteOverrideIsLater ==
  ASSUME TypeOK, NEW ea \in Funcs, NEW reason, NEW row, WriteOverride(ea, reason, row)
  PROVE  /\ svc'.attached = svc.attached
         /\ subscribed /\ svc'.gen = svc.gen =>
              /\ svc' = svc /\ unannounced' = unannounced \cup {ea}
              /\ \A f \in Funcs \ {ea} : Source'[f] = Source[f]
<1>1. PICK ok \in BOOLEAN, raises \in {FALSE, WriteFaults} :
        /\ EnsureStorage(ok)
        /\ overrides' = IF ok THEN [overrides EXCEPT ![ea] = row] ELSE overrides
        /\ svc' = IF ok /\ ~raises THEN Emit(Ensured(ok), reason, {ea}) ELSE Ensured(ok)
        /\ unannounced' = IF ~ok THEN EnsuredHistory
                          ELSE IF raises \/ ~subscribed THEN EnsuredHistory \cup {ea}
                          ELSE EnsuredHistory \ {ea}
  BY DEF WriteOverride
<1> DEFINE e == Ensured(ok)
<1>2. (handle => ok) /\ handle' = ok /\ subscribed \in BOOLEAN /\ svc.gen \in Nat
  BY <1>1 DEF EnsureStorage, TypeOK, Services
<1>3. /\ e \in Services
      /\ ~handle /\ subscribed => Later(svc, e)
      /\ handle \/ ~subscribed => Level(svc, e)
  BY EnsuredIsLater
<1>4. svc' = e \/ svc' = Emit(e, reason, {ea})
  BY <1>1
<1>5. /\ subscribed => Later(e, Emit(e, reason, {ea}))
      /\ ~subscribed => Level(e, Emit(e, reason, {ea}))
  <2> HIDE DEF e
  <2> QED BY <1>3, EmitIsLater
<1>6. /\ svc'.attached = svc.attached
      /\ subscribed /\ svc'.gen = svc.gen => handle /\ svc' = e
  <2> HIDE DEF e
  <2> QED BY <1>2, <1>3, <1>4, <1>5 DEF Later, Level
<1>7. ASSUME subscribed, svc'.gen = svc.gen
      PROVE  /\ svc' = svc /\ unannounced' = unannounced \cup {ea}
             /\ \A f \in Funcs \ {ea} : Source'[f] = Source[f]
  <2>1. handle /\ svc' = e
    BY <1>6, <1>7
  <2>2. e = svc /\ EnsuredHistory = unannounced /\ ok
    BY <1>2, <2>1 DEF Ensured, EnsuredHistory
  <2>3. raises
    <3>1. SUFFICES ASSUME ~raises PROVE FALSE
      OBVIOUS
    <3>2. svc' = Emit(e, reason, {ea}) /\ Later(e, Emit(e, reason, {ea}))
      BY <1>1, <1>5, <1>7, <2>2, <3>1
    <3>3. QED
      <4> HIDE DEF e
      <4> QED BY <1>2, <1>7, <2>2, <3>2 DEF Later
  <2>4. \A f \in Funcs \ {ea} : Source'[f] = Source[f]
    BY <1>1, <1>2, <2>1, <2>2 DEF Source, StoredOverlay, TypeOK
  <2>5. QED
    BY <1>1, <2>1, <2>2, <2>3, <2>4
<1>8. QED
  BY <1>6, <1>7

LEMMA SetInferenceIsLater ==
  ASSUME TypeOK, NEW i \in Inferences \cup {None}, SetActiveRuleInference(i)
  PROVE  /\ svc'.attached = svc.attached
         /\ subscribed /\ svc'.gen = svc.gen => unannounced' = Funcs
<1>1. PICK ok \in BOOLEAN, raises \in {FALSE, WriteFaults} :
        /\ handle => ok
        /\ svc' = IF ok /\ raises THEN SetActiveInference(Ensured(ok), i)
                  ELSE Emit(SetActiveInference(Ensured(ok), i), "INFERENCE_APPLIED", {})
        /\ unannounced' = IF (ok /\ raises) \/ ~subscribed THEN Funcs ELSE {}
  BY DEF SetActiveRuleInference
<1> DEFINE e == Ensured(ok)
           a == SetActiveInference(e, i)
<1>2. subscribed \in BOOLEAN /\ svc.gen \in Nat
  BY DEF TypeOK, Services
<1>3. /\ e \in Services
      /\ ~handle /\ subscribed => Later(svc, e)
      /\ handle \/ ~subscribed => Level(svc, e)
  BY EnsuredIsLater
<1>4. a \in Services /\ Level(e, a)
  <2> HIDE DEF e
  <2> QED BY <1>3, SettersTyped, SettersAreLevel
<1>5. /\ subscribed => Later(a, Emit(a, "INFERENCE_APPLIED", {}))
      /\ ~subscribed => Level(a, Emit(a, "INFERENCE_APPLIED", {}))
  <2> HIDE DEF a
  <2> QED BY <1>4, EmitIsLater
<1>6. svc' = a \/ svc' = Emit(a, "INFERENCE_APPLIED", {})
  BY <1>1
<1>7. subscribed /\ svc' = Emit(a, "INFERENCE_APPLIED", {}) => svc'.gen # svc.gen
  <2> HIDE DEF a, e
  <2> QED BY <1>2, <1>3, <1>4, <1>5 DEF Later, Level
<1>8. svc'.attached = svc.attached
  <2> HIDE DEF a, e
  <2> QED BY <1>2, <1>3, <1>4, <1>5, <1>6 DEF Later, Level
<1>9. QED
  BY <1>1, <1>7, <1>8

LEMMA HintedInvalidatedIsLater ==
  ASSUME NEW s \in Services, NEW ea \in Funcs,
         NEW i \in Inferences \cup {None}, NEW supp \in SUBSET Rules
  PROVE  Later(s, Invalidate(Hinted(s, ea, i, supp), "HINTS_APPLIED", {ea}))
<1> DEFINE h == Hinted(s, ea, i, supp)
<1>1. h \in Services /\ Level(s, h)
  BY HintedTyped, HintedIsLevel
<1>2. Later(h, Invalidate(h, "HINTS_APPLIED", {ea}))
  <2> HIDE DEF h
  <2> QED BY <1>1, InvalidateIsLater
<1>3. QED
  <2> HIDE DEF h
  <2>1. Later(s, Invalidate(h, "HINTS_APPLIED", {ea}))
    BY <1>1, <1>2 DEF Later, Level
  <2>2. QED
    BY <2>1 DEF h

LEMMA ApplyHintsIsLater ==
  ASSUME TypeOK, NEW h \in HintSet, svc' = ApplyHints(svc, h)
  PROVE  /\ svc'.attached = svc.attached
         /\ svc'.gen = svc.gen => /\ svc'.compiled = svc.compiled
                                  /\ svc'.inference = svc.inference
                                  /\ KeepsHints(svc, svc')
<1> DEFINE i == HintInference(svc, h)
           t == Hinted(svc, h.ea, i, h.suppress)
           u == Invalidate(t, "HINTS_APPLIED", {h.ea})
<1>1. svc \in Services /\ h.ea \in Funcs /\ h.suppress \in SUBSET Rules /\ svc.gen \in Nat
  BY DEF TypeOK, HintSet, Services
<1>2. i \in Inferences \cup {None}
  BY <1>1, HintInferenceTyped
<1>3. Later(svc, u) /\ Level(svc, t)
  <2> HIDE DEF i
  <2> QED BY <1>1, <1>2, HintedInvalidatedIsLater, HintedIsLevel
<1>4. svc' \in {t, u}
  BY DEF ApplyHints
<1>5. svc'.gen = svc.gen => svc' # u
  <2> HIDE DEF t, u, i
  <2> QED BY <1>1, <1>3 DEF Later
<1>6. svc'.attached = svc.attached
  <2> HIDE DEF t, u, i
  <2> QED BY <1>3, <1>4 DEF Later, Level
<1>7. QED
  BY <1>5, <1>6, GivingHints

LEMMA ClearHintsIsLater ==
  ASSUME TypeOK, NEW ea \in Funcs, svc' = ClearHintState(svc, ea)
  PROVE  /\ svc'.attached = svc.attached
         /\ svc'.gen = svc.gen => svc' = svc
<1> DEFINE u == Invalidate(Hinted(svc, ea, None, {}), "HINTS_APPLIED", {ea})
<1>1. svc \in Services /\ svc.gen \in Nat
  BY DEF TypeOK, Services
<1>2. Later(svc, u)
  BY <1>1, HintedInvalidatedIsLater
<1>3. svc' = svc \/ svc' = u
  BY ClearingHints
<1>4. QED
  <2> HIDE DEF u
  <2> QED BY <1>1, <1>2, <1>3 DEF Later

LEMMA GetIsLevel ==
  ASSUME NEW s \in Services, NEW src, NEW k, NEW m
  PROVE  AfterGet(s, src, k, m).attached = s.attached
  BY DEF AfterGet, Services

LEMMA InitAttached == Init => Attached
  BY DEF Init, Attached

LEMMA NextAttached == TypeOK /\ Attached /\ [Next]_vars => Attached'
<1> SUFFICES ASSUME TypeOK, Attached, [Next]_vars PROVE Attached'
  OBVIOUS
<1>1. CASE StartD810
  BY <1>1, StartAttaches DEF Attached
<1>2. CASE StopD810
  BY <1>2 DEF StopD810, Attached
<1>3. ASSUME NEW p \in Projects, ReloadPlugin(p) PROVE Attached'
  BY <1>3 DEF ReloadPlugin, Attached
<1>4. ASSUME NEW p \in Projects, LoadProject(p) PROVE Attached'
  BY <1>4, LoadProjectIsLater DEF LoadProject, Attached
<1>5. ASSUME NEW ea \in Funcs, NEW o \in OverrideChoices,
             SetFunctionRuleOverride(ea, o[1], o[2])
      PROVE  Attached'
  <2>1. svc'.attached = svc.attached
    BY <1>5, WriteOverrideIsLater DEF SetFunctionRuleOverride
  <2>2. QED
    BY <1>5, <2>1 DEF SetFunctionRuleOverride, WriteOverride, Attached
<1>6. ASSUME NEW ea \in Funcs, NEW tags \in SUBSET Tags, SetFunctionTags(ea, tags)
      PROVE  Attached'
  <2>1. svc'.attached = svc.attached
    BY <1>6, WriteOverrideIsLater DEF SetFunctionTags
  <2>2. QED
    BY <1>6, <2>1 DEF SetFunctionTags, WriteOverride, Attached
<1>7. ASSUME NEW i \in InferenceChoices \cup {None}, SetActiveRuleInference(i)
      PROVE  Attached'
  <2>1. svc'.attached = svc.attached
    BY <1>7, SetInferenceIsLater, LifecycleAssumption
  <2>2. QED
    BY <1>7, <2>1 DEF SetActiveRuleInference, Attached
<1>8. ASSUME NEW h \in HintChoices, HookApplyHints(h) PROVE Attached'
  BY <1>8, ApplyHintsIsLater, LifecycleAssumption DEF HookApplyHints, Attached
<1>9. ASSUME NEW ea \in Funcs, HookClearHintState(ea) PROVE Attached'
  BY <1>9, ClearHintsIsLater DEF HookClearHintState, Attached
<1>10. ASSUME NEW ea \in Funcs, NEW pipeline \in Pipelines, NEW m \in Maturities,
              HookGetActiveRules(ea, pipeline, m)
       PROVE  Attached'
  BY <1>10, GetIsLevel DEF HookGetActiveRules, Attached, TypeOK
<1>11. CASE UNCHANGED vars
  BY <1>11 DEF vars, Attached
<1>12. QED
  BY <1>1, <1>2, <1>3, <1>4, <1>5, <1>6, <1>7, <1>8, <1>9, <1>10, <1>11 DEF Next

(* A step that leaves unannounced what it changes for a function.              *)
LEMMA NothingReadChanges ==
  ASSUME TypeOK, Sound, Sound', started, started', unannounced \subseteq unannounced',
         svc'.compiled = svc.compiled, svc'.inference = svc.inference,
         KeepsHints(svc, svc'),
         \A f \in Funcs \ unannounced' : Source'[f] = Source[f]
  PROVE  GenerationTellsStep
<1>1. ASSUME NEW k \in Scopes, k.ea \notin unannounced', NEW m \in Maturities
      PROVE  Served(k, m)' = Served(k, m)
  <2>1. k.ea \in Funcs /\ k.ea \notin unannounced
    BY <1>1 DEF Scopes
  <2>2. CallProvider(svc', Source', k.ea) = CallProvider(svc, Source, k.ea)
    BY <1>1, <2>1, SameProvider DEF KeepsHints
  <2>3. EffectiveInference(svc', k.ea) = EffectiveInference(svc, k.ea)
    BY DEF KeepsHints, EffectiveInference
  <2>4. Reads(svc', Source', k.ea) = Reads(svc, Source, k.ea)
    BY <2>2, <2>3 DEF Reads
  <2>5. Reads(svc, Source, k.ea)' = Reads(svc, Source, k.ea)
    BY <2>4 DEF Reads, CallProvider, HintOverlay, DelegateOverlay, EffectiveInference
  <2>6. QED
    BY <1>1, <2>1, <2>5, SameServed
<1>2. QED
  BY <1>1 DEF GenerationTellsStep, ScopesOf

LEMMA NextGenerationTells ==
  TypeOK /\ Sound /\ Sound' /\ Attached /\ [Next]_vars => GenerationTellsStep
<1> SUFFICES ASSUME TypeOK, Sound, Sound', Attached, [Next]_vars,
                    subscribed, subscribed', svc'.gen = svc.gen
             PROVE  GenerationTellsStep
  BY DEF GenerationTellsStep
<1>0. started /\ svc.attached
  BY DEF Attached
<1>1. CASE StartD810
  BY <1>0, <1>1, StartAttaches
<1>2. CASE StopD810
  BY <1>2 DEF StopD810
<1>3. ASSUME NEW p \in Projects, ReloadPlugin(p) PROVE GenerationTellsStep
  BY <1>0, <1>3 DEF ReloadPlugin
<1>4. ASSUME NEW p \in Projects, LoadProject(p) PROVE GenerationTellsStep
  BY <1>4, LoadProjectIsLater
<1>5. ASSUME NEW ea \in Funcs, NEW reason, NEW row, WriteOverride(ea, reason, row)
      PROVE  GenerationTellsStep
  <2>1. /\ svc' = svc /\ unannounced' = unannounced \cup {ea}
        /\ \A f \in Funcs \ {ea} : Source'[f] = Source[f]
    BY <1>5, WriteOverrideIsLater
  <2>2. started' /\ KeepsHints(svc, svc')
    BY <1>0, <1>5, <2>1 DEF WriteOverride, KeepsHints
  <2>3. QED
    BY <1>0, <2>1, <2>2, NothingReadChanges
<1>6. ASSUME NEW ea \in Funcs, NEW o \in OverrideChoices,
             SetFunctionRuleOverride(ea, o[1], o[2])
      PROVE  GenerationTellsStep
  BY <1>5, <1>6 DEF SetFunctionRuleOverride
<1>7. ASSUME NEW ea \in Funcs, NEW tags \in SUBSET Tags, SetFunctionTags(ea, tags)
      PROVE  GenerationTellsStep
  BY <1>5, <1>7 DEF SetFunctionTags
<1>8. ASSUME NEW i \in InferenceChoices \cup {None}, SetActiveRuleInference(i)
      PROVE  GenerationTellsStep
  <2>1. unannounced' = Funcs
    BY <1>8, SetInferenceIsLater, LifecycleAssumption
  <2>2. QED
    BY <2>1 DEF GenerationTellsStep, ScopesOf
<1>9. ASSUME NEW h \in HintChoices, HookApplyHints(h) PROVE GenerationTellsStep
  <2>1. /\ svc'.compiled = svc.compiled /\ svc'.inference = svc.inference
        /\ KeepsHints(svc, svc')
    BY <1>9, ApplyHintsIsLater, LifecycleAssumption DEF HookApplyHints
  <2>2. started' /\ unannounced' = unannounced /\ Source' = Source
    BY <1>0, <1>9 DEF HookApplyHints, sources, Source, StoredOverlay
  <2>3. QED
    BY <1>0, <2>1, <2>2, NothingReadChanges
<1>10. ASSUME NEW ea \in Funcs, HookClearHintState(ea) PROVE GenerationTellsStep
  <2>1. svc' = svc /\ KeepsHints(svc, svc')
    BY <1>10, ClearHintsIsLater DEF HookClearHintState, KeepsHints
  <2>2. started' /\ unannounced' = unannounced /\ Source' = Source
    BY <1>0, <1>10 DEF HookClearHintState, sources, Source, StoredOverlay
  <2>3. QED
    BY <1>0, <2>1, <2>2, NothingReadChanges
<1>11. ASSUME NEW ea \in Funcs, NEW pipeline \in Pipelines, NEW m \in Maturities,
              HookGetActiveRules(ea, pipeline, m)
       PROVE  GenerationTellsStep
  <2>1. /\ svc'.compiled = svc.compiled /\ svc'.inference = svc.inference
        /\ KeepsHints(svc, svc')
    BY <1>11, GetKeepsReads
  <2>2. started' /\ unannounced' = unannounced /\ Source' = Source
    BY <1>0, <1>11 DEF HookGetActiveRules, sources, Source, StoredOverlay
  <2>3. QED
    BY <1>0, <2>1, <2>2, NothingReadChanges
<1>12. CASE UNCHANGED vars
  <2>1. KeepsHints(svc, svc') /\ Source' = Source /\ svc' = svc
    BY <1>12 DEF vars, sources, Source, StoredOverlay, KeepsHints
  <2>2. QED
    BY <1>0, <1>12, <2>1, NothingReadChanges DEF vars
<1>13. QED
  BY <1>1, <1>2, <1>3, <1>4, <1>6, <1>7, <1>8, <1>9, <1>10, <1>11, <1>12 DEF Next

(* While the service stays subscribed, what a function whose changes were      *)
(* announced is served changes only when the generation moves: the generation  *)
(* a caller kept (ApplyHintsResult, a bundle) tells every change.  It rests on *)
(* attach subscribing a service once: a restart keeps the service and its      *)
(* generation but leaves it unsubscribed.                                      *)
THEOREM GenerationTellsAlways == Spec => GenerationTells
<1>1. Spec => [](TypeOK /\ Sound)
  BY ConsistentAlways, ConsistentIsSound, PTL
<1>2. Spec => []Attached
  <2>1. Spec => []TypeOK
    BY TypeCorrect
  <2>2. QED
    BY <2>1, InitAttached, NextAttached, PTL DEF Spec
<1>3. TypeOK /\ Sound /\ Sound' /\ Attached /\ [Next]_vars => GenerationTellsStep
  BY NextGenerationTells
<1>4. QED
  BY <1>1, <1>2, <1>3, PTL DEF Spec, GenerationTells
===============================================================================
