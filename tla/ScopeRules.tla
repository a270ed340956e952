------------------------------ MODULE ScopeRules ------------------------------
(***************************************************************************)
(* The data of d810/core/rule_scope.py and its filter functions: which of  *)
(* the compiled rules are active for one function, pipeline and maturity,  *)
(* given the function's overlay and the inference in force.                *)
(*                                                                         *)
(* A rule belongs to one pipeline.  Python's None is the model value None; *)
(* "no entry in this dict" is the model value Unset, because the overlay   *)
(* cache stores None as a value of its own.                                *)
(***************************************************************************)
EXTENDS Naturals, FiniteSets

CONSTANTS
  Funcs,        \* function entry addresses
  Rules,        \* rule names
  Tags,         \* function tags
  Pipelines,    \* "instruction", "flow", "ctree"
  Maturities,   \* microcode maturities
  Projects,     \* project configurations
  PipelineOf,   \* the pipeline of each rule
  None, Unset

(* deny_eas None is the empty set; allow_eas None is whitelisted FALSE. *)
Selectors == [maturities : SUBSET Maturities, whitelisted : BOOLEAN,
              allow : SUBSET Funcs, deny : SUBSET Funcs,
              tagsAny : SUBSET Tags, tagsAll : SUBSET Tags]
Overlays  == [enabled : SUBSET Rules, disabled : SUBSET Rules, tags : SUBSET Tags]
Inferences == [enabled : SUBSET Rules, disabled : SUBSET Rules, eas : SUBSET Funcs,
               tagsAny : SUBSET Tags, tagsAll : SUBSET Tags]
Deltas    == [rule : Rules, action : {"activate", "suppress"}]
Scopes    == [project : Projects, ea : Funcs, pipeline : Pipelines]
Tables    == [Rules -> Selectors \cup {None}]      \* None: the rule is not compiled

ASSUME PipelineAssumption == PipelineOf \in [Rules -> Pipelines]

ASSUME SentinelAssumption ==
  /\ None \notin Overlays \cup Inferences \cup Selectors \cup Tables
  /\ Unset \notin Overlays \cup {None}

(* The names get_active_rules starts from: those of the maturity, then those *)
(* compiled without any maturity.                                            *)
Candidates(table, pipeline, m) ==
  {r \in Rules : /\ PipelineOf[r] = pipeline
                 /\ table[r] # None
                 /\ table[r].maturities = {} \/ m \in table[r].maturities}

(* An overlay with enabled rules lets only those through. *)
OverlayAllows(overlay, r) ==
  overlay = None \/ /\ overlay.enabled = {} \/ r \in overlay.enabled
                    /\ r \notin overlay.disabled

TagsMatch(any, all, tags) ==
  /\ any = {} \/ any \cap tags # {}
  /\ all \subseteq tags

InferenceTargets(inference, ea, tags) ==
  /\ inference.eas = {} \/ ea \in inference.eas
  /\ TagsMatch(inference.tagsAny, inference.tagsAll, tags)

(* An inference says nothing about the functions it does not target. *)
InferenceAllows(inference, r, ea, tags) ==
  \/ inference = None
  \/ ~InferenceTargets(inference, ea, tags)
  \/ /\ inference.enabled = {} \/ r \in inference.enabled
     /\ r \notin inference.disabled

SelectorAllows(selector, ea, tags) ==
  /\ selector.whitelisted => ea \in selector.allow
  /\ ea \notin selector.deny
  /\ TagsMatch(selector.tagsAny, selector.tagsAll, tags)

TagsOf(overlay) == IF overlay = None THEN {} ELSE overlay.tags

(* The filter loop of get_active_rules. *)
ActiveRules(table, pipeline, m, ea, overlay, inference) ==
  {r \in Candidates(table, pipeline, m) :
     /\ OverlayAllows(overlay, r)
     /\ InferenceAllows(inference, r, ea, TagsOf(overlay))
     /\ SelectorAllows(table[r], ea, TagsOf(overlay))}
===============================================================================
