# d810-ng: specifications, model checking and proofs

d810-ng is an IDA Pro plugin that deobfuscates code while the decompiler runs.
IDA calls optimizer callbacks on the main thread at every *maturity* of a
function's microcode; the plugin decides which of its several hundred rules may
run on that function at that maturity, lets them rewrite the microcode, and on
the way collects evidence about the function ("recon") from which it infers what
kind of obfuscation it has and adjusts the rules.

This directory holds TLA+ modules for the parts of the plugin whose correctness
is about *state over time*: what is cached, who invalidates it, what one pass of
the decompiler leaves for the next, what a failed write, a failed edit or a
restart leaves behind, and how a function's control-flow graph, every edge of
which is stored three times, survives being edited, and how the rules' patterns,
whose trees are shared by every match, are found, matched and replaced. What a
rewrite rule says, that its two sides are equal, is not modelled: the repository
proves that rule by rule.

Paths below are relative to the repository; `d810/` stands for `src/d810/`.

## Inventory

| component | where | state | operations | modelled |
|---|---|---|---|---|
| rule scope service | `d810/core/rule_scope.py` | compiled table, bundle cache, overlay cache, generation, provider chain, hints, active inference | `attach`, `invalidate`, `set_overlay_provider`, `set_active_inference`, `compile_base_rules`, `apply_hints`, `clear_hint_state`, `get_active_rules` | `ScopeRules`, `RuleScope` |
| manager, plugin state | `d810/manager.py` | started, storage handle, active inference, rule lists, project, rule objects | `start_d810`, `stop_d810`, `load`/`unload`, `load_project`, overrides, tags, inference | `ScopeLifecycle`, partly |
| event emitter | `d810/core/events.py` | listeners | `on`, `once`, `remove`, `clear`, `emit` | in `ScopeLifecycle` and `Decompilation`, as far as they use it |
| function-rule storage | `d810/core/persistence.py` | tables `function_rules`, `rule_scope_inference` | read, write, open, close | in `ScopeLifecycle` |
| recon runtime | `d810/recon/runtime.py` | current function, results and hints in memory, dirty set, outcome log | `reset_for_func`, `mark_decompilation_finished`, `ingest_results`, `analyze_dirty_and_persist`, `record_outcome` | `ReconPipeline` |
| recon phase | `d810/recon/phase.py` | maturities collected | `reset`, `run_microcode_collectors`, `run_ctree_collectors` | `ReconPipeline` |
| recon store | `d810/recon/store.py` | SQLite tables of results, hints, outcomes | bulk saves, `clear_func` | `ReconPipeline` |
| recon analysis | `d810/recon/analysis.py`, `models.py`, `outcome.py` | none | `interpret` | `ReconPipeline!Interpret` |
| decompiler hooks | `d810/hexrays/hooks/*.py` | maturity seen, pass counter, pipeline tracker, flow context, forms seen, rule names | `log_info_on_input`, `func`, `optimize`, `structural`, `on_maturity` | `ReconSession`, `BlockOptimizer`, `InstructionOptimizer`, `Decompilation` |
| recon collectors, flow analyses | `d810/recon/collectors`, `recon/flow` | `DispatcherCache` | `collect`, `get_or_create` | the cache, in `BlockOptimizer`; the analyses are inputs |
| bounded caches | `d810/core/cache.py` | table, three rings of links, counters, queue of dead links | get, set, delete, contains, len, clear, iterate, evict, expire | `Cache`, `BoundedMap` |
| graph edits | `d810/hexrays/mutation/cfg_mutations.py` | the block array of a function | change, remove, insert, duplicate, create | `Microcode`, `BlockEdits`, `FlowEdits` |
| deferred graph modifier | `d810/hexrays/mutation` | queue of edits, snapshot | queue, `coalesce`, `apply`, roll back | `GraphModifier`, partly |
| modification plan, pipeline | `d810/cfg/plan.py`, `pipeline.py` | none | compile, run | `GraphModifier!Compiled`, `BlockOptimizer!RunPipeline` |
| contracts, transactions | `d810/cfg/contracts` | none between calls | `CfgTransactionEngine.apply`, graph invariants | `GraphModifier`, `Microcode!WellFormed`, partly |
| dataflow engine, lattices | `d810/evaluator/hexrays_microcode/forward_dataflow.py`, `d810/cfg/lattice.py` | states, worklist | `run`, meet, transfer | `ForwardDataflow` |
| projects, configuration | `d810/core/project.py`, `config.py` | project list, options | add, update, delete | no; a project is a constant |
| registry, singletons, reload | `d810/core/registry.py`, `singleton.py` | class registries | register | no |
| statistics, logging | `d810/core/stats.py`, `logging.py` | counters | record | no |
| dominators | `d810/cfg/dominator.py` | none | pure algorithms | no |
| flow rules and unflatteners | `d810/optimizers/microcode/flow` | per rule | `optimize` | only what they share: the context, the edits, the constant propagation |
| instruction rules, MBA backends | `d810/optimizers/microcode/instructions`, `mba`, `backends` | the stores of patterns; per rule the trees of its patterns and replacement, with what matching wrote into them | register, look up, match, replace | `PatternStorage`, `PatternOptimizer`; not what the rules say |
| expressions, emulation | `d810/expr`, `d810/evaluator`, `d810/hexrays/expr` | operands in the leaves of trees | evaluation, matching | the dataflow engine; the trees in `PatternOptimizer` |
| ctree rules, user interface, speedups, vendored code | `d810/ctree`, `ui`, `speedups`, `_vendor` | - | - | no |

How they interact. The dialogs call the manager; the manager writes the storage
and emits a `RuleScopeEvent`; the service, if subscribed, drops what it cached.
The decompiler calls the hooks; at a maturity they have not seen, the hooks call
the recon runtime, the runtime the phase and the store, and the hints that come
out go to the service's `apply_hints`; then the hooks ask `get_active_rules`
for the rules to run. A flow rule that matches edits the graph, either block by
block with `cfg_mutations`, or by a plan that is compiled, queued and applied as
a transaction; at one maturity the pass pipeline does the same once per pass.
Everything runs on IDA's main thread, so a call is not interrupted by another;
what is hard is the *order* of the calls, passes that never end, operations that
raise in the middle, an edit that moves what later edits name, and what survives
a restart. (The caches take a lock; their iterators and the garbage collector
are what interleaves.)

What makes each part correct:

- **rule scope**: a lookup answers what a recomputation would answer; what the
  user disabled stays off; hints can be taken back without a trace and touch no
  other function; the compiled table is the configuration in force.
- **recon**: a pass sees only its own evidence; the stored hints are what the
  analysis makes of the evidence; the rule scope and the flow context act on the
  stored hints; nothing is collected twice; memory never runs ahead of the store.
- **hooks**: every decompilation ends, whatever the rules do; no rule runs on a
  graph that a failed rule or the pipeline has left behind; the pipeline runs
  once a pass; the rule names are those in force.
- **caches**: size and weight are what is stored, whatever died or expired in
  between; a cache is a bounded map with the eviction its policy names.
- **graph edits**: the three copies of every edge agree; an edit does to the flow
  of control what it says, and a batch what its counted edits say, or nothing.
- **dataflow**: what it finds holds on every path, also when it is cut off, and
  it comes to an end in a solution.
- **pattern matching**: an instruction is replaced only by a rule whose pattern it
  is and with its own operands, whatever earlier matches left in the shared trees,
  and the lookup misses no pattern the instruction has leaf for leaf.

## Modules

    ScopeRules             rules, selectors, overlays, inferences; the filter of get_active_rules
      RuleScope            RuleScopeService and HintOverlayProvider as a record and its operators
        ScopeLifecycle     manager, storage, projects, hooks around it: the specification
          MCScopeLifecycle           instance for TLC
          ScopeLifecycle_proofs      theorems
    ReconPipeline          runtime, phase and store as a record and its operators
      ReconSession         the decompiler and the hooks around it: the specification
        MCReconSession               instance for TLC
        ReconSession_proofs          theorems: whatever the store does, and about the order of the hooks
    BlockOptimizer         BlockOptimizerManager, pass pipeline, DispatcherCache: record and operators
    InstructionOptimizer   InstructionOptimizerManager: record and operators
      Decompilation        the decompiler calling back both, rules, users: the specification
        MCDecompilation              instance for TLC
        Decompilation_proofs         theorems
    BoundedMap             what a cache promises: the abstract specification
    Cache                  CacheImpl with its rings, table, queue and iterator (implements BoundedMap)
      MCCache                        instances
      Cache_proofs                 theorems
    Microcode              the block array, its invariants and the edits of cfg_mutations.py
      BlockEdits           a function under single edits        (implements FlowEdits)
        MCBlockEdits                 every graph of four blocks
        BlockEdits_proofs            theorems
      GraphModifier        plan, queue, batch, rollback, transaction
        MCGraphModifier              four graphs
        GraphModifier_proofs         theorems
    FlowEdits              what single edits promise of the flow of control: abstract
    ForwardDataflow        the worklist engine with both domains
      MCForwardDataflow              seven shapes of graphs, all code of some instructions
      ForwardDataflow_proofs         theorems
    PatternStorage         trees, the layered and the indexed storage
      PatternOptimizer     rules registered, matched, replaced: the specification
        MCPatternOptimizer           rules of d810/mba/rules and instructions for them
        PatternOptimizer_proofs      theorems

All are built the same way. A Python object whose methods are called
several at a time by one caller is a *record*, and each method an operator from
record to record; the specification that composes the components has the
variables and one action per call from outside (a dialog, a hook, a callback of
the decompiler, the plugin loader). A start of the plugin, which attaches, opens
the storage, sets the provider and the inference and compiles, is therefore one
action that applies five operators in the order of `D810Manager.start`, and no
interleaving that the main thread excludes is possible. Definitions with an
underscore in their name (`CountPass_Down`) are slips a programmer might make in
the definition of that name; they are used to show that each property notices
one, and by nothing else.

### Rule scope

`RuleScope!Services` is the service: `gen` is `_generation`, `compiled` the
`CompiledRuleTable`, `bundles` `active_by_scope`, `overlays` `_overlay_cache`
(`Unset`: no entry; `None`: the cached answer None), `provider`/`delegate`/`hintOn`
the chain of overlay providers, `hintInf` and `hintSupp` what
`HintOverlayProvider` keeps per function, `inference` the active one.

`ScopeLifecycle` adds what the manager keeps. Its actions are `StartD810`,
`StopD810`, `ReloadPlugin`, `LoadProject`, `SetFunctionRuleOverride`,
`SetFunctionTags`, `SetActiveRuleInference` (None: clear), `HookApplyHints`,
`HookClearHintState` and `HookGetActiveRules`. Opening the storage may succeed or
fail whenever it is tried; with `WriteFaults` a write may raise after it took
effect, in which case the manager announces nothing.

The variable `unannounced` is history, read by no action: the functions whose
scope changed without an invalidation having reached the service. The cache
properties are about the other functions: that a function is in `unannounced`
at all is the finding `OverridesShow` (after stop and start) or a write that
raised.

Abstractions: names, addresses and tags are model values; a rule belongs to one
pipeline; the order of the rules in a bundle, which the block manager sorts
again, is dropped; `merged_hint_inference` is kept merged instead of as a list;
the registry of inferences is fixed after start, as in the code; a function's
notes and timestamps are left out; `idb_key` follows the project's name.

### Recon

`ReconPipeline!Pipelines` is the runtime, the phase and the store: `current` is
`_current_func_ea` (-1: None), `fired` the phase's guard, `mem`, `dirty` and
`cached` the runtime's memory, `log` the outcome log, `rows`, `hints` and
`outcomes` the tables. A method that writes to the store takes the set of the
store's operations that raise while it runs; every write is a transaction, so
one that raises leaves its tables as they were.

`ReconSession` adds the two optimizer managers (`seen` is `current_maturity`), the
flow context, the hints the rule scope applies, and the decompiler: the function
and maturity it is at. `CallManager` is the first callback of a manager at a
maturity, `MaturityChanged` the branch of `log_info_on_input` for a maturity it
has not seen, `RunBlockRules` the block manager's flow context and rules,
`Finish` structural analysis, `CtreeMaturity` the ctree manager, `Restart` stop
and start.

What is assumed of the decompiler, which is not in the repository: within a
completed pass it calls each manager at every maturity in `CallsAt` for it,
maturities only grow, structural analysis comes before the ctree maturities, and
one decompilation ends before the next starts. With `Aborts` a pass may end at
any microcode maturity without any hook being told (a cancelled decompilation,
`gen_microcode` up to a lower maturity).

Abstractions: what the collectors of one maturity found is one value of `Kinds`:
`flat` (evidence of flattening), `clean` (evidence of none), `blank` (only the
results that are returned and not saved), or nothing. `Interpret` keeps what the
scores of `AnalysisPhase.interpret` depend on: `by_collector` keeps the last
maturity's metrics and all maturities' candidates. The pass in which a result was
collected is history carried by the result. `user_overrides` is a table no code
of the plugin writes, and is left out, as are the methods of the runtime nothing
calls (`collect_and_analyze`, `analyze_and_persist`, `load_or_analyze`,
`apply_to_rule_scope`).

### Managers and decompiler

`BlockOptimizer!Managers` is the block manager: `maturity` is `current_maturity`,
`passes`, `limit` and `generation` the pass counter, its scaled limit and
`_generation`, `context` the flow context with what is known of the
dispatcher analysis in it, `pipelineLast` and `justFired` the tracker of the pass
pipeline, `dispatcher` the class attribute `DispatcherCache._cache`. What is
known of an analysis is one of `none`, `failed`, `fresh`, `stale`: `GraphChanged`,
which stands for every change of the graph whoever makes it, turns `fresh` into
`stale`. `InstructionOptimizer` has `seen` for `_rewrite_seen` (by address; nested
and copied instructions share the address they came from) and `names` for the
memo of rule names.

`Decompilation` has one action for each way `BlockOptimizerManager.func` ends:
`SkipBlock` (a guard is closed), `NoPatch`, `Patch`, `RuleFails` (RuntimeError or
D810Exception: caught, the counter goes past its limit), `RuleEscapes` (any other
exception leaves `func` and the decompiler gives the pass up), each with whatever
the pipeline does in the same callback. `InsnCallback` is the instruction
manager's `func`. `Begin` is `prolog` with the handlers of STARTED, `RoundEnds`
the decompiler going round again or on to the next maturity, `Abandon` a pass
given up anywhere, `EditScope` the user between two passes. `pass` is history,
read by no action.

Assumed of the decompiler: it calls back every block and every top instruction
in any order, goes round again when one said that it changed something, and
then goes on. Abstractions: a form of an instruction is what `hash_minsn`
tells apart; which forms the rules make of a form, and which flow rules a
maturity has, are constants; of the flow rules run for a block only which
priorities were reached counts; the handlers of STARTED touch disjoint state, so
their order (the emitter's listeners are a set) does not show.

### Caches

`Cache!cache` is `CacheImpl`: `table` is `self.cache`, `ins`, `lru`, `lfu` the three
doubly linked rings without their root, `link` the fields of the links still in
a ring (an unlinked link points at itself), `dead` the queue the weak references'
callbacks append to, `size` and `weight` the counters. Every method is one action,
because it holds the lock, except the iterator, which is a generator:
`IterBegin`, then `IterNext` for each resumption. A value held weakly may be
collected between two calls and, the parameter `gone`, within a call after its
reap. Not modelled: `weak_keys` and `identity_keys`, a `removal_listener`,
statistics, `raise_overweight`, the decorator, a clock that goes back.

### Graph edits and batches

`Microcode` has a block array as a function from serial numbers to blocks. An
edge is stored in the operand of the last instruction (`op`, `refs`), in `succ` of
one block and in `pred` of the other; a serial number is a position, so that
creating a block moves the exit; `id` is the identity of the block object.
`WellFormed` is the conjunction of the graph invariants of
`cfg/contracts/invariants.py`. `CopyBlock`, what `mba.copy_block` does to the
array, is the decompiler's and marked external.

`BlockEdits` makes edits in any order with the arguments their callers can pass.
`RemoveSimpleGotos` takes no argument and checks nothing, so it may aim a conditional
jump at the block it falls into, or take a switch for a branch; the verification
behind the edit then raises, with the graph left as it is there (`edit` is "refused"), and no
edit follows, as a raise ends the rules' work on the graph. What the code reads
as the target of a switch it takes for a branch is any serial number (`guess`).
`GraphModifier` follows one plan: `Compiled` is `compile_patch_plan` with the serial
numbers of the blocks to come and `rewrite_serial`, `Coalesced` the ranks and
priorities of `DeferredGraphModifier.coalesce`, `PreRejected` and `Preconditions`
the checks of edge splits, `ApplySingle` the application of one edit with the
half-done graph it leaves if it is refused or raises, `RolledBack` and
`RestoredSnapshot` the two ways back, and the phases and verdicts those of
`CfgTransactionEngine`. A batch the verifier refuses is restored from the snapshot
(`UndoBatch`); if that fails or the restored graph does not verify either, it is left
(`LeaveBatch`) or cleaned of simple gotos and verified again (`RecoverBatch`), and if the
verifier takes it then, the batch counts as applied.

Assumed of code outside: `optimize_local`, run after a batch, changes no edge the
properties speak of; the native verifier refuses every graph that is not well formed,
and may refuse others; only the verifications inside the cleaning refuse no others. Rules give edits no
priority of their own (`rule_priority` 0). Each edit of a plan is planned on the
graph as it was at the start. The graphs have no switches. `GraphModifierConstants` says
the rest of the start graphs: they are `Made` as in `BlockEdits`, with two blocks to
spare for each edit of a plan, and `EndsPlainly`: the block in front of the exit ends
with a jump, a return or falls into the exit, since a copy of a one-case switch placed
there would be fenced with a `goto` of its own.

Left out of `BlockEdits`, because callers do not do it or because the result
depends on how the decompiler renumbers: insertion in the middle of the array
(`insert_nop_blk` and `duplicate_block` on a conditional block),
`downgrade_nway_null_tail`, `change_1way_call_block_successor`,
`update_block_successors`; a jump aimed at the exit when a block is created; and, of
`RedirectBranch` only, a conditional jump aimed at its own fallthrough, which no caller of it
asks for. Left out of `GraphModifier`:
edits of instructions and NOPs, zero state writes, conditional redirects, the
redirect via a predecessor split (`EDGE_REDIRECT_VIA_PRED_SPLIT`, the one edit
whose refusal does not end the batch), private suffixes, direct terminal
lowering, the repair before the verification, and, in the cleaning of `RecoverBatch`, the
decompiler's own removal of empty and unreachable blocks, which renumbers. Plans with a detour
to a block that ends the function or a copy of a block that goes to the exit
(`EndsFunction`) are in the model; the code loses that edge, so `FlowIsAsCounted` and the
theorems are about the plans without them (`PlainPlan`).

### Dataflow

`ForwardDataflow` is `run_forward_fixpoint`: `Visit` takes the last block
of the worklist, meets what leaves its predecessors, carries it through and
queues the successors if something changed. `MeetConstants` and `TransferConstant`
are those of constant propagation (`LatticeMeet` with `default_missing=TOP`), the
other two those of the reaching definitions. The properties compare with
`Origins`, which follows paths and shares nothing with the engine. Not modelled:
folding read-only loads, the rewriting of the code by what was found, the Cython
path and `_slow_dataflow`.

### Pattern matching

`PatternStorage` has trees as functions from places (paths from the root) to
labels. `LegacyCandidates` is the layered `PatternStorage`: at each depth it looks
up what the instruction shows there (`Signature`), either by generating every
variation of it or by comparing every key, whichever are fewer.
`IndexedCandidates` is `OpcodeIndexedStorage`: the root's opcode and the
`PatternFingerprint`, of which `CompatibleWith` is the comparison.
`GetCandidates` chooses by the two environment flags.

`PatternOptimizer` has `store`, the patterns registered with the shape they had
then; `pinned`, `expected_value` of the constants of every pattern; `held`, the
variables of a pattern whose operand is a number (`AstLeaf.is_constant` asks the
operand); `cached`, what the leaves of the replacement tree of every rule hold;
`work`, the call in progress; `emitted`, the replacement of the last call. A
pattern is a rule with the set of its commutative nodes whose operands are
swapped, as `_generate_commutative_permutations` makes them. `Reload` is
`D810State.load`, which makes new adapters; `Start` the registration by
`D810Manager.start`; `Call` the lookup of `get_optimized_instruction`; `Try`
`check_pattern_and_replace` on one candidate; `TryTraced` the second try with what
the tracker made of the instruction; `Keep` the return of None.

`Try` writes into the shared trees also when the match fails: `Copied` is how far
`_copy_mops_from_ast` came before the first mismatch. The replacement is the one
the code builds: names the pattern binds are overwritten, a computed constant is
materialized only where nothing is held.

Abstractions: the hash of the opcodes tells sequences of opcodes apart; a rule's
constraints and computed constants are operators given by the instance
(`Accepts`, `Compute`), since they are data of the rule; which rules the rule scope
and the maturity leave active is any subset; the tracker may return any
instruction with the same root; candidates are tried in any order, as the two
storages order them differently; operands are compared whatever their size, as
`equal_mops_ignore_size` does, so the sizes of constants are left out. Not
modelled: the opt-in `D810_NOMUT_MATCHING` path, which matches without writing
into the trees; the older `PatternMatchingRule` classes; the egglog optimizer;
`UPDATE_DESTINATION`.

## Properties

Rule scope (`ScopeLifecycle`):

- `Coherent`: while the hooks run, a function all of whose changes were announced
  is served exactly what a recomputation from storage, hints and inference gives.
- `CompiledIsCurrent`: the compiled table is the manager's rules as configured now.
- `UserDisabledWins`: a rule the user disabled is served under no hint,
  inference or project.
- `RetractedHintsLeaveNoTrace`: a function without hint state is served as if it
  never had any.
- `HintsStayLocal` (action): giving or retracting hints changes nothing for
  another function.
- `GenerationTells` (action): within a session what is served changes only with
  the generation.
- `Consistent`: the inductive invariant of the proofs, checked as well.

Recon (`ReconSession`):

- `CleanSlate`: after completed passes no row, result in memory or hint in force
  is of an earlier pass; a restart in between included.
- `AppliedIsStored`: the rule scope applies exactly the stored hints.
- `SummaryIsCurrent`: a flow context's hint summary is that of the stored hints.
- `HintsReflectEvidence`: the stored hints are the analysis of the evidence,
  unless the function is marked dirty.
- `MemoryIsBacked`, `CacheIsStored`: results and hints in memory are in the store.
- `OutcomesKept` (action): what was reported of a function is in the store when the runtime
  turns away from it, at the end of its pass or, for a pass given up, in the flush of
  the next function's reset, whatever operation raises there; and it stays until the
  function is entered again. (A report for a function that is not the current one waits
  in the log, and a restart forgets the log.)
- `CollectOnce` (action): no maturity is collected twice in a pass.

Managers (`Decompilation`):

- `EveryPassEnds` (liveness): a decompilation that began ends, whatever the rules
  do. A flow rule may patch at every call: the pass counter stops it. Instruction
  rules may rewrite in a circle, and patches bring back copies in old forms: the
  forms seen stop them.
- `QuietAfterFailure` (action): after a rule failed, perhaps half way through an
  edit, none runs until the next maturity or pass.
- `RulesOffAfterPipeline`: where the pipeline applied changes no rule runs any more
  at that maturity.
- `PipelineOnce`: the pipeline runs once in a pass that gets to a block of its maturity,
  also after passes that were given up there, and never twice. The pipeline is looked
  at only where the manager finds a maturity it was not at (`hexrays_hooks.py:829`), so this
  rests on a pass having blocks at an earlier maturity: with the pipeline at the
  first one, TLC shows a pass given up there to keep the next from running it.
- `NamesAreCurrent`: unless the pass before was abandoned, the rule names used are
  what the rule scope answers now.

Caches (`Cache`): `Accounted` (three rings, size and weight tell the same story),
`TableMatchesLinks` (table and links lead to each other), `WeightBound` (the weight
passes its limit by less than one value), `IterationComplete` (an iteration that
ends has yielded what stayed, each key once), `ImplementsMap` (below).

Graph edits: `GraphIsSound` (the three copies of every edge agree after any
sequence of edits; they disagree only when a removal of simple gotos raised, and that is
only at a branch it sent where the branch falls or at a switch it took for one),
`EditsDoWhatTheySay` (below). Batches (`GraphModifier`):
`FlowIsAsCounted` (until the verifier refuses the batch, control goes where the
start graph and the counted edits of a plain plan say, by identity, though serial numbers were
handed out before anything was applied, and edits were coalesced, reordered,
rejected, refused or rolled back since), `RestoredIsStart` (a batch undone from the
snapshot and verified leaves every instruction leading where it led at the start, by
serial number, and by identity if no block was created).

Dataflow: `FactsHold` (every constant is what all executions have there, every
definition one that reaches, also at each moment before the end, since the engine
may be cut off there), `Converges` (liveness: the worklist becomes empty before the
limit of visits, in a solution of the equations).

Pattern matching (`PatternOptimizer`):

- `ReplacedOnlyByItsRule`: whatever earlier matches left in the trees, a rule
  replaces an instruction only if a pattern nobody has matched before would accept
  it: shape, literals, repeated names and constraints.
- `OperandsOfThisMatch`: the operands of a replacement are those of the instruction
  replaced, although the tree is the one every earlier match wrote to.
- `ComputedFollowsPins`: a computed constant is that of the constants one
  permutation of the rule is pinned to, never a mixture of two matches.
- `LeafMatchesFound`: with either storage and either flag, and whatever else is
  registered, a pattern registered as it is written is a candidate for every
  instruction it has leaf for leaf.

Each has a mutant in `PROJECT.json`, a plausible slip in the code that breaks it.

## Refinements

- `Cache` implements `BoundedMap` (`Cache!ImplementsMap`), for LRU and LRI: a map
  from keys to values with dates, and which key goes before which; every call first drops
  what expired or is known to be dead, answers from what is left, and makes room by
  evicting the keys that go first, no more than needed: an entry stays if it fits
  together with all that go after it. The mapping reads the entries off
  the table and who goes before whom off the ring of the policy. LFU is left out: the ring of
  frequencies is not ordered by the counts the docstring speaks of. Proved as well
  (`CacheImplementsMap`).
- `BlockEdits` implements `FlowEdits` (`EditsDoWhatTheySay`): the flow of control by
  identity, which each edit changes for the block it names and for the blocks it
  creates. The mapping is `Flow(mba)`: an insertion, which moves the exit block and
  every operand, successor and predecessor that names it, is invisible but for what
  it says. An edit that raises promises nothing and is the last.

## Runs

| run | bounds | shows |
|---|---|---|
| `scope_session` | 2 functions, 2 rules, 1 tag, 2 maturities, 1 project, 3 invalidations, 1 start | the caches, hints and generation of one session; 258,798 states |
| `scope_restart` | 2 functions, 2 rules, 1 maturity, 2 projects, 2 starts, 2 invalidations, failing writes | the caches and the compiled table across restarts, projects and failures; the inductive invariant; 554,854 states |
| `recon_sessions` | 2 functions, 2 microcode and 1 ctree maturities, 3 passes, any of them abandoned | what a pass finds, applies and leaves behind; 521,988 states |
| `recon_faults` | 2 passes, any one or all store operations raise | memory, store and outcomes; 937,797 states |
| `managers` | 2 functions, 3 maturities, the pipeline at the second, 1 flow rule, 1 instruction of 3 forms, a pipeline of 1 pass, a limit of 2 and 3 calls | every pass ends; rules, pipeline and names; 42,332 states |
| `cache` | 3 keys, 2 values of weights 2 and 4, 4 links, a clock up to 4, 4 configurations | counters, rings, table, iterator, and the bounded map; 63,613 states |
| `graph_edits` | every graph of 4 blocks, 3 edits, 7 blocks | single edits; 53,300 states |
| `graph_batches` | every plan of 2 edits on 3 graphs of 5 blocks and one of 6, 10 blocks | batches, undone and recovered; 63,726 states |
| `dataflow` | 4 blocks in 7 shapes, at most 2 instructions of each block, 2 variables, 2 constants | both analyses; 88,816 states |
| `pattern_matching` | a rule with 2 constants and its 4 permutations, 3 instructions, 7 places | shared trees and both storages; 114,158 states |
| `scope_overrides_show`, `pattern_computed` | smaller instances of the same modules | the findings below |

Configurations that are run by hand, `tlc -config X.cfg M`, each for one claim of
the repository that TLC refutes (`PatternShapes.cfg` apart, a wider passing
instance: three rules with literals and with leaves that meet expressions, five
instructions):

| configuration | module | property |
|---|---|---|
| `ReconCleanSlate.cfg` | `MCReconSession` | `EveryPassStartsClean` |
| `ManagersFacts.cfg` | `MCDecompilation` | `FactsAreFresh` |
| `GraphRecovered.cfg` | `MCGraphModifier` | `SuccessIsAsCounted` |
| `GraphAnyPlan.cfg` | `MCGraphModifier` | `AnyPlanIsAsCounted` |
| `PatternPins.cfg` | `MCPatternOptimizer` | `ConstantsMatchAny` |
| `PatternFallback.cfg` | `MCPatternOptimizer` | `FallbackFindsAll` |
| `PatternRegistered.cfg` | `MCPatternOptimizer` | `RegisteredAsWritten` |
| `PatternLiterals.cfg` | `MCPatternOptimizer` | `MatchReplaces` |
| `PatternShapes.cfg` | `MCPatternOptimizer` | passes |

Why the bounds are enough for what they are to show. A stale cache needs a
lookup, a change and a second lookup: three invalidations allow two changes
after the compile of a start. Interference needs two functions; a filter that
confuses rules, two rules; a bundle that is extended, two maturities. A restart
needs two starts. In the recon runs an ordering slip needs two managers at two
maturities; a pass that sees an older one's data, two passes; a third pass lets
another function come between two of the same one. In `managers` the guards are
about one maturity and what the next one resets, so the pipeline's maturity, the one after
it and the one before it, which its tracker needs, and two functions; one rule is enough where any number of calls may patch, fail or
escape, and the third form is more than twice as large, so that the bloat guard
fires; the limits are small, so that the counter is what stops the rule. In
`cache`, a size of 2 with 3 keys evicts, and a fourth link lets a key come back
after it was evicted; each way an entry can go has a configuration of its own,
as they are independent in the code (the reap tries them in order). In
`graph_edits` four blocks have an entry, an exit and two blocks that can be of every
kind and in every relation; an edit needs at most three blocks, and two edits show
what one leaves for the next, the third what an insertion left between. In
`graph_batches` two edits can conflict, be reordered, move the exit under one
another, or be the one that is kept when the other fails. In `dataflow` the shapes are
those of joins, loops, a loop with two entries, an unreachable predecessor, and an
entry with a predecessor; `MaxDefs = 2` lets three definitions collapse; the limit
of 24 visits is above what four blocks need, and the cut-off is covered because
`FactsHold` is checked in every state before the end. In `pattern_matching` a leak
from one match to the next needs two instructions that one rule matches, here by
different permutations and with different operands and constants; the third
instruction fails the constraint and gives a variable a number, which is what
makes the two storages see a pattern differently after a restart. One rule with
four patterns is enough, since rules share no tree.

`MaxGeneration` bounds the invalidations of one service, `MaxStarts` the starts,
`MaxPasses` the decompilations, `MaxSeq` the links, `MaxClock` the clock, `MaxHits`
the counted hits, `MaxEdits`, `MaxPlan` and `MaxBlocks` the edits and blocks;
each only disables actions. The two functions are symmetric in the recon
instance (nothing names one) and the keys in the cache instance, so these use
symmetry, with safety properties only; the rule scope instance names `f1` in its
projects and hints and uses none.

`CHECK_DEADLOCK FALSE`: the system may stop where the bounds are reached, where
the analysis has ended or where the batch has its verdict.

Fairness. `Decompilation` has `WF_vars(DecompilerStep)`: the decompiler is one
thread that goes on as long as a callback is due or a round is over; which callback
comes next, and when the user begins, cancels or edits, is left open.
`ForwardDataflow` has `WF_vars(Visit)`: a loop that only its condition ends. The
other specifications assume no fairness: what comes next there is up to the user,
and the repository promises no progress of theirs.

## What the runs found

Each is a claim of the repository that a run, or a configuration of those run by
hand, shows violated.

1. `OverridesShow`. `stop()` clears the emitter; `attach` does nothing on a
   service attached before. After stop and start no override, tag or inference
   the user sets reaches the service.
2. `ComputedIsCurrent`. The replacement tree is shared by the permutations of a rule
   and a leaf that holds something is not materialized again (`ida.py:636`). Once
   `(a & 1) - (a & 3)` was replaced by the rule "(x & c_1) - (x & c_2) =>
   -(x & ((~c_1) & c_2))", `(2 & a) - (a & 3)`, which another permutation matches, is
   replaced with the mask of the first: a wrong rewrite.
   `ComputedFollowsPins` is what holds.
3. `EveryPassStartsClean`. A pass that ends before structural analysis leaves its
   function current, so the same function again is taken for the same pass: nothing
   is cleared, and what was collected is not collected again. (`CleanSlate` is the
   same for completed passes, and holds.)
4. `FactsAreFresh`. A patch drops the flow context "so lower priorities see fresh
   facts", but the new one asks `DispatcherCache`, which keeps its analysis as long
   as the maturity is the same: the rules of the next callback are given the facts of
   the graph before the patch.
5. `ConstantsMatchAny`. The constant of a pattern is to "match any constant"
   (`mba/dsl.py:286`). It is pinned to the first value it is compared with, in a match
   or not, until the rules are loaded again (`p_ast.py:861`).
6. `FallbackFindsAll`. The fallback is to catch "wildcard-heavy expressions where
   strict fingerprints can produce false negatives" (`handler.py:325`). It is asked only
   if the index yields nothing: for `a ^ ~(b ^ c)` the permutations of
   `Bnot_FactorRule_1`, which do not match, keep `BnotXor_FactorRule_1`, which does, from
   being tried.
7. `RegisteredAsWritten`. The fingerprint counts "AstConstant instances"
   (`pattern_speedups.py:41`), and also variables that still hold a number from before
   a stop and a start.
8. `MatchReplaces`. "2*x + ~x => x - 1" (`mba/rules/sub.py:140`) and nineteen other rules
   have a literal in the replacement that is not in the pattern; `update_leafs_mop`
   (`p_ast.py:714`) asks for it among the operands matched, and the rule never
   replaces anything.

Met while modelling, without a run of their own:

- Rule scope. `INFERENCE_APPLIED` drops the compiled table and only a start or
  `load_project` makes one: an inference applied while the hooks run leaves every
  function without rules (`rule_scope.py:332`). A hint may suppress a rule
  the user whitelisted a function for (`rule_scope.py:533`), though the deltas of an
  inference respect the whitelist. A start sets the manager's provider over the hint
  provider, to which later hints still go (`rule_scope.py:365`). A delta with the action
  `override` is dropped without a word (`rule_scope.py:502`). `configure` keeps the
  maturities of the configuration before when the new one names none
  (`handler.py:69`).
- Events. `once` removes its handler from the set that `emit` iterates over
  (`events.py:39`); a handler that raises keeps the rest from running, in no
  particular order.
- Recon. A new function is noticed only by a change of maturity
  (`hexrays_hooks.py:829`), which an abandoned pass and a function at the same
  maturity do not bring. After a completed pass the current function is -1 and the drop of its
  memory is skipped, so the dictionaries grow (`runtime.py:156`). Results that were not
  saved come after all rows in the order the analysis reads them (`runtime.py:405`).
- Managers. The pipeline is tried only where `log_info_on_input` finds a new maturity; a pass
  given up at the pipeline's maturity would keep the next one from running it if that
  began there too (`hexrays_hooks.py:829`, `:905`). A pipeline pass that changed the graph and does not verify, or one that
  raises after others applied changes, is not counted, so the flag stays down
  and the rules run on the changed graph (`cfg/pipeline.py:56`); the model has
  this, and `RulesOffAfterPipeline` speaks of what was counted. The memo of rule
  names survives an abandoned pass and an edit of the overrides, when
  the same function begins at the same maturity again (`hexrays_hooks.py:497`). An
  analysis that raised is not tried again in its flow context
  (`context.py:121`). Instructions that share an address share the forms seen, so a
  rewrite of one may be refused because of another. The first optimizer whose
  rewrite is refused starves those after it.
- Caches. The docstring says that `root.lfu_prev` is the entry with the fewest hits; a
  link that catches up with others is moved past those of the same count
  (`cache.py:388`).
- Graph edits. `mba_remove_simple_goto_blocks` sends the fathers of a simple goto where it
  jumps and looks at none of them: once a goto was redirected to the block behind its
  conditional father, it aims the branch at the block the branch falls into and leaves
  that successor twice (`cfg_mutations.py:290`), and a switch with two targets it takes for a
  branch (`:261`). Either way the verification raises with the other gotos not looked at.
  The comment of
  `change_1way_call_block_successor` speaks of a call block with any successor, which
  the contracts refuse unless it is the next block.
- Batches. If the restored snapshot does not verify, the best-effort recovery
  (`deferred_modifier.py:2333`) cleans the half-restored graph of simple gotos, and if the
  verifier takes it, "callers can safely continue" and the batch counts as applied, though
  control does not go where its edits say. On the graph `Chain`, for instance, the verifier refuses
  `1 -> 1`; the snapshot gives block 1 its old successor and not its old instruction, so what
  is restored does not verify; the cleaning sends 1 past a goto to 3, and success is
  reported (`SuccessIsAsCounted`). A detour in front of a block that ends the function gets
  no edge to it (`:2706`), and a copy of a block that goes to the exit is
  aimed at the serial number the exit had before the copy was made, which is the copy's own
  (`:3058`): both verify and count (`AnyPlanIsAsCounted`). When nothing was counted nothing is restored, although the
  policy asks for a rollback and an edit that raised may have changed the graph
  (`transaction_policy.py:41`); the edits before one that is refused are kept, though
  the module's docstring calls a batch atomic. Edits of an edge toward the exit that
  create blocks are rejected beforehand and still shift the serial numbers of those
  behind them. The lowering of a direct terminal group uses a name that is not
  defined there (`deferred_modifier.py:2550`). A block with more than two successors
  is to be refused by the preconditions of a duplication, but the test stands behind
  the `return` of the one before it (`:4257`); the planner's own test (`plan.py:709`)
  makes up for it. A snapshot is restored by serial number, and the docstring
  (`:1191`) says the created blocks lie beyond it: the first of them has the serial
  number the exit had, so it is made a stop, the exit stays where it moved to, and a
  block that fell into the exit falls into the stopped copy (graph `Late` of
  `MCGraphModifier`). `RestoredIsStart` therefore speaks of serial numbers.
- Dataflow. The proof of a return value starts its entry block from the bottom
  element, so an entry block that defines nothing ends the analysis at once
  (`terminal_return_proof.py:390`); `Converges` has the condition `EntryTells` for it.
- Pattern matching. A pattern made with `.to_int()` has neither operand;
  `_generate_commutative_permutations` takes it for a unary one and asks the operand
  that is not there (`backends/mba/ida.py:130`), so such a pattern raises. No permutation
  is checked: the filter by egglog returns all candidates (`ida.py:172`).

## Theorems

Proved for every value of the constants that the named assumptions beside them
allow, and for every behaviour.

`ScopeLifecycle_proofs`: `TypeCorrect`, `ConsistentAlways`, `CoherentAlways`,
`CompiledIsCurrentAlways`, `UserDisabledWinsAlways`,
`RetractedHintsLeaveNoTraceAlways`, each `Spec => []P`, and the properties of steps
`HintsStayLocalAlways` and `GenerationTellsAlways`. `Coherent` is not inductive:
it speaks of the scopes of the loaded project, of what a lookup returns, and only
while the plugin is started. A bundle of another project may be served later, after
`load_project`; an overlay that is wrong but shadowed by a bundle may be used once
the bundle is dropped. `Consistent` therefore speaks of the caches one by one:

- `OverlayFresh`: a cached overlay is what the provider would answer now;
- `BundleFresh`, for every project: a live bundle is what a recomputation gives;
- `Dated`: no bundle is from a later generation than the service's, so a bundle
  that an increment of the generation killed never comes to life again;
- `Wrapped`: the hint provider is in the chain only over the manager's, so that
  setting the provider again or wrapping it changes no answer unannounced;
- `CompiledIsCurrent` and `TypeOK`.

The proof first types every operator of `RuleScope`, then shows for each one
which of the conjuncts it keeps and for which functions (an invalidation of `eas`
makes exactly those fresh again, a lookup keeps all fresh, hints touch one
function), and then goes through the actions, where `unannounced` takes up the
functions for which the argument does not hold.

The two properties of steps compare what a function is served before and after, so
their proofs need no cache at all once `Consistent` is there: both answers are
recomputations, and a recomputation reads the rules, the flags, the function's
stored overlay and the provider's answer for it (`Reads`). `OthersReadTheSame`: hints
for one function leave what every other one reads, although the first hints wrap the
provider all are answered by. `GenerationTells` follows from each operator either
leaving that (`NothingReadChanges`) or raising the generation (`Later`), while the
service is subscribed; `Attached` (only a start subscribes a service, and then it was
attached) excludes the steps that change rules unannounced.

`ReconSession_proofs`: `TypeCorrect`, `MemoryIsAlwaysBacked`, `CacheIsAlwaysStored`,
for any set of store operations that may raise. The three are inductive together:
`Good` (the record is a pipeline, results in memory are backed by rows, cached hints
are the stored ones) is kept by each method of the runtime, whichever of its
writes fails, and so by each hook. One method alone does not keep it: between the
collectors and the ingestion the store is ahead of the memory, and the lemma
about `CollectAndAnalyze` closes the gap.

The second half of `ReconSession_proofs` is what depends on the order of the hooks, for
any functions, maturities, evidence and number of passes. `MaturitiesAreCollectedOnce` (a property of
steps) and `HintsAlwaysReflectEvidence` hold with passes abandoned anywhere;
`AppliedHintsAreStored`, `SummariesAreCurrent` and `EveryOrderlyPassIsClean` speak of
sessions without one. `OutcomesAreKept` (a property of steps) needs no hypothesis:
the current function changes only behind the writing of the outcomes, and not at all if that
raises. The hypotheses of the other five are stated as operators:

- `NoFaults`: no operation of the store raises. With one that may TLC refutes each of
  the five (`ReconFaults` checks what remains true then): a reset that was cut short is
  made again at the next maturity, after evidence of this pass was collected.
- `EveryPassNoticed`, in all but the first: some manager is called at the first
  maturity, and none is called at one maturity only. A manager tells a new pass by
  its `current_maturity` changing; one that knows a single maturity never sees it
  change, and TLC refutes the properties for such schedules. That maturity 1 is the
  first a manager is called at is a matter of numbering; that both managers are
  called at several is an assumption about IDA, which calls them at each maturity it
  optimizes (the runs' `CallsAt` has all of them).

Three invariants carry them, each checked by TLC on four schedules before it was
proved. `Once`: evidence of this pass belongs to the current function and its
maturity is in the guard `_fired`, and before the function was entered there is none.
`Reflected`: a manager knows the last maturity it was called at (`Watched`), so the
second call of a pass, if not the first, makes the function current
(`EnteredByTwo`); what the store holds for the current function its guard holds back
(`GuardsHold`); and hints are those of the evidence (`Steady`), which forgetting the
memory does not change (`ForgottenSame`). `Tidy`, without abandoned passes: between
passes every manager stands at its last maturity, no function is current before the
first call, and from then on all evidence, the applied hints and the summary are of
this pass.

`Decompilation_proofs`: `TypeCorrect`, `PipelineOnceAlways`, `RulesOffAlways` and
`QuietAfterFailureAlways` (a property of steps), and `NamesAreCurrentAlways`. What the pass has seen says
nothing of the next callback by itself; the invariant ties it to what the manager
remembers of the same events: `Shut` (fired implies the flag, failed implies a
counter past its limit) and `Once` (the number of runs and the tracker's maturity
move together, and the first block of the pipeline's maturity is where they
move). A callback runs rules only where both guards are open, hence only where
nothing fired or failed (`RunningClean`); then the lemma `RunKeeps` covers the four
ways it can end. `PipelineOnceAlways` assumes `PipelineComesLater`, that the pipeline's maturity is
not the first: a pass given up there leaves the manager at that maturity, and the pass
after it would not be looked at if it began there; beginning lower it moves the manager.
With the pipeline at the first maturity TLC refutes `PipelineOnce`. (The pipeline is at
`MMAT_GLBOPT2`; passes begin at `MMAT_GENERATED` or later, an assumption about IDA.) That the node rewritten is one of those visited, which the type
of the instruction manager needs, is the least-number principle (`LeastIndex`).
`NamesAreCurrentAlways` assumes `SeveralMaturities`: the memo of the rule names is
dropped when an instruction comes at another maturity, and between two passes that is
the first instruction of the next one, because the last of the pass before was at the
last maturity. With one maturity TLC refutes it; the decompiler has several. The invariant
`NamesKept` says which memo entries are current in a pass and that after an orderly
pass the manager stands at the last maturity.

`PatternOptimizer_proofs`: `TypeCorrect`, `RuleIsRight`, `OperandsAreRight`,
`ComputedIsPinned` and `NothingMissed`, for any rules, permutations, instructions,
trees of any depth and flags. What is emitted says nothing of the trees it came
from, so the invariant `IInv` adds what earlier matches can have left:
`LiteralsPinned` (a literal is pinned to its value, so a match by `Mismatch` is a
match by a fresh pattern) and `ComputedPinned` (a computed leaf that is filled
goes back to constants that one permutation is pinned to, and pins never change
until a reload, which empties the leaf too). `MatchIsFresh` is the step from a
match with the trees as they are to one with fresh trees. `NothingMissed` is
about the data alone: the lemma `ScanMissesNothing` shows that neither way to
walk a layer drops a key with the same signature, hence `LayersFindLeafMatches`;
`IndexFindsLeafMatches` that equal opcodes at equal places give equal hashes,
depths and counts.

`ForwardDataflow_proofs`: `TypeCorrect` and `FactsAlwaysHold`, for any graph (finite or
not), any code and any limit on the iterations, with nothing assumed but what types
the constants. `FactsHold` speaks of what the engine knows of a block's start and end
at any moment, also when it is cut off before a solution. It is not inductive: a
block's start is computed from the ends of predecessors that may be stale. What carries it
is that a fact about a block's end is true whatever the engine does later, because
the facts it speaks of (what every execution from the entry has, which definitions
reach) do not depend on the engine. The invariant `IInv` therefore says it of both,
`InHolds` and `OutHolds`, with `Confined`: only reachable blocks are queued or have an
environment. One transfer over a block keeps it (`TransferTraced`: a path to the block's
start becomes one to its end, instruction by instruction); a meet of ends is true
at the start of every successor (`ReachedBefore`, `ReachedOn`: a path to a block other
than the entry comes from a predecessor). `Reached` is a least closed set, so no proof
counts the steps of a path.

`Cache_proofs`: `AccountedAlways`, `TableMatchesLinksAlways`, `WeightBoundAlways` and
`IterationCompleteAlways`, for any keys, values, weights, settings and bounds. The
invariant `IInv` has five parts: `Chained` (each ring that the policy keeps holds the
links in use once, the order of writing is that of the serial numbers, the counters
are those of the links), `MatchesBut(cache, {})` (table and links lead to each other),
`Bounded`, `Trail` and `Report`. Within a method they hold only in part, which is what the
proof is about: over an existing key `__setitem__` unlinks the old link and leaves its
entry in the table, so until the new link is there the table matches but for that key
(`ReplacedKeeps`, `MakeRoomKeeps`, `InsertKeeps` with `MatchesBut(c, {k})`). `Kept` is what
every helper that takes links away guarantees; `MakeRoomKeeps` shows that the loops of
evictions end with room for one more, from which the bound on the weight follows.
`Trail` is the iterator's half: of the links there were when it began and still are, it has
been at exactly those from its place on. It survives other calls because none makes a
link of an old serial number or changes a key (`Later`).

`CacheImplementsMap` is the refinement, under every policy but LFU (the settings are chosen
by `Init` and stay). The map looks at all its entries where the cache looks at the
front of a ring and at the queue, so the invariant `RInv` adds two facts to `IInv`: the rings are ordered
by the times that count (`Sorted`), hence what expired is the front of one (`LeadingIsAll`), and
the queue names the links whose value is dead and no others (`Queued`). From both, a reap
leaves what is recent and alive (`ReapLeaves`). Evicting from the front until there is
room keeps exactly the entries that fit with all behind them (`EvictionStops`,
`RoomStays`; `BackStands` and `RoomStands` for the map), since the counters are the map's
totals (`TotalIs`, `SizeIs`, `WeightIs`). `StandsFor` says that a cache stands for a map, there is one it does
(`StandsForOne`), each helper keeps it (`Mirrors`), and each action of the cache is
that of the map (one `...Simulated` each).

`BlockEdits_proofs`: `GraphIsSoundAlways` and `EditsDoWhatTheySayAlways`, for any graphs,
number of blocks and number of edits. What it assumes of the graphs the decompiler hands over is `Made` (a named
assumption TLC evaluates for every graph of the run): blocks are numbered in order, the
exit is the last, a jump names one block, a switch has a case, and the contracts hold.
`IInv` says more of a block than the contracts do: `Sound` lists the shapes a block can
have (`Jumps`, `Branches`, `Switches`, `FallsThrough`, `Stops`), since an edit reads
one copy of an edge and writes another, and what the first says of the second is
the shape. It adds that once the graph is prepared the last block does not fall into the
exit, without which a block created in front of the exit is fallen into
(`DuplicateHolds` and the other edits that create blocks need it).

Between its statements an edit leaves the copies apart. `Around` is what is
true then: of all blocks but the one being edited the copies agree, and whose
predecessor that one is noted as is a set `N` that the statements change; `Work` adds what
its fields are at the moment. One lemma for each statement (`WorkDelSucc`, `WorkAddPred`, ...)
says what it does to `Work`, `WorkBegins` and `WorkDone` lead from a sound graph to one
again, and an edit is the chain of its statements. Edits that create blocks first move
the exit: `Copied` is the array with every edge into the exit shifted, `CopyBegins` shows
that it is sound but for the copy, and the rest is an edit of that one block.
In `standalone` and `nop` edits the code rewires the copy in another order than it is easy to
reason about; the lemmas on `Rows` (the array as six columns) show that statements on
different columns commute. `RemoveSimpleGotos` follows chains of jumps whose
length no constant bounds: `BypassLeads` and `BypassAllLeads` show, father by father and jump by
jump, that every branch leads into the set that is closed under the jumps it
begins at (`Led`). Since it may raise on the way, the invariant of the theorem is `Held`: either
`IInv`, or the last edit raised and the array is `Spoiled` at the blocks refused, where a branch was sent to
the block it falls into or a switch taken for a branch. `UpdateLeads` shows for one father that a removal
that goes on leaves a sound array and one that raises a spoiled one.

`EditsDoWhatTheySayAlways` is the refinement: initial states map to initial states
(`edit` is "none"), and every step maps to the step its `edit` names. `FlowIs` reads the
mapping `Flow(mba)` off a sound array: from the identity of a block control goes to
the identities of its successors (`Ways`). What the first theorem proves of an edit already says what
becomes of every block, so for each kind of edit one lemma turns that into the abstract step: an
edit of one block is a change at one point of the flow (`FlowDone`; `DidGo`, `DidReplace`,
`DidCut`); after an edit that creates a block the array is `Grown`, the same blocks at
places of which the exit's has moved, and moving the exit changes no identity a block
leads to (`WaysMoved`, `GrownFlow`; `DidCreate`, `DidDetour`); and bypassing the jumps keeps each way
out in every set that is closed under the jumps it began in (`Follows`, a part of `Led`), which
is what `Through` of the abstract edit means (`DidShorten`). `NextPerforms` has one lemma per
action. The invariant of the first theorem is all that it needs.

`GraphModifier_proofs`: `GraphModifierTypes`, `FlowFollowsEdits` and `RestoredGraph`, for any
graphs, plain plans of any length and any outcome of the checks, from `GraphModifierConstants` alone.
(A plan is plain, `PlainPlan`, if none of its edits loses an edge to the exit; for other
plans the second is false, and the other two are checked by TLC only.)
`FlowIsAsCounted` compares two things that never meet in the code, the serial numbers
computed when the plan was compiled and the array the edits have left by the
time they are used. What ties them is where blocks stand. `Placed`: with `n` the exit's
number at the start and `q` blocks now, the blocks of the start are where they were, those
created follow in the order of their identities, and the exit is last (`IdAt` is the identity
of the block at a place). On that rest

- `Lives`: every edge leads to a block there is (`Closed`), control goes where `intended`
  says (`Flows`), and a conditional jump leads to its operand and to the block behind
  it (`Branching`), which the edit of a jump reads;
- `Fresh`, as long as blocks are created: of the start graph no more has changed than the edges
  into duplicated blocks, and a block that falls out of the last place falls into the exit.
  It is why such edits still find what the planner saw;
- `Waiting`: each edit in the queue names blocks of the start graph (`Item`), and an exit it is aimed at
  by the number the exit will have after all creations; edits that create come first, each with
  the number of the block it will create; and there is room;
- `IInv`, which adds `Control` and what holds of the batch's ends. A batch that is neither broken,
  restored nor refused by the verifier is closed and flows as intended; a broken one that is
  not over has an edge to no block, so it is never taken for well formed. Of a batch given up or
  recovered it says only where blocks stand (`GivenUp`): the cleaning of simple gotos keeps
  every block in its place (`CleaningPlaced`), wherever it stops.

TLC finds `IInv` in every state of `graph_batches`, before and apart from the proof.

An edit is a chain of statements between which the copies of an edge differ, so predecessors,
which no property here speaks of, are not part of the invariant, and a statement is
described by what it does to one block and to all others (`Now`, `Place`). One lemma per kind of edit
(`GotoApplied`, ..., `ConditionalCopyApplied`) says for each of its results what is left
(`EndsAs`), and `ApplyIs` puts them together: done means `Effect`, refused means that control goes
where it went, raised means an edge to no block. `RolledBackIs` says the same of an edit taken back,
`RestoredBlockIs` and `RestoredIs` of the snapshot (every edge taken out and the old ones put
in, one by one: `TakenOut`, `AppendedAll`). `LoweredIs` is the way from the plan to the queue:
what a modification compiles to (`CompiledIs`, `ItemIs`), that the coalescing keeps the edits of one
priority together and in their order (`CoalescedIs`) and the check beforehand drops only
whole edits (`PreRejectedIs`), and that serial numbers stay below what the plan adds up to
(`NumberedIs`). An edit whose block gets another number than it was given beforehand, since one before it
was dropped, is refused with its block created; done therefore means `e.serial = q - 1`
(`EndsAs`), and the bound tells that the numbers still to come fit. `RestoredIsStart` is a conjunct of the invariant, true in all
states but the one `UndoBatch` makes, where it is `RestoredIs`. One lemma
per action (`LowerInv`, `ApplyEditInv`, ...) restores the invariant by `Rebuilt`.

Preparing these proofs corrected the model in three places: `CASE`s with overlapping guards,
of which TLC takes the first and the logic any, now exclude each other
(`DuplicateAndRedirect`, `ApplySingle`, `Effect`); behind a last block that is a one-case switch,
which no graph of the runs has, a created block would be fenced off with a `goto` that no edit
counts, hence `EndsPlainly`; and `RestoredIsStart` had claimed identities where the code writes serial numbers.

The proof modules about caches, dataflow, edits and batches prove what they need of
numbers (the least-number principle) and sequences (removing from, splitting and joining
sequences without repetitions), and of each recursive function of the model that it
exists, step by step: `WalkExists`, `PushingExists`, `TotalsExist`, `KillingsExist`,
`UnlinkingsExist`, `EvictionsExist`, `SeenExists`, `ClimbingExists`, `SentExists`, `PastExists`,
`KeepingExists`, `SummingExists`, `AddingExists`, `RestoringExists`.

Every invariant and property of steps that a passing run checks is stated by a theorem, and so
are the two refinements. Out of the prover's reach and left to TLC: `EveryPassEnds` and
`Converges` (liveness under fairness), and the refinement of the cache under the policy LFU.

## Not modelled

- What the rules say (instruction rules beyond the matching of their patterns, MBA
  simplification by Z3 and egglog, chain and peephole rules, ctree rules, the
  recognition of flattened functions, emulation and symbolic evaluation): functions
  over the decompiler's data, with no state over time; the repository proves the
  instruction rules with an SMT solver and tests the rest on samples. They are most of
  the source. Inlining them as relations would restate them, and a model of
  microcode fine enough to tell right from wrong there is the decompiler itself.
- The contracts about instructions and block addresses, dominators, the simulated
  flow graph: pure checks and algorithms without state.
- Projects and configuration files, registry, statistics, logging, user interface: I/O,
  import-time work and display; what they cause in the modelled parts is an action
  there (loading a project, a dialog's write).
- In modelled parts, what the sections above list under their abstractions.

## Plan

Done: rule scope with its lifecycle and theorems; recon pipeline, sessions and
theorems; managers with liveness and theorems; caches against a bounded map, with
theorems, that they implement it among them; graph edits against what they promise, with the theorem that they do; batches with
theorems; the dataflow engine with theorems; pattern matching with its theorems.

What is left to model, in this order:

1. An abstract rule scope (a service without caches) that `ScopeLifecycle`
   implements for announced functions.
2. The event emitter with `once` and handlers that raise, composed with the order of
   FINISHED's handlers.
3. In `GraphModifier`: conditional redirects and private suffixes, graphs with
   switches, and the composition with `Decompilation` (a batch in the place of
   `RunPipeline`'s outcome).
4. Dominators and post-dominators as functions, checked against their definition
   by paths on all small graphs.
5. In `PatternOptimizer`: the `D810_NOMUT_MATCHING` path, a matcher that writes to no
   shared tree, as the specification the mutating one is compared with.
